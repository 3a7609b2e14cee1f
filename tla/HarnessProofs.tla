----------------------------- MODULE HarnessProofs -----------------------------
(***************************************************************************)
(* Harness: for every contract, ABI, word size, candidate and truncation   *)
(* of its output, a report without failures means that every vector was    *)
(* called and conformed, provided that the expected results of the vectors *)
(* are those the oracle claims.                                            *)
(***************************************************************************)
EXTENDS Harness, FiniteSetTheorems, WellFoundedInduction, TLAPS

-----------------------------------------------------------------------------
(* Numbers: least elements, recursion up to a bound, words and their bytes. *)

\* A set of natural numbers has a least element.
LEMMA LeastExists ==
    ASSUME NEW T, T \subseteq Nat, T # {}
    PROVE  \E x \in T : \A y \in T : x <= y
<1> DEFINE R == OpToRel(<, Nat)
<1>1. IsWellFoundedOn(R, Nat)
  BY NatLessThanWellFounded, Zenon
<1>2. \A x, y \in Nat : y < x => <<y, x>> \in R
  BY DEF OpToRel
<1> HIDE DEF R
<1>3. PICK x \in T : \A y \in T : ~(<<y, x>> \in R)
  BY <1>1, WFMin
<1>4. ASSUME NEW y \in T PROVE x <= y
  <2>1. x \in Nat /\ y \in Nat
    OBVIOUS
  <2>2. ~(y < x)
    BY <2>1, <1>2, <1>3, Zenon
  <2> QED BY <2>1, <2>2
<1> QED BY <1>4

\* G[i][g] is the value at i from the values g before it.
Causal(lo, n, V, G) ==
    /\ \A i \in lo..n : \A g \in [lo..n -> V] : G[i][g] \in V
    /\ \A i \in lo..n : \A g, h \in [lo..n -> V] :
          (\A j \in lo..(i - 1) : g[j] = h[j]) => G[i][g] = G[i][h]

Iterates(lo, n, V, G, f) == f \in [lo..n -> V] /\ \A i \in lo..n : f[i] = G[i][f]

\* A step that looks only at what comes before can be iterated.
LEMMA Iteration ==
    ASSUME NEW lo \in Nat, NEW n \in Int, lo <= n + 1, NEW V, V # {}, NEW G, Causal(lo, n, V, G)
    PROVE  \E f : Iterates(lo, n, V, G, f)
<1> DEFINE Upto(m, f) == \A i \in lo..(m - 1) : f[i] = G[i][f]
           T == {m \in lo..(n + 1) : ~ \E f \in [lo..n -> V] : Upto(m, f)}
<1>1. CASE T = {}
  <2>1. n + 1 \in lo..(n + 1) /\ (n + 1) - 1 = n
    OBVIOUS
  <2> HIDE DEF Upto
  <2>2. \E f \in [lo..n -> V] : Upto(n + 1, f)
    BY <1>1, <2>1
  <2> QED BY <2>1, <2>2 DEF Upto, Iterates
<1>2. CASE T # {}
  <2>1. T \subseteq Nat
    OBVIOUS
  <2>2. PICK x \in T : \A y \in T : x <= y
    BY <1>2, <2>1, LeastExists
  <2>3. x \in lo..(n + 1) /\ ~ \E f \in [lo..n -> V] : Upto(x, f)
    OBVIOUS
  <2>4. x # lo
    <3> SUFFICES ASSUME x = lo PROVE FALSE
      OBVIOUS
    <3>1. PICK v \in V : TRUE
      OBVIOUS
    <3>2. [i \in lo..n |-> v] \in [lo..n -> V] /\ Upto(lo, [i \in lo..n |-> v])
      OBVIOUS
    <3> QED BY <2>3, <3>2
  <2>5. x - 1 \in lo..(n + 1) /\ x - 1 \in lo..n /\ ~(x <= x - 1)
    BY <2>3, <2>4
  <2> HIDE DEF Upto
  <2>6. PICK f \in [lo..n -> V] : Upto(x - 1, f)
    BY <2>2, <2>5
  <2> DEFINE p == x - 1
             h == [f EXCEPT ![p] = G[p][f]]
  <2>7. h \in [lo..n -> V] /\ h[p] = G[p][f] /\ \A j \in lo..(p - 1) : h[j] = f[j]
    BY <2>5 DEF Causal
  <2> HIDE DEF h
  <2>8. ASSUME NEW i \in lo..p PROVE h[i] = G[i][h]
    <3>1. i \in lo..n /\ \A j \in lo..(i - 1) : j \in lo..(p - 1)
      BY <2>5
    <3>2. G[i][h] = G[i][f]
      BY <2>7, <3>1 DEF Causal
    <3>3. CASE i = p
      BY <2>7, <3>2, <3>3
    <3>4. CASE i # p
      <4>1. i \in lo..(p - 1)
        BY <2>5, <3>4
      <4> QED BY <2>6, <2>7, <3>2, <4>1 DEF Upto
    <3> QED BY <3>3, <3>4
  <2> QED BY <2>3, <2>7, <2>8 DEF Upto
<1> QED BY <1>1, <1>2

\* Division with remainder is unique.
LEMMA Quotient ==
    ASSUME NEW m \in Nat \ {0}, NEW q \in Int, NEW z \in 0..(m - 1), NEW a \in Int, a = m * q + z
    PROVE  a \div m = q /\ a % m = z
OBVIOUS

\* Dividing twice is dividing by the product.
LEMMA DivideTwice ==
    ASSUME NEW a \in Nat, NEW p \in Nat \ {0}
    PROVE  a \div (256 * p) = (a \div p) \div 256
OBVIOUS


\* What holds of a number when it holds of those before it holds of all.
LEMMA Induction ==
    ASSUME NEW lo \in Nat, NEW n \in Int, NEW S, \A i \in lo..n : lo..(i - 1) \subseteq S => i \in S
    PROVE  lo..n \subseteq S
<1> DEFINE T == {i \in lo..n : i \notin S}
<1> SUFFICES ASSUME T # {} PROVE FALSE
  OBVIOUS
<1>1. T \subseteq Nat
  OBVIOUS
<1>2. PICK x \in T : \A y \in T : x <= y
  BY <1>1, LeastExists
<1>3. x \in lo..n /\ x \notin S
  OBVIOUS
<1>4. ASSUME NEW j \in lo..(x - 1) PROVE j \in S
  <2>1. j \in lo..n /\ ~(x <= j)
    BY <1>3
  <2> QED BY <1>2, <2>1
<1>5. lo..(x - 1) \subseteq S
  BY <1>4
<1> QED BY <1>3, <1>5

PowerIs(g) == g = [n \in 0..WordBytes |-> IF n = 0 THEN 1 ELSE 256 * g[n - 1]]

\* Power satisfies its recursion.
LEMMA PowerFacts ==
    /\ Power[0] = 1
    /\ \A k \in 1..WordBytes : Power[k] = 256 * Power[k - 1]
    /\ \A k \in 0..WordBytes : Power[k] \in Nat \ {0}
    /\ Words2 \in Nat \ {0}
<1> DEFINE V == Nat \ {0}
           W == WordBytes
           G == [n \in 0..W |-> [g \in [0..W -> V] |-> IF n = 0 THEN 1 ELSE 256 * g[n - 1]]]
<1>0. W \in Nat
  BY VectorAssumption
<1>1. ASSUME NEW i \in 0..W, NEW g \in [0..W -> V]
      PROVE  /\ G[i][g] = IF i = 0 THEN 1 ELSE 256 * g[i - 1]
             /\ G[i][g] \in V
             /\ i # 0 => i - 1 \in 0..(i - 1) /\ i - 1 \in 0..W /\ g[i - 1] \in V
  <2>1. i # 0 => i - 1 \in 0..(i - 1) /\ i - 1 \in 0..W
    BY <1>0
  <2>2. i # 0 => g[i - 1] \in V
    BY <2>1
  <2>3. G[i][g] = IF i = 0 THEN 1 ELSE 256 * g[i - 1]
    OBVIOUS
  <2> QED BY <2>1, <2>2, <2>3
<1> HIDE DEF G
<1>2. Causal(0, W, V, G)
  BY <1>1 DEF Causal
<1>3. PICK f : Iterates(0, W, V, G, f)
  <2>1. V # {}
    OBVIOUS
  <2> HIDE DEF V
  <2> QED BY <1>0, <1>2, <2>1, Iteration
<1>4. PowerIs(f)
  <2>1. f \in [0..W -> V] /\ \A i \in 0..W : f[i] = G[i][f]
    BY <1>3 DEF Iterates
  <2>2. ASSUME NEW i \in 0..W PROVE f[i] = IF i = 0 THEN 1 ELSE 256 * f[i - 1]
    <3>1. G[i][f] = IF i = 0 THEN 1 ELSE 256 * f[i - 1]
      <4> HIDE DEF V, W
      <4> QED BY <1>1, <2>1, Zenon
    <3> QED BY <2>1, <3>1, Zenon
  <2>3. f = [i \in 0..W |-> f[i]]
    BY <2>1
  <2> QED BY <2>2, <2>3, Zenon DEF PowerIs
<1>5. Power = CHOOSE g : PowerIs(g)
  BY Zenon DEF Power, PowerIs
<1>6. PowerIs(Power)
  BY <1>4, <1>5, Zenon
<1>7. /\ Power[0] = 1
      /\ \A k \in 1..W : Power[k] = 256 * Power[k - 1]
  BY <1>0, <1>6 DEF PowerIs
<1>8. 0..W \subseteq {k \in 0..W : Power[k] \in V}
  <2> DEFINE S == {k \in 0..W : Power[k] \in V}
  <2>1. ASSUME NEW i \in 0..W, 0..(i - 1) \subseteq S PROVE i \in S
    <3>1. CASE i = 0
      BY <1>7, <3>1
    <3>2. CASE i # 0
      <4>1. i \in 1..W /\ i - 1 \in 0..(i - 1)
        BY <1>0, <3>2
      <4>2. Power[i - 1] \in V /\ Power[i] = 256 * Power[i - 1]
        BY <1>7, <2>1, <4>1
      <4> QED BY <4>2
    <3> QED BY <3>1, <3>2
  <2> HIDE DEF S
  <2>2. 0..W \subseteq S
    BY <1>0, <2>1, Induction
  <2> QED BY <2>2 DEF S
<1>9. Words2 \in V
  BY <1>0, <1>8 DEF Words2
<1> QED BY <1>7, <1>8, <1>9

\* A word is as large as any byte and any fixture's length.
LEMMA WordSize == Words2 \in Nat /\ 256 <= Words2 /\ FixtureCap \in Nat /\ FixtureCap < Words2
<1>1. WordBytes \in 1..WordBytes /\ WordBytes - 1 \in 0..WordBytes
  BY VectorAssumption
<1>2. Power[WordBytes] = 256 * Power[WordBytes - 1] /\ Power[WordBytes - 1] \in Nat \ {0}
  BY <1>1, PowerFacts
<1> QED BY <1>2, VectorAssumption, HarnessAssumption DEF Words2

\* A word is its bytes.
LEMMA SameBytes ==
    ASSUME NEW a \in 0..(Words2 - 1), NEW b \in 0..(Words2 - 1), ToLeBytes(a) = ToLeBytes(b)
    PROVE  a = b
<1> DEFINE W == WordBytes
           S == {k \in 0..W : a \div Power[W - k] = b \div Power[W - k]}
<1>0. W \in Nat /\ a \in Nat /\ b \in Nat
  BY VectorAssumption, PowerFacts
<1>1. ASSUME NEW k \in 1..W PROVE (a \div Power[k - 1]) % 256 = (b \div Power[k - 1]) % 256
  BY Zenon DEF ToLeBytes
<1>2. ASSUME NEW i \in 0..W, 0..(i - 1) \subseteq S PROVE i \in S
  <2>1. CASE i = 0
    <3>1. a \div Words2 = 0 /\ b \div Words2 = 0
      BY PowerFacts
    <3> QED BY <1>0, <2>1, <3>1 DEF Words2
  <2>2. CASE i # 0
    <3> DEFINE k == W - i + 1
               p == Power[k - 1]
    <3>1. i - 1 \in 0..(i - 1) /\ k \in 1..W /\ W - (i - 1) = k /\ W - i = k - 1
      BY <1>0, <2>2
    <3>2. a \div Power[k] = b \div Power[k]
      <4>1. i - 1 \in S
        BY <1>2, <3>1
      <4> QED BY <3>1, <4>1
    <3>3. p \in Nat \ {0} /\ Power[k] = 256 * p
      <4>1. k \in 1..W /\ k - 1 \in 0..W
        BY <1>0, <3>1
      <4>2. p \in Nat \ {0}
        BY <4>1, PowerFacts
      <4>3. Power[k] = 256 * p
        BY <4>1, PowerFacts
      <4> QED BY <4>2, <4>3
    <3>4. (a \div p) % 256 = (b \div p) % 256
      BY <1>1, <3>1
    <3> HIDE DEF p
    <3>5. (a \div p) \div 256 = (b \div p) \div 256
      <4>1. a \in Nat /\ b \in Nat /\ p \in Nat \ {0}
        BY <1>0, <3>3
      <4>2. a \div (256 * p) = (a \div p) \div 256 /\ b \div (256 * p) = (b \div p) \div 256
        BY <4>1, DivideTwice
      <4> QED BY <3>2, <3>3, <4>2
    <3>6. a \div p \in Nat /\ b \div p \in Nat
      BY <1>0, <3>3
    <3>7. a \div p = b \div p
      BY <3>4, <3>5, <3>6
    <3> QED BY <3>1, <3>7 DEF p
  <2> QED BY <2>1, <2>2
<1>3. W \in S
  <2> HIDE DEF S
  <2>1. 0..W \subseteq S
    BY <1>0, <1>2, Induction, SMTT(30)
  <2> QED BY <1>0, <2>1
<1>4. W - W = 0 /\ Power[0] = 1
  BY <1>0, PowerFacts
<1> QED BY <1>0, <1>3, <1>4

\* The bytes of a word stand behind those of the words before it.
LEMMA BytePosition ==
    ASSUME NEW W \in Nat \ {0}, NEW n \in Nat, NEW i \in 1..n, NEW k \in 1..W
    PROVE  /\ (i - 1) * W + k \in 1..(n * W)
           /\ (((i - 1) * W + k - 1) \div W) + 1 = i
           /\ (((i - 1) * W + k - 1) % W) + 1 = k
<1> DEFINE q == i - 1
           z == k - 1
           a == (i - 1) * W + k - 1
<1>1. a = W * q + z /\ z \in 0..(W - 1) /\ q \in Int /\ a \in Int
  OBVIOUS
<1>2. a \div W = i - 1 /\ a % W = k - 1
  <2> HIDE DEF a, q, z
  <2>1. a \div W = q /\ a % W = z
    BY <1>1, Quotient
  <2> QED BY <2>1 DEF q, z
<1>3. (i - 1) * W >= 0 /\ n * W >= i * W /\ i * W = (i - 1) * W + W
  OBVIOUS
<1> QED BY <1>2, <1>3


-----------------------------------------------------------------------------
(* Vectors are well typed: lists of JSON values and an integer.            *)

VectorType == [inputs : Seq(Values), expected : Int]
Byte == 0..255

\* What is read of a JSON value is a sequence of integers or a natural number.
LEMMA ValueFacts ==
    ASSUME NEW x \in Values
    PROVE  /\ Items(x) \in Seq(Int) /\ AsU64(x) \in Nat
           /\ IsNumber(x) => x.v \in Int
           /\ x.k \in {"null", "number", "array"}
<1>1. CASE x = Null
  BY <1>1 DEF Null, Items, AsU64, IsNumber
<1>2. CASE x \in [k : {"number"}, v : Int]
  BY <1>2 DEF Items, AsU64, IsNumber
<1>3. CASE x \in [k : {"array"}, items : Seq(Int)]
  BY <1>3 DEF Items, AsU64, IsNumber
<1> QED BY <1>1, <1>2, <1>3 DEF Values

\* Every input a vector does not have is null.
LEMMA InputType ==
    ASSUME NEW v \in VectorType, NEW i \in Nat \ {0}
    PROVE  Input(v, i) \in Values /\ Len(v.inputs) \in Nat
BY DEF Input, VectorType, Values

\* The values that vectors are built from.
LEMMA ValueTypes ==
    /\ Null \in Values
    /\ \A n \in Int : Num(n) \in Values
    /\ \A items \in Seq(Int) : Arr(items) \in Values /\ Len(items) \in Int
BY DEF Null, Num, Arr, Values

\* A vector of values and an integer.
LEMMA VectorTypes ==
    ASSUME NEW inputs \in Seq(Values), NEW expected \in Int
    PROVE  Vector(inputs, expected) \in VectorType
BY DEF Vector, VectorType

\* The forms of vectors of the families.
LEMMA VectorForms ==
    ASSUME NEW a \in Seq(Int), NEW b \in Seq(Int), NEW n \in Int, NEW r \in Int, NEW e \in Int
    PROVE  /\ ScanVector(a, n, e) \in VectorType
           /\ EmptyScan(n) \in VectorType
           /\ ReplaceVector(a, n, r, e) \in VectorType
           /\ Vector(<<Null, Num(0), Num(n), Num(r)>>, 0) \in VectorType
           /\ PairVector(a, b, e) \in VectorType
           /\ Vector(<<Null, Null, Num(0)>>, 0) \in VectorType
           /\ SumVector(a, e) \in VectorType
           /\ Vector(<<Null, Num(0)>>, 0) \in VectorType
           /\ Vector(<<Num(n), Num(r)>>, e) \in VectorType
           /\ Vector(<<Num(n)>>, e) \in VectorType
           /\ Vector(<<Arr(a)>>, e) \in VectorType
           /\ Vector(<<Arr(a), Num(n)>>, e) \in VectorType
<1> DEFINE na == Num(Len(a))
           nn == Num(n)
           nr == Num(r)
           n0 == Num(0)
           ra == Arr(a)
           rb == Arr(b)
<1>1. {na, nn, nr, n0, ra, rb, Null} \subseteq Values
  BY ValueTypes
<1> HIDE DEF na, nn, nr, n0, ra, rb
<1>2. /\ <<ra, na, nn>> \in Seq(Values) /\ <<Null, n0, nn>> \in Seq(Values)
      /\ <<ra, na, nn, nr>> \in Seq(Values) /\ <<Null, n0, nn, nr>> \in Seq(Values)
      /\ <<ra, rb, na>> \in Seq(Values) /\ <<Null, Null, n0>> \in Seq(Values)
      /\ <<ra, na>> \in Seq(Values) /\ <<Null, n0>> \in Seq(Values)
      /\ <<nn, nr>> \in Seq(Values) /\ <<nn>> \in Seq(Values) /\ <<ra>> \in Seq(Values)
      /\ <<ra, nn>> \in Seq(Values)
  BY <1>1
<1>3. 0 \in Int
  OBVIOUS
<1>4. /\ Vector(<<ra, na, nn>>, e) \in VectorType /\ Vector(<<Null, n0, nn>>, 0) \in VectorType
      /\ Vector(<<ra, na, nn, nr>>, e) \in VectorType /\ Vector(<<Null, n0, nn, nr>>, 0) \in VectorType
      /\ Vector(<<ra, rb, na>>, e) \in VectorType /\ Vector(<<Null, Null, n0>>, 0) \in VectorType
      /\ Vector(<<ra, na>>, e) \in VectorType /\ Vector(<<Null, n0>>, 0) \in VectorType
      /\ Vector(<<nn, nr>>, e) \in VectorType /\ Vector(<<nn>>, e) \in VectorType
      /\ Vector(<<ra>>, e) \in VectorType /\ Vector(<<ra, nn>>, e) \in VectorType
  BY <1>2, <1>3, VectorTypes, Zenon
<1> QED BY <1>4, Zenon DEF ScanVector, EmptyScan, ReplaceVector, PairVector, SumVector, na, nn, nr, n0, ra, rb


-----------------------------------------------------------------------------
(* What the shapes read of a contract.                                     *)

\* Least is the least element.
LEMMA LeastIs ==
    ASSUME NEW T, T \subseteq Nat, T # {}
    PROVE  Least(T) \in T /\ \A y \in T : Least(T) <= y
<1>1. \E x \in T : \A y \in T : x <= y
  BY LeastExists
<1> QED BY <1>1, Zenon DEF Least

\* A condition of a contract, and its literal.
LEMMA RequiresType ==
    ASSUME NEW c \in Contracts
    PROVE  /\ DOMAIN c.requires \subseteq Nat
           /\ \A i \in DOMAIN c.requires : c.requires[i].n \in Int
<1> DEFINE R == [param : Nat, ident : {"left", "right"}, op : {"==", "<=", "<", ">=", ">"}, n : Int]
<1>1. c.requires \in Seq(R)
  BY HarnessAssumption
<1>2. \A x \in R : x.n \in Int
  OBVIOUS
<1> HIDE DEF R
<1>3. DOMAIN c.requires \subseteq Nat /\ \A i \in DOMAIN c.requires : c.requires[i] \in R
  BY <1>1
<1> QED BY <1>2, <1>3

\* needle_from_requires returns a byte.
LEMMA NeedleType ==
    ASSUME NEW c \in Contracts, NEW p, NEW default \in Byte
    PROVE  needle_from_requires(c, p, default) \in Byte
<1> DEFINE fixing == {i \in DOMAIN c.requires : needle_from_expr(c.requires[i], p) # {}}
<1>1. CASE fixing = {}
  BY <1>1 DEF needle_from_requires
<1>2. CASE fixing # {}
  <2>1. fixing \subseteq Nat
    BY RequiresType
  <2>2. Least(fixing) \in fixing
    BY <1>2, <2>1, LeastIs
  <2>3. \A i \in fixing : c.requires[i].n \in Byte
    BY DEF needle_from_expr, Byte
  <2>4. c.requires[Least(fixing)].n \in Byte
    BY <2>2, <2>3
  <2> QED BY <1>2, <2>4 DEF needle_from_requires
<1> QED BY <1>1, <1>2

\* The bound of a length is a natural number, and the fixture is not empty.
LEMMA MaxType ==
    ASSUME NEW c \in Contracts, NEW p
    PROVE  max_len(length_bound_from_requires(c, p)) \in 1..FixtureCap
<1> DEFINE bounds == length_bound_from_requires(c, p)
<1>1. ASSUME NEW i \in DOMAIN c.requires PROVE length_bound_from_expr(c.requires[i], p) \subseteq Nat
  <2> DEFINE e == c.requires[i]
  <2>1. e.n \in Int
    BY RequiresType
  <2> QED BY <2>1 DEF length_bound_from_expr, Greater
<1>2. bounds \subseteq Nat
  BY <1>1 DEF length_bound_from_requires, Range
<1>3. bounds # {} => Least(bounds) \in Nat
  BY <1>2, LeastIs
<1> HIDE DEF bounds
<1>4. max_len(bounds) \in 1..FixtureCap
  BY <1>3, VectorAssumption DEF max_len, Greater, Lesser
<1> QED BY <1>4 DEF bounds

\* One of the candidates, or none.
LEMMA OnlyType == ASSUME NEW ops PROVE Only(ops) \in ops \cup {"None"}
<1>1. Cardinality({}) = 0
  BY FS_EmptySet
<1>2. ops = {} => Cardinality(ops) # 1
  BY <1>1
<1>3. ops # {} => (CHOOSE op \in ops : TRUE) \in ops
  BY Zenon
<1> QED BY <1>2, <1>3, Zenon DEF Only

BinaryOps == {"Add", "Sub", "Min", "Max", "AddThenDouble"}
UnaryOps == {"Abs", "SumRange", "Countdown", "Double", "Inc", "AddBase100", "Identity"}
FamilyNames == {"scan", "replace", "memset", "memcpy", "memcmp", "sum", "pure", "pure_i64",
                "unary", "load", "store"}

\* What is known of the shape of a contract in a family.
Shaped(f, s) ==
    /\ f \in {"scan", "replace", "memset", "memcpy", "memcmp", "sum"} => s.max \in 1..FixtureCap
    /\ f \in {"scan", "replace"} => s.needle \in Byte
    /\ f = "replace" => s.replacement \in Byte
    /\ f = "memset" => s.value \in Byte
    /\ s.op \in CASE f = "scan" -> {"Count", "FindFirst", "FindLast"}
                  [] f = "replace" -> {"ReplaceByte"}
                  [] f = "memset" -> {"Memset"}
                  [] f = "memcpy" -> {"Memcpy"}
                  [] f = "memcmp" -> {"MemCmp"}
                  [] f = "sum" -> {"Sum"}
                  [] f = "pure" -> {"Min", "Max"}
                  [] f = "pure_i64" -> BinaryOps
                  [] f = "unary" -> UnaryOps
                  [] f = "load" -> {"CellLoad"}
                  [] f = "store" -> {"CellStore"}

\* Every recognised contract has the shape of its family.
LEMMA ShapeFacts ==
    ASSUME NEW c \in Contracts, NEW f \in FamilyNames, Found(ShapeIn(f, c))
    PROVE  Shaped(f, ShapeIn(f, c))
<1> DEFINE s == ShapeIn(f, c)
<1>0. NoShape.op = "None" /\ s.op # "None" /\ DefaultNeedle \in Byte /\ 0 \in Byte
  BY DEF Found, NoShape, DefaultNeedle, Byte
<1>1. CASE f = "scan"
  <2>1. s = scan_shape(c)
    BY <1>1 DEF ShapeIn
  <2>2. PICK p, l, n : s = [op |-> buffer_scan_op_from_name(c.words),
              needle |-> needle_from_requires(c, n, DefaultNeedle),
              max |-> max_len(length_bound_from_requires(c, l)),
              null |-> allows_null_when_empty(c, p, l)]
    BY <1>0, <2>1, Zenon DEF scan_shape
  <2>3. needle_from_requires(c, n, DefaultNeedle) \in Byte
    BY <1>0, NeedleType
  <2>4. max_len(length_bound_from_requires(c, l)) \in 1..FixtureCap
    BY MaxType
  <2>5. s.op = buffer_scan_op_from_name(c.words) /\ s.needle \in Byte /\ s.max \in 1..FixtureCap
    BY <2>2, <2>3, <2>4
  <2> QED BY <1>0, <1>1, <2>5 DEF Shaped, buffer_scan_op_from_name
<1>2. CASE f = "replace"
  <2>1. s = replace_byte_shape(c)
    BY <1>2 DEF ShapeIn
  <2>2. PICK l, n, m : s = [op |-> "ReplaceByte",
              needle |-> needle_from_requires(c, n, DefaultNeedle),
              replacement |-> needle_from_requires(c, m, 0),
              max |-> max_len(length_bound_from_requires(c, l))]
    BY <1>0, <2>1, Zenon DEF replace_byte_shape
  <2>3. needle_from_requires(c, n, DefaultNeedle) \in Byte /\ needle_from_requires(c, m, 0) \in Byte
    BY <1>0, NeedleType
  <2>4. max_len(length_bound_from_requires(c, l)) \in 1..FixtureCap
    BY MaxType
  <2>5. s.op = "ReplaceByte" /\ s.needle \in Byte /\ s.replacement \in Byte /\ s.max \in 1..FixtureCap
    BY <2>2, <2>3, <2>4
  <2> QED BY <1>2, <2>5 DEF Shaped
<1>3. CASE f = "memset"
  <2>1. s = memset_shape(c)
    BY <1>3 DEF ShapeIn
  <2>2. PICK l, n : s = [op |-> "Memset",
              value |-> needle_from_requires(c, n, DefaultNeedle),
              max |-> max_len(length_bound_from_requires(c, l))]
    BY <1>0, <2>1, Zenon DEF memset_shape
  <2>3. needle_from_requires(c, n, DefaultNeedle) \in Byte
    BY <1>0, NeedleType
  <2>4. max_len(length_bound_from_requires(c, l)) \in 1..FixtureCap
    BY MaxType
  <2>5. s.op = "Memset" /\ s.value \in Byte /\ s.max \in 1..FixtureCap
    BY <2>2, <2>3, <2>4
  <2> QED BY <1>3, <2>5 DEF Shaped
<1>4. CASE f = "memcpy"
  <2>1. s = memcpy_shape(c)
    BY <1>4 DEF ShapeIn
  <2>2. PICK l : s = [op |-> "Memcpy", max |-> max_len(length_bound_from_requires(c, l))]
    BY <1>0, <2>1, Zenon DEF memcpy_shape
  <2>4. max_len(length_bound_from_requires(c, l)) \in 1..FixtureCap
    BY MaxType
  <2> QED BY <1>4, <2>2, <2>4 DEF Shaped
<1>5. CASE f = "memcmp"
  <2>1. s = memcmp_shape(c)
    BY <1>5 DEF ShapeIn
  <2>2. PICK l, null : s = [op |-> "MemCmp", max |-> max_len(length_bound_from_requires(c, l)),
                            null |-> null]
    BY <1>0, <2>1, Zenon DEF memcmp_shape
  <2>4. max_len(length_bound_from_requires(c, l)) \in 1..FixtureCap
    BY MaxType
  <2> QED BY <1>5, <2>2, <2>4 DEF Shaped
<1>6. CASE f = "sum"
  <2>1. s = i64_sum_shape(c)
    BY <1>6 DEF ShapeIn
  <2>2. PICK l, null : s = [op |-> "Sum", max |-> max_len(length_bound_from_requires(c, l)),
                            null |-> null]
    BY <1>0, <2>1, Zenon DEF i64_sum_shape
  <2>4. max_len(length_bound_from_requires(c, l)) \in 1..FixtureCap
    BY MaxType
  <2> QED BY <1>6, <2>2, <2>4 DEF Shaped
<1>7. pure_int_op_from_ensures(c) \in {"Min", "Max", "None"}
  BY OnlyType DEF pure_int_op_from_ensures
<1>8. CASE f = "pure"
  <2>1. s = pure_int_shape(c)
    BY <1>8 DEF ShapeIn
  <2>2. pure_int_op_from_name(c) \in {"Min", "Max", "None"}
    BY OnlyType DEF pure_int_op_from_name
  <2>3. s.op = Agreed(pure_int_op_from_name(c), pure_int_op_from_ensures(c))
    BY <1>0, <2>1 DEF pure_int_shape
  <2> QED BY <1>0, <1>7, <1>8, <2>2, <2>3 DEF Shaped, Agreed
<1>9. CASE f = "pure_i64"
  <2>1. s = pure_int_i64_shape(c)
    BY <1>9 DEF ShapeIn
  <2>2. pure_int_i64_op_from_name(c) \in BinaryOps \cup {"None"}
    BY OnlyType DEF pure_int_i64_op_from_name, BinaryOps
  <2>3. s.op = Agreed(pure_int_i64_op_from_name(c), pure_int_op_from_ensures(c))
    BY <1>0, <2>1 DEF pure_int_i64_shape
  <2> QED BY <1>0, <1>7, <1>9, <2>2, <2>3 DEF Shaped, Agreed, BinaryOps
<1>10. CASE f = "unary"
  <2>1. s = pure_int_unary_i64_shape(c)
    BY <1>10 DEF ShapeIn
  <2>2. s.op \in UnaryOps \cup {"None"}
    BY <1>0, <2>1, OnlyType DEF pure_int_unary_i64_shape, UnaryOps
  <2> QED BY <1>0, <1>10, <2>2 DEF Shaped
<1>11. CASE f \in {"load", "store"}
  BY <1>0, <1>11 DEF ShapeIn, cell_load_shape, cell_store_shape, Shaped
<1> QED BY <1>1, <1>2, <1>3, <1>4, <1>5, <1>6, <1>8, <1>9, <1>10, <1>11 DEF FamilyNames

\* The family of a contract is one that found its shape.
LEMMA FamilyFacts ==
    ASSUME NEW c \in Contracts
    PROVE  LET f == FamilyOf(Families, c) IN
           \/ f = "none"
           \/ f \in FamilyNames /\ Found(ShapeIn(f, c)) /\ Shaped(f, ShapeIn(f, c))
<1> DEFINE hits == {i \in DOMAIN Families : Found(ShapeIn(Families[i], c))}
           f == FamilyOf(Families, c)
<1>1. DOMAIN Families \subseteq Nat /\ \A i \in DOMAIN Families : Families[i] \in FamilyNames
  BY DEF Families, FamilyNames
<1>2. CASE hits = {}
  BY <1>2 DEF FamilyOf
<1>3. CASE hits # {}
  <2>1. hits \subseteq Nat
    BY <1>1
  <2>2. Least(hits) \in hits
    BY <1>3, <2>1, LeastIs
  <2>3. f = Families[Least(hits)]
    BY <1>3 DEF FamilyOf
  <2>4. f \in FamilyNames /\ Found(ShapeIn(f, c))
    BY <1>1, <2>2, <2>3
  <2> HIDE DEF f
  <2>5. Shaped(f, ShapeIn(f, c))
    BY <2>4, ShapeFacts
  <2> QED BY <2>4, <2>5 DEF f
<1> QED BY <1>2, <1>3


-----------------------------------------------------------------------------
(* The vectors of every family, by their form.                             *)

Buffers == {Null} \cup {Arr(items) : items \in Seq(Byte)}

IsScan(v) == \E x \in Buffers, n \in Byte, e \in Int :
    v = Vector(<<x, Num(Len(Items(x))), Num(n)>>, e)
IsReplace(v) == \E x \in Buffers, n \in Byte, r \in Byte, e \in Int :
    v = Vector(<<x, Num(Len(Items(x))), Num(n), Num(r)>>, e)
IsPair(v) == \E x \in Buffers, y \in Buffers, e \in Int :
    Len(Items(x)) = Len(Items(y)) /\ v = Vector(<<x, y, Num(Len(Items(x)))>>, e)
IsSum(v) == \E x \in {Null} \cup {Arr(items) : items \in Seq(Int)}, e \in Int :
    v = Vector(<<x, Num(Len(Items(x)))>>, e)
IsBinary(v) == Len(v.inputs) >= 2
IsUnary(v) == Len(v.inputs) >= 1
IsLoad(v) == \E a \in Byte, e \in Int : v = Vector(<<Arr(<<a>>)>>, e)
IsStore(v) == \E a \in Byte, b \in Byte, e \in Int : v = Vector(<<Arr(<<a>>), Num(b)>>, e)

\* The length of the first array is a word.
Fits(v) == Len(Items(Input(v, 1))) < Words2

Form(f) == {v \in VectorType :
    /\ f \in {"replace", "memset", "memcpy"} => Fits(v)
    /\ f \in {"scan", "memset"} => IsScan(v)
    /\ f = "replace" => IsReplace(v)
    /\ f \in {"memcpy", "memcmp"} => IsPair(v)
    /\ f = "sum" => IsSum(v)
    /\ f \in {"pure", "pure_i64"} => IsBinary(v)
    /\ f = "unary" => IsUnary(v)
    /\ f = "load" => IsLoad(v)
    /\ f = "store" => IsStore(v)}

\* A sequence over a set is one over a larger set.
LEMMA WiderSeq == ASSUME NEW S, NEW T, S \subseteq T, NEW s \in Seq(S) PROVE s \in Seq(T)
<1>1. Len(s) \in Nat /\ DOMAIN s = 1..Len(s) /\ s = [i \in 1..Len(s) |-> s[i]]
  OBVIOUS
<1>2. \A i \in 1..Len(s) : s[i] \in T
  OBVIOUS
<1> QED BY <1>1, <1>2

\* Arrays and null as buffers.
LEMMA BufferFacts ==
    /\ Null \in Buffers /\ Items(Null) = <<>> /\ Len(Items(Null)) = 0
    /\ \A items : Items(Arr(items)) = items
    /\ \A items \in Seq(Byte) : Arr(items) \in Buffers /\ items \in Seq(Int) /\ Len(items) \in Nat
    /\ Byte \subseteq Int /\ 0 \in Byte
<1>1. Byte \subseteq Int /\ 0 \in Byte
  BY DEF Byte
<1>2. \A items \in Seq(Byte) : items \in Seq(Int) /\ Len(items) \in Nat
  <2> SUFFICES ASSUME NEW items \in Seq(Byte) PROVE items \in Seq(Int) /\ Len(items) \in Nat
    OBVIOUS
  <2>1. items \in Seq(Int)
    BY <1>1, WiderSeq
  <2> QED BY <2>1
<1>3. Items(Null) = <<>> /\ Len(<<>>) = 0
  BY DEF Items, Null
<1>4. \A items : Items(Arr(items)) = items
  BY DEF Items, Arr
<1>5. Null \in Buffers /\ \A items \in Seq(Byte) : Arr(items) \in Buffers
  BY Zenon DEF Buffers
<1> QED BY <1>1, <1>2, <1>3, <1>4, <1>5

\* The forms over bytes.
LEMMA ByteForms ==
    ASSUME NEW a \in Seq(Byte), NEW b \in Seq(Byte), NEW n \in Byte, NEW r \in Byte, NEW e \in Int
    PROVE  /\ ScanVector(a, n, e) \in Form("scan")
           /\ EmptyScan(n) \in Form("scan") /\ EmptyScan(n) \in Form("memset")
           /\ Vector(<<Null, Num(0), Num(n), Num(r)>>, 0) \in Form("replace")
           /\ Len(a) = Len(b) => PairVector(a, b, e) \in Form("memcmp")
           /\ Len(a) < Words2 => /\ ScanVector(a, n, e) \in Form("memset")
                                /\ ReplaceVector(a, n, r, e) \in Form("replace")
                                /\ (Len(a) = Len(b) => PairVector(a, b, e) \in Form("memcpy"))
           /\ Vector(<<Null, Null, Num(0)>>, 0) \in Form("memcpy") \cap Form("memcmp")
           /\ Vector(<<Arr(<<n>>)>>, e) \in Form("load")
           /\ Vector(<<Arr(<<n>>), Num(r)>>, e) \in Form("store")
<1>1. a \in Seq(Int) /\ b \in Seq(Int) /\ n \in Int /\ r \in Int /\ 0 \in Int /\ <<n>> \in Seq(Int)
  BY BufferFacts
<1>2. /\ ScanVector(a, n, e) \in VectorType /\ EmptyScan(n) \in VectorType
      /\ ReplaceVector(a, n, r, e) \in VectorType
      /\ Vector(<<Null, Num(0), Num(n), Num(r)>>, 0) \in VectorType
      /\ PairVector(a, b, e) \in VectorType
      /\ Vector(<<Null, Null, Num(0)>>, 0) \in VectorType
      /\ Vector(<<Arr(<<n>>)>>, e) \in VectorType
      /\ Vector(<<Arr(<<n>>), Num(r)>>, e) \in VectorType
  BY <1>1, VectorForms, Zenon
<1>3. IsScan(ScanVector(a, n, e)) /\ IsScan(EmptyScan(n))
  <2>1. ScanVector(a, n, e) = Vector(<<Arr(a), Num(Len(Items(Arr(a)))), Num(n)>>, e)
    BY BufferFacts, Zenon DEF ScanVector
  <2>2. EmptyScan(n) = Vector(<<Null, Num(Len(Items(Null))), Num(n)>>, 0)
    BY BufferFacts, Zenon DEF EmptyScan
  <2> QED BY <1>1, <2>1, <2>2, BufferFacts, Zenon DEF IsScan
<1>4. IsReplace(ReplaceVector(a, n, r, e)) /\ IsReplace(Vector(<<Null, Num(0), Num(n), Num(r)>>, 0))
  <2>1. ReplaceVector(a, n, r, e) = Vector(<<Arr(a), Num(Len(Items(Arr(a)))), Num(n), Num(r)>>, e)
    BY BufferFacts, Zenon DEF ReplaceVector
  <2>2. Vector(<<Null, Num(0), Num(n), Num(r)>>, 0)
        = Vector(<<Null, Num(Len(Items(Null))), Num(n), Num(r)>>, 0)
    BY BufferFacts, Zenon
  <2> QED BY <1>1, <2>1, <2>2, BufferFacts, ZenonT(40) DEF IsReplace
<1>5. Len(a) = Len(b) => IsPair(PairVector(a, b, e))
  <2>1. PairVector(a, b, e) = Vector(<<Arr(a), Arr(b), Num(Len(Items(Arr(a))))>>, e)
    BY BufferFacts, Zenon DEF PairVector
  <2>2. Len(a) = Len(b) => Len(Items(Arr(a))) = Len(Items(Arr(b)))
    BY BufferFacts, Zenon
  <2> QED BY <1>1, <2>1, <2>2, BufferFacts, Zenon DEF IsPair
<1>6. IsPair(Vector(<<Null, Null, Num(0)>>, 0))
  <2>1. Vector(<<Null, Null, Num(0)>>, 0) = Vector(<<Null, Null, Num(Len(Items(Null)))>>, 0)
    BY BufferFacts, Zenon
  <2> QED BY <1>1, <2>1, BufferFacts, Zenon DEF IsPair
<1>7. IsLoad(Vector(<<Arr(<<n>>)>>, e)) /\ IsStore(Vector(<<Arr(<<n>>), Num(r)>>, e))
  BY Zenon DEF IsLoad, IsStore
<1>8. /\ Len(a) < Words2 => /\ Fits(ScanVector(a, n, e)) /\ Fits(ReplaceVector(a, n, r, e))
                           /\ Fits(PairVector(a, b, e))
      /\ Fits(EmptyScan(n)) /\ Fits(Vector(<<Null, Num(0), Num(n), Num(r)>>, 0))
      /\ Fits(Vector(<<Null, Null, Num(0)>>, 0))
  <2>2. 0 < Words2
    BY PowerFacts
  <2>3. /\ Input(ScanVector(a, n, e), 1) = Arr(a) /\ Input(ReplaceVector(a, n, r, e), 1) = Arr(a)
        /\ Input(PairVector(a, b, e), 1) = Arr(a) /\ Input(EmptyScan(n), 1) = Null
        /\ Input(Vector(<<Null, Num(0), Num(n), Num(r)>>, 0), 1) = Null
        /\ Input(Vector(<<Null, Null, Num(0)>>, 0), 1) = Null
    BY DEF ScanVector, ReplaceVector, PairVector, EmptyScan, Input, Vector
  <2> QED BY <2>2, <2>3, BufferFacts, Zenon DEF Fits
<1> QED BY <1>2, <1>3, <1>4, <1>5, <1>6, <1>7, <1>8 DEF Form

\* The forms over integers.
LEMMA IntegerForms ==
    ASSUME NEW a \in Seq(Int), NEW n \in Int, NEW m \in Int, NEW e \in Int
    PROVE  /\ SumVector(a, e) \in Form("sum") /\ Vector(<<Null, Num(0)>>, 0) \in Form("sum")
           /\ Vector(<<Num(n), Num(m)>>, e) \in Form("pure") \cap Form("pure_i64")
           /\ Vector(<<Num(n)>>, e) \in Form("unary")
<1>1. /\ SumVector(a, e) \in VectorType /\ Vector(<<Null, Num(0)>>, 0) \in VectorType
      /\ Vector(<<Num(n), Num(m)>>, e) \in VectorType /\ Vector(<<Num(n)>>, e) \in VectorType
  BY VectorForms, Zenon
<1>2. IsSum(SumVector(a, e)) /\ IsSum(Vector(<<Null, Num(0)>>, 0))
  <2>1. SumVector(a, e) = Vector(<<Arr(a), Num(Len(Items(Arr(a))))>>, e)
    BY BufferFacts, Zenon DEF SumVector
  <2>2. Vector(<<Null, Num(0)>>, 0) = Vector(<<Null, Num(Len(Items(Null)))>>, 0)
    BY BufferFacts, Zenon
  <2>3. 0 \in Int
    OBVIOUS
  <2> QED BY <2>1, <2>2, <2>3, BufferFacts, Zenon DEF IsSum
<1>3. IsBinary(Vector(<<Num(n), Num(m)>>, e)) /\ IsUnary(Vector(<<Num(n)>>, e))
  BY DEF IsBinary, IsUnary, Vector
<1> QED BY <1>1, <1>2, <1>3 DEF Form


-----------------------------------------------------------------------------
(* Synthesis: the vectors of a family have its form, and there are some.   *)

\* A function on 1..n is a sequence.
LEMMA FunctionSeq ==
    ASSUME NEW S, NEW n \in Nat, NEW f \in [1..n -> S]
    PROVE  f \in Seq(S) /\ Len(f) = n
OBVIOUS

\* Sequences of bytes.
LEMMA ByteSeqs ==
    ASSUME NEW n \in Byte, NEW max \in Nat
    PROVE  /\ Copies(n, max) \in Seq(Byte) /\ Len(Copies(n, max)) = max
           /\ \A i \in 1..3 : non_needle_bytes(n)[i] \in Byte
           /\ 0 \in Byte /\ 1 \in Byte /\ 2 \in Byte /\ 7 \in Byte /\ (n + 1) % 256 \in Byte
           /\ n \in Int /\ max \in Int
<1>1. Copies(n, max) \in [1..max -> Byte]
  BY DEF Copies
<1>2. Copies(n, max) \in Seq(Byte) /\ Len(Copies(n, max)) = max
  BY <1>1
<1> QED BY <1>2 DEF non_needle_bytes, Byte

\* A list, and perhaps one more.
LEMMA OneMore ==
    ASSUME NEW S, NEW s \in Seq(S), Len(s) > 0, NEW x \in S, NEW more
    PROVE  LET t == s \o (IF more THEN <<x>> ELSE <<>>) IN t \in Seq(S) /\ t # <<>>
<1>1. CASE more
  <2>1. s \o <<x>> \in Seq(S) /\ Len(s \o <<x>>) > 0 /\ Len(<<>>) = 0
    OBVIOUS
  <2>2. s \o <<x>> # <<>>
    BY <2>1
  <2> QED BY <1>1, <2>1, <2>2
<1>2. CASE ~more
  <2>1. s \o <<>> = s /\ Len(<<>>) = 0
    OBVIOUS
  <2>2. s # <<>>
    BY <2>1
  <2> QED BY <1>2, <2>1, <2>2
<1> QED BY <1>1, <1>2

GoodVectors(f, vs) == vs \in Seq(Form(f)) /\ vs # <<>>

\* The vectors of synthesize_buffer_scan_vectors.
LEMMA CountVectors ==
    ASSUME NEW s, Shaped("scan", s)
    PROVE  GoodVectors("scan", synthesize_buffer_scan_vectors(s))
<1> DEFINE n == s.needle
           no == non_needle_bytes(n)
           F == Form("scan")
<1>1. n \in Byte /\ s.max \in Nat /\ s.max - 1 \in Int
  BY VectorAssumption DEF Shaped
<1>2. /\ Copies(n, s.max) \in Seq(Byte) /\ no[1] \in Byte /\ no[2] \in Byte /\ no[3] \in Byte
      /\ 0 \in Byte /\ s.max \in Int
  <2>1. Copies(n, s.max) \in Seq(Byte) /\ (\A i \in 1..3 : no[i] \in Byte) /\ 0 \in Byte
        /\ s.max \in Int
    BY <1>1, ByteSeqs
  <2> QED BY <2>1
<1>3. /\ <<n>> \in Seq(Byte) /\ <<no[1], no[2], no[3]>> \in Seq(Byte) /\ <<n, n>> \in Seq(Byte)
      /\ <<0, n, 0>> \in Seq(Byte) /\ <<no[1], no[2], n>> \in Seq(Byte)
      /\ <<n, no[1], n>> \in Seq(Byte)
  BY <1>1, <1>2
<1>4. 0 \in Int /\ 1 \in Int /\ 2 \in Int /\ 3 \in Int
  OBVIOUS
<1>5. \A a \in Seq(Byte), e \in Int : ScanVector(a, n, e) \in F
  BY <1>1, ByteForms
<1>6. EmptyScan(n) \in F
  <2>1. <<n>> \in Seq(Byte) /\ 0 \in Int
    BY <1>3
  <2> QED BY <1>1, <2>1, ByteForms
<1> HIDE DEF n, no, F
<1> DEFINE vs == <<EmptyScan(n),
          ScanVector(<<n>>, n, 1),
          ScanVector(<<no[1], no[2], no[3]>>, n, 0),
          ScanVector(<<n, n>>, n, 2),
          ScanVector(<<0, n, 0>>, n, 1),
          ScanVector(Copies(n, s.max), n, s.max)>>
<1>7. vs \in Seq(F) /\ Len(vs) > 0
  <2>1. /\ ScanVector(<<n>>, n, 1) \in F
        /\ ScanVector(<<no[1], no[2], no[3]>>, n, 0) \in F
        /\ ScanVector(<<n, n>>, n, 2) \in F
        /\ ScanVector(<<0, n, 0>>, n, 1) \in F
        /\ ScanVector(Copies(n, s.max), n, s.max) \in F
    BY <1>1, <1>2, <1>3, <1>4, <1>5
  <2> HIDE DEF EmptyScan, ScanVector
  <2> QED BY <1>6, <2>1
<1> HIDE DEF vs
<1>8. synthesize_buffer_scan_vectors(s) = vs \o (IF s.null THEN <<EmptyScan(n)>> ELSE <<>>)
  BY DEF synthesize_buffer_scan_vectors, vs, n, no
<1>9. LET t == vs \o (IF s.null THEN <<EmptyScan(n)>> ELSE <<>>) IN t \in Seq(F) /\ t # <<>>
  BY <1>6, <1>7, OneMore
<1> QED BY <1>8, <1>9 DEF GoodVectors, F

\* The vectors of synthesize_find_first_vectors.
LEMMA FindFirstVectors ==
    ASSUME NEW s, Shaped("scan", s)
    PROVE  GoodVectors("scan", synthesize_find_first_vectors(s))
<1> DEFINE n == s.needle
           no == non_needle_bytes(n)
           F == Form("scan")
<1>1. n \in Byte /\ s.max \in Nat /\ s.max - 1 \in Int
  BY VectorAssumption DEF Shaped
<1>2. /\ Copies(n, s.max) \in Seq(Byte) /\ no[1] \in Byte /\ no[2] \in Byte /\ no[3] \in Byte
      /\ 0 \in Byte /\ s.max \in Int
  <2>1. Copies(n, s.max) \in Seq(Byte) /\ (\A i \in 1..3 : no[i] \in Byte) /\ 0 \in Byte
        /\ s.max \in Int
    BY <1>1, ByteSeqs
  <2> QED BY <2>1
<1>3. /\ <<n>> \in Seq(Byte) /\ <<no[1], no[2], no[3]>> \in Seq(Byte) /\ <<n, n>> \in Seq(Byte)
      /\ <<0, n, 0>> \in Seq(Byte) /\ <<no[1], no[2], n>> \in Seq(Byte)
      /\ <<n, no[1], n>> \in Seq(Byte)
  BY <1>1, <1>2
<1>4. 0 \in Int /\ 1 \in Int /\ 2 \in Int /\ 3 \in Int
  OBVIOUS
<1>5. \A a \in Seq(Byte), e \in Int : ScanVector(a, n, e) \in F
  BY <1>1, ByteForms
<1>6. EmptyScan(n) \in F
  <2>1. <<n>> \in Seq(Byte) /\ 0 \in Int
    BY <1>3
  <2> QED BY <1>1, <2>1, ByteForms
<1> HIDE DEF n, no, F
<1> DEFINE vs == <<EmptyScan(n),
          ScanVector(<<n>>, n, 0),
          ScanVector(<<no[1], no[2], no[3]>>, n, 3),
          ScanVector(<<n, n>>, n, 0),
          ScanVector(<<0, n, 0>>, n, 1),
          ScanVector(<<no[1], no[2], n>>, n, 2),
          ScanVector(Copies(n, s.max), n, 0)>>
<1>7. vs \in Seq(F) /\ Len(vs) > 0
  <2>1. /\ ScanVector(<<n>>, n, 0) \in F
        /\ ScanVector(<<no[1], no[2], no[3]>>, n, 3) \in F
        /\ ScanVector(<<n, n>>, n, 0) \in F
        /\ ScanVector(<<0, n, 0>>, n, 1) \in F
        /\ ScanVector(<<no[1], no[2], n>>, n, 2) \in F
        /\ ScanVector(Copies(n, s.max), n, 0) \in F
    BY <1>1, <1>2, <1>3, <1>4, <1>5
  <2> HIDE DEF EmptyScan, ScanVector
  <2> QED BY <1>6, <2>1
<1> HIDE DEF vs
<1>8. synthesize_find_first_vectors(s) = vs \o (IF s.null THEN <<EmptyScan(n)>> ELSE <<>>)
  BY DEF synthesize_find_first_vectors, vs, n, no
<1>9. LET t == vs \o (IF s.null THEN <<EmptyScan(n)>> ELSE <<>>) IN t \in Seq(F) /\ t # <<>>
  BY <1>6, <1>7, OneMore
<1> QED BY <1>8, <1>9 DEF GoodVectors, F

\* The vectors of synthesize_find_last_vectors.
LEMMA FindLastVectors ==
    ASSUME NEW s, Shaped("scan", s)
    PROVE  GoodVectors("scan", synthesize_find_last_vectors(s))
<1> DEFINE n == s.needle
           no == non_needle_bytes(n)
           F == Form("scan")
<1>1. n \in Byte /\ s.max \in Nat /\ s.max - 1 \in Int
  BY VectorAssumption DEF Shaped
<1>2. /\ Copies(n, s.max) \in Seq(Byte) /\ no[1] \in Byte /\ no[2] \in Byte /\ no[3] \in Byte
      /\ 0 \in Byte /\ s.max \in Int
  <2>1. Copies(n, s.max) \in Seq(Byte) /\ (\A i \in 1..3 : no[i] \in Byte) /\ 0 \in Byte
        /\ s.max \in Int
    BY <1>1, ByteSeqs
  <2> QED BY <2>1
<1>3. /\ <<n>> \in Seq(Byte) /\ <<no[1], no[2], no[3]>> \in Seq(Byte) /\ <<n, n>> \in Seq(Byte)
      /\ <<0, n, 0>> \in Seq(Byte) /\ <<no[1], no[2], n>> \in Seq(Byte)
      /\ <<n, no[1], n>> \in Seq(Byte)
  BY <1>1, <1>2
<1>4. 0 \in Int /\ 1 \in Int /\ 2 \in Int /\ 3 \in Int
  OBVIOUS
<1>5. \A a \in Seq(Byte), e \in Int : ScanVector(a, n, e) \in F
  BY <1>1, ByteForms
<1>6. EmptyScan(n) \in F
  <2>1. <<n>> \in Seq(Byte) /\ 0 \in Int
    BY <1>3
  <2> QED BY <1>1, <2>1, ByteForms
<1> HIDE DEF n, no, F
<1> DEFINE vs == <<EmptyScan(n),
          ScanVector(<<n>>, n, 0),
          ScanVector(<<no[1], no[2], no[3]>>, n, 3),
          ScanVector(<<n, n>>, n, 1),
          ScanVector(<<0, n, 0>>, n, 1),
          ScanVector(<<no[1], no[2], n>>, n, 2),
          ScanVector(<<n, no[1], n>>, n, 2),
          ScanVector(Copies(n, s.max), n, s.max - 1)>>
<1>7. vs \in Seq(F) /\ Len(vs) > 0
  <2>1. /\ ScanVector(<<n>>, n, 0) \in F
        /\ ScanVector(<<no[1], no[2], no[3]>>, n, 3) \in F
        /\ ScanVector(<<n, n>>, n, 1) \in F
        /\ ScanVector(<<0, n, 0>>, n, 1) \in F
        /\ ScanVector(<<no[1], no[2], n>>, n, 2) \in F
        /\ ScanVector(<<n, no[1], n>>, n, 2) \in F
        /\ ScanVector(Copies(n, s.max), n, s.max - 1) \in F
    BY <1>1, <1>2, <1>3, <1>4, <1>5
  <2> HIDE DEF EmptyScan, ScanVector
  <2> QED BY <1>6, <2>1
<1> HIDE DEF vs
<1>8. synthesize_find_last_vectors(s) = vs \o (IF s.null THEN <<EmptyScan(n)>> ELSE <<>>)
  BY DEF synthesize_find_last_vectors, vs, n, no
<1>9. LET t == vs \o (IF s.null THEN <<EmptyScan(n)>> ELSE <<>>) IN t \in Seq(F) /\ t # <<>>
  BY <1>6, <1>7, OneMore
<1> QED BY <1>8, <1>9 DEF GoodVectors, F

\* The vectors of synthesize_replace_byte_vectors.
LEMMA ReplaceVectors ==
    ASSUME NEW s, Shaped("replace", s)
    PROVE  GoodVectors("replace", synthesize_replace_byte_vectors(s))
<1> DEFINE n == s.needle
           r == s.replacement
           miss == (n + 1) % 256
           big == [i \in 1..s.max |-> IF i = 1 /\ s.max > 1 THEN miss ELSE n]
           F == Form("replace")
           hits == Cardinality({i \in DOMAIN big : big[i] = n})
           front == <<Vector(<<Null, Num(0), Num(n), Num(r)>>, 0),
                      ReplaceVector(<<n>>, n, r, 1),
                      ReplaceVector(<<miss>>, n, r, 0),
                      ReplaceVector(<<n, 1, n, 2, n>>, n, r, 3)>>
           more == ReplaceVector(<<n, n, 7>>, n, n, 2)
           last == ReplaceVector(big, n, r, hits)
<1>1. n \in Byte /\ r \in Byte /\ s.max \in Nat
  BY VectorAssumption DEF Shaped
<1>2. miss \in Byte /\ 1 \in Byte /\ 2 \in Byte /\ 7 \in Byte
  BY <1>1, ByteSeqs
<1> HIDE DEF miss
<1>3. big \in [1..s.max -> Byte]
  BY <1>1, <1>2
<1>4. big \in Seq(Byte) /\ DOMAIN big = 1..s.max
  BY <1>1, <1>3
<1>5. hits \in Int
  <2> DEFINE H == {i \in DOMAIN big : big[i] = n}
  <2>1. H \subseteq 1..s.max /\ IsFiniteSet(1..s.max)
    BY <1>1, <1>4, FS_Interval
  <2> HIDE DEF H
  <2>2. Cardinality(H) \in Nat
    BY <2>1, FS_Subset, FS_CardinalityType
  <2> QED BY <2>2 DEF H
<1> HIDE DEF big, hits
<1>6. /\ <<n>> \in Seq(Byte) /\ <<miss>> \in Seq(Byte) /\ <<n, 1, n, 2, n>> \in Seq(Byte)
      /\ <<n, n, 7>> \in Seq(Byte)
  BY <1>1, <1>2
<1>7. 0 \in Int /\ 1 \in Int /\ 2 \in Int /\ 3 \in Int
  OBVIOUS
<1>8. \A a \in Seq(Byte), q \in Byte, e \in Int : Len(a) < Words2 => ReplaceVector(a, n, q, e) \in F
  BY <1>1, ByteForms
<1>15. /\ Len(<<n>>) < Words2 /\ Len(<<miss>>) < Words2 /\ Len(<<n, 1, n, 2, n>>) < Words2
       /\ Len(<<n, n, 7>>) < Words2 /\ Len(big) < Words2
  BY <1>1, <1>4, WordSize DEF Shaped
<1>9. Vector(<<Null, Num(0), Num(n), Num(r)>>, 0) \in F
  <2>1. <<n>> \in Seq(Byte) /\ 0 \in Int
    BY <1>6
  <2> QED BY <1>1, <2>1, ByteForms
<1>10. /\ ReplaceVector(<<n>>, n, r, 1) \in F /\ ReplaceVector(<<miss>>, n, r, 0) \in F
       /\ ReplaceVector(<<n, 1, n, 2, n>>, n, r, 3) \in F /\ more \in F /\ last \in F
  BY <1>1, <1>4, <1>5, <1>6, <1>7, <1>8, <1>15
<1> HIDE DEF F, more, last
<1>11. front \in Seq(F) /\ Len(front) > 0
  BY <1>9, <1>10
<1> HIDE DEF front
<1>12. LET t == front \o (IF n # r THEN <<more>> ELSE <<>>) IN t \in Seq(F) /\ t # <<>>
  BY <1>10, <1>11, OneMore
<1>13. /\ (front \o (IF n # r THEN <<more>> ELSE <<>>)) \o <<last>> \in Seq(F)
       /\ (front \o (IF n # r THEN <<more>> ELSE <<>>)) \o <<last>> # <<>>
  <2> DEFINE t == front \o (IF n # r THEN <<more>> ELSE <<>>)
  <2>1. t \in Seq(F)
    BY <1>12
  <2> HIDE DEF t
  <2>2. t \o <<last>> \in Seq(F) /\ Len(t \o <<last>>) > 0 /\ Len(<<>>) = 0
    BY <1>10, <2>1
  <2>3. t \o <<last>> # <<>>
    BY <2>2
  <2> QED BY <2>2, <2>3 DEF t
<1>14. synthesize_replace_byte_vectors(s) = (front \o (IF n # r THEN <<more>> ELSE <<>>)) \o <<last>>
  BY Zenon DEF synthesize_replace_byte_vectors, front, more, last, hits, big, miss
<1> QED BY <1>13, <1>14 DEF GoodVectors, F

\* The vectors of synthesize_memset_vectors.
LEMMA MemsetVectors ==
    ASSUME NEW s, Shaped("memset", s)
    PROVE  GoodVectors("memset", synthesize_memset_vectors(s))
<1> DEFINE v == s.value
           filler == (v + 1) % 256
           F == Form("memset")
           vs == <<EmptyScan(v),
          ScanVector(<<filler>>, v, 0),
          ScanVector(Copies(filler, 5), v, 0),
          ScanVector(Copies(v, 3), v, 0),
          ScanVector(Copies(filler, s.max), v, 0)>>
<1>1. v \in Byte /\ s.max \in Nat
  BY VectorAssumption DEF Shaped
<1>2. filler \in Byte
  BY <1>1, ByteSeqs
<1> HIDE DEF filler
<1>3. /\ <<filler>> \in Seq(Byte) /\ Copies(filler, 5) \in Seq(Byte) /\ Copies(v, 3) \in Seq(Byte)
      /\ Copies(filler, s.max) \in Seq(Byte)
  <2>1. <<filler>> \in Seq(Byte)
    BY <1>2
  <2>2. \A b \in Byte, m \in Nat : Copies(b, m) \in Seq(Byte)
    BY ByteSeqs
  <2> QED BY <1>1, <1>2, <2>1, <2>2
<1>10. /\ Len(<<filler>>) < Words2 /\ Len(Copies(filler, 5)) < Words2 /\ Len(Copies(v, 3)) < Words2
       /\ Len(Copies(filler, s.max)) < Words2
  <2>1. \A b \in Byte, m \in Nat : Len(Copies(b, m)) = m
    BY ByteSeqs
  <2>2. Len(<<filler>>) = 1 /\ 3 \in Nat /\ 5 \in Nat /\ 1 < Words2 /\ 3 < Words2 /\ 5 < Words2
    BY WordSize
  <2>3. s.max < Words2
    BY WordSize DEF Shaped
  <2> QED BY <1>1, <1>2, <2>1, <2>2, <2>3
<1>4. \A a \in Seq(Byte), e \in Int : Len(a) < Words2 => ScanVector(a, v, e) \in F
  BY <1>1, ByteForms
<1>5. EmptyScan(v) \in F
  <2>1. <<filler>> \in Seq(Byte) /\ 0 \in Int
    BY <1>3
  <2> QED BY <1>1, <2>1, ByteForms
<1>6. /\ ScanVector(<<filler>>, v, 0) \in F /\ ScanVector(Copies(filler, 5), v, 0) \in F
      /\ ScanVector(Copies(v, 3), v, 0) \in F /\ ScanVector(Copies(filler, s.max), v, 0) \in F
  <2> HIDE DEF F
  <2>1. 0 \in Int
    OBVIOUS
  <2> QED BY <1>3, <1>4, <1>10, <2>1, Zenon
<1> HIDE DEF F
<1>7. vs \in Seq(F) /\ Len(vs) > 0 /\ Len(<<>>) = 0
  BY <1>5, <1>6
<1>8. vs # <<>>
  BY <1>7
<1>9. synthesize_memset_vectors(s) = vs
  BY Zenon DEF synthesize_memset_vectors, filler
<1> QED BY <1>7, <1>8, <1>9 DEF GoodVectors, F

\* The vectors of synthesize_memcpy_vectors.
LEMMA MemcpyVectors ==
    ASSUME NEW s, Shaped("memcpy", s)
    PROVE  GoodVectors("memcpy", synthesize_memcpy_vectors(s))
<1> DEFINE F == Form("memcpy")
           ramp == [i \in 1..s.max |-> (i - 1) % 256]
           vs == <<Vector(<<Null, Null, Num(0)>>, 0),
                   PairVector(<<238>>, <<90>>, 0),
                   PairVector(Copies(238, 5), <<1, 2, 3, 4, 5>>, 0),
                   PairVector(Copies(238, s.max), ramp, 0)>>
<1>1. s.max \in Nat
  BY VectorAssumption DEF Shaped
<1>2. 238 \in Byte /\ 90 \in Byte
  BY DEF Byte
<1>3. /\ Copies(238, 5) \in Seq(Byte) /\ Copies(238, s.max) \in Seq(Byte)
      /\ Len(Copies(238, 5)) = 5 /\ Len(Copies(238, s.max)) = s.max
  <2>1. \A n \in Byte, m \in Nat : Copies(n, m) \in Seq(Byte) /\ Len(Copies(n, m)) = m
    BY ByteSeqs
  <2>2. PICK n \in Byte, m \in Nat, k \in Nat : n = 238 /\ m = 5 /\ k = s.max
    BY <1>1, <1>2
  <2>3. /\ Copies(n, m) \in Seq(Byte) /\ Copies(n, k) \in Seq(Byte)
        /\ Len(Copies(n, m)) = m /\ Len(Copies(n, k)) = k
    BY <2>1, Zenon
  <2> QED BY <2>2, <2>3, Zenon
<1>4. ramp \in Seq(Byte) /\ Len(ramp) = s.max
  <2>1. ramp \in [1..s.max -> Byte]
    BY <1>1 DEF Byte
  <2> HIDE DEF ramp
  <2> QED BY <1>1, <2>1, FunctionSeq
<1>5. /\ <<238>> \in Seq(Byte) /\ <<90>> \in Seq(Byte) /\ <<1, 2, 3, 4, 5>> \in Seq(Byte)
      /\ Len(<<238>>) = 1 /\ Len(<<90>>) = 1 /\ Len(<<1, 2, 3, 4, 5>>) = 5 /\ 0 \in Int
  BY <1>2 DEF Byte
<1> HIDE DEF ramp
<1>6. \A a, b \in Seq(Byte) : Len(a) < Words2 /\ Len(a) = Len(b) => PairVector(a, b, 0) \in F
  BY <1>2, <1>5, ByteForms, ZenonT(40)
<1>7. Vector(<<Null, Null, Num(0)>>, 0) \in F
  <2>1. <<238>> \in Seq(Byte) /\ 238 \in Byte /\ 0 \in Int
    BY <1>2, <1>5
  <2>2. \A a, b \in Seq(Byte), n, r \in Byte, e \in Int :
            Vector(<<Null, Null, Num(0)>>, 0) \in Form("memcpy") \cap Form("memcmp")
    BY ByteForms
  <2> QED BY <2>1, <2>2
<1> HIDE DEF F
<1>8. /\ PairVector(<<238>>, <<90>>, 0) \in F
      /\ PairVector(Copies(238, 5), <<1, 2, 3, 4, 5>>, 0) \in F
      /\ PairVector(Copies(238, s.max), ramp, 0) \in F
  <2>1. 1 < Words2 /\ 5 < Words2 /\ s.max < Words2
    BY WordSize DEF Shaped
  <2>2. PairVector(<<238>>, <<90>>, 0) \in F
    BY <1>5, <1>6, <2>1
  <2>3. PairVector(Copies(238, 5), <<1, 2, 3, 4, 5>>, 0) \in F
    BY <1>3, <1>5, <1>6, <2>1, ZenonT(40)
  <2>4. PairVector(Copies(238, s.max), ramp, 0) \in F
    BY <1>3, <1>4, <1>6, <2>1
  <2> QED BY <2>2, <2>3, <2>4
<1>9. vs \in Seq(F) /\ Len(vs) > 0 /\ Len(<<>>) = 0
  BY <1>7, <1>8
<1>10. vs # <<>>
  BY <1>9
<1>11. synthesize_memcpy_vectors(s) = vs
  BY Zenon DEF synthesize_memcpy_vectors, ramp
<1> QED BY <1>9, <1>10, <1>11 DEF GoodVectors, F

\* The vectors of synthesize_memcmp_vectors.
LEMMA MemcmpVectors ==
    ASSUME NEW s, Shaped("memcmp", s)
    PROVE  GoodVectors("memcmp", synthesize_memcmp_vectors(s))
<1> DEFINE F == Form("memcmp")
           ramp == [i \in 1..s.max |-> (i - 1) % 256]
           null == Vector(<<Null, Null, Num(0)>>, 0)
           vs == <<PairVector(<<>>, <<>>, 0),
                   PairVector(<<0, 127, 255>>, <<0, 127, 255>>, 0),
                   PairVector(<<0>>, <<255>>, -1),
                   PairVector(<<255>>, <<0>>, 1),
                   PairVector(<<1, 2, 3, 4>>, <<1, 2, 3, 5>>, -1),
                   PairVector(ramp, ramp, 0)>>
<1>1. s.max \in Nat
  BY VectorAssumption DEF Shaped
<1>2. ramp \in Seq(Byte)
  <2>1. ramp \in [1..s.max -> Byte]
    BY <1>1 DEF Byte
  <2> HIDE DEF ramp
  <2> QED BY <1>1, <2>1, FunctionSeq
<1>3. 0 \in Byte /\ 127 \in Byte /\ 255 \in Byte /\ 1 \in Byte /\ 2 \in Byte /\ 3 \in Byte /\ 4 \in Byte
      /\ 5 \in Byte
  BY DEF Byte
<1>4. /\ <<>> \in Seq(Byte) /\ <<0, 127, 255>> \in Seq(Byte) /\ <<0>> \in Seq(Byte) /\ <<255>> \in Seq(Byte)
      /\ <<1, 2, 3, 4>> \in Seq(Byte) /\ <<1, 2, 3, 5>> \in Seq(Byte)
      /\ Len(<<0>>) = Len(<<255>>) /\ Len(<<1, 2, 3, 4>>) = Len(<<1, 2, 3, 5>>)
  BY <1>3
<1>5. 0 \in Int /\ 1 \in Int /\ -1 \in Int
  OBVIOUS
<1> HIDE DEF ramp
<1>6. \A a, b \in Seq(Byte), e \in Int : Len(a) = Len(b) => PairVector(a, b, e) \in F
  BY <1>3, ByteForms
<1>7. null \in F
  BY <1>3, <1>4, <1>5, ByteForms, ZenonT(40)
<1>8. /\ PairVector(<<>>, <<>>, 0) \in F /\ PairVector(<<0, 127, 255>>, <<0, 127, 255>>, 0) \in F
      /\ PairVector(<<0>>, <<255>>, -1) \in F /\ PairVector(<<255>>, <<0>>, 1) \in F
      /\ PairVector(<<1, 2, 3, 4>>, <<1, 2, 3, 5>>, -1) \in F /\ PairVector(ramp, ramp, 0) \in F
  BY <1>2, <1>4, <1>5, <1>6, ZenonT(40)
<1> HIDE DEF F
<1>9. vs \in Seq(F) /\ Len(vs) > 0
  BY <1>8
<1> HIDE DEF vs, null
<1>10. synthesize_memcmp_vectors(s) = vs \o (IF s.null THEN <<null>> ELSE <<>>)
  BY Zenon DEF synthesize_memcmp_vectors, ramp, vs, null
<1>11. LET t == vs \o (IF s.null THEN <<null>> ELSE <<>>) IN t \in Seq(F) /\ t # <<>>
  BY <1>7, <1>9, OneMore
<1> QED BY <1>10, <1>11 DEF GoodVectors, F

\* Words are integers.
LEMMA WordTypes ==
    /\ MaxInt \in Int /\ MinInt \in Int
    /\ \A n \in Int : Wrap(n) \in Int /\ Bits(n) \in 0..(Words2 - 1) /\ Halved(n) \in Int
BY PowerFacts DEF MaxInt, MinInt, Wrap, Bits, Halved

\* The vectors of synthesize_i64_sum_vectors.
LEMMA SumVectors ==
    ASSUME NEW s, Shaped("sum", s)
    PROVE  GoodVectors("sum", synthesize_i64_sum_vectors(s))
<1> DEFINE F == Form("sum")
           null == Vector(<<Null, Num(0)>>, 0)
           ones == Copies(1, s.max)
           vs == <<null,
                   SumVector(<<1, 2, 3, 4>>, 10),
                   SumVector(<<-5, 2, 10>>, 7),
                   SumVector(<<-1>>, -1),
                   SumVector(<<MaxInt, 1>>, MinInt),
                   SumVector(ones, s.max)>>
<1>1. s.max \in Nat /\ s.max \in Int
  BY VectorAssumption DEF Shaped
<1>2. ones \in Seq(Int)
  <2>1. 1 \in Byte
    BY DEF Byte
  <2>2. ones \in Seq(Byte)
    BY <1>1, <2>1, ByteSeqs
  <2> QED BY <2>2, BufferFacts
<1>3. /\ <<1, 2, 3, 4>> \in Seq(Int) /\ <<-5, 2, 10>> \in Seq(Int) /\ <<-1>> \in Seq(Int)
      /\ <<MaxInt, 1>> \in Seq(Int)
  BY WordTypes
<1>4. 10 \in Int /\ 7 \in Int /\ -1 \in Int /\ 0 \in Int
  OBVIOUS
<1> HIDE DEF ones
<1>5. \A a \in Seq(Int), e \in Int : SumVector(a, e) \in F
  BY <1>4, IntegerForms
<1>6. null \in F
  BY <1>3, <1>4, IntegerForms
<1>7. /\ SumVector(<<1, 2, 3, 4>>, 10) \in F /\ SumVector(<<-5, 2, 10>>, 7) \in F
      /\ SumVector(<<-1>>, -1) \in F /\ SumVector(<<MaxInt, 1>>, MinInt) \in F
      /\ SumVector(ones, s.max) \in F
  BY <1>1, <1>2, <1>3, <1>4, <1>5, WordTypes
<1> HIDE DEF F, null
<1>8. vs \in Seq(F) /\ Len(vs) > 0
  BY <1>6, <1>7
<1> HIDE DEF vs
<1>9. synthesize_i64_sum_vectors(s) = vs \o (IF s.null THEN <<null>> ELSE <<>>)
  BY Zenon DEF synthesize_i64_sum_vectors, vs, null, ones
<1>10. LET t == vs \o (IF s.null THEN <<null>> ELSE <<>>) IN t \in Seq(F) /\ t # <<>>
  BY <1>6, <1>8, OneMore
<1> QED BY <1>9, <1>10 DEF GoodVectors, F


\* The oracles of pure routines compute integers.
LEMMA ReduceTypes ==
    ASSUME NEW a \in Int, NEW b \in Int
    PROVE  /\ \A op \in {"Min", "Max"} : PureIntOp_reduce(op, a, b) \in Int
           /\ \A op \in BinaryOps : PureIntI64Op_reduce(op, a, b) \in Int
           /\ \A op \in UnaryOps : PureIntUnaryI64Op_reduce(op, a) \in Int
<1>1. Lesser(a, b) \in Int /\ Greater(a, b) \in Int /\ Greater(a, -a) \in Int
  BY DEF Lesser, Greater
<1>2. /\ Wrap(a + b) \in Int /\ Wrap(a - b) \in Int /\ Wrap(2 * Wrap(a + b)) \in Int
      /\ Wrap(Greater(a, -a)) \in Int /\ Wrap(2 * a) \in Int /\ Wrap(a + 1) \in Int
      /\ Wrap(a + 100) \in Int
  <2>1. a + b \in Int /\ a - b \in Int /\ 2 * a \in Int /\ a + 1 \in Int /\ a + 100 \in Int
    OBVIOUS
  <2>2. 2 * Wrap(a + b) \in Int
    BY <2>1, WordTypes
  <2> QED BY <1>1, <2>1, <2>2, WordTypes
<1>3. Halved(Wrap(a * Wrap(a + 1))) \in Int
  <2>1. a * Wrap(a + 1) \in Int
    BY <1>2
  <2>2. Wrap(a * Wrap(a + 1)) \in Int
    BY <2>1, WordTypes
  <2> QED BY <2>2, WordTypes
<1>4. \A op \in {"Min", "Max"} : PureIntOp_reduce(op, a, b) \in Int
  BY <1>1 DEF PureIntOp_reduce
<1>5. \A op \in BinaryOps : PureIntI64Op_reduce(op, a, b) \in Int
  BY <1>1, <1>2 DEF PureIntI64Op_reduce, BinaryOps
<1>6. \A op \in UnaryOps : PureIntUnaryI64Op_reduce(op, a) \in Int
  BY <1>1, <1>2, <1>3 DEF PureIntUnaryI64Op_reduce, UnaryOps
<1> QED BY <1>4, <1>5, <1>6

\* A list of cases, made into vectors.
LEMMA CaseVectors ==
    ASSUME NEW f, NEW n \in Nat, n > 0, NEW vs, vs = [i \in 1..n |-> vs[i]], \A i \in 1..n : vs[i] \in Form(f)
    PROVE  GoodVectors(f, vs)
<1> DEFINE F == Form(f)
<1> HIDE DEF F
<1>1. vs \in [1..n -> F]
  BY DEF F
<1>2. vs \in Seq(F) /\ Len(vs) = n /\ Len(<<>>) = 0
  BY <1>1, FunctionSeq
<1>3. vs # <<>>
  BY <1>2
<1> QED BY <1>2, <1>3 DEF GoodVectors, F

\* The vectors of the pure families.
LEMMA PureVectors ==
    ASSUME NEW s
    PROVE  /\ Shaped("pure", s) => GoodVectors("pure", synthesize_pure_int_vectors(s))
           /\ Shaped("pure_i64", s) => GoodVectors("pure_i64", synthesize_pure_int_i64_vectors(s))
           /\ Shaped("unary", s) => GoodVectors("unary", synthesize_pure_int_unary_i64_vectors(s))
<1>1. ASSUME Shaped("pure", s) PROVE GoodVectors("pure", synthesize_pure_int_vectors(s))
  <2> DEFINE cases == <<<<0, 0>>, <<1, 2>>, <<5, 3>>, <<7, 7>>, <<0, 1000000>>, <<100, 50>>>>
             vs == synthesize_pure_int_vectors(s)
  <2>1. s.op \in {"Min", "Max"}
    BY <1>1 DEF Shaped
  <2>2. DOMAIN cases = 1..6 /\ \A i \in 1..6 : cases[i][1] \in Int /\ cases[i][2] \in Int
    BY SMTT(30)
  <2>3. vs = [i \in DOMAIN cases |-> Vector(<<Num(cases[i][1]), Num(cases[i][2])>>,
                                            PureIntOp_reduce(s.op, cases[i][1], cases[i][2]))]
    BY SMTT(30) DEF synthesize_pure_int_vectors
  <2> HIDE DEF cases, vs
  <2>4. ASSUME NEW i \in 1..6 PROVE vs[i] \in Form("pure")
    <3>1. PureIntOp_reduce(s.op, cases[i][1], cases[i][2]) \in Int
      BY <2>1, <2>2, ReduceTypes
    <3>2. <<>> \in Seq(Int)
      OBVIOUS
    <3>3. Vector(<<Num(cases[i][1]), Num(cases[i][2])>>, PureIntOp_reduce(s.op, cases[i][1], cases[i][2]))
            \in Form("pure")
      BY <2>2, <3>1, <3>2, IntegerForms
    <3> QED BY <2>2, <2>3, <3>3
  <2>5. vs = [i \in 1..6 |-> vs[i]]
    BY <2>2, <2>3
  <2>6. 6 \in Nat /\ 6 > 0
    OBVIOUS
  <2>7. GoodVectors("pure", vs)
    BY <2>4, <2>5, <2>6, CaseVectors
  <2> QED BY <2>7 DEF vs
<1>2. ASSUME Shaped("pure_i64", s) PROVE GoodVectors("pure_i64", synthesize_pure_int_i64_vectors(s))
  <2> DEFINE cases == <<<<0, 0>>, <<5, 3>>, <<-3, 7>>, <<-5, -2>>, <<-7, -7>>,
                        <<1000000, -50>>, <<MaxInt, 1>>, <<MinInt, -1>>>>
             vs == synthesize_pure_int_i64_vectors(s)
  <2>1. s.op \in BinaryOps
    BY <1>2 DEF Shaped
  <2>2. DOMAIN cases = 1..8 /\ \A i \in 1..8 : cases[i][1] \in Int /\ cases[i][2] \in Int
    BY SMTT(30), WordTypes
  <2>3. vs = [i \in DOMAIN cases |-> Vector(<<Num(cases[i][1]), Num(cases[i][2])>>,
                                            PureIntI64Op_reduce(s.op, cases[i][1], cases[i][2]))]
    BY SMTT(30) DEF synthesize_pure_int_i64_vectors
  <2> HIDE DEF cases, vs
  <2>4. ASSUME NEW i \in 1..8 PROVE vs[i] \in Form("pure_i64")
    <3>1. PureIntI64Op_reduce(s.op, cases[i][1], cases[i][2]) \in Int
      BY <2>1, <2>2, ReduceTypes
    <3>2. <<>> \in Seq(Int)
      OBVIOUS
    <3>3. Vector(<<Num(cases[i][1]), Num(cases[i][2])>>, PureIntI64Op_reduce(s.op, cases[i][1], cases[i][2]))
            \in Form("pure_i64")
      BY <2>2, <3>1, <3>2, IntegerForms
    <3> QED BY <2>2, <2>3, <3>3
  <2>5. vs = [i \in 1..8 |-> vs[i]]
    BY <2>2, <2>3
  <2>6. 8 \in Nat /\ 8 > 0
    OBVIOUS
  <2>7. GoodVectors("pure_i64", vs)
    BY <2>4, <2>5, <2>6, CaseVectors
  <2> QED BY <2>7 DEF vs
<1>3. ASSUME Shaped("unary", s) PROVE GoodVectors("unary", synthesize_pure_int_unary_i64_vectors(s))
  <2> DEFINE cases == IF s.op = "SumRange" THEN <<0, 1, 5, 10, 20>>
                      ELSE IF s.op = "Countdown" THEN <<0, 5, 10, -3, -1>>
                      ELSE <<0, 5, -5, MaxInt, MinInt>>
             vs == synthesize_pure_int_unary_i64_vectors(s)
  <2>1. s.op \in UnaryOps
    BY <1>3 DEF Shaped
  <2>2. DOMAIN cases = 1..5 /\ \A i \in 1..5 : cases[i] \in Int
    BY WordTypes
  <2>3. vs = [i \in DOMAIN cases |-> Vector(<<Num(cases[i])>>, PureIntUnaryI64Op_reduce(s.op, cases[i]))]
    BY Zenon DEF synthesize_pure_int_unary_i64_vectors
  <2> HIDE DEF cases, vs
  <2>4. ASSUME NEW i \in 1..5 PROVE vs[i] \in Form("unary")
    <3>1. PureIntUnaryI64Op_reduce(s.op, cases[i]) \in Int
      BY <2>1, <2>2, ReduceTypes
    <3>2. <<>> \in Seq(Int) /\ 0 \in Int
      OBVIOUS
    <3>3. Vector(<<Num(cases[i])>>, PureIntUnaryI64Op_reduce(s.op, cases[i])) \in Form("unary")
      BY <2>2, <3>1, <3>2, IntegerForms
    <3> QED BY <2>2, <2>3, <3>3
  <2>5. vs = [i \in 1..5 |-> vs[i]]
    BY <2>2, <2>3
  <2>6. 5 \in Nat /\ 5 > 0
    OBVIOUS
  <2>7. GoodVectors("unary", vs)
    BY <2>4, <2>5, <2>6, CaseVectors
  <2> QED BY <2>7 DEF vs
<1> QED BY <1>1, <1>2, <1>3

\* The vectors of the cells.
LEMMA CellVectors ==
    GoodVectors("load", synthesize_cell_load_vectors) /\ GoodVectors("store", synthesize_cell_store_vectors)
<1>1. GoodVectors("load", synthesize_cell_load_vectors)
  <2> DEFINE cases == <<0, 1, 65, 255>>
             vs == synthesize_cell_load_vectors
  <2>1. DOMAIN cases = 1..4 /\ \A i \in 1..4 : cases[i] \in Byte /\ cases[i] \in Int
    BY DEF Byte
  <2>2. vs = [i \in DOMAIN cases |-> Vector(<<Arr(<<cases[i]>>)>>, cases[i])]
    BY Zenon DEF synthesize_cell_load_vectors
  <2> HIDE DEF cases, vs
  <2>3. ASSUME NEW i \in 1..4 PROVE vs[i] \in Form("load")
    <3>1. <<>> \in Seq(Byte)
      OBVIOUS
    <3>2. Vector(<<Arr(<<cases[i]>>)>>, cases[i]) \in Form("load")
      BY <2>1, <3>1, ByteForms
    <3> QED BY <2>1, <2>2, <3>2
  <2>4. vs = [i \in 1..4 |-> vs[i]]
    BY <2>1, <2>2
  <2>5. 4 \in Nat /\ 4 > 0
    OBVIOUS
  <2>6. GoodVectors("load", vs)
    BY <2>3, <2>4, <2>5, CaseVectors
  <2> QED BY <2>6 DEF vs
<1>2. GoodVectors("store", synthesize_cell_store_vectors)
  <2> DEFINE cases == <<<<0, 7>>, <<255, 0>>, <<17, 34>>, <<0, 255>>>>
             vs == synthesize_cell_store_vectors
  <2>1. DOMAIN cases = 1..4 /\ \A i \in 1..4 : cases[i][1] \in Byte /\ cases[i][2] \in Byte /\ cases[i][2] \in Int
    BY DEF Byte
  <2>2. vs = [i \in DOMAIN cases |-> Vector(<<Arr(<<cases[i][1]>>), Num(cases[i][2])>>, cases[i][2])]
    BY Zenon DEF synthesize_cell_store_vectors
  <2> HIDE DEF cases, vs
  <2>3. ASSUME NEW i \in 1..4 PROVE vs[i] \in Form("store")
    <3>1. <<>> \in Seq(Byte)
      OBVIOUS
    <3>2. Vector(<<Arr(<<cases[i][1]>>), Num(cases[i][2])>>, cases[i][2]) \in Form("store")
      BY <2>1, <3>1, ByteForms
    <3> QED BY <2>1, <2>2, <3>2
  <2>4. vs = [i \in 1..4 |-> vs[i]]
    BY <2>1, <2>2
  <2>5. 4 \in Nat /\ 4 > 0
    OBVIOUS
  <2>6. GoodVectors("store", vs)
    BY <2>3, <2>4, <2>5, CaseVectors
  <2> QED BY <2>6 DEF vs
<1> QED BY <1>1, <1>2

\* synthesize_vectors gives a recognised contract vectors of its family's form,
\* and any other one none.
LEMMA SynthesisFacts ==
    ASSUME NEW c \in Contracts
    PROVE  LET f == FamilyOf(Families, c) IN
           IF f = "none" THEN synthesize_vectors(c) = <<>>
           ELSE GoodVectors(f, synthesize_vectors(c))
<1> DEFINE f == FamilyOf(Families, c)
           s == ShapeIn(f, c)
           v == synthesize_vectors(c)
<1>1. f = "none" => v = <<>>
  BY SMTT(30) DEF synthesize_vectors, SynthesisOrder
<1>2. ASSUME f # "none" PROVE GoodVectors(f, v)
  <2>1. f \in FamilyNames /\ Shaped(f, s)
    BY <1>2, FamilyFacts
  <2>2. /\ f = "scan" => /\ s.op = "Count" => v = synthesize_buffer_scan_vectors(s)
                         /\ s.op = "FindFirst" => v = synthesize_find_first_vectors(s)
                         /\ s.op = "FindLast" => v = synthesize_find_last_vectors(s)
        /\ f = "replace" => v = synthesize_replace_byte_vectors(s)
        /\ f = "memset" => v = synthesize_memset_vectors(s)
        /\ f = "memcpy" => v = synthesize_memcpy_vectors(s)
        /\ f = "memcmp" => v = synthesize_memcmp_vectors(s)
        /\ f = "sum" => v = synthesize_i64_sum_vectors(s)
        /\ f = "pure" => v = synthesize_pure_int_vectors(s)
        /\ f = "pure_i64" => v = synthesize_pure_int_i64_vectors(s)
        /\ f = "unary" => v = synthesize_pure_int_unary_i64_vectors(s)
        /\ f = "load" => v = synthesize_cell_load_vectors
        /\ f = "store" => v = synthesize_cell_store_vectors
    BY SMTT(30) DEF synthesize_vectors, SynthesisOrder
  <2> HIDE DEF f, s, v
  <2>3. CASE f = "scan"
    <3>1. s.op \in {"Count", "FindFirst", "FindLast"} /\ Shaped("scan", s)
      BY SMTT(30), <2>1, <2>3 DEF Shaped
    <3>2. s.op = "Count" => v = synthesize_buffer_scan_vectors(s)
      BY <2>2, <2>3
    <3>3. s.op = "FindFirst" => v = synthesize_find_first_vectors(s)
      BY <2>2, <2>3
    <3>4. s.op = "FindLast" => v = synthesize_find_last_vectors(s)
      BY <2>2, <2>3
    <3> QED BY <2>3, <3>1, <3>2, <3>3, <3>4, CountVectors, FindFirstVectors, FindLastVectors
  <2>4. CASE f = "replace"
    BY <2>1, <2>2, <2>4, ReplaceVectors
  <2>5. CASE f = "memset"
    BY <2>1, <2>2, <2>5, MemsetVectors
  <2>6. CASE f = "memcpy"
    BY <2>1, <2>2, <2>6, MemcpyVectors
  <2>7. CASE f = "memcmp"
    BY <2>1, <2>2, <2>7, MemcmpVectors
  <2>8. CASE f = "sum"
    BY <2>1, <2>2, <2>8, SumVectors
  <2>9. CASE f \in {"pure", "pure_i64", "unary"}
    BY <2>1, <2>2, <2>9, PureVectors
  <2>10. CASE f \in {"load", "store"}
    BY <2>1, <2>2, <2>10, CellVectors
  <2> QED BY <2>1, <2>3, <2>4, <2>5, <2>6, <2>7, <2>8, <2>9, <2>10 DEF FamilyNames
<1> QED BY <1>1, <1>2

-----------------------------------------------------------------------------
(* External cases: accepted ones have the form of the contract's family.   *)

Pointers == ConstPtrs \cup MutPtrs

\* The families of routines on memory have a parameter that is a pointer.
LEMMA PointerFamilies ==
    ASSUME NEW c \in Contracts, NEW f \in {"scan", "replace", "memset", "memcpy", "memcmp", "sum"},
           Found(ShapeIn(f, c))
    PROVE  At(c, Pointers) # {}
<1>0. ~Found(NoShape)
  BY DEF Found, NoShape
<1>1. \A S \in SUBSET Pointers : At(c, S) # {} => At(c, Pointers) # {}
  BY DEF At
<1>2. \A S : First(c, S) # 0 => At(c, S) # {}
  BY DEF First
<1>3. \A S : Cardinality(At(c, S)) = 2 => At(c, S) # {}
  <2> SUFFICES ASSUME NEW S, At(c, S) = {} PROVE Cardinality(At(c, S)) # 2
    OBVIOUS
  <2> QED BY FS_EmptySet
<1>4. /\ ConstPtrs \in SUBSET Pointers /\ MutPtrs \in SUBSET Pointers /\ {"const_ptr_u8"} \in SUBSET Pointers
      /\ {"ptr_u8"} \in SUBSET Pointers /\ {"const_ptr_i64"} \in SUBSET Pointers
  BY DEF Pointers, ConstPtrs, MutPtrs
<1>5. CASE f = "scan"
  <2>1. First(c, ConstPtrs) # 0
    BY <1>0, <1>5 DEF ShapeIn, scan_shape
  <2> QED BY <1>1, <1>2, <1>4, <2>1
<1>6. CASE f = "replace"
  <2>1. First(c, MutPtrs) # 0
    BY <1>0, <1>6 DEF ShapeIn, replace_byte_shape
  <2> QED BY <1>1, <1>2, <1>4, <2>1
<1>7. CASE f = "memset"
  <2>1. First(c, MutPtrs) # 0
    BY <1>0, <1>7 DEF ShapeIn, memset_shape
  <2> QED BY <1>1, <1>2, <1>4, <2>1
<1>8. CASE f = "memcpy"
  <2>1. First(c, {"ptr_u8"}) # 0
    BY <1>0, <1>8 DEF ShapeIn, memcpy_shape
  <2> QED BY <1>1, <1>2, <1>4, <2>1
<1>9. CASE f = "memcmp"
  <2>1. Cardinality(At(c, {"const_ptr_u8"})) = 2
    BY <1>0, <1>9 DEF ShapeIn, memcmp_shape
  <2> QED BY <1>1, <1>3, <1>4, <2>1
<1>10. CASE f = "sum"
  <2>1. First(c, {"const_ptr_i64"}) # 0
    BY <1>0, <1>10 DEF ShapeIn, i64_sum_shape
  <2> QED BY <1>1, <1>2, <1>4, <2>1
<1> QED BY <1>5, <1>6, <1>7, <1>8, <1>9, <1>10

\* The families of routines on integers have none, and as many parameters as
\* their operation takes.
LEMMA PureFamilies ==
    ASSUME NEW c \in Contracts, NEW f \in {"pure", "pure_i64", "unary"}, Found(ShapeIn(f, c))
    PROVE  /\ At(c, Pointers) = {}
           /\ Len(c.params) \in Nat
           /\ Len(c.params) >= IF f = "unary" THEN 1 ELSE 2
<1>0. ~Found(NoShape) /\ c.params \in Seq(STRING)
  BY HarnessAssumption DEF Found, NoShape
<1>1. CASE f = "pure"
  <2>1. pure_int_types(c)
    BY <1>0, <1>1 DEF ShapeIn, pure_int_shape
  <2>2. At(c, Pointers) = {}
    BY <2>1 DEF At, pure_int_types, Pointers
  <2>3. At(c, {"usize"}) \subseteq 1..Len(c.params) /\ Len(c.params) \in Nat
    BY <1>0 DEF At
  <2>4. IsFiniteSet(1..Len(c.params)) /\ Cardinality(1..Len(c.params)) = Len(c.params)
    BY <2>3, FS_Interval, SMTT(30)
  <2>5. Cardinality(At(c, {"usize"})) <= Len(c.params)
    BY <2>3, <2>4, FS_Subset
  <2> QED BY <1>1, <2>1, <2>2, <2>3, <2>5 DEF pure_int_types
<1>2. CASE f = "pure_i64"
  <2>1. c.params = <<"i64", "i64">>
    BY <1>0, <1>2 DEF ShapeIn, pure_int_i64_shape, pure_int_i64_types
  <2> QED BY <1>2, <2>1 DEF At, Pointers, ConstPtrs, MutPtrs
<1>3. CASE f = "unary"
  <2>1. c.params = <<"i64">>
    BY <1>0, <1>3 DEF ShapeIn, pure_int_unary_i64_shape, pure_int_unary_i64_types
  <2> QED BY <1>3, <2>1 DEF At, Pointers, ConstPtrs, MutPtrs
<1> QED BY <1>1, <1>2, <1>3

\* A routine on integers belongs to the first of their families that takes it.
LEMMA PureFamily ==
    ASSUME NEW c \in Contracts, NEW g \in {"pure", "pure_i64", "unary"}, Found(ShapeIn(g, c)),
           g = "pure_i64" => ~Found(ShapeIn("pure", c)),
           g = "unary" => ~Found(ShapeIn("pure", c)) /\ ~Found(ShapeIn("pure_i64", c))
    PROVE  FamilyOf(Families, c) = g
<1> DEFINE hits == {i \in DOMAIN Families : Found(ShapeIn(Families[i], c))}
           k == IF g = "pure" THEN 7 ELSE IF g = "pure_i64" THEN 8 ELSE 9
<1>1. /\ DOMAIN Families = 1..11 /\ Families[k] = g /\ k \in 1..11
      /\ Families[7] = "pure" /\ Families[8] = "pure_i64"
      /\ \A i \in 1..6 : Families[i] \in {"scan", "replace", "memset", "memcpy", "memcmp", "sum"}
  BY DEF Families
<1>2. k \in hits /\ hits \subseteq Nat
  BY <1>1
<1>3. \A i \in 1..6 : i \notin hits
  BY <1>1, PointerFamilies, PureFamilies
<1>4. \A i \in 1..(k - 1) : i \notin hits
  <2> SUFFICES ASSUME NEW i \in 1..(k - 1), i \notin 1..6 PROVE i \notin hits
    BY <1>3
  <2>1. (i = 7 /\ g \in {"pure_i64", "unary"}) \/ (i = 8 /\ g = "unary")
    OBVIOUS
  <2> QED BY <1>1, <2>1
<1>5. \A i \in hits : i \in 1..11
  BY <1>1
<1>6. FamilyOf(Families, c) = IF hits = {} THEN "none" ELSE Families[Least(hits)]
  BY Zenon DEF FamilyOf
<1> HIDE DEF hits
<1>7. Least(hits) \in hits /\ Least(hits) <= k
  BY <1>2, LeastIs
<1>8. Least(hits) = k
  BY <1>1, <1>4, <1>5, <1>7
<1> QED BY <1>1, <1>2, <1>6, <1>8

\* Only the contracts of these families accept external cases.
LEMMA ExternalFacts ==
    ASSUME NEW c \in Contracts, NEW inputs \in ExternalCases,
           derive_external_vector(c, inputs).inputs # <<>>
    PROVE  derive_external_vector(c, inputs) \in Form(FamilyOf(Families, c))
<1> DEFINE v == derive_external_vector(c, inputs)
           p == ShapeIn("pure", c)
           q == ShapeIn("pure_i64", c)
           u == ShapeIn("unary", c)
           f == FamilyOf(Families, c)
<1>1. inputs \in Seq(Values) /\ Len(inputs) \in Nat
  BY HarnessAssumption
<1>2. Rejected.inputs = <<>>
  BY DEF Rejected
<1>3. p = pure_int_shape(c) /\ q = pure_int_i64_shape(c) /\ u = pure_int_unary_i64_shape(c)
  BY DEF ShapeIn
<1>4. Len(inputs) = Len(c.params)
  BY <1>2 DEF derive_external_vector
<1>5. \A i \in Nat \ {0} : i <= Len(inputs) => (IsU64(inputs[i]) \/ IsI64(inputs[i]) => inputs[i].v \in Int)
  <2> SUFFICES ASSUME NEW i \in Nat \ {0}, i <= Len(inputs), IsU64(inputs[i]) \/ IsI64(inputs[i])
               PROVE  inputs[i].v \in Int
    OBVIOUS
  <2>1. inputs[i] \in Values
    BY <1>1
  <2> QED BY <2>1, ValueFacts DEF IsU64, IsI64, IsNumber
<1>6. \A e \in Int : External(inputs, e) \in VectorType /\ External(inputs, e).inputs = inputs
  BY <1>1 DEF External, Vector, VectorType
<1>7. CASE Found(p)
  <2>1. p.op \in {"Min", "Max"} /\ f = "pure"
    BY <1>7, ShapeFacts, PureFamily DEF Shaped, FamilyNames
  <2>2. Len(inputs) >= 2
    BY <1>4, <1>7, PureFamilies
  <2>3. /\ IsU64(inputs[1]) /\ IsU64(inputs[2])
        /\ v = External(inputs, PureIntOp_reduce(p.op, inputs[1].v, inputs[2].v))
    BY <1>2, <1>3, <1>7 DEF derive_external_vector, Found
  <2>4. inputs[1].v \in Int /\ inputs[2].v \in Int
    BY <1>5, <2>2, <2>3
  <2>5. PureIntOp_reduce(p.op, inputs[1].v, inputs[2].v) \in Int
    BY <2>1, <2>4, ReduceTypes
  <2>6. v \in VectorType /\ v.inputs = inputs
    BY <1>6, <2>3, <2>5
  <2> HIDE DEF v
  <2>7. v \in Form("pure")
    BY <2>2, <2>6 DEF Form, IsBinary
  <2> QED BY <2>1, <2>7 DEF v
<1>8. CASE ~Found(p) /\ Found(q)
  <2>1. q.op \in BinaryOps /\ f = "pure_i64"
    BY <1>8, ShapeFacts, PureFamily DEF Shaped, FamilyNames
  <2>2. Len(inputs) >= 2
    BY <1>4, <1>8, PureFamilies
  <2>3. /\ IsI64(inputs[1]) /\ IsI64(inputs[2])
        /\ v = External(inputs, PureIntI64Op_reduce(q.op, inputs[1].v, inputs[2].v))
    BY <1>2, <1>3, <1>8 DEF derive_external_vector, Found
  <2>4. inputs[1].v \in Int /\ inputs[2].v \in Int
    BY <1>5, <2>2, <2>3
  <2>5. PureIntI64Op_reduce(q.op, inputs[1].v, inputs[2].v) \in Int
    BY <2>1, <2>4, ReduceTypes
  <2>6. v \in VectorType /\ v.inputs = inputs
    BY <1>6, <2>3, <2>5
  <2> HIDE DEF v
  <2>7. v \in Form("pure_i64")
    BY <2>2, <2>6 DEF Form, IsBinary
  <2> QED BY <2>1, <2>7 DEF v
<1>9. CASE ~Found(p) /\ ~Found(q)
  <2>1. Found(u) /\ IsI64(inputs[1])
    BY <1>2, <1>3, <1>9 DEF derive_external_vector, Found
  <2>2. u.op \in UnaryOps /\ f = "unary"
    BY <1>9, <2>1, ShapeFacts, PureFamily DEF Shaped, FamilyNames
  <2>3. Len(inputs) >= 1
    BY <1>4, <2>1, PureFamilies
  <2>4. v = External(inputs, PureIntUnaryI64Op_reduce(u.op, inputs[1].v))
    BY <1>2, <1>3, <1>9 DEF derive_external_vector, Found
  <2>5. inputs[1].v \in Int
    BY <1>5, <2>1, <2>3
  <2>6. PureIntUnaryI64Op_reduce(u.op, inputs[1].v) \in Int
    BY <2>2, <2>5, ReduceTypes
  <2>7. v \in VectorType /\ v.inputs = inputs
    BY <1>6, <2>4, <2>6
  <2> HIDE DEF v
  <2>8. v \in Form("unary")
    BY <2>3, <2>7 DEF Form, IsUnary
  <2> QED BY <2>2, <2>8 DEF v
<1> QED BY <1>7, <1>8, <1>9


-----------------------------------------------------------------------------
(* The programs: their data sections, their loads, what they echo.         *)

Labels == {"len", "needle", "replacement", "buf", "a", "b", "value"}
Region == {r \in [cells : Seq(Int), base : 0..1] : Len(r.cells) > 0}

\* A data section, or the memory it has become.
IsSection(d) ==
    /\ d = [l \in DOMAIN d |-> d[l]] /\ DOMAIN d \subseteq Labels
    /\ \A l \in DOMAIN d : d[l] \in Region

DataOf(s, v) ==
    CASE s = "BufferScan" -> emit_vector_data(v)
      [] s = "ReplaceByte" -> emit_replace_byte_vector_data(v)
      [] s = "Memset" -> emit_memset_vector_data(v)
      [] s = "MemCmp" -> emit_memcmp_vector_data(v)
      [] s = "Memcpy" -> emit_memcpy_vector_data(v)
      [] s = "I64Sum" -> emit_i64_sum_vector_data(v)
      [] s = "PureInt" -> emit_pure_int_vector_data(v)
      [] s = "PureIntUnary" -> emit_pure_int_unary_vector_data(v)
      [] s = "CellLoad" -> emit_cell_load_vector_data(v)
      [] s = "CellStore" -> emit_cell_store_vector_data(v)

EchoOf(s) == IF s \in {"ReplaceByte", "Memset"} THEN <<"buf">> ELSE IF s = "Memcpy" THEN <<"a", "b">> ELSE <<>>

\* A program with these data and this echo, whose loads have labels in the data.
Wired(p, data, echo) ==
    /\ p.data = data /\ p.echo = echo /\ DOMAIN p.loads \subseteq 1..4
    /\ \A j \in DOMAIN p.loads : p.loads[j].label \in DOMAIN data

\* Every program has the data and the echo of its shape, whatever the ABI.
LEMMA ProgramFacts ==
    ASSUME NEW a \in Abis, NEW s \in HarnessShapes, Generates(a, s), NEW v
    PROVE  Wired(generate_harness(a, s, v), DataOf(s, v), EchoOf(s))
<1> DEFINE p == generate_harness(a, s, v)
<1>1. CASE s = "BufferScan"
  <2>1. CASE a = "SysVAmd64"
    <3>1. p = generate_sysv_buffer_harness(v)
      BY <1>1, <2>1 DEF generate_harness
    <3> QED BY <1>1, <3>1 DEF Wired, DataOf, EchoOf, generate_sysv_buffer_harness, Program,
                Lea, LeaOrNull, Mov, N, emit_vector_data
  <2>2. CASE a = "WindowsX64"
    <3>1. p = generate_win64_buffer_harness(v)
      BY <1>1, <2>2 DEF generate_harness
    <3> QED BY <1>1, <3>1 DEF Wired, DataOf, EchoOf, generate_win64_buffer_harness, Program,
                Lea, LeaOrNull, Mov, N, emit_vector_data
  <2>3. CASE a = "Aapcs64"
    <3>1. p = generate_aapcs64_buffer_harness(v)
      BY <1>1, <2>3 DEF generate_harness
    <3> QED BY <1>1, <3>1 DEF Wired, DataOf, EchoOf, generate_aapcs64_buffer_harness, Program,
                Lea, LeaOrNull, Mov, X, emit_gas_vector_data, emit_vector_data
  <2>4. CASE a = "Riscv"
    <3>1. p = generate_riscv_buffer_harness(v)
      BY <1>1, <2>4 DEF generate_harness
    <3> QED BY <1>1, <3>1 DEF Wired, DataOf, EchoOf, generate_riscv_buffer_harness, Program,
                Lea, LeaOrNull, Mov, A, emit_gas_vector_data, emit_vector_data
  <2> QED BY <2>1, <2>2, <2>3, <2>4 DEF Abis
<1>2. CASE s = "ReplaceByte"
  <2>1. CASE a = "SysVAmd64"
    <3>1. p = generate_sysv_replace_byte_harness(v)
      BY <1>2, <2>1 DEF generate_harness
    <3> QED BY <1>2, <3>1 DEF Wired, DataOf, EchoOf, generate_sysv_replace_byte_harness, Program,
                Lea, LeaOrNull, Mov, N, emit_replace_byte_vector_data
  <2>2. CASE a = "WindowsX64"
    <3>1. p = generate_win64_replace_byte_harness(v)
      BY <1>2, <2>2 DEF generate_harness
    <3> QED BY <1>2, <3>1 DEF Wired, DataOf, EchoOf, generate_win64_replace_byte_harness, Program,
                Lea, LeaOrNull, Mov, N, emit_replace_byte_vector_data
  <2>3. CASE a = "Aapcs64"
    <3>1. p = generate_aapcs64_replace_byte_harness(v)
      BY <1>2, <2>3 DEF generate_harness
    <3> QED BY <1>2, <3>1 DEF Wired, DataOf, EchoOf, generate_aapcs64_replace_byte_harness, Program,
                Lea, LeaOrNull, Mov, X, emit_gas_replace_byte_vector_data, emit_replace_byte_vector_data
  <2>4. CASE a = "Riscv"
    <3>1. p = generate_riscv_replace_byte_harness(v)
      BY <1>2, <2>4 DEF generate_harness
    <3> QED BY <1>2, <3>1 DEF Wired, DataOf, EchoOf, generate_riscv_replace_byte_harness, Program,
                Lea, LeaOrNull, Mov, A, emit_gas_replace_byte_vector_data, emit_replace_byte_vector_data
  <2> QED BY <2>1, <2>2, <2>3, <2>4 DEF Abis
<1>3. CASE s = "Memset"
  <2>1. CASE a = "SysVAmd64"
    <3>1. p = generate_sysv_memset_harness(v)
      BY <1>3, <2>1 DEF generate_harness
    <3> QED BY <1>3, <3>1 DEF Wired, DataOf, EchoOf, generate_sysv_memset_harness, Program,
                Lea, LeaOrNull, Mov, N, emit_memset_vector_data
  <2>2. CASE a = "WindowsX64"
    <3>1. p = generate_win64_memset_harness(v)
      BY <1>3, <2>2 DEF generate_harness
    <3> QED BY <1>3, <3>1 DEF Wired, DataOf, EchoOf, generate_win64_memset_harness, Program,
                Lea, LeaOrNull, Mov, N, emit_memset_vector_data
  <2>3. CASE a = "Aapcs64"
    <3>1. p = generate_aapcs64_memset_harness(v)
      BY <1>3, <2>3 DEF generate_harness
    <3> QED BY <1>3, <3>1 DEF Wired, DataOf, EchoOf, generate_aapcs64_memset_harness, Program,
                Lea, LeaOrNull, Mov, X, emit_gas_memset_vector_data, emit_memset_vector_data
  <2>4. CASE a = "Riscv"
    <3>1. p = generate_riscv_memset_harness(v)
      BY <1>3, <2>4 DEF generate_harness
    <3> QED BY <1>3, <3>1 DEF Wired, DataOf, EchoOf, generate_riscv_memset_harness, Program,
                Lea, LeaOrNull, Mov, A, emit_gas_memset_vector_data, emit_memset_vector_data
  <2> QED BY <2>1, <2>2, <2>3, <2>4 DEF Abis
<1>4. CASE s = "MemCmp"
  <2>1. CASE a = "SysVAmd64"
    <3>1. p = generate_sysv_memcmp_harness(v)
      BY <1>4, <2>1 DEF generate_harness
    <3> QED BY <1>4, <3>1 DEF Wired, DataOf, EchoOf, generate_sysv_memcmp_harness, Program,
                Lea, LeaOrNull, Mov, N, emit_memcmp_vector_data
  <2>2. CASE a = "WindowsX64"
    <3>1. p = generate_win64_memcmp_harness(v)
      BY <1>4, <2>2 DEF generate_harness
    <3> QED BY <1>4, <3>1 DEF Wired, DataOf, EchoOf, generate_win64_memcmp_harness, Program,
                Lea, LeaOrNull, Mov, N, emit_memcmp_vector_data
  <2>3. CASE a = "Aapcs64"
    <3>1. p = generate_aapcs64_memcmp_harness(v)
      BY <1>4, <2>3 DEF generate_harness
    <3> QED BY <1>4, <3>1 DEF Wired, DataOf, EchoOf, generate_aapcs64_memcmp_harness, Program,
                Lea, LeaOrNull, Mov, X, emit_gas_memcmp_vector_data, emit_memcmp_vector_data
  <2>4. CASE a = "Riscv"
    <3>1. p = generate_riscv_memcmp_harness(v)
      BY <1>4, <2>4 DEF generate_harness
    <3> QED BY <1>4, <3>1 DEF Wired, DataOf, EchoOf, generate_riscv_memcmp_harness, Program,
                Lea, LeaOrNull, Mov, A, emit_gas_memcmp_vector_data, emit_memcmp_vector_data
  <2> QED BY <2>1, <2>2, <2>3, <2>4 DEF Abis
<1>5. CASE s = "Memcpy"
  <2>1. CASE a = "SysVAmd64"
    <3>1. p = generate_sysv_memcpy_harness(v)
      BY <1>5, <2>1 DEF generate_harness
    <3> QED BY <1>5, <3>1 DEF Wired, DataOf, EchoOf, generate_sysv_memcpy_harness, Program,
                Lea, LeaOrNull, Mov, N, emit_memcpy_vector_data
  <2>2. CASE a = "WindowsX64"
    <3>1. p = generate_win64_memcpy_harness(v)
      BY <1>5, <2>2 DEF generate_harness
    <3> QED BY <1>5, <3>1 DEF Wired, DataOf, EchoOf, generate_win64_memcpy_harness, Program,
                Lea, LeaOrNull, Mov, N, emit_memcpy_vector_data
  <2>3. CASE a = "Aapcs64"
    <3>1. p = generate_aapcs64_memcpy_harness(v)
      BY <1>5, <2>3 DEF generate_harness
    <3> QED BY <1>5, <3>1 DEF Wired, DataOf, EchoOf, generate_aapcs64_memcpy_harness, Program,
                Lea, LeaOrNull, Mov, X, emit_gas_memcpy_vector_data, emit_memcpy_vector_data
  <2>4. CASE a = "Riscv"
    <3>1. p = generate_riscv_memcpy_harness(v)
      BY <1>5, <2>4 DEF generate_harness
    <3> QED BY <1>5, <3>1 DEF Wired, DataOf, EchoOf, generate_riscv_memcpy_harness, Program,
                Lea, LeaOrNull, Mov, A, emit_gas_memcpy_vector_data, emit_memcpy_vector_data
  <2> QED BY <2>1, <2>2, <2>3, <2>4 DEF Abis
<1>6. CASE s = "I64Sum"
  <2>1. CASE a = "SysVAmd64"
    <3>1. p = generate_sysv_i64_sum_harness(v)
      BY <1>6, <2>1 DEF generate_harness
    <3> QED BY <1>6, <3>1 DEF Wired, DataOf, EchoOf, generate_sysv_i64_sum_harness, Program,
                Lea, LeaOrNull, Mov, N, emit_i64_sum_vector_data
  <2>2. CASE a = "WindowsX64"
    <3>1. p = generate_win64_i64_sum_harness(v)
      BY <1>6, <2>2 DEF generate_harness
    <3> QED BY <1>6, <3>1 DEF Wired, DataOf, EchoOf, generate_win64_i64_sum_harness, Program,
                Lea, LeaOrNull, Mov, N, emit_i64_sum_vector_data
  <2>3. CASE a = "Aapcs64"
    <3>1. p = generate_aapcs64_i64_sum_harness(v)
      BY <1>6, <2>3 DEF generate_harness
    <3> QED BY <1>6, <3>1 DEF Wired, DataOf, EchoOf, generate_aapcs64_i64_sum_harness, Program,
                Lea, LeaOrNull, Mov, X, emit_gas_i64_sum_vector_data, emit_i64_sum_vector_data
  <2>4. CASE a = "Riscv"
    <3>1. p = generate_riscv_i64_sum_harness(v)
      BY <1>6, <2>4 DEF generate_harness
    <3> QED BY <1>6, <3>1 DEF Wired, DataOf, EchoOf, generate_riscv_i64_sum_harness, Program,
                Lea, LeaOrNull, Mov, A, emit_gas_i64_sum_vector_data, emit_i64_sum_vector_data
  <2> QED BY <2>1, <2>2, <2>3, <2>4 DEF Abis
<1>7. CASE s = "PureInt"
  <2>1. CASE a = "SysVAmd64"
    <3>1. p = generate_sysv_pure_int_harness(v)
      BY <1>7, <2>1 DEF generate_harness
    <3> QED BY <1>7, <3>1 DEF Wired, DataOf, EchoOf, generate_sysv_pure_int_harness, Program,
                Lea, LeaOrNull, Mov, N, emit_pure_int_vector_data
  <2>2. CASE a = "WindowsX64"
    <3>1. p = generate_win64_pure_int_harness(v)
      BY <1>7, <2>2 DEF generate_harness
    <3> QED BY <1>7, <3>1 DEF Wired, DataOf, EchoOf, generate_win64_pure_int_harness, Program,
                Lea, LeaOrNull, Mov, N, emit_pure_int_vector_data
  <2>3. CASE a = "Aapcs64"
    <3>1. p = generate_aapcs64_pure_int_harness(v)
      BY <1>7, <2>3 DEF generate_harness
    <3> QED BY <1>7, <3>1 DEF Wired, DataOf, EchoOf, generate_aapcs64_pure_int_harness, Program,
                Lea, LeaOrNull, Mov, X, emit_gas_pure_int_vector_data, emit_pure_int_vector_data
  <2>4. CASE a = "Riscv"
    <3>1. p = generate_riscv_pure_int_harness(v)
      BY <1>7, <2>4 DEF generate_harness
    <3> QED BY <1>7, <3>1 DEF Wired, DataOf, EchoOf, generate_riscv_pure_int_harness, Program,
                Lea, LeaOrNull, Mov, A, emit_gas_pure_int_vector_data, emit_pure_int_vector_data
  <2> QED BY <2>1, <2>2, <2>3, <2>4 DEF Abis
<1>8. CASE s = "PureIntUnary"
  <2>1. CASE a = "SysVAmd64"
    <3>1. p = generate_sysv_pure_int_unary_harness(v)
      BY <1>8, <2>1 DEF generate_harness
    <3> QED BY <1>8, <3>1 DEF Wired, DataOf, EchoOf, generate_sysv_pure_int_unary_harness, Program,
                Lea, LeaOrNull, Mov, N, emit_pure_int_unary_vector_data
  <2>2. CASE a = "WindowsX64"
    <3>1. p = generate_win64_pure_int_unary_harness(v)
      BY <1>8, <2>2 DEF generate_harness
    <3> QED BY <1>8, <3>1 DEF Wired, DataOf, EchoOf, generate_win64_pure_int_unary_harness, Program,
                Lea, LeaOrNull, Mov, N, emit_pure_int_unary_vector_data
  <2>3. CASE a = "Aapcs64"
    <3>1. p = generate_aapcs64_pure_int_unary_harness(v)
      BY <1>8, <2>3 DEF generate_harness
    <3> QED BY <1>8, <3>1 DEF Wired, DataOf, EchoOf, generate_aapcs64_pure_int_unary_harness, Program,
                Lea, LeaOrNull, Mov, X, emit_gas_pure_int_unary_vector_data, emit_pure_int_unary_vector_data
  <2>4. CASE a = "Riscv"
    <3>1. p = generate_riscv_pure_int_unary_harness(v)
      BY <1>8, <2>4 DEF generate_harness
    <3> QED BY <1>8, <3>1 DEF Wired, DataOf, EchoOf, generate_riscv_pure_int_unary_harness, Program,
                Lea, LeaOrNull, Mov, A, emit_gas_pure_int_unary_vector_data, emit_pure_int_unary_vector_data
  <2> QED BY <2>1, <2>2, <2>3, <2>4 DEF Abis
<1>9. CASE s = "CellLoad"
  <2>1. CASE a = "SysVAmd64"
    <3>1. p = generate_sysv_cell_load_harness(v)
      BY <1>9, <2>1 DEF generate_harness
    <3> QED BY <1>9, <3>1 DEF Wired, DataOf, EchoOf, generate_sysv_cell_load_harness, Program,
                Lea, LeaOrNull, Mov, N, emit_cell_load_vector_data
  <2>2. CASE a = "WindowsX64"
    <3>1. p = generate_win64_cell_load_harness(v)
      BY <1>9, <2>2 DEF generate_harness
    <3> QED BY <1>9, <3>1 DEF Wired, DataOf, EchoOf, generate_win64_cell_load_harness, Program,
                Lea, LeaOrNull, Mov, N, emit_cell_load_vector_data
  <2> QED BY <1>9, <2>1, <2>2 DEF Generates
<1>10. CASE s = "CellStore"
  <2>1. CASE a = "SysVAmd64"
    <3>1. p = generate_sysv_cell_store_harness(v)
      BY <1>10, <2>1 DEF generate_harness
    <3> QED BY <1>10, <3>1 DEF Wired, DataOf, EchoOf, generate_sysv_cell_store_harness, Program,
                Lea, LeaOrNull, Mov, N, emit_cell_store_vector_data
  <2>2. CASE a = "WindowsX64"
    <3>1. p = generate_win64_cell_store_harness(v)
      BY <1>10, <2>2 DEF generate_harness
    <3> QED BY <1>10, <3>1 DEF Wired, DataOf, EchoOf, generate_win64_cell_store_harness, Program,
                Lea, LeaOrNull, Mov, N, emit_cell_store_vector_data
  <2> QED BY <1>10, <2>1, <2>2 DEF Generates
<1> QED BY <1>1, <1>2, <1>3, <1>4, <1>5, <1>6, <1>7, <1>8, <1>9, <1>10 DEF HarnessShapes

\* Regions are typed.
LEMMA RegionTypes ==
    /\ \A n \in Int : Cell(n) \in Region
    /\ \A s \in Seq(Int) : /\ Plain(s) \in Region /\ Guarded(s) \in Region
                           /\ Len(guarded_region(s)) = Len(s) + 2 /\ guarded_region(s) \in Seq(Int)
<1>1. \A n \in Int : Cell(n) \in Region
  BY DEF Cell, Region
<1>2. ASSUME NEW s \in Seq(Int) PROVE Plain(s) \in Region
  <2>1. s # <<>> => Len(s) > 0
    OBVIOUS
  <2>2. <<0>> \in Seq(Int) /\ Len(<<0>>) > 0
    OBVIOUS
  <2>3. \A t \in Seq(Int) : Len(t) > 0 => [cells |-> t, base |-> 0] \in Region
    BY DEF Region
  <2> QED BY <2>1, <2>2, <2>3 DEF Plain
<1>3. ASSUME NEW s \in Seq(Int)
      PROVE  Len(guarded_region(s)) = Len(s) + 2 /\ guarded_region(s) \in Seq(Int)
  BY DEF guarded_region, WriteGuardPre, WriteGuardPost
<1>4. ASSUME NEW s \in Seq(Int) PROVE Guarded(s) \in Region
  BY <1>3 DEF Guarded, Region
<1> QED BY <1>1, <1>2, <1>3, <1>4

\* What the data sections hold of a vector.
LEMMA InputTypes ==
    ASSUME NEW v \in VectorType
    PROVE  /\ \A i \in 1..4 : /\ AsU64(Input(v, i)) \in Nat /\ vector_int_input(v, i) \in Int
                              /\ Items(Input(v, i)) \in Seq(Int)
                              /\ vector_memcmp_buffer_bytes(v, i) \in Seq(Int)
                              /\ Len(vector_memcmp_buffer_bytes(v, i)) = Len(Items(Input(v, i)))
           /\ vector_length(v) \in Nat /\ vector_needle(v) \in Int /\ vector_replacement(v) \in Int
           /\ vector_memcmp_length(v) \in Nat /\ AsU64(Input(v, 2)) % 256 \in Int
           /\ vector_buffer_bytes(v) \in Seq(Int) /\ vector_i64_words(v) \in Seq(Int)
<1>1. ASSUME NEW i \in 1..4
      PROVE  /\ AsU64(Input(v, i)) \in Nat /\ vector_int_input(v, i) \in Int
             /\ Items(Input(v, i)) \in Seq(Int)
             /\ vector_memcmp_buffer_bytes(v, i) \in Seq(Int)
             /\ Len(vector_memcmp_buffer_bytes(v, i)) = Len(Items(Input(v, i)))
  <2>1. Input(v, i) \in Values
    BY InputType
  <2>2. /\ AsU64(Input(v, i)) \in Nat /\ Items(Input(v, i)) \in Seq(Int)
        /\ IsNumber(Input(v, i)) => Input(v, i).v \in Int
    BY <2>1, ValueFacts
  <2>3. vector_int_input(v, i) \in Int
    BY <2>2, PowerFacts DEF vector_int_input, Bits
  <2>4. \A s \in Seq(Int) : LET t == [j \in DOMAIN s |-> Lesser(s[j], 255)] IN
                            t \in Seq(Int) /\ Len(t) = Len(s)
    <3> SUFFICES ASSUME NEW s \in Seq(Int)
                 PROVE  LET t == [j \in DOMAIN s |-> Lesser(s[j], 255)] IN t \in Seq(Int) /\ Len(t) = Len(s)
      OBVIOUS
    <3> DEFINE t == [j \in DOMAIN s |-> Lesser(s[j], 255)]
    <3>1. Len(s) \in Nat /\ t \in [1..Len(s) -> Int]
      BY DEF Lesser
    <3> HIDE DEF t
    <3>2. t \in Seq(Int) /\ Len(t) = Len(s)
      BY <3>1, FunctionSeq
    <3> QED BY <3>2 DEF t
  <2> QED BY <2>2, <2>3, <2>4 DEF vector_memcmp_buffer_bytes
<1> QED BY <1>1, SMTT(30) DEF vector_length, vector_needle, vector_replacement, vector_memcmp_length,
                    vector_buffer_bytes, vector_i64_words

\* The data section of any vector is one.
LEMMA DataType ==
    ASSUME NEW v \in VectorType, NEW s \in HarnessShapes
    PROVE  IsSection(DataOf(s, v))
<1> DEFINE len == Cell(vector_length(v))
           len3 == Cell(vector_memcmp_length(v))
           needle == Cell(vector_needle(v))
           replacement == Cell(vector_replacement(v))
           plain == Plain(vector_buffer_bytes(v))
           guarded == Guarded(vector_buffer_bytes(v))
           pa == Plain(vector_memcmp_buffer_bytes(v, 1))
           pb == Plain(vector_memcmp_buffer_bytes(v, 2))
           ga == Guarded(vector_memcmp_buffer_bytes(v, 1))
           gb == Guarded(vector_memcmp_buffer_bytes(v, 2))
           ia == Cell(vector_int_input(v, 1))
           ib == Cell(vector_int_input(v, 2))
           words == Plain(vector_i64_words(v))
           value == Cell(AsU64(Input(v, 2)) % 256)
<1>1. /\ len \in Region /\ len3 \in Region /\ needle \in Region /\ replacement \in Region
      /\ plain \in Region /\ guarded \in Region /\ pa \in Region /\ pb \in Region /\ ga \in Region
      /\ gb \in Region /\ ia \in Region /\ ib \in Region /\ words \in Region /\ value \in Region
  <2>1. /\ vector_length(v) \in Int /\ vector_memcmp_length(v) \in Int /\ vector_needle(v) \in Int
        /\ vector_replacement(v) \in Int /\ vector_int_input(v, 1) \in Int /\ vector_int_input(v, 2) \in Int
        /\ AsU64(Input(v, 2)) % 256 \in Int
        /\ vector_buffer_bytes(v) \in Seq(Int) /\ vector_i64_words(v) \in Seq(Int)
        /\ vector_memcmp_buffer_bytes(v, 1) \in Seq(Int) /\ vector_memcmp_buffer_bytes(v, 2) \in Seq(Int)
    BY InputTypes
  <2> QED BY <2>1, RegionTypes, Zenon
<1> HIDE DEF len, len3, needle, replacement, plain, guarded, pa, pb, ga, gb, ia, ib, words, value
<1>2. s = "BufferScan" => DataOf(s, v) = [len |-> len, needle |-> needle, buf |-> plain]
  BY DEF DataOf, emit_vector_data, len, needle, plain
<1>3. s = "ReplaceByte" =>
        DataOf(s, v) = [len |-> len, needle |-> needle, replacement |-> replacement, buf |-> guarded]
  BY DEF DataOf, emit_replace_byte_vector_data, len, needle, replacement, guarded
<1>4. s = "Memset" => DataOf(s, v) = [len |-> len, needle |-> needle, buf |-> guarded]
  BY DEF DataOf, emit_memset_vector_data, len, needle, guarded
<1>5. s = "MemCmp" => DataOf(s, v) = [len |-> len3, a |-> pa, b |-> pb]
  BY DEF DataOf, emit_memcmp_vector_data, len3, pa, pb
<1>6. s = "Memcpy" => DataOf(s, v) = [len |-> len3, a |-> ga, b |-> gb]
  BY DEF DataOf, emit_memcpy_vector_data, len3, ga, gb
<1>7. s = "I64Sum" => DataOf(s, v) = [len |-> len, buf |-> words]
  BY DEF DataOf, emit_i64_sum_vector_data, len, words
<1>8. s = "PureInt" => DataOf(s, v) = [a |-> ia, b |-> ib]
  BY DEF DataOf, emit_pure_int_vector_data, ia, ib
<1>9. s = "PureIntUnary" => DataOf(s, v) = [a |-> ia]
  BY DEF DataOf, emit_pure_int_unary_vector_data, ia
<1>10. s = "CellLoad" => DataOf(s, v) = [buf |-> plain]
  BY DEF DataOf, emit_cell_load_vector_data, plain
<1>11. s = "CellStore" => DataOf(s, v) = [buf |-> plain, value |-> value]
  BY DEF DataOf, emit_cell_store_vector_data, plain, value
<1> QED BY <1>1, <1>2, <1>3, <1>4, <1>5, <1>6, <1>7, <1>8, <1>9, <1>10, <1>11
        DEF IsSection, Labels, HarnessShapes


-----------------------------------------------------------------------------
(* Memory, arguments and what the oracle claims, by their types.           *)

Words == 0..(Words2 - 1)

\* Memory made of a data section: the regions keep their size.
Remembers(d, m) ==
    /\ IsSection(m) /\ DOMAIN m = DOMAIN d
    /\ \A l \in DOMAIN d : Len(m[l].cells) = Len(d[l].cells)

\* A number, or an address that does not lie before its region.
IsArgument(m, p) == p.n \in Int /\ (p.region \in DOMAIN m => p.n \in Nat)

\* What can be read through a pointer is a sequence of integers.
LEMMA CellsType ==
    ASSUME NEW m, IsSection(m), NEW p, IsArgument(m, p), NEW len \in Int, Readable(m, p, len)
    PROVE  Cells(m, p, len) \in Seq(Int) /\ (len \in Nat => Len(Cells(m, p, len)) = len)
<1>1. CASE len = 0
  BY <1>1 DEF Cells
<1>2. CASE len # 0
  <2> DEFINE c == m[p.region].cells
  <2>1. p.region \in DOMAIN m /\ p.n + len <= Len(c) /\ p.n \in Nat
    BY <1>2 DEF Readable, IsArgument
  <2>2. c \in Seq(Int)
    BY <2>1 DEF IsSection, Region
  <2>3. Cells(m, p, len) = SubSeq(c, p.n + 1, p.n + len)
    BY <1>2 DEF Cells
  <2> HIDE DEF c
  <2> QED BY <2>1, <2>2, <2>3, SMTT(30)
<1> QED BY <1>1, <1>2

\* A store keeps the sections.
LEMMA StoredType ==
    ASSUME NEW m, IsSection(m), NEW p, IsArgument(m, p), NEW cells \in Seq(Int)
    PROVE  Remembers(m, Stored(m, p, cells))
<1>1. CASE cells = <<>>
  BY <1>1 DEF Stored, Remembers
<1>2. CASE cells # <<>>
  <2> DEFINE t(s) == [k \in DOMAIN s |-> IF k - p.n \in DOMAIN cells THEN cells[k - p.n] ELSE s[k]]
             n == Stored(m, p, cells)
  <2>1. n = [m EXCEPT ![p.region].cells = t(@)]
    BY <1>2 DEF Stored
  <2>2. ASSUME NEW s \in Seq(Int) PROVE t(s) \in Seq(Int) /\ Len(t(s)) = Len(s)
    <3>1. Len(s) \in Nat /\ t(s) \in [1..Len(s) -> Int]
      BY DEF IsArgument
    <3> HIDE DEF t
    <3> QED BY <3>1, FunctionSeq
  <2> HIDE DEF t
  <2>3. DOMAIN n = DOMAIN m
    BY <2>1
  <2>4. ASSUME NEW l \in DOMAIN m PROVE n[l] \in Region /\ Len(n[l].cells) = Len(m[l].cells)
    <3>1. m[l] \in Region /\ m[l].cells \in Seq(Int)
      BY DEF IsSection, Region
    <3>2. CASE l # p.region
      BY <2>1, <3>1, <3>2
    <3>3. CASE l = p.region
      <4>1. n[l] = [m[l] EXCEPT !.cells = t(m[l].cells)]
        BY <2>1, <3>3
      <4>2. n[l] \in [cells : Seq(Int), base : 0..1] /\ n[l].cells = t(m[l].cells)
        BY <2>2, <3>1, <4>1 DEF Region
      <4> QED BY <2>2, <3>1, <4>2 DEF Region
    <3> QED BY <3>2, <3>3
  <2>5. n = [l \in DOMAIN n |-> n[l]]
    BY <2>1 DEF IsSection
  <2> HIDE DEF n
  <2> QED BY <2>3, <2>4, <2>5 DEF Remembers, IsSection, n
<1> QED BY <1>1, <1>2

SumIs(s, g) == g = [k \in 0..Len(s) |-> IF k = 0 THEN 0 ELSE Wrap(g[k - 1] + s[k])]

\* The sum of integers is an integer.
LEMMA SumType == ASSUME NEW s \in Seq(Int) PROVE Sum(s) \in Int
<1> DEFINE n == Len(s)
           G == [k \in 0..n |-> [g \in [0..n -> Int] |-> IF k = 0 THEN 0 ELSE Wrap(g[k - 1] + s[k])]]
<1>0. n \in Nat
  OBVIOUS
<1>1. ASSUME NEW k \in 0..n, NEW g \in [0..n -> Int]
      PROVE  /\ G[k][g] = IF k = 0 THEN 0 ELSE Wrap(g[k - 1] + s[k])
             /\ G[k][g] \in Int
             /\ k # 0 => k - 1 \in 0..(k - 1)
  <2>1. k # 0 => k - 1 \in 0..(k - 1) /\ k - 1 \in 0..n /\ k \in 1..Len(s)
    BY <1>0
  <2>2. k # 0 => g[k - 1] \in Int /\ s[k] \in Int
    BY <2>1
  <2>3. k # 0 => g[k - 1] + s[k] \in Int
    BY <2>2
  <2>4. k # 0 => Wrap(g[k - 1] + s[k]) \in Int
    BY <2>3, WordTypes
  <2>5. G[k][g] = IF k = 0 THEN 0 ELSE Wrap(g[k - 1] + s[k])
    OBVIOUS
  <2> QED BY <2>1, <2>4, <2>5
<1> HIDE DEF G
<1>2. Causal(0, n, Int, G)
  BY <1>1 DEF Causal
<1>3. PICK f : Iterates(0, n, Int, G, f)
  <2>1. Int # {} /\ 0 \in Nat /\ n \in Int /\ 0 <= n + 1
    BY <1>0
  <2> HIDE DEF n
  <2> QED BY <1>2, <2>1, Iteration
<1>4. SumIs(s, f) /\ f \in [0..n -> Int]
  BY <1>1, <1>3 DEF Iterates, SumIs
<1>5. Sum(s) = (CHOOSE g : SumIs(s, g))[Len(s)]
  BY Zenon DEF Sum, SumIs
<1>6. \E g : SumIs(s, g)
  BY <1>4
<1>7. PICK h : h = (CHOOSE g : SumIs(s, g))
  OBVIOUS
<1>8. SumIs(s, h)
  BY <1>6, <1>7, Zenon
<1>9. h = [k \in 0..n |-> h[k]] /\ h[0] = 0 /\ \A k \in 1..n : h[k] = Wrap(h[k - 1] + s[k])
  BY <1>0, <1>8 DEF SumIs
<1> DEFINE S == {k \in 0..n : h[k] \in Int}
<1>10. ASSUME NEW k \in 0..n, 0..(k - 1) \subseteq S PROVE k \in S
  <2>1. CASE k = 0
    BY <1>9, <2>1
  <2>2. CASE k # 0
    <3>1. k - 1 \in 0..(k - 1) /\ k \in 1..Len(s)
      BY <1>0, <2>2
    <3>2. h[k - 1] \in Int /\ s[k] \in Int
      BY <1>10, <3>1
    <3>3. h[k - 1] + s[k] \in Int
      BY <3>2
    <3>4. h[k] \in Int
      BY <1>9, <3>1, <3>3, WordTypes
    <3> QED BY <3>4
  <2> QED BY <2>1, <2>2
<1> HIDE DEF S
<1>11. 0..n \subseteq S
  <2>1. 0 \in Nat /\ n \in Int
    BY <1>0
  <2> HIDE DEF n
  <2> QED BY <1>10, <2>1, Induction
<1>12. n \in S
  BY <1>0, <1>11
<1> QED BY <1>5, <1>7, <1>12 DEF S

\* A set of positions has a greatest one.
LEMMA GreatestIs ==
    ASSUME NEW n \in Nat, NEW T, T \subseteq 1..n, T # {}
    PROVE  Greatest(T) \in T
<1> DEFINE U == {k \in 0..n : n - k \in T}
<1>1. U \subseteq Nat /\ U # {}
  <2>1. PICK x \in T : TRUE
    OBVIOUS
  <2>2. n - x \in 0..n /\ n - (n - x) = x
    OBVIOUS
  <2>3. n - x \in U /\ U \subseteq 0..n
    BY <2>2
  <2>4. 0..n \subseteq Nat
    OBVIOUS
  <2> HIDE DEF U
  <2> QED BY <2>3, <2>4
<1>2. PICK k \in U : \A j \in U : k <= j
  BY <1>1, LeastExists
<1>3. n - k \in T /\ \A y \in T : n - k >= y
  <2>1. ASSUME NEW y \in T PROVE n - y \in U
    OBVIOUS
  <2> QED BY <1>2, <2>1
<1> QED BY <1>3 DEF Greatest

\* The positions of a byte are finitely many.
LEMMA PositionFacts ==
    ASSUME NEW s \in Seq(Int), NEW b
    PROVE  /\ Positions(s, b) \subseteq 1..Len(s) /\ Len(s) \in Nat
           /\ Cardinality(Positions(s, b)) \in Nat
           /\ Positions(s, b) # {} => /\ Least(Positions(s, b)) \in Int
                                      /\ Greatest(Positions(s, b)) \in Int
<1> DEFINE P == Positions(s, b)
<1>1. P \subseteq 1..Len(s) /\ Len(s) \in Nat /\ P \subseteq Nat
  BY DEF Positions
<1> HIDE DEF P
<1>2. IsFiniteSet(1..Len(s))
  BY <1>1, FS_Interval
<1>3. Cardinality(P) \in Nat
  BY <1>1, <1>2, FS_Subset, FS_CardinalityType
<1>4. P # {} => Least(P) \in P /\ Greatest(P) \in P
  BY <1>1, LeastIs, GreatestIs
<1>5. P # {} => Least(P) \in Int /\ Greatest(P) \in Int
  <2>1. \A i \in P : i \in Int
    BY <1>1
  <2> QED BY <1>4, <2>1, Zenon
<1> QED BY <1>1, <1>3, <1>5 DEF P

Operations == {"Count", "FindFirst", "FindLast", "ReplaceByte", "Memset", "Memcpy", "MemCmp", "Sum",
               "CellLoad", "CellStore"} \cup BinaryOps \cup UnaryOps

\* How many arguments an operation takes.
Arity(op) ==
    IF op = "ReplaceByte" THEN 4
    ELSE IF op \in {"Count", "FindFirst", "FindLast", "Memset", "Memcpy", "MemCmp"} THEN 3
    ELSE IF op \in BinaryOps \cup {"Sum", "CellStore"} THEN 2 ELSE 1

\* Arguments as the types of the parameters promise them.
Usable(op, m, x) ==
    /\ \A k \in 1..Arity(op) : IsArgument(m, x[k])
    /\ \A k \in PointerArgs(op) : Readable(m, x[k], LengthOf(op, x))

\* What a routine that only reads may claim.
Pure(result, m) == [result |-> Bits(result), mem |-> m]

Typed(c, m) == c.result \in Words /\ Remembers(m, c.mem)

\* An integer as the result.
LEMMA PureType ==
    ASSUME NEW m, IsSection(m), NEW n \in Int
    PROVE  Typed(Pure(n, m), m)
BY WordTypes DEF Typed, Pure, Words, Remembers

\* The claims of scans.
LEMMA ScanClaims ==
    ASSUME NEW op \in {"Count", "FindFirst", "FindLast"}, NEW signed, NEW m, IsSection(m), NEW x,
           Usable(op, m, x)
    PROVE  Typed(Claimed(op, signed, m, x), m)
<1> DEFINE s == Cells(m, x[1], x[2].n)
           hits == Positions(s, x[3].n)
<1>1. x[2].n \in Int /\ s \in Seq(Int)
  <2>1. IsArgument(m, x[1]) /\ x[2].n \in Int
    BY DEF Usable, Arity, IsArgument
  <2>2. Readable(m, x[1], x[2].n)
    BY DEF Usable, PointerArgs, LengthOf
  <2> QED BY <2>1, <2>2, CellsType
<1>2. Cardinality(hits) \in Int /\ (hits # {} => Least(hits) \in Int /\ Greatest(hits) \in Int)
  BY <1>1, PositionFacts
<1> HIDE DEF hits
<1>3. CASE op = "Count"
  <2>1. Claimed(op, signed, m, x) = Pure(Cardinality(hits), m)
    BY <1>3 DEF Claimed, Pure, LengthOf, hits
  <2> QED BY <1>2, <2>1, PureType
<1>4. CASE op = "FindFirst"
  <2> DEFINE r == IF hits = {} THEN x[2].n ELSE Least(hits) - 1
  <2>1. Claimed(op, signed, m, x) = Pure(r, m)
    BY <1>4 DEF Claimed, Pure, LengthOf, hits
  <2>2. r \in Int
    BY <1>1, <1>2
  <2> QED BY <2>1, <2>2, PureType
<1>5. CASE op = "FindLast"
  <2> DEFINE r == IF hits = {} THEN x[2].n ELSE Greatest(hits) - 1
  <2>1. Claimed(op, signed, m, x) = Pure(r, m)
    BY <1>5 DEF Claimed, Pure, LengthOf, hits
  <2>2. r \in Int
    BY <1>1, <1>2
  <2> QED BY <2>1, <2>2, PureType
<1> QED BY <1>3, <1>4, <1>5

\* The claims of the routines that write.
LEMMA WriteClaims ==
    ASSUME NEW op \in {"ReplaceByte", "Memset", "Memcpy", "CellStore"}, NEW signed, NEW m, IsSection(m),
           NEW x, Usable(op, m, x)
    PROVE  Typed(Claimed(op, signed, m, x), m)
<1> DEFINE len == LengthOf(op, x)
           s == Cells(m, x[1], len)
           hits == Positions(s, x[3].n)
           c == Claimed(op, signed, m, x)
<1>1. IsArgument(m, x[1]) /\ x[2].n \in Int /\ len \in Int
  BY DEF Usable, Arity, IsArgument, LengthOf, BinaryOps
<1>2. Readable(m, x[1], len) /\ s \in Seq(Int)
  <2>1. Readable(m, x[1], len)
    BY DEF Usable, PointerArgs
  <2> QED BY <1>1, <2>1, CellsType
<1>3. \A n \in Int, t \in Seq(Int) :
         Typed([result |-> Bits(n), mem |-> Stored(m, x[1], t)], m)
  BY <1>1, StoredType, WordTypes DEF Typed, Words
<1>4. Bits(0) = 0
  BY PowerFacts DEF Bits
<1>5. CASE op = "ReplaceByte"
  <2> DEFINE t == [i \in 1..len |-> IF i \in hits THEN x[4].n ELSE s[i]]
  <2>1. c = [result |-> Bits(Cardinality(hits)), mem |-> Stored(m, x[1], t)]
    BY <1>5 DEF Claimed
  <2>2. x[4].n \in Int /\ Cardinality(hits) \in Int
    BY <1>2, <1>5, PositionFacts DEF Usable, Arity, IsArgument
  <2>3. t \in Seq(Int)
    <3> HIDE DEF hits, s
    <3>1. CASE len \in Nat
      <4>1. Len(s) = len
        BY <1>1, <1>2, <3>1, CellsType DEF s
      <4>2. t \in [1..len -> Int]
        BY <1>2, <2>2, <3>1, <4>1
      <4> HIDE DEF t
      <4> QED BY <3>1, <4>2, FunctionSeq
    <3>2. CASE len \notin Nat
      <4>1. t \in [1..0 -> Int] /\ 0 \in Nat
        BY <1>1, <3>2
      <4> HIDE DEF t
      <4> QED BY <4>1, FunctionSeq
    <3> QED BY <3>1, <3>2
  <2> HIDE DEF t, hits
  <2> QED BY <1>3, <2>1, <2>2, <2>3
<1>6. CASE op = "Memset"
  <2> DEFINE t == Copies(x[3].n, len)
  <2>1. c = [result |-> 0, mem |-> Stored(m, x[1], t)]
    BY <1>6 DEF Claimed
  <2>2. t \in Seq(Int)
    <3>1. x[3].n \in Int
      BY <1>6 DEF Usable, Arity, IsArgument
    <3>2. CASE len \in Nat
      <4>1. t \in [1..len -> Int]
        BY <3>1 DEF Copies
      <4> HIDE DEF t
      <4> QED BY <3>2, <4>1, FunctionSeq
    <3>3. CASE len \notin Nat
      <4>1. t \in [1..0 -> Int] /\ 0 \in Nat
        BY <1>1, <3>1, <3>3 DEF Copies
      <4> HIDE DEF t
      <4> QED BY <4>1, FunctionSeq
    <3> QED BY <3>2, <3>3
  <2> HIDE DEF t
  <2>3. Typed([result |-> Bits(0), mem |-> Stored(m, x[1], t)], m)
    BY <1>3, <2>2
  <2> QED BY <1>4, <2>1, <2>3
<1>7. CASE op = "Memcpy"
  <2> DEFINE t == Cells(m, x[2], len)
  <2>1. c = [result |-> 0, mem |-> Stored(m, x[1], t)]
    BY <1>7 DEF Claimed
  <2>2. t \in Seq(Int)
    <3>1. IsArgument(m, x[2]) /\ Readable(m, x[2], len)
      BY <1>7 DEF Usable, Arity, PointerArgs
    <3> QED BY <1>1, <3>1, CellsType
  <2> HIDE DEF t
  <2>3. Typed([result |-> Bits(0), mem |-> Stored(m, x[1], t)], m)
    BY <1>3, <2>2
  <2> QED BY <1>4, <2>1, <2>3
<1>8. CASE op = "CellStore"
  <2>1. c = [result |-> Bits(x[2].n), mem |-> Stored(m, x[1], <<x[2].n>>)]
    BY <1>8 DEF Claimed
  <2>2. <<x[2].n>> \in Seq(Int)
    BY <1>1
  <2> QED BY <1>1, <1>3, <2>1, <2>2
<1> QED BY <1>5, <1>6, <1>7, <1>8

\* The claims of comparisons, sums and loads.
LEMMA ReadClaims ==
    ASSUME NEW op \in {"MemCmp", "Sum", "CellLoad"}, NEW signed, NEW m, IsSection(m), NEW x,
           Usable(op, m, x)
    PROVE  Typed(Claimed(op, signed, m, x), m)
<1> DEFINE len == LengthOf(op, x)
           s == Cells(m, x[1], len)
           t == Cells(m, x[2], len)
           differ == {i \in 1..len : s[i] # t[i]}
           c == Claimed(op, signed, m, x)
<1>1. IsArgument(m, x[1]) /\ Readable(m, x[1], len) /\ len \in Int
  BY DEF Usable, Arity, IsArgument, PointerArgs, LengthOf, BinaryOps
<1>2. s \in Seq(Int) /\ (len \in Nat => Len(s) = len)
  BY <1>1, CellsType
<1>3. CASE op = "MemCmp"
  <2> DEFINE r == IF differ = {} THEN 0 ELSE IF s[Least(differ)] < t[Least(differ)] THEN -1 ELSE 1
  <2>1. c = Pure(r, m)
    BY <1>3 DEF Claimed, Pure
  <2>2. r \in Int
    <3> HIDE DEF differ, s, t
    <3> QED OBVIOUS
  <2> QED BY <2>1, <2>2, PureType
<1>4. CASE op = "Sum"
  <2>1. c = Pure(Sum(s), m)
    BY <1>4 DEF Claimed, Pure
  <2> QED BY <1>2, <2>1, SumType, PureType
<1>5. CASE op = "CellLoad"
  <2>1. c = Pure(s[1], m) /\ len = 1
    BY <1>5 DEF Claimed, Pure, LengthOf
  <2>2. s[1] \in Int
    <3> HIDE DEF s
    <3> QED BY <1>2, <2>1
  <2> QED BY <2>1, <2>2, PureType
<1> QED BY <1>3, <1>4, <1>5

\* The sum of the numbers up to a number.
LEMMA RangeSumType == ASSUME NEW n \in Int PROVE Sum([i \in 1..n |-> i]) \in Int
<1> DEFINE s == [i \in 1..n |-> i]
<1>1. s \in Seq(Int)
  <2>1. CASE n \in Nat
    <3>1. s \in [1..n -> Int]
      OBVIOUS
    <3> HIDE DEF s
    <3> QED BY <2>1, <3>1, FunctionSeq
  <2>2. CASE n \notin Nat
    <3>1. s \in [1..0 -> Int] /\ 0 \in Nat
      BY <2>2
    <3> HIDE DEF s
    <3> QED BY <3>1, FunctionSeq
  <2> QED BY <2>1, <2>2
<1> HIDE DEF s
<1>2. Sum(s) \in Int
  BY <1>1, SumType
<1> QED BY <1>2 DEF s

\* The smaller and the larger of two integers.
LEMMA ChoiceType ==
    ASSUME NEW a \in Int, NEW b \in Int
    PROVE  /\ (CHOOSE v \in {a, b} : v <= a /\ v <= b) \in Int
           /\ (CHOOSE v \in {a, b} : v >= a /\ v >= b) \in Int
<1>1. (\E v \in {a, b} : v <= a /\ v <= b) /\ (\E v \in {a, b} : v >= a /\ v >= b)
  OBVIOUS
<1>2. /\ (CHOOSE v \in {a, b} : v <= a /\ v <= b) \in {a, b}
      /\ (CHOOSE v \in {a, b} : v >= a /\ v >= b) \in {a, b}
  BY <1>1
<1> QED BY <1>2

\* The claims of routines on integers.
LEMMA NumberClaims ==
    ASSUME NEW op \in BinaryOps \cup UnaryOps, NEW signed, NEW m, IsSection(m), NEW x,
           Usable(op, m, x)
    PROVE  Typed(Claimed(op, signed, m, x), m)
<1> DEFINE c == Claimed(op, signed, m, x)
           a == x[1].n
           b == x[2].n
           va == IF signed THEN Signed(a) ELSE a
           vb == IF signed THEN Signed(b) ELSE b
<1>1. a \in Int /\ (op \in BinaryOps => b \in Int)
  BY DEF Usable, Arity, IsArgument, BinaryOps, UnaryOps
<1>2. va \in Int /\ (op \in BinaryOps => vb \in Int)
  BY <1>1, WordTypes DEF Signed
<1>3. \A n \in Int : c = Pure(n, m) => Typed(c, m)
  BY PureType
<1>4. CASE op \in BinaryOps
  <2>1. op = "Min" => c = Pure(CHOOSE v \in {va, vb} : v <= va /\ v <= vb, m)
    BY DEF Claimed, Pure
  <2>2. op = "Max" => c = Pure(CHOOSE v \in {va, vb} : v >= va /\ v >= vb, m)
    BY DEF Claimed, Pure
  <2>3. op = "Add" => c = Pure(a + b, m)
    BY DEF Claimed, Pure
  <2>4. op = "Sub" => c = Pure(a - b, m)
    BY DEF Claimed, Pure
  <2>5. op = "AddThenDouble" => c = Pure(Bits(a + b) * 2, m)
    BY DEF Claimed, Pure
  <2> HIDE DEF c, a, b, va, vb
  <2>6. a + b \in Int /\ a - b \in Int
    BY <1>1, <1>4
  <2>7. Bits(a + b) * 2 \in Int
    BY <2>6, WordTypes
  <2>8. /\ (CHOOSE v \in {va, vb} : v <= va /\ v <= vb) \in Int
        /\ (CHOOSE v \in {va, vb} : v >= va /\ v >= vb) \in Int
    BY <1>2, <1>4, ChoiceType
  <2>9. Typed(c, m)
    BY <1>3, <1>4, <2>1, <2>2, <2>3, <2>4, <2>5, <2>6, <2>7, <2>8 DEF BinaryOps
  <2> QED BY <2>9 DEF c
<1>5. CASE op \in UnaryOps
  <2>1. op \in {"Identity", "Countdown"} => c = Pure(a, m)
    BY DEF Claimed, Pure
  <2>2. op = "Abs" => c = Pure(IF va < 0 THEN -va ELSE va, m)
    BY DEF Claimed, Pure
  <2>3. op = "SumRange" => c = Pure(Sum([i \in 1..va |-> i]), m)
    BY DEF Claimed, Pure
  <2>4. op = "Double" => c = Pure(2 * a, m)
    BY DEF Claimed, Pure
  <2>5. op = "Inc" => c = Pure(a + 1, m)
    BY DEF Claimed, Pure
  <2>6. op = "AddBase100" => c = Pure(a + 100, m)
    BY DEF Claimed, Pure
  <2> HIDE DEF c, a, b, va, vb
  <2>7. 2 * a \in Int /\ a + 1 \in Int /\ a + 100 \in Int /\ (IF va < 0 THEN -va ELSE va) \in Int
    BY <1>1, <1>2
  <2>8. Sum([i \in 1..va |-> i]) \in Int
    BY <1>2, RangeSumType
  <2>9. Typed(c, m)
    BY <1>1, <1>3, <1>5, <2>1, <2>2, <2>3, <2>4, <2>5, <2>6, <2>7, <2>8 DEF UnaryOps
  <2> QED BY <2>9 DEF c
<1> QED BY <1>4, <1>5

\* Every claim is a word, and leaves the regions their sizes.
LEMMA ClaimType ==
    ASSUME NEW op \in Operations, NEW signed, NEW m, IsSection(m), NEW x, Usable(op, m, x)
    PROVE  Typed(Claimed(op, signed, m, x), m)
BY ScanClaims, WriteClaims, ReadClaims, NumberClaims DEF Operations


-----------------------------------------------------------------------------
(* The invariant of types and of control.                                  *)

Family == FamilyOf(Families, contract)
Running == pc \in {"call", "results", "echo", "evaluate", "cut", "done"}

\* The echoed regions, counted through: how many, and the vector and the label
\* of each.
Regions == Len(vectors) * Len(EchoOf(shape))
VectorAt(k) == ((k - 1) \div Len(EchoOf(shape))) + 1
LabelAt(k) == EchoOf(shape)[((k - 1) % Len(EchoOf(shape))) + 1]
CellsAt(k) == mem[VectorAt(k)][LabelAt(k)].cells

\* The vectors have the form of the family, the memory of every vector the
\* regions of its program, and results are appended vector by vector.
Control ==
    /\ contract \in Contracts /\ abi \in Abis
    /\ pc \in {"synthesize", "external", "resolve", "generate", "failed"} \/ Running
    /\ pc \notin {"synthesize", "failed"} => Family # "none" /\ GoodVectors(Family, vectors)
    /\ pc = "generate" \/ Running => shape = oracle_expected_shape(Family)
    /\ results \in Seq(Words) /\ stdout \in Seq(Int)
    /\ Running =>
          /\ Generates(abi, shape)
          /\ mem = [i \in DOMAIN vectors |-> mem[i]]
          /\ \A i \in DOMAIN vectors : Remembers(ProgramOf(i).data, mem[i])
    /\ pc \in {"synthesize", "external", "resolve", "generate"} =>
          at = 1 /\ results = <<>> /\ stdout = <<>>
    /\ pc = "call" => at \in 1..Len(vectors) /\ Len(results) = at - 1 /\ stdout = <<>>
    /\ pc = "results" => at = 1 /\ Len(results) = Len(vectors) /\ stdout = <<>>
    /\ pc = "echo" => shape \in WriteShapes /\ at \in 1..Regions

\* What is known of the oracle of a recognised contract and its vectors.
LEMMA OracleFacts ==
    ASSUME NEW c \in Contracts, NEW f, f = FamilyOf(Families, c), f # "none"
    PROVE  LET o == recognize_behavior_oracle(c) IN
           /\ o.family = f /\ o.op \in Operations
           /\ oracle_expected_shape(f) \in HarnessShapes
           /\ \A v \in Form(f) : v \in VectorType /\ Arity(o.op) <= Len(v.inputs)
           /\ oracle_expected_shape(f) \in WriteShapes =>
                 /\ o.op = oracle_expected_shape(f)
                 /\ f \in {"replace", "memset", "memcpy"}
<1> DEFINE o == recognize_behavior_oracle(c)
           s == ShapeIn(f, c)
<1>1. f \in FamilyNames /\ Shaped(f, s)
  BY FamilyFacts
<1>2. o.family = f /\ o.op = s.op
  BY DEF recognize_behavior_oracle
<1> HIDE DEF s, o
<1>3. o.op \in Operations
  BY <1>1, <1>2 DEF Shaped, FamilyNames, Operations, BinaryOps
<1>4. oracle_expected_shape(f) \in HarnessShapes
  BY <1>1 DEF FamilyNames, oracle_expected_shape, HarnessShapes
<1>5. oracle_expected_shape(f) \in WriteShapes =>
                 /\ o.op = oracle_expected_shape(f)
                 /\ f \in {"replace", "memset", "memcpy"}
  BY <1>1, <1>2 DEF FamilyNames, oracle_expected_shape, WriteShapes, Shaped
<1>6. ASSUME NEW v \in Form(f) PROVE v \in VectorType /\ Arity(o.op) <= Len(v.inputs)
  <2>1. v \in VectorType
    BY DEF Form
  <2>2. f \in {"scan", "memset"} => Len(v.inputs) = 3
    BY DEF Form, IsScan, Vector
  <2>3. f = "replace" => Len(v.inputs) = 4
    BY DEF Form, IsReplace, Vector
  <2>4. f \in {"memcpy", "memcmp"} => Len(v.inputs) = 3
    BY DEF Form, IsPair, Vector
  <2>5. f = "sum" => Len(v.inputs) = 2
    BY DEF Form, IsSum, Vector
  <2>6. f \in {"pure", "pure_i64"} => Len(v.inputs) >= 2
    BY DEF Form, IsBinary
  <2>7. f = "unary" => Len(v.inputs) >= 1
    BY DEF Form, IsUnary
  <2>8. \A x, y, e : Len(Vector(<<x>>, e).inputs) = 1 /\ Len(Vector(<<x, y>>, e).inputs) = 2
    BY DEF Vector
  <2>9. f = "load" => Len(v.inputs) = 1
    BY <2>8, Zenon DEF Form, IsLoad
  <2>10. f = "store" => Len(v.inputs) = 2
    BY <2>8, Zenon DEF Form, IsStore
  <2>11. /\ f = "replace" => Arity(o.op) = 4
         /\ f \in {"scan", "memset", "memcpy", "memcmp"} => Arity(o.op) = 3
         /\ f \in {"sum", "pure", "pure_i64", "store"} => Arity(o.op) = 2
         /\ f \in {"unary", "load"} => Arity(o.op) = 1
    BY <1>1, <1>2 DEF Shaped, FamilyNames, Arity, BinaryOps, UnaryOps
  <2>12. f \in FamilyNames
    BY <1>1
  <2>13. Arity(o.op) <= Len(v.inputs)
    <3>1. PICK n, a : n = Len(v.inputs) /\ a = Arity(o.op)
      OBVIOUS
    <3>2. CASE f \in {"scan", "memset", "memcpy", "memcmp"}
      <4>1. n = 3 /\ a = 3
        BY <2>2, <2>4, <2>11, <3>1, <3>2
      <4> QED BY <3>1, <4>1
    <3>3. CASE f = "replace"
      <4>1. n = 4 /\ a = 4
        BY <2>3, <2>11, <3>1, <3>3
      <4> QED BY <3>1, <4>1
    <3>4. CASE f \in {"sum", "store"}
      <4>1. n = 2 /\ a = 2
        BY <2>5, <2>10, <2>11, <3>1, <3>4
      <4> QED BY <3>1, <4>1
    <3>5. CASE f \in {"pure", "pure_i64"}
      <4>1. n >= 2 /\ a = 2
        BY <2>6, <2>11, <3>1, <3>5, Zenon
      <4> QED BY <3>1, <4>1
    <3>6. CASE f = "load"
      <4>1. n = 1 /\ a = 1
        BY <2>9, <2>11, <3>1, <3>6
      <4> QED BY <3>1, <4>1
    <3>7. CASE f = "unary"
      <4>1. n >= 1 /\ a = 1
        BY <2>7, <2>11, <3>1, <3>7, Zenon
      <4> QED BY <3>1, <4>1
    <3> QED BY <2>12, <3>2, <3>3, <3>4, <3>5, <3>6, <3>7 DEF FamilyNames
  <2> QED BY <2>1, <2>13
<1> QED BY <1>2, <1>3, <1>4, <1>5, <1>6 DEF o

\* In a running process, every vector has a program that is wired for its shape.
LEMMA RunFacts ==
    ASSUME Control, Running
    PROVE  /\ vectors \in Seq(Form(Family)) /\ Len(vectors) \in Nat /\ Len(vectors) > 0
           /\ DOMAIN vectors = 1..Len(vectors)
           /\ shape \in HarnessShapes /\ shape = oracle_expected_shape(Family)
           /\ oracle.op \in Operations
           /\ IF shape \in WriteShapes
              THEN oracle.op = shape /\ Family \in {"replace", "memset", "memcpy"} /\ EchoOf(shape) # <<>>
              ELSE EchoOf(shape) = <<>>
           /\ \A i \in DOMAIN vectors :
                 /\ vectors[i] \in Form(Family) /\ vectors[i] \in VectorType
                 /\ Arity(oracle.op) <= Len(vectors[i].inputs) /\ Len(vectors[i].inputs) \in Nat
                 /\ Wired(ProgramOf(i), DataOf(shape, vectors[i]), EchoOf(shape))
                 /\ IsSection(DataOf(shape, vectors[i]))
                 /\ Remembers(DataOf(shape, vectors[i]), mem[i])
<1>1. /\ contract \in Contracts /\ abi \in Abis /\ Family # "none" /\ GoodVectors(Family, vectors)
      /\ shape = oracle_expected_shape(Family) /\ Generates(abi, shape)
      /\ \A i \in DOMAIN vectors : Remembers(ProgramOf(i).data, mem[i])
  BY DEF Control, Running
<1>2. /\ vectors \in Seq(Form(Family)) /\ Len(vectors) \in Nat /\ Len(vectors) > 0
      /\ DOMAIN vectors = 1..Len(vectors) /\ \A i \in DOMAIN vectors : vectors[i] \in Form(Family)
  <2> DEFINE F == Form(Family)
  <2>1. vectors \in Seq(F) /\ vectors # <<>>
    BY <1>1 DEF GoodVectors
  <2> HIDE DEF F
  <2>2. /\ Len(vectors) \in Nat /\ Len(vectors) > 0
        /\ DOMAIN vectors = 1..Len(vectors) /\ \A i \in DOMAIN vectors : vectors[i] \in F
    BY <2>1
  <2> QED BY <2>1, <2>2 DEF F
<1>3. /\ oracle.op \in Operations /\ shape \in HarnessShapes
      /\ \A v \in Form(Family) : v \in VectorType /\ Arity(oracle.op) <= Len(v.inputs)
      /\ shape \in WriteShapes => oracle.op = shape /\ Family \in {"replace", "memset", "memcpy"}
  <2>1. PICK f : f = Family
    OBVIOUS
  <2>2. LET o == recognize_behavior_oracle(contract) IN
           /\ o.family = f /\ o.op \in Operations
           /\ oracle_expected_shape(f) \in HarnessShapes
           /\ \A v \in Form(f) : v \in VectorType /\ Arity(o.op) <= Len(v.inputs)
           /\ oracle_expected_shape(f) \in WriteShapes =>
                 /\ o.op = oracle_expected_shape(f)
                 /\ f \in {"replace", "memset", "memcpy"}
    <3>1. contract \in Contracts /\ f = FamilyOf(Families, contract) /\ f # "none"
      BY <1>1, <2>1 DEF Family
    <3> QED BY <3>1, OracleFacts
  <2> QED BY <1>1, <2>1, <2>2 DEF oracle
<1>5. IF shape \in WriteShapes
      THEN oracle.op = shape /\ Family \in {"replace", "memset", "memcpy"} /\ EchoOf(shape) # <<>>
      ELSE EchoOf(shape) = <<>>
  <2>1. <<"buf">> # <<>> /\ <<"a", "b">> # <<>>
    OBVIOUS
  <2>2. CASE shape \in WriteShapes
    <3>1. oracle.op = shape /\ Family \in {"replace", "memset", "memcpy"}
      BY <1>3, <2>2
    <3>2. EchoOf(shape) \in {<<"buf">>, <<"a", "b">>}
      BY <2>2 DEF EchoOf, WriteShapes
    <3> QED BY <2>1, <2>2, <3>1, <3>2
  <2>3. CASE shape \notin WriteShapes
    BY <2>3 DEF EchoOf, WriteShapes
  <2> QED BY <2>2, <2>3
<1>4. ASSUME NEW i \in DOMAIN vectors
      PROVE  /\ vectors[i] \in VectorType
             /\ Arity(oracle.op) <= Len(vectors[i].inputs) /\ Len(vectors[i].inputs) \in Nat
             /\ Wired(ProgramOf(i), DataOf(shape, vectors[i]), EchoOf(shape))
             /\ IsSection(DataOf(shape, vectors[i]))
             /\ Remembers(DataOf(shape, vectors[i]), mem[i])
  <2>1. vectors[i] \in VectorType /\ Arity(oracle.op) <= Len(vectors[i].inputs)
    BY <1>2, <1>3
  <2>2. Wired(ProgramOf(i), DataOf(shape, vectors[i]), EchoOf(shape))
    BY <1>1, <1>3, ProgramFacts DEF ProgramOf
  <2>3. Remembers(DataOf(shape, vectors[i]), mem[i])
    BY <1>1, <2>2 DEF Wired
  <2> QED BY <1>3, <2>1, <2>2, <2>3, InputType, DataType
<1> QED BY <1>1, <1>2, <1>3, <1>4, <1>5

\* What the routine finds in its argument registers.
LEMMA ArgumentType ==
    ASSUME Control, pc = "call", NEW k \in DOMAIN vectors[at].inputs
    PROVE  IsArgument(mem[at], Arguments[k])
<1> DEFINE loads == ProgramOf(at).loads
           reg == abi_register_map(abi).parameter_registers[k]
           into == {j \in DOMAIN loads : loads[j].reg = reg}
           m == mem[at]
<1>1. at \in DOMAIN vectors
  BY RunFacts DEF Control, Running
<1>2. /\ Wired(ProgramOf(at), DataOf(shape, vectors[at]), EchoOf(shape))
      /\ Remembers(DataOf(shape, vectors[at]), m)
  BY <1>1, RunFacts DEF Running
<1>3. IsSection(m) /\ "" \notin DOMAIN m /\ "unset" \notin DOMAIN m
  BY <1>2 DEF Remembers, IsSection, Labels
<1>4. DOMAIN loads \subseteq 1..4 /\ \A j \in DOMAIN loads : loads[j].label \in DOMAIN m
  BY <1>2 DEF Wired, Remembers
<1>5. Arguments[k] = IF into = {} THEN Garbage ELSE Loaded(loads[Greatest(into)])
  BY DEF Arguments
<1>6. CASE into = {}
  <2>1. Arguments[k] = Garbage
    BY <1>5, <1>6
  <2>2. Garbage.n = 0
    BY DEF Garbage
  <2>3. IsArgument(m, Garbage)
    BY <2>2 DEF IsArgument
  <2> QED BY <2>1, <2>3
<1>7. CASE into # {}
  <2> DEFINE load == loads[Greatest(into)]
  <2>1. Greatest(into) \in into
    <3>1. into \subseteq 1..4 /\ 4 \in Nat
      BY <1>4
    <3> HIDE DEF into
    <3> QED BY <1>7, <3>1, GreatestIs
  <2>2. load.label \in DOMAIN m
    BY <1>4, <2>1
  <2> HIDE DEF load, into
  <2>3. m[load.label] \in Region
    BY <1>3, <2>2 DEF IsSection
  <2>4. m[load.label].cells[1] \in Int /\ m[load.label].base \in 0..1
    <3>1. m[load.label].cells \in Seq(Int) /\ Len(m[load.label].cells) > 0 /\ m[load.label].base \in 0..1
      BY <2>3 DEF Region
    <3> QED BY <3>1
  <2>5. Loaded(load) \in {Number(m[load.label].cells[1]), Number(0), Address(load.label, m[load.label].base)}
    BY DEF Loaded
  <2>6. IsArgument(m, Loaded(load))
    <3> DEFINE r == m[load.label]
    <3> HIDE DEF r
    <3>1. \A n \in Int : IsArgument(m, Number(n))
      BY <1>3 DEF IsArgument, Number
    <3>2. \A n \in 0..1 : IsArgument(m, Address(load.label, n))
      BY DEF IsArgument, Address
    <3>3. r.cells[1] \in Int /\ 0 \in Int /\ r.base \in 0..1
      BY <2>4 DEF r
    <3>4. Loaded(load) \in {Number(r.cells[1]), Number(0), Address(load.label, r.base)}
      BY <2>5 DEF r
    <3> QED BY <3>1, <3>2, <3>3, <3>4
  <2> QED BY <1>5, <1>7, <2>6 DEF load
<1> QED BY <1>6, <1>7

\* What the oracle claims of a call can be returned.
LEMMA CallType ==
    ASSUME Control, pc = "call", Callable(oracle.op, mem[at], Arguments)
    PROVE  Typed(Claim(mem[at], Arguments), mem[at])
<1>1. at \in DOMAIN vectors
  BY RunFacts DEF Control, Running
<1>2. /\ oracle.op \in Operations /\ IsSection(mem[at])
      /\ Arity(oracle.op) <= Len(vectors[at].inputs) /\ Len(vectors[at].inputs) \in Nat
      /\ vectors[at] \in VectorType
  BY <1>1, RunFacts DEF Running, Remembers
<1>3. \A k \in 1..Arity(oracle.op) : IsArgument(mem[at], Arguments[k])
  <2>1. DOMAIN vectors[at].inputs = 1..Len(vectors[at].inputs)
    BY <1>2 DEF VectorType
  <2>2. Arity(oracle.op) \in 1..4
    BY DEF Arity
  <2>3. 1..Arity(oracle.op) \subseteq DOMAIN vectors[at].inputs
    BY <1>2, <2>1, <2>2
  <2> QED BY <2>3, ArgumentType
<1>4. Usable(oracle.op, mem[at], Arguments)
  BY <1>3 DEF Usable, Callable
<1> QED BY <1>2, <1>4, ClaimType DEF Claim


-----------------------------------------------------------------------------
(* The vectors of the shapes that write, and their echo.                   *)

\* The items of a buffer are bytes.
LEMMA BufferItems == ASSUME NEW x \in Buffers PROVE Items(x) \in Seq(Byte) /\ Len(Items(x)) \in Nat
<1>1. CASE x = Null
  <2>1. Items(x) = <<>> /\ <<>> \in Seq(Byte) /\ Len(<<>>) = 0
    BY <1>1, BufferFacts
  <2> QED BY <2>1
<1>2. CASE x # Null
  <2>1. PICK items \in Seq(Byte) : x = Arr(items)
    BY <1>2 DEF Buffers
  <2>2. Items(x) = items /\ Len(items) \in Nat
    BY <2>1, BufferFacts
  <2> QED BY <2>2
<1> QED BY <1>1, <1>2

\* What the vectors of scans and fills hold.
LEMMA FillForm ==
    ASSUME NEW v \in Form("memset")
    PROVE  \E x \in Buffers, n \in Byte :
              /\ Len(v.inputs) = 3 /\ v.inputs[1] = x /\ v.inputs[2] = Num(Len(Items(x)))
              /\ v.inputs[3] = Num(n)
              /\ Input(v, 1) = x /\ Input(v, 2) = Num(Len(Items(x))) /\ Input(v, 3) = Num(n)
              /\ Items(x) \in Seq(Byte) /\ Len(Items(x)) \in 0..(Words2 - 1)
<1>1. PICK x \in Buffers, n \in Byte, e \in Int : v = Vector(<<x, Num(Len(Items(x))), Num(n)>>, e)
  BY DEF Form, IsScan
<1>2. Items(x) \in Seq(Byte) /\ Len(Items(x)) \in Nat
  BY BufferItems
<1>3. \A y, z : /\ Len(Vector(<<x, y, z>>, e).inputs) = 3
                /\ Vector(<<x, y, z>>, e).inputs[1] = x /\ Vector(<<x, y, z>>, e).inputs[2] = y
                /\ Vector(<<x, y, z>>, e).inputs[3] = z
                /\ Input(Vector(<<x, y, z>>, e), 1) = x /\ Input(Vector(<<x, y, z>>, e), 2) = y
                /\ Input(Vector(<<x, y, z>>, e), 3) = z
  BY DEF Vector, Input
<1>4. /\ Len(v.inputs) = 3 /\ v.inputs[1] = x /\ v.inputs[2] = Num(Len(Items(x)))
      /\ v.inputs[3] = Num(n)
      /\ Input(v, 1) = x /\ Input(v, 2) = Num(Len(Items(x))) /\ Input(v, 3) = Num(n)
  BY <1>1, <1>3, ZenonT(40)
<1>5. Len(Items(x)) \in 0..(Words2 - 1)
  BY <1>2, <1>4, WordSize DEF Form, Fits
<1> QED BY <1>2, <1>4, <1>5

\* What the vectors of replacements hold.
LEMMA ReplaceForm ==
    ASSUME NEW v \in Form("replace")
    PROVE  \E x \in Buffers, n \in Byte, r \in Byte :
              /\ Len(v.inputs) = 4 /\ v.inputs[1] = x /\ v.inputs[2] = Num(Len(Items(x)))
              /\ v.inputs[3] = Num(n) /\ v.inputs[4] = Num(r)
              /\ Input(v, 1) = x /\ Input(v, 2) = Num(Len(Items(x))) /\ Input(v, 3) = Num(n)
              /\ Input(v, 4) = Num(r)
              /\ Items(x) \in Seq(Byte) /\ Len(Items(x)) \in 0..(Words2 - 1)
<1>1. PICK x \in Buffers, n \in Byte, r \in Byte, e \in Int :
          v = Vector(<<x, Num(Len(Items(x))), Num(n), Num(r)>>, e)
  BY DEF Form, IsReplace
<1>2. Items(x) \in Seq(Byte) /\ Len(Items(x)) \in Nat
  BY BufferItems
<1>3. PICK y, z, w : y = Num(Len(Items(x))) /\ z = Num(n) /\ w = Num(r)
  OBVIOUS
<1>4. /\ Len(v.inputs) = 4 /\ v.inputs[1] = x /\ v.inputs[2] = Num(Len(Items(x)))
      /\ v.inputs[3] = Num(n) /\ v.inputs[4] = Num(r)
      /\ Input(v, 1) = x /\ Input(v, 2) = Num(Len(Items(x))) /\ Input(v, 3) = Num(n)
      /\ Input(v, 4) = Num(r)
  <2>1. v.inputs = <<x, y, z, w>>
    BY <1>1, <1>3, Zenon DEF Vector
  <2>2. /\ Len(v.inputs) = 4 /\ v.inputs[1] = x /\ v.inputs[2] = y /\ v.inputs[3] = z /\ v.inputs[4] = w
        /\ Input(v, 1) = x /\ Input(v, 2) = y /\ Input(v, 3) = z /\ Input(v, 4) = w
    BY <2>1 DEF Input
  <2> QED BY <1>3, <2>2
<1>5. Len(Items(x)) \in 0..(Words2 - 1)
  BY <1>2, <1>4, WordSize DEF Form, Fits
<1> QED BY <1>2, <1>4, <1>5

\* What the vectors of copies hold.
LEMMA CopyForm ==
    ASSUME NEW v \in Form("memcpy")
    PROVE  \E x \in Buffers, y \in Buffers :
              /\ Len(v.inputs) = 3 /\ v.inputs[1] = x /\ v.inputs[2] = y
              /\ v.inputs[3] = Num(Len(Items(x)))
              /\ Input(v, 1) = x /\ Input(v, 2) = y /\ Input(v, 3) = Num(Len(Items(x)))
              /\ Items(x) \in Seq(Byte) /\ Items(y) \in Seq(Byte)
              /\ Len(Items(x)) = Len(Items(y)) /\ Len(Items(x)) \in 0..(Words2 - 1)
<1>1. PICK x \in Buffers, y \in Buffers, e \in Int :
          Len(Items(x)) = Len(Items(y)) /\ v = Vector(<<x, y, Num(Len(Items(x)))>>, e)
  BY DEF Form, IsPair
<1>2. /\ Items(x) \in Seq(Byte) /\ Len(Items(x)) \in Nat
      /\ Items(y) \in Seq(Byte) /\ Len(Items(y)) \in Nat
  BY BufferItems
<1>3. \A z : /\ Len(Vector(<<x, y, z>>, e).inputs) = 3
             /\ Vector(<<x, y, z>>, e).inputs[1] = x /\ Vector(<<x, y, z>>, e).inputs[2] = y
             /\ Vector(<<x, y, z>>, e).inputs[3] = z
             /\ Input(Vector(<<x, y, z>>, e), 1) = x /\ Input(Vector(<<x, y, z>>, e), 2) = y
             /\ Input(Vector(<<x, y, z>>, e), 3) = z
  BY DEF Vector, Input
<1>4. /\ Len(v.inputs) = 3 /\ v.inputs[1] = x /\ v.inputs[2] = y
      /\ v.inputs[3] = Num(Len(Items(x)))
      /\ Input(v, 1) = x /\ Input(v, 2) = y /\ Input(v, 3) = Num(Len(Items(x)))
  BY <1>1, <1>3, Zenon
<1>5. Len(Items(x)) \in 0..(Words2 - 1)
  BY <1>2, <1>4, WordSize DEF Form, Fits
<1> QED BY <1>1, <1>2, <1>4, <1>5

\* A number read back.
LEMMA NumFacts ==
    /\ \A n \in Nat : AsU64(Num(n)) = n
    /\ \A n : Num(n).k = "number" /\ Num(n).v = n /\ IsNumber(Num(n))
BY DEF AsU64, Num, IsNumber

\* The echoed regions are whole regions.
LEMMA EchoFacts ==
    ASSUME NEW f \in {"replace", "memset", "memcpy"}, NEW v \in Form(f), NEW s,
           s = oracle_expected_shape(f), NEW j \in DOMAIN EchoOf(s)
    PROVE  LET d == DataOf(s, v) IN
           /\ EchoLength(s, v) \in Nat /\ EchoOf(s)[j] \in DOMAIN d
           /\ Len(d[EchoOf(s)[j]].cells) = EchoLength(s, v) + 2
<1> DEFINE d == DataOf(s, v)
<1>0. v \in VectorType
  BY DEF Form
<1>1. CASE f = "replace"
  <2>1. s = "ReplaceByte" /\ EchoOf(s) = <<"buf">>
    BY <1>1 DEF oracle_expected_shape, EchoOf
  <2>2. "buf" \in DOMAIN d /\ d["buf"].cells = guarded_region(vector_buffer_bytes(v))
    BY <2>1 DEF DataOf, emit_replace_byte_vector_data, Guarded
  <2>3. EchoLength(s, v) = Len(Items(Input(v, 1)))
    BY <1>1, <2>1, ReplaceForm, NumFacts DEF EchoLength, vector_length
  <2>4. /\ vector_buffer_bytes(v) \in Seq(Int) /\ EchoLength(s, v) \in Nat
        /\ Len(vector_buffer_bytes(v)) = EchoLength(s, v)
    BY <1>0, <2>3, InputTypes DEF vector_buffer_bytes
  <2>5. Len(d["buf"].cells) = EchoLength(s, v) + 2
    BY <2>2, <2>4, RegionTypes
  <2> HIDE DEF d
  <2>6. EchoOf(s)[j] = "buf"
    BY <2>1
  <2>7. EchoOf(s)[j] \in DOMAIN d /\ Len(d[EchoOf(s)[j]].cells) = EchoLength(s, v) + 2
    BY <2>2, <2>5, <2>6
  <2> QED BY <2>4, <2>7 DEF d
<1>2. CASE f = "memset"
  <2>1. s = "Memset" /\ EchoOf(s) = <<"buf">>
    BY <1>2 DEF oracle_expected_shape, EchoOf
  <2>2. "buf" \in DOMAIN d /\ d["buf"].cells = guarded_region(vector_buffer_bytes(v))
    BY <2>1 DEF DataOf, emit_memset_vector_data, Guarded
  <2>3. EchoLength(s, v) = Len(Items(Input(v, 1)))
    BY <1>2, <2>1, FillForm, NumFacts DEF EchoLength, vector_length
  <2>4. /\ vector_buffer_bytes(v) \in Seq(Int) /\ EchoLength(s, v) \in Nat
        /\ Len(vector_buffer_bytes(v)) = EchoLength(s, v)
    BY <1>0, <2>3, InputTypes DEF vector_buffer_bytes
  <2>5. Len(d["buf"].cells) = EchoLength(s, v) + 2
    BY <2>2, <2>4, RegionTypes
  <2> HIDE DEF d
  <2>6. EchoOf(s)[j] = "buf"
    BY <2>1
  <2>7. EchoOf(s)[j] \in DOMAIN d /\ Len(d[EchoOf(s)[j]].cells) = EchoLength(s, v) + 2
    BY <2>2, <2>5, <2>6
  <2> QED BY <2>4, <2>7 DEF d
<1>3. CASE f = "memcpy"
  <2>1. s = "Memcpy" /\ EchoOf(s) = <<"a", "b">>
    BY <1>3 DEF oracle_expected_shape, EchoOf
  <2>2. /\ "a" \in DOMAIN d /\ d["a"].cells = guarded_region(vector_memcmp_buffer_bytes(v, 1))
        /\ "b" \in DOMAIN d /\ d["b"].cells = guarded_region(vector_memcmp_buffer_bytes(v, 2))
    BY <2>1 DEF DataOf, emit_memcpy_vector_data, Guarded
  <2>3. /\ EchoLength(s, v) = Len(Items(Input(v, 1)))
        /\ EchoLength(s, v) = Len(Items(Input(v, 2)))
    BY <1>3, <2>1, CopyForm, NumFacts DEF EchoLength, vector_memcmp_length
  <2>4. /\ EchoLength(s, v) \in Nat
        /\ \A k \in 1..2 : /\ vector_memcmp_buffer_bytes(v, k) \in Seq(Int)
                           /\ Len(vector_memcmp_buffer_bytes(v, k)) = EchoLength(s, v)
    BY <1>0, <2>3, InputTypes
  <2>5. /\ Len(d["a"].cells) = EchoLength(s, v) + 2
        /\ Len(d["b"].cells) = EchoLength(s, v) + 2
    <3>1. \A k \in 1..2 : Len(guarded_region(vector_memcmp_buffer_bytes(v, k))) = EchoLength(s, v) + 2
      BY <2>4, RegionTypes
    <3> HIDE DEF d
    <3> QED BY <2>2, <3>1
  <2> HIDE DEF d
  <2>6. EchoOf(s)[j] \in {"a", "b"}
    BY <2>1
  <2>7. EchoOf(s)[j] \in DOMAIN d /\ Len(d[EchoOf(s)[j]].cells) = EchoLength(s, v) + 2
    BY <2>2, <2>5, <2>6
  <2> QED BY <2>4, <2>7 DEF d
<1> QED BY <1>1, <1>2, <1>3

\* The regions are those of the vectors, and an echo writes whole ones.
LEMMA RegionFacts ==
    ASSUME Control, Running, shape \in WriteShapes, NEW k \in 1..Regions
    PROVE  /\ VectorAt(k) \in DOMAIN vectors /\ LabelAt(k) \in DOMAIN mem[VectorAt(k)]
           /\ CellsAt(k) \in Seq(Int)
           /\ Len(CellsAt(k)) = EchoLength(shape, vectors[VectorAt(k)]) + 2
           /\ EchoLength(shape, vectors[VectorAt(k)]) \in Nat
           /\ SubSeq(CellsAt(k), 1, EchoLength(shape, vectors[VectorAt(k)]) + 2) = CellsAt(k)
           /\ Regions \in Nat /\ Len(EchoOf(shape)) \in {1, 2}
<1> DEFINE L == Len(EchoOf(shape))
           n == Len(vectors)
           i == VectorAt(k)
           j == ((k - 1) % L) + 1
           s == CellsAt(k)
           e == EchoLength(shape, vectors[i])
<1>1. L \in {1, 2} /\ DOMAIN EchoOf(shape) = 1..L
  <2>1. EchoOf(shape) \in {<<"buf">>, <<"a", "b">>}
    BY DEF EchoOf, WriteShapes
  <2>2. /\ Len(<<"buf">>) = 1 /\ DOMAIN <<"buf">> = 1..1
        /\ Len(<<"a", "b">>) = 2 /\ DOMAIN <<"a", "b">> = 1..2
    OBVIOUS
  <2> QED BY <2>1, <2>2
<1>2. n \in Nat /\ DOMAIN vectors = 1..n /\ Family \in {"replace", "memset", "memcpy"}
  BY RunFacts
<1>3. n * L \in Nat /\ k \in 1..(n * L)
  BY <1>1, <1>2 DEF Regions
<1>4. i \in 1..n /\ j \in 1..L
  <2>1. i = ((k - 1) \div L) + 1
    BY DEF VectorAt
  <2> HIDE DEF i, L, n
  <2> QED BY <1>1, <1>2, <1>3, <2>1
<1>5. /\ vectors[i] \in Form(Family) /\ Remembers(DataOf(shape, vectors[i]), mem[i])
      /\ shape = oracle_expected_shape(Family)
  BY <1>2, <1>4, RunFacts
<1>6. /\ e \in Nat /\ LabelAt(k) \in DOMAIN DataOf(shape, vectors[i])
      /\ Len(DataOf(shape, vectors[i])[LabelAt(k)].cells) = e + 2
  <2>1. j \in DOMAIN EchoOf(shape) /\ LabelAt(k) = EchoOf(shape)[j]
    BY <1>1, <1>4 DEF LabelAt
  <2> HIDE DEF j, i
  <2> QED BY <1>2, <1>5, <2>1, EchoFacts
<1> HIDE DEF i, e, L, n
<1>7. LabelAt(k) \in DOMAIN mem[i] /\ mem[i][LabelAt(k)] \in Region /\ Len(mem[i][LabelAt(k)].cells) = e + 2
  BY <1>5, <1>6 DEF Remembers, IsSection
<1>8. s = mem[i][LabelAt(k)].cells
  BY DEF CellsAt, i
<1> HIDE DEF s
<1>9. s \in Seq(Int) /\ Len(s) = e + 2
  BY <1>7, <1>8 DEF Region
<1>10. SubSeq(s, 1, e + 2) = s
  BY <1>6, <1>9
<1>11. Regions \in Nat
  BY <1>3 DEF Regions, L, n
<1> QED BY <1>1, <1>2, <1>4, <1>6, <1>7, <1>9, <1>10, <1>11 DEF i, s, e, L

\* The invariant holds before anything is done.
LEMMA InitControl == ASSUME Init PROVE Control
BY DEF Init, Control, Running

\* Vectors are synthesised for the contract's family, or the command fails.
LEMMA SynthesizeControl == ASSUME Control, Synthesize PROVE Control'
<1>1. /\ pc = "synthesize" /\ contract \in Contracts /\ abi \in Abis
      /\ results = <<>> /\ stdout = <<>> /\ at = 1
      /\ vectors' = synthesize_vectors(contract)
      /\ pc' = IF vectors' = <<>> THEN "failed" ELSE "external"
      /\ contract' = contract /\ abi' = abi /\ shape' = shape /\ at' = at /\ mem' = mem
      /\ results' = results /\ stdout' = stdout
  BY DEF Control, Synthesize, Running
<1>2. Family' = Family
  BY <1>1 DEF Family
<1>3. vectors' # <<>> => Family # "none" /\ GoodVectors(Family, vectors')
  BY <1>1, SynthesisFacts DEF Family
<1>4. pc' \in {"failed", "external"} /\ (pc' = "external" => vectors' # <<>>)
  BY <1>1
<1>5. results' \in Seq(Words) /\ stdout' \in Seq(Int)
  BY <1>1
<1> QED BY <1>1, <1>2, <1>3, <1>4, <1>5 DEF Control, Running

\* A list of vectors of a form, and one more.
LEMMA MoreVectors ==
    ASSUME NEW f, NEW vs, GoodVectors(f, vs), NEW v \in Form(f)
    PROVE  GoodVectors(f, Append(vs, v))
<1> DEFINE F == Form(f)
<1>1. vs \in Seq(F) /\ v \in F
  BY DEF GoodVectors
<1> HIDE DEF F
<1>2. Append(vs, v) \in Seq(F) /\ Len(Append(vs, v)) = Len(vs) + 1 /\ Len(vs) \in Nat /\ Len(<<>>) = 0
  BY <1>1
<1>3. Append(vs, v) # <<>>
  BY <1>2
<1> QED BY <1>2, <1>3 DEF GoodVectors, F

\* External vectors have the form of the contract's family.
LEMMA ExternalControl ==
    ASSUME Control, (\E inputs \in ExternalCases : AppendExternal(inputs)) \/ NoExternal
    PROVE  Control'
<1>1. /\ pc = "external" /\ contract \in Contracts /\ abi \in Abis
      /\ results = <<>> /\ stdout = <<>> /\ at = 1
      /\ Family # "none" /\ GoodVectors(Family, vectors)
      /\ contract' = contract /\ abi' = abi /\ shape' = shape /\ at' = at /\ mem' = mem
      /\ results' = results /\ stdout' = stdout
  BY DEF Control, AppendExternal, NoExternal, Running
<1>2. Family' = Family
  BY <1>1 DEF Family
<1>3. pc' = "failed" \/ (pc' = "resolve" /\ GoodVectors(Family, vectors'))
  <2>1. CASE NoExternal
    BY <1>1, <2>1 DEF NoExternal
  <2>2. CASE \E inputs \in ExternalCases : AppendExternal(inputs)
    <3>1. PICK inputs \in ExternalCases : AppendExternal(inputs)
      BY <2>2
    <3> DEFINE v == derive_external_vector(contract, inputs)
    <3>2. pc' = "failed" \/ (v.inputs # <<>> /\ pc' = "resolve" /\ vectors' = Append(vectors, v))
      BY <3>1 DEF AppendExternal
    <3>3. v.inputs # <<>> => v \in Form(Family)
      BY <1>1, ExternalFacts DEF Family
    <3> HIDE DEF v
    <3>4. v.inputs # <<>> => GoodVectors(Family, Append(vectors, v))
      BY <1>1, <3>3, MoreVectors
    <3> QED BY <3>2, <3>4
  <2> QED BY <2>1, <2>2
<1>4. results' \in Seq(Words) /\ stdout' \in Seq(Int)
  BY <1>1
<1> QED BY <1>1, <1>2, <1>3, <1>4 DEF Control, Running

\* The shape that is resolved is the one the family's oracle expects.
LEMMA ResolveControl == ASSUME Control, Resolve PROVE Control'
<1>1. /\ pc = "resolve" /\ contract \in Contracts /\ abi \in Abis
      /\ results = <<>> /\ stdout = <<>> /\ at = 1
      /\ Family # "none" /\ GoodVectors(Family, vectors)
      /\ contract' = contract /\ abi' = abi /\ vectors' = vectors /\ at' = at /\ mem' = mem
      /\ results' = results /\ stdout' = stdout
      /\ shape' = resolve_harness_shape(contract, vectors)
      /\ pc' = IF shape' = "error" THEN "failed" ELSE "generate"
  BY DEF Control, Resolve, Running
<1>2. Family' = Family
  BY <1>1 DEF Family
<1>3. recognize_behavior_oracle(contract).family = Family
  BY DEF recognize_behavior_oracle, Family
<1>4. resolve_harness_shape(contract, vectors) \in {"error", oracle_expected_shape(Family)}
  BY <1>3 DEF resolve_harness_shape
<1>5. pc' = "failed" \/ (pc' = "generate" /\ shape' = oracle_expected_shape(Family))
  BY <1>1, <1>4
<1>6. results' \in Seq(Words) /\ stdout' \in Seq(Int)
  BY <1>1
<1> QED BY <1>1, <1>2, <1>5, <1>6 DEF Control, Running

\* Memory starts as the data of the programs.
LEMMA GenerateControl == ASSUME Control, Generate PROVE Control'
<1>1. /\ pc = "generate" /\ contract \in Contracts /\ abi \in Abis
      /\ results = <<>> /\ stdout = <<>> /\ at = 1
      /\ Family # "none" /\ GoodVectors(Family, vectors) /\ shape = oracle_expected_shape(Family)
      /\ contract' = contract /\ abi' = abi /\ vectors' = vectors /\ shape' = shape /\ at' = at
      /\ results' = results /\ stdout' = stdout
  BY DEF Control, Generate, Running
<1>2. Family' = Family /\ results' \in Seq(Words) /\ stdout' \in Seq(Int)
  BY <1>1 DEF Family
<1>3. CASE ~Generates(abi, shape)
  <2>1. pc' = "failed"
    BY <1>3 DEF Generate
  <2> QED BY <1>1, <1>2, <2>1 DEF Control, Running
<1>4. CASE Generates(abi, shape)
  <2>1. pc' = "call" /\ mem' = [i \in DOMAIN vectors |-> ProgramOf(i).data]
    BY <1>4 DEF Generate
  <2>2. shape \in HarnessShapes /\ \A v \in Form(Family) : v \in VectorType
    <3>1. PICK f : f = Family
      OBVIOUS
    <3>2. f = FamilyOf(Families, contract) /\ f # "none"
      BY <1>1, <3>1 DEF Family
    <3>3. oracle_expected_shape(f) \in HarnessShapes /\ \A v \in Form(f) : v \in VectorType
      BY <1>1, <3>2, OracleFacts
    <3> QED BY <1>1, <3>1, <3>3
  <2>3. ASSUME NEW i \in DOMAIN vectors PROVE Remembers(ProgramOf(i).data, ProgramOf(i).data)
    <3>1. vectors[i] \in VectorType
      <4> DEFINE F == Form(Family)
      <4>1. vectors \in Seq(F)
        BY <1>1 DEF GoodVectors
      <4>2. \A v \in F : v \in VectorType
        BY <2>2
      <4> HIDE DEF F
      <4>3. vectors[i] \in F
        BY <4>1
      <4> QED BY <4>2, <4>3
    <3>2. ProgramOf(i).data = DataOf(shape, vectors[i])
      BY <1>1, <1>4, <2>2, ProgramFacts DEF ProgramOf, Wired
    <3>3. IsSection(ProgramOf(i).data)
      BY <2>2, <3>1, <3>2, DataType
    <3> QED BY <3>3 DEF Remembers
  <2>4. \A i : ProgramOf(i)' = ProgramOf(i)
    BY <1>1 DEF ProgramOf
  <2>5. Len(vectors) \in Nat /\ Len(vectors) > 0
    BY <1>1 DEF GoodVectors
  <2>6. 1 \in 1..Len(vectors') /\ Len(results') = 0
    BY <1>1, <2>5
  <2>7. \A i \in DOMAIN vectors' : Remembers(ProgramOf(i)'.data, mem'[i])
    BY <1>1, <2>1, <2>3, <2>4
  <2>8. mem' = [i \in DOMAIN vectors' |-> mem'[i]]
    BY <1>1, <2>1
  <2> QED BY <1>1, <1>2, <1>4, <2>1, <2>6, <2>7, <2>8 DEF Control, Running
<1> QED BY <1>3, <1>4

\* A memory that keeps the regions of another one keeps those it kept.
LEMMA RemembersOn ==
    ASSUME NEW d, NEW m, NEW n, Remembers(d, m), Remembers(m, n)
    PROVE  Remembers(d, n)
BY DEF Remembers

\* What the steps of a running process leave alone.
Rigid == UNCHANGED <<contract, abi, vectors, shape>>

\* Of a running process, all but where it is.
Settled ==
    /\ contract \in Contracts /\ abi \in Abis
    /\ Family # "none" /\ GoodVectors(Family, vectors) /\ shape = oracle_expected_shape(Family)
    /\ results \in Seq(Words) /\ stdout \in Seq(Int)
    /\ Generates(abi, shape)
    /\ mem = [i \in DOMAIN vectors |-> mem[i]]
    /\ \A i \in DOMAIN vectors : Remembers(ProgramOf(i).data, mem[i])

\* A running process keeps its vectors and its regions.
LEMMA SettledStep ==
    ASSUME Control, Running, Rigid, results' \in Seq(Words), stdout' \in Seq(Int),
           mem' = [i \in DOMAIN vectors |-> mem'[i]],
           \A i \in DOMAIN vectors : Remembers(mem[i], mem'[i])
    PROVE  Settled' /\ Settled
<1>1. Settled
  BY DEF Control, Running, Settled
<1>2. Family' = Family /\ \A i : ProgramOf(i)' = ProgramOf(i)
  BY DEF Rigid, Family, ProgramOf
<1>3. \A i \in DOMAIN vectors : Remembers(ProgramOf(i).data, mem'[i])
  BY <1>1, RemembersOn DEF Settled
<1>4. Settled'
  BY <1>1, <1>2, <1>3 DEF Settled, Rigid
<1> QED BY <1>1, <1>4

\* A result is stored and the next vector called.
LEMMA ReturnControl ==
    ASSUME Control, pc = "call", NEW r \in Words, NEW m, NEW bad, Remembers(mem[at], m), Return(r, m, bad)
    PROVE  Control'
<1>1. /\ Running /\ Rigid /\ at \in 1..Len(vectors) /\ Len(results) = at - 1 /\ results \in Seq(Words)
      /\ stdout = <<>> /\ stdout' = stdout /\ mem' = [mem EXCEPT ![at] = m]
      /\ at' = IF at = Len(vectors) THEN 1 ELSE at + 1
      /\ pc' = IF at = Len(vectors) THEN "results" ELSE "call"
      /\ mem = [i \in DOMAIN vectors |-> mem[i]]
  BY DEF Control, Running, Return, Rigid
<1>2. PICK w \in Words : results' = Append(results, w)
  <2>1. Words2 - 1 \in Words
    BY WordSize DEF Words
  <2> QED BY <2>1 DEF Return
<1>3. results' \in Seq(Words) /\ Len(results') = at
  BY <1>1, <1>2
<1>4. Len(vectors) \in Nat /\ DOMAIN vectors = 1..Len(vectors)
      /\ \A i \in DOMAIN vectors : Remembers(mem[i], mem[i])
  <2>1. /\ Len(vectors) \in Nat /\ DOMAIN vectors = 1..Len(vectors)
        /\ \A i \in DOMAIN vectors : Remembers(DataOf(shape, vectors[i]), mem[i])
    BY <1>1, RunFacts
  <2> QED BY <2>1 DEF Remembers
<1>5. \A i \in DOMAIN vectors : mem'[i] = IF i = at THEN m ELSE mem[i]
  BY <1>1, <1>4
<1>6. /\ mem' = [i \in DOMAIN vectors |-> mem'[i]]
      /\ \A i \in DOMAIN vectors : Remembers(mem[i], mem'[i])
  BY <1>1, <1>4, <1>5
<1>7. Settled' /\ stdout' \in Seq(Int)
  <2>1. stdout' \in Seq(Int)
    BY <1>1
  <2> QED BY <1>1, <1>3, <1>6, <2>1, SettledStep
<1>8. Len(vectors') = Len(vectors)
  BY <1>1 DEF Rigid
<1>9. CASE at = Len(vectors)
  <2>1. pc' = "results" /\ at' = 1 /\ Len(results') = Len(vectors') /\ stdout' = <<>>
    BY <1>1, <1>3, <1>8, <1>9
  <2> QED BY <1>7, <2>1 DEF Control, Settled, Running
<1>10. CASE at # Len(vectors)
  <2>1. pc' = "call" /\ at' \in 1..Len(vectors') /\ Len(results') = at' - 1 /\ stdout' = <<>>
    BY <1>1, <1>3, <1>4, <1>8, <1>10
  <2> QED BY <1>7, <2>1 DEF Control, Settled, Running
<1> QED BY <1>9, <1>10

\* A call of the candidate.
LEMMA CallControl == ASSUME Control, CallConforming \/ CallWrong PROVE Control'
<1>1. pc = "call" /\ Callable(oracle.op, mem[at], Arguments)
  BY DEF CallConforming, CallWrong
<1>2. PICK c : c = Claim(mem[at], Arguments)
  OBVIOUS
<1>3. PICK m : m = mem[at]
  OBVIOUS
<1>4. c.result \in Words /\ Remembers(mem[at], c.mem) /\ Remembers(mem[at], m)
  <2>1. Typed(Claim(mem[at], Arguments), mem[at])
    BY <1>1, CallType
  <2>2. c.result \in Words /\ Remembers(mem[at], c.mem)
    BY <1>2, <2>1 DEF Typed
  <2>3. IsSection(mem[at])
    <3>1. at \in DOMAIN vectors /\ Running
      BY <1>1, RunFacts DEF Control, Running
    <3> QED BY <3>1, RunFacts DEF Remembers
  <2> QED BY <1>3, <2>2, <2>3 DEF Remembers
<1>5. PICK r, s \in Words : r = c.result /\ s = Bits(c.result + 1)
  <2>1. c.result + 1 \in Int
    BY <1>4, WordSize DEF Words
  <2>2. Bits(c.result + 1) \in Words
    BY <2>1, WordTypes DEF Words
  <2> QED BY <1>4, <2>2
<1>6. PICK n : n = c.mem
  OBVIOUS
<1>7. Return(r, n, 0) \/ Return(s, n, 1) \/ Return(r, m, 1)
  BY <1>2, <1>3, <1>5, <1>6 DEF CallConforming, CallWrong
<1> QED BY <1>1, <1>4, <1>5, <1>6, <1>7, ReturnControl

\* A store changes one cell of one region.
LEMMA StrayType ==
    ASSUME NEW d, IsSection(d), NEW l \in DOMAIN d, NEW k \in DOMAIN d[l].cells
    PROVE  Remembers(d, [d EXCEPT ![l].cells[k] = (@ + 1) % 256])
<1> DEFINE s == d[l].cells
           t == [s EXCEPT ![k] = (s[k] + 1) % 256]
           n == [d EXCEPT ![l].cells[k] = (@ + 1) % 256]
<1>1. d[l] \in Region /\ s \in Seq(Int) /\ s[k] \in Int
  BY DEF IsSection, Region
<1>2. t \in Seq(Int) /\ Len(t) = Len(s)
  <2>1. (s[k] + 1) % 256 \in Int
    BY <1>1
  <2>2. PICK x \in Int : x = (s[k] + 1) % 256
    BY <2>1
  <2> HIDE DEF s, t
  <2>3. t = [s EXCEPT ![k] = x] /\ s \in Seq(Int)
    BY <1>1, <2>2 DEF s, t
  <2>5. s \in [1..Len(s) -> Int] /\ Len(s) \in Nat
    BY <2>3
  <2>4. t \in [1..Len(s) -> Int] /\ Len(s) \in Nat
    BY <2>2, <2>3, <2>5, Zenon
  <2> QED BY <2>4, FunctionSeq
<1>3. n = [x \in DOMAIN d |-> IF x = l THEN [d[l] EXCEPT !.cells = t] ELSE d[x]]
  BY DEF IsSection
<1>4. [d[l] EXCEPT !.cells = t] \in Region /\ [d[l] EXCEPT !.cells = t].cells = t
  BY <1>1, <1>2 DEF Region
<1> HIDE DEF n, t
<1>5. \A x \in DOMAIN d : n[x] \in Region /\ Len(n[x].cells) = Len(d[x].cells)
  BY <1>2, <1>3, <1>4 DEF IsSection
<1>6. DOMAIN n = DOMAIN d /\ n = [x \in DOMAIN n |-> n[x]]
  BY <1>3
<1> QED BY <1>5, <1>6 DEF Remembers, IsSection, n

\* A store outside the region keeps the regions.
LEMMA StrayControl == ASSUME Control, StrayStore PROVE Control'
<1>1. /\ Running /\ Rigid /\ pc = "call" /\ pc' = pc /\ at' = at /\ results' = results /\ stdout' = stdout
      /\ results \in Seq(Words) /\ stdout \in Seq(Int) /\ mem = [i \in DOMAIN vectors |-> mem[i]]
      /\ at \in 1..Len(vectors) /\ Len(results) = at - 1 /\ stdout = <<>>
  BY DEF Control, StrayStore, Running, Rigid
<1>2. \A i \in DOMAIN vectors : IsSection(mem[i]) /\ Remembers(mem[i], mem[i])
  BY <1>1, RunFacts DEF Remembers
<1>3. PICK i \in DOMAIN mem : \E l \in DOMAIN mem[i] \cap {"buf", "a", "b"} :
         \E k \in DOMAIN mem[i][l].cells :
            mem' = [mem EXCEPT ![i][l].cells[k] = (@ + 1) % 256]
  BY DEF StrayStore
<1>12. PICK l \in DOMAIN mem[i] : \E k \in DOMAIN mem[i][l].cells :
          mem' = [mem EXCEPT ![i][l].cells[k] = (@ + 1) % 256]
  BY <1>3, ZenonT(40)
<1>4. PICK k \in DOMAIN mem[i][l].cells : mem' = [mem EXCEPT ![i][l].cells[k] = (@ + 1) % 256]
  BY <1>12
<1>5. PICK d : d = mem[i]
  OBVIOUS
<1>6. mem' = [mem EXCEPT ![i] = [d EXCEPT ![l].cells[k] = (@ + 1) % 256]]
  BY <1>4, <1>5
<1>7. Remembers(d, [d EXCEPT ![l].cells[k] = (@ + 1) % 256])
  <2>1. IsSection(d) /\ l \in DOMAIN d /\ k \in DOMAIN d[l].cells
    BY <1>1, <1>2, <1>5
  <2> QED BY <2>1, StrayType, ZenonT(40)
<1>8. PICK n : n = [d EXCEPT ![l].cells[k] = (@ + 1) % 256]
  OBVIOUS
<1>9. Remembers(d, n) /\ mem' = [mem EXCEPT ![i] = n]
  BY <1>6, <1>7, <1>8
<1>10. /\ mem' = [j \in DOMAIN vectors |-> mem'[j]]
       /\ \A j \in DOMAIN vectors : Remembers(mem[j], mem'[j])
  <2>1. \A j \in DOMAIN vectors : mem'[j] = IF j = i THEN n ELSE mem[j]
    BY <1>1, <1>9
  <2>2. mem' = [j \in DOMAIN vectors |-> mem'[j]]
    BY <1>1, <1>9
  <2> QED BY <1>2, <1>5, <1>9, <2>1, <2>2
<1>11. Settled'
  BY <1>1, <1>10, SettledStep
<1> QED BY <1>1, <1>11 DEF Control, Settled, Running, Rigid

\* The bytes of words are integers.
LEMMA ByteType == ASSUME NEW w \in Words, NEW k \in 1..WordBytes PROVE ToLeBytes(w)[k] \in Byte
<1>1. k - 1 \in 0..WordBytes
  BY VectorAssumption
<1>2. Power[k - 1] \in Nat \ {0} /\ w \in Nat
  BY <1>1, PowerFacts DEF Words
<1>3. w \div Power[k - 1] \in Int
  BY <1>2
<1>4. (w \div Power[k - 1]) % 256 \in Byte
  BY <1>3 DEF Byte
<1>5. ToLeBytes(w)[k] = (w \div Power[k - 1]) % 256
  BY Zenon DEF ToLeBytes
<1> QED BY <1>4, <1>5

\* The steps after the calls leave the memory alone.
LEMMA QuietStep ==
    ASSUME Control, Running, Rigid, results' = results, mem' = mem, stdout' \in Seq(Int)
    PROVE  Settled'
<1>1. results \in Seq(Words) /\ mem = [i \in DOMAIN vectors |-> mem[i]]
  BY DEF Control
<1>2. \A i \in DOMAIN vectors : Remembers(mem[i], mem[i])
  BY RunFacts DEF Remembers
<1> QED BY <1>1, <1>2, SettledStep

\* The bytes of the results array.
LEMMA WrittenWords ==
    ASSUME Control, WriteResults
    PROVE  /\ stdout' \in Seq(Int) /\ Len(stdout') = Len(results) * WordBytes
           /\ \A i \in 1..Len(results) : \A k \in 1..WordBytes :
                 stdout'[(i - 1) * WordBytes + k] = ToLeBytes(results[i])[k]
<1> DEFINE n == Len(results)
           W == WordBytes
           q(b) == ((b - 1) \div W) + 1
           z(b) == ((b - 1) % W) + 1
<1>0. W \in Nat \ {0} /\ n \in Nat /\ results \in Seq(Words) /\ \A i \in 1..n : results[i] \in Words
  BY VectorAssumption DEF Control
<1>1. stdout' = [b \in 1..(n * W) |-> ToLeBytes(results[q(b)])[z(b)]]
  BY DEF WriteResults
<1>2. \A b \in 1..(n * W) : q(b) \in 1..n /\ z(b) \in 1..W
  <2> HIDE DEF n, W
  <2> QED BY <1>0
<1>3. \A b \in 1..(n * W) : ToLeBytes(results[q(b)])[z(b)] \in Int
  <2> SUFFICES ASSUME NEW b \in 1..(n * W) PROVE ToLeBytes(results[q(b)])[z(b)] \in Int
    OBVIOUS
  <2> HIDE DEF q, z
  <2>1. PICK w, k : w = results[q(b)] /\ k = z(b)
    OBVIOUS
  <2>2. w \in Words /\ k \in 1..W
    BY <1>0, <1>2, <2>1 DEF q, z
  <2>3. ToLeBytes(w)[k] \in Byte
    BY <2>2, ByteType
  <2>4. ToLeBytes(results[q(b)])[z(b)] = ToLeBytes(w)[k]
    BY <2>1, Zenon
  <2> QED BY <2>3, <2>4 DEF Byte
<1>4. n * W \in Nat
  BY <1>0
<1> HIDE DEF q, z
<1>5. stdout' \in [1..(n * W) -> Int]
  BY <1>1, <1>3
<1>6. stdout' \in Seq(Int) /\ Len(stdout') = n * W
  <2> HIDE DEF n, W
  <2> QED BY <1>4, <1>5, FunctionSeq
<1>7. ASSUME NEW i \in 1..n, NEW k \in 1..W
      PROVE  stdout'[(i - 1) * W + k] = ToLeBytes(results[i])[k]
  <2>1. (i - 1) * W + k \in 1..(n * W) /\ q((i - 1) * W + k) = i /\ z((i - 1) * W + k) = k
    BY <1>0, BytePosition DEF q, z
  <2> HIDE DEF n, W
  <2> QED BY <1>1, <2>1
<1> QED BY <1>6, <1>7

\* The results are written, and the regions of the shapes that write come next.
LEMMA WriteResultsControl == ASSUME Control, WriteResults PROVE Control'
<1>1. /\ Running /\ Rigid /\ pc = "results" /\ at' = at /\ at = 1 /\ results' = results /\ mem' = mem
      /\ pc' = IF ProgramOf(1).echo = <<>> THEN "evaluate" ELSE "echo"
  BY DEF Control, WriteResults, Running, Rigid
<1>2. stdout' \in Seq(Int)
  BY WrittenWords
<1>3. Settled'
  BY <1>1, <1>2, QuietStep
<1>4. ProgramOf(1).echo = EchoOf(shape) /\ Len(vectors) \in Nat /\ Len(vectors) > 0
  BY <1>1, RunFacts DEF Wired
<1>5. CASE EchoOf(shape) = <<>>
  <2>1. pc' = "evaluate"
    BY <1>1, <1>4, <1>5
  <2> QED BY <1>3, <2>1 DEF Control, Settled, Running
<1>6. CASE EchoOf(shape) # <<>>
  <2>1. pc' = "echo" /\ shape \in WriteShapes /\ at' = 1
    BY <1>1, <1>4, <1>6, RunFacts
  <2>2. Len(EchoOf(shape)) \in {1, 2}
    <3>1. EchoOf(shape) \in {<<"buf">>, <<"a", "b">>}
      BY <2>1 DEF EchoOf, WriteShapes
    <3>2. Len(<<"buf">>) = 1 /\ Len(<<"a", "b">>) = 2
      OBVIOUS
    <3> QED BY <3>1, <3>2
  <2>3. 1 \in 1..Regions
    <3>1. PICK n, l : n = Len(vectors) /\ l = Len(EchoOf(shape))
      OBVIOUS
    <3>2. Regions = n * l /\ n \in Nat /\ n > 0 /\ l \in {1, 2}
      BY <1>4, <2>2, <3>1 DEF Regions
    <3> QED BY <3>2
  <2>4. Regions' = Regions /\ shape' = shape
    BY <1>1 DEF Rigid, Regions
  <2> QED BY <1>3, <2>1, <2>3, <2>4 DEF Control, Settled, Running
<1> QED BY <1>5, <1>6

\* A step of the echo writes one whole region.
LEMMA WrittenRegion ==
    ASSUME Control, WriteEcho
    PROVE  /\ Running /\ Rigid /\ pc = "echo" /\ shape \in WriteShapes /\ at \in 1..Regions
           /\ stdout' = stdout \o CellsAt(at) /\ CellsAt(at) \in Seq(Int) /\ stdout \in Seq(Int)
           /\ at' = at + 1 /\ pc' = IF at = Regions THEN "evaluate" ELSE "echo"
           /\ mem' = mem /\ results' = results
<1>1. /\ Running /\ Rigid /\ pc = "echo" /\ shape \in WriteShapes /\ at \in 1..Regions
      /\ stdout \in Seq(Int) /\ at' = at + 1 /\ mem' = mem /\ results' = results
  BY DEF Control, WriteEcho, Running, Rigid
<1>2. 1 \in DOMAIN vectors
  BY <1>1, RunFacts
<1>3. ProgramOf(1).echo = EchoOf(shape)
  BY <1>1, <1>2, RunFacts DEF Wired
<1>4. PICK k \in 1..Regions : k = at
  BY <1>1
<1>5. /\ CellsAt(k) \in Seq(Int)
      /\ SubSeq(CellsAt(k), 1, EchoLength(shape, vectors[VectorAt(k)]) + 2) = CellsAt(k)
  BY <1>1, RegionFacts, SMTT(30)
<1>6. /\ stdout' = stdout \o SubSeq(CellsAt(at), 1, EchoLength(shape, vectors[VectorAt(at)]) + 2)
      /\ pc' = IF at = Regions THEN "evaluate" ELSE "echo"
  BY <1>3 DEF WriteEcho, VectorAt, LabelAt, CellsAt, Regions
<1> QED BY <1>1, <1>4, <1>5, <1>6

\* A region is echoed.
LEMMA WriteEchoControl == ASSUME Control, WriteEcho PROVE Control'
<1>1. /\ Running /\ Rigid /\ shape \in WriteShapes /\ at \in 1..Regions
      /\ at' = at + 1 /\ pc' = IF at = Regions THEN "evaluate" ELSE "echo"
      /\ mem' = mem /\ results' = results
  BY WrittenRegion
<1>2. stdout' \in Seq(Int)
  <2>1. \A s, t \in Seq(Int) : s \o t \in Seq(Int)
    OBVIOUS
  <2> QED BY <2>1, WrittenRegion
<1>3. Settled'
  BY <1>1, <1>2, QuietStep
<1>4. Regions' = Regions /\ shape' = shape
  BY <1>1 DEF Rigid, Regions
<1>5. CASE at = Regions
  <2>1. pc' = "evaluate"
    BY <1>1, <1>5
  <2> QED BY <1>3, <2>1 DEF Control, Settled, Running
<1>6. CASE at # Regions
  <2>1. pc' = "echo" /\ at' \in 1..Regions
    <3>1. Regions \in Nat
      BY <1>1, RegionFacts
    <3>2. \A r \in Nat : at \in 1..r /\ at # r => at + 1 \in 1..r
      OBVIOUS
    <3> QED BY <1>1, <1>6, <3>1, <3>2
  <2> QED BY <1>1, <1>3, <1>4, <2>1 DEF Control, Settled, Running
<1> QED BY <1>5, <1>6

\* Output is cut, or evaluated.
LEMMA EndControl == ASSUME Control, Stops \/ Evaluate PROVE Control'
<1>1. /\ Running /\ Rigid /\ results' = results /\ mem' = mem /\ pc' \in {"cut", "done"}
      /\ stdout \in Seq(Int)
  BY DEF Control, Stops, Evaluate, Running, Rigid
<1>2. stdout' = stdout \/ \E n \in 0..(Len(stdout) - 1) : stdout' = SubSeq(stdout, 1, n)
  BY DEF Stops, Evaluate
<1>3. stdout' \in Seq(Int)
  BY <1>1, <1>2
<1>4. Settled'
  BY <1>1, <1>3, QuietStep
<1> QED BY <1>1, <1>4 DEF Control, Settled, Running

\* Control is inductive.
LEMMA ControlStep == ASSUME Control, [Next]_vars PROVE Control'
<1>1. CASE UNCHANGED vars
  BY <1>1 DEF vars, Control, Running, Family, Regions, ProgramOf
<1>2. CASE Ended
  <2>1. UNCHANGED vars
    BY <1>2 DEF Ended
  <2> QED BY <1>1, <2>1
<1>3. CASE Next
  BY <1>2, <1>3, SynthesizeControl, ExternalControl, ResolveControl, GenerateControl, CallControl,
     StrayControl, WriteResultsControl, WriteEchoControl, EndControl DEF Next
<1> QED BY <1>1, <1>3

\* The typing and the control of the harness.
THEOREM ControlInvariant == Spec => []Control
BY InitControl, ControlStep, PTL DEF Spec

-----------------------------------------------------------------------------
(* What is on stdout: the words of the results, then the regions.          *)

\* The bytes of word i, and of region k, which starts at g[k].
WordIn(i) == \A k \in 1..WordBytes : stdout[(i - 1) * WordBytes + k] = ToLeBytes(results[i])[k]
RegionIn(g, k) == \A j \in 1..(g[k + 1] - g[k]) : stdout[g[k] + j] = CellsAt(k)[j]

RegionSize(k) == EchoLength(shape, vectors[VectorAt(k)]) + 2

\* g[k]: where region k starts.
Offsets(g) ==
    /\ g \in [1..(Regions + 1) -> Nat] /\ g[1] = Len(vectors) * WordBytes
    /\ \A k \in 1..Regions : g[k + 1] = g[k] + RegionSize(k)

\* As far as stdout reaches, it holds the results word by word and then region
\* by region the memory, and the report is its evaluation.
Printed ==
    /\ Running /\ stdout # <<>> =>
          /\ \A i \in DOMAIN vectors : i * WordBytes <= Len(stdout) => i <= Len(results) /\ WordIn(i)
          /\ shape \in WriteShapes =>
                \A g : Offsets(g) =>
                   /\ pc = "echo" => Len(stdout) = g[at]
                   /\ \A k \in 1..Regions : g[k + 1] <= Len(stdout) => RegionIn(g, k)
    /\ pc = "echo" => stdout # <<>> /\ Len(vectors) * WordBytes <= Len(stdout)
    /\ pc = "done" => report = evaluate(stdout, vectors, shape)

\* Products of positive numbers.
LEMMA Products ==
    ASSUME NEW w \in Nat \ {0}, NEW n \in Nat, NEW i \in 1..n
    PROVE  i * w > 0 /\ i * w <= n * w /\ i * w \in Nat /\ n * w \in Nat
OBVIOUS

\* The regions follow each other and none is empty.
LEMMA OffsetsGrow ==
    ASSUME Control, Running, shape \in WriteShapes, NEW g, Offsets(g)
    PROVE  /\ \A k \in 1..Regions : /\ RegionSize(k) \in Nat /\ RegionSize(k) >= 2
                                    /\ g[k] \in Nat /\ g[k + 1] \in Nat
           /\ \A j \in 1..(Regions + 1) : \A i \in 1..j : g[i] <= g[j] /\ (i < j => g[i] < g[j])
<1> DEFINE R == Regions
<1>1. R \in Nat
  <2>1. R = Len(vectors) * Len(EchoOf(shape)) /\ Len(vectors) \in Nat
    BY RunFacts DEF Regions
  <2>2. Len(EchoOf(shape)) \in Nat
    <3>1. EchoOf(shape) \in {<<"buf">>, <<"a", "b">>}
      BY DEF EchoOf, WriteShapes
    <3>2. Len(<<"buf">>) = 1 /\ Len(<<"a", "b">>) = 2
      OBVIOUS
    <3> QED BY <3>1, <3>2
  <2> QED BY <2>1, <2>2
<1>2. ASSUME NEW k \in 1..R
      PROVE  /\ RegionSize(k) \in Nat /\ RegionSize(k) >= 2
             /\ g[k] \in Nat /\ g[k + 1] \in Nat /\ g[k + 1] > g[k]
  <2>1. EchoLength(shape, vectors[VectorAt(k)]) \in Nat
    BY RegionFacts
  <2>2. RegionSize(k) \in Nat /\ RegionSize(k) >= 2
    BY <2>1 DEF RegionSize
  <2>3. g[k] \in Nat /\ g[k + 1] = g[k] + RegionSize(k)
    <3>1. k \in 1..(R + 1)
      BY <1>1
    <3> QED BY <3>1 DEF Offsets
  <2> QED BY <2>2, <2>3
<1> HIDE DEF R
<1>3. \A k \in 1..(R + 1) : g[k] \in Nat
  BY DEF Offsets, R
<1> DEFINE S == {j \in Nat : \A i \in 1..j : g[i] <= g[j] /\ (i < j => g[i] < g[j])}
<1>4. ASSUME NEW j \in 1..(R + 1), 1..(j - 1) \subseteq S PROVE j \in S
  <2> SUFFICES ASSUME NEW i \in 1..j PROVE g[i] <= g[j] /\ (i < j => g[i] < g[j])
    OBVIOUS
  <2>1. CASE i = j
    BY <1>3, <2>1
  <2>2. CASE i < j
    <3>1. j - 1 \in 1..R /\ j - 1 \in S /\ i \in 1..(j - 1)
      BY <1>1, <1>4, <2>2
    <3>2. g[i] <= g[j - 1]
      BY <3>1
    <3>3. g[j - 1] < g[j]
      <4>1. PICK k \in 1..R : k = j - 1
        BY <3>1
      <4>2. g[k + 1] > g[k] /\ k + 1 = j
        BY <1>1, <1>2, <4>1
      <4> QED BY <1>2, <4>1, <4>2
    <3> QED BY <1>1, <1>3, <2>2, <3>1, <3>2, <3>3
  <2> QED BY <2>1, <2>2
<1> HIDE DEF S
<1>5. 1..(R + 1) \subseteq S
  <2>1. 1 \in Nat /\ R + 1 \in Int
    BY <1>1
  <2> QED BY <1>4, <2>1, Induction
<1> QED BY <1>2, <1>5 DEF S, R

\* A word that is not empty does not lie in nothing.
LEMMA NoWord ==
    ASSUME NEW i \in Nat \ {0}
    PROVE  i * WordBytes > 0 /\ ~(i * WordBytes <= Len(<<>>))
<1>1. i * WordBytes > 0
  <2>1. \A w \in Nat \ {0} : i * w > 0 /\ i * w \in Nat
    OBVIOUS
  <2> QED BY <2>1, VectorAssumption
<1>2. Len(<<>>) = 0 /\ i * WordBytes \in Int
  BY VectorAssumption
<1> QED BY <1>1, <1>2

\* Nothing is printed before the results are.
LEMMA NothingPrinted ==
    ASSUME Control', pc' \notin {"echo", "evaluate", "cut", "done"}
    PROVE  Printed'
<1>1. pc' # "echo" /\ pc' # "done" /\ (Running' => pc' \in {"call", "results"})
  BY DEF Running
<1>2. Running' => stdout' = <<>>
  BY <1>1 DEF Control
<1> QED BY <1>1, <1>2 DEF Printed

\* What does not change what the bytes are compared with.
Fixed == Rigid /\ results' = results /\ mem' = mem

\* Then the regions, their sizes and their contents are the same.
LEMMA FixedFacts ==
    ASSUME Fixed
    PROVE  /\ Regions' = Regions /\ \A g : Offsets(g)' = Offsets(g)
           /\ \A k : RegionSize(k)' = RegionSize(k) /\ CellsAt(k)' = CellsAt(k)
<1>1. Regions' = Regions /\ \A k : RegionSize(k)' = RegionSize(k) /\ CellsAt(k)' = CellsAt(k)
  BY DEF Fixed, Rigid, Regions, RegionSize, VectorAt, LabelAt, CellsAt
<1>2. \A g : Offsets(g)' = Offsets(g)
  BY <1>1 DEF Fixed, Rigid, Offsets
<1> QED BY <1>1, <1>2

\* Where the bytes of a word are.
LEMMA WordPosition ==
    ASSUME NEW i \in Nat \ {0}, NEW k \in 1..WordBytes
    PROVE  (i - 1) * WordBytes + k \in 1..(i * WordBytes) /\ i * WordBytes \in Nat
<1> DEFINE W == WordBytes
<1>0. W \in Nat \ {0}
  BY VectorAssumption
<1> HIDE DEF W
<1>1. k \in 1..W
  BY DEF W
<1>2. (i - 1) * W + k \in 1..(i * W) /\ i * W \in Nat
  BY <1>0, <1>1, BytePosition
<1> QED BY <1>2 DEF W

\* A report that is made, and output that is cut, keep what is there.
LEMMA EndPrinted ==
    ASSUME Control, Printed, Stops \/ Evaluate
    PROVE  Printed'
<1>1. /\ Running /\ Fixed /\ pc' \in {"cut", "done"} /\ stdout \in Seq(Int)
      /\ pc' = "done" => report' = evaluate(stdout, vectors, shape) /\ stdout' = stdout
  BY DEF Control, Stops, Evaluate, Running, Fixed, Rigid
<1>2. /\ Len(stdout') \in Nat /\ Len(stdout') <= Len(stdout) /\ Len(stdout) \in Nat
      /\ \A j \in 1..Len(stdout') : stdout'[j] = stdout[j]
      /\ stdout' # <<>> => stdout # <<>>
  <2>1. CASE stdout' = stdout
    BY <1>1, <2>1
  <2>2. CASE \E m \in 0..(Len(stdout) - 1) : stdout' = SubSeq(stdout, 1, m)
    <3>1. PICK m \in 0..(Len(stdout) - 1) : stdout' = SubSeq(stdout, 1, m)
      BY <2>2
    <3>2. Len(stdout') = m /\ \A j \in 1..m : stdout'[j] = stdout[j]
      BY <1>1, <3>1
    <3>3. Len(<<>>) = 0
      OBVIOUS
    <3> QED BY <1>1, <3>1, <3>2, <3>3
  <2> QED BY <2>1, <2>2 DEF Stops, Evaluate
<1>3. /\ results' = results /\ vectors' = vectors /\ shape' = shape /\ contract' = contract /\ abi' = abi
      /\ Regions' = Regions /\ \A g : Offsets(g)' = Offsets(g)
      /\ \A k : CellsAt(k)' = CellsAt(k)
  BY <1>1, FixedFacts DEF Fixed, Rigid
<1>4. ASSUME stdout' # <<>>, NEW i \in DOMAIN vectors, i * WordBytes <= Len(stdout')
      PROVE  i <= Len(results) /\ WordIn(i)'
  <2>1. i \in Nat \ {0}
    BY <1>1, RunFacts
  <2>2. i * WordBytes \in Nat /\ \A k \in 1..WordBytes : (i - 1) * WordBytes + k \in 1..(i * WordBytes)
    <3>1. 1 \in 1..WordBytes
      BY VectorAssumption
    <3> QED BY <2>1, <3>1, WordPosition
  <2>3. i * WordBytes <= Len(stdout)
    BY <1>2, <1>4, <2>2
  <2>4. i <= Len(results) /\ WordIn(i)
    BY <1>1, <1>2, <1>4, <2>3 DEF Printed
  <2>5. ASSUME NEW k \in 1..WordBytes
        PROVE  stdout'[(i - 1) * WordBytes + k] = ToLeBytes(results[i])[k]
    <3>1. PICK p \in 1..Len(stdout') : p = (i - 1) * WordBytes + k
      BY <1>2, <1>4, <2>2
    <3>2. stdout'[p] = stdout[p]
      BY <1>2, <3>1
    <3> QED BY <2>4, <3>1, <3>2 DEF WordIn
  <2> QED BY <1>3, <2>4, <2>5 DEF WordIn
<1>5. ASSUME stdout' # <<>>, shape \in WriteShapes, NEW g, Offsets(g), NEW k \in 1..Regions, g[k + 1] <= Len(stdout')
      PROVE  RegionIn(g, k)'
  <2>1. g[k] \in Nat /\ g[k + 1] \in Nat
    BY <1>1, <1>5, OffsetsGrow
  <2>2. RegionIn(g, k)
    BY <1>1, <1>2, <1>5, <2>1 DEF Printed
  <2>3. \A j \in 1..(g[k + 1] - g[k]) : g[k] + j \in 1..Len(stdout')
    BY <1>2, <1>5, <2>1
  <2> QED BY <1>2, <1>3, <2>2, <2>3 DEF RegionIn
<1> QED BY <1>1, <1>3, <1>4, <1>5 DEF Printed, Running

\* The results are printed word by word, and no region yet.
LEMMA ResultsPrinted ==
    ASSUME Control, WriteResults
    PROVE  Printed'
<1>1. /\ Running /\ Fixed /\ pc' \in {"evaluate", "echo"} /\ at = 1 /\ at' = 1
      /\ Len(results) = Len(vectors)
  BY DEF Control, WriteResults, Running, Fixed, Rigid
<1>2. /\ Len(stdout') = Len(results) * WordBytes
      /\ \A i \in 1..Len(results) : \A k \in 1..WordBytes :
            stdout'[(i - 1) * WordBytes + k] = ToLeBytes(results[i])[k]
  BY WrittenWords
<1>3. /\ results' = results /\ vectors' = vectors /\ shape' = shape
      /\ Regions' = Regions /\ \A g : Offsets(g)' = Offsets(g)
      /\ \A k : CellsAt(k)' = CellsAt(k)
  BY <1>1, FixedFacts DEF Fixed, Rigid
<1>4. Len(vectors) \in Nat /\ Len(vectors) > 0 /\ DOMAIN vectors = 1..Len(vectors)
  BY <1>1, RunFacts
<1>5. stdout' # <<>> /\ Len(stdout') = Len(vectors) * WordBytes /\ Len(vectors) * WordBytes \in Nat
  <2>1. PICK n \in Nat \ {0} : n = Len(vectors)
    <3>1. Len(vectors) \in Nat \ {0}
      BY <1>4
    <3> QED BY <3>1, Zenon
  <2>2. n * WordBytes > 0 /\ ~(n * WordBytes <= Len(<<>>))
    BY <2>1, NoWord
  <2>3. n * WordBytes \in Nat
    BY <2>1, VectorAssumption
  <2>4. Len(stdout') = n * WordBytes
    BY <1>1, <1>2, <2>1
  <2> QED BY <2>1, <2>2, <2>3, <2>4
<1>6. \A i \in DOMAIN vectors : i <= Len(results) /\ WordIn(i)'
  BY <1>1, <1>2, <1>3, <1>4 DEF WordIn
<1>7. ASSUME shape \in WriteShapes, NEW g, Offsets(g)
      PROVE  /\ Len(stdout') = g[1]
             /\ \A k \in 1..Regions : ~(g[k + 1] <= Len(stdout'))
  <2>1. g[1] = Len(vectors) * WordBytes
    BY <1>7 DEF Offsets
  <2>2. ASSUME NEW k \in 1..Regions PROVE g[1] < g[k + 1] /\ g[k + 1] \in Nat
    <3>1. Regions \in Nat
      BY <1>1, <1>7, RegionFacts
    <3>2. k + 1 \in 1..(Regions + 1) /\ 1 \in 1..(k + 1) /\ 1 < k + 1
      BY <3>1
    <3> QED BY <1>1, <1>7, <3>2, OffsetsGrow
  <2> QED BY <1>5, <2>1, <2>2
<1>8. /\ pc' = "echo" => stdout' # <<>> /\ Len(vectors') * WordBytes <= Len(stdout')
      /\ pc' # "done"
  BY <1>1, <1>3, <1>5
<1> QED BY <1>1, <1>3, <1>6, <1>7, <1>8 DEF Printed

\* A region is printed behind the regions before it.
LEMMA EchoPrinted ==
    ASSUME Control, Printed, WriteEcho
    PROVE  Printed'
<1>1. /\ Running /\ Fixed /\ pc = "echo" /\ pc' \in {"evaluate", "echo"} /\ shape \in WriteShapes
      /\ at \in 1..Regions /\ at' = at + 1 /\ stdout \in Seq(Int)
      /\ stdout' = stdout \o CellsAt(at) /\ CellsAt(at) \in Seq(Int)
  BY WrittenRegion DEF Fixed
<1>2. PICK a \in 1..Regions : a = at
  BY <1>1
<1>3. PICK c \in Seq(Int) : c = CellsAt(a)
  BY <1>1, <1>2
<1>4. Regions \in Nat /\ Len(c) = RegionSize(a)
  BY <1>1, <1>2, <1>3, RegionFacts DEF RegionSize
<1>5. /\ Len(stdout') = Len(stdout) + Len(c) /\ Len(stdout) \in Nat /\ Len(c) \in Nat
      /\ \A j \in 1..Len(stdout) : stdout'[j] = stdout[j]
      /\ \A j \in 1..Len(c) : stdout'[Len(stdout) + j] = c[j]
  <2>1. stdout' = stdout \o c
    BY <1>1, <1>2, <1>3
  <2> QED BY <1>1, <2>1
<1>6. /\ results' = results /\ vectors' = vectors /\ shape' = shape
      /\ Regions' = Regions /\ \A g : Offsets(g)' = Offsets(g)
      /\ \A k : CellsAt(k)' = CellsAt(k)
  BY <1>1, FixedFacts DEF Fixed, Rigid
<1>7. /\ Len(vectors) \in Nat /\ DOMAIN vectors = 1..Len(vectors)
      /\ stdout # <<>> /\ Len(vectors) * WordBytes <= Len(stdout)
  BY <1>1, RunFacts DEF Printed
<1>8. Len(vectors) * WordBytes \in Int /\ Len(stdout') > 0
  <2>1. Len(vectors) * WordBytes \in Int
    BY <1>7, VectorAssumption
  <2>2. Len(stdout) > 0
    BY <1>1, <1>7
  <2> QED BY <1>5, <2>1, <2>2
<1>9. stdout' # <<>> /\ Len(vectors) * WordBytes <= Len(stdout')
  <2>1. Len(<<>>) = 0
    OBVIOUS
  <2> QED BY <1>5, <1>7, <1>8, <2>1
<1>10. ASSUME NEW i \in DOMAIN vectors
       PROVE  i <= Len(results) /\ WordIn(i)'
  <2>1. i \in Nat \ {0} /\ i \in 1..Len(vectors)
    BY <1>7
  <2>2. i * WordBytes <= Len(vectors) * WordBytes /\ i * WordBytes \in Nat
    <3>1. PICK n, w : n = Len(vectors) /\ w = WordBytes
      OBVIOUS
    <3>2. n \in Nat /\ w \in Nat \ {0} /\ i \in 1..n
      BY <1>7, <2>1, <3>1, VectorAssumption
    <3> QED BY <3>1, <3>2, Products
  <2>3. i * WordBytes <= Len(stdout)
    BY <1>5, <1>7, <1>8, <2>2
  <2>4. i <= Len(results) /\ WordIn(i)
    BY <1>1, <1>7, <2>3 DEF Printed
  <2>5. ASSUME NEW k \in 1..WordBytes
        PROVE  stdout'[(i - 1) * WordBytes + k] = ToLeBytes(results[i])[k]
    <3>1. (i - 1) * WordBytes + k \in 1..(i * WordBytes)
      BY <2>1, WordPosition
    <3>2. PICK p \in 1..Len(stdout) : p = (i - 1) * WordBytes + k
      BY <1>5, <2>2, <2>3, <3>1
    <3>3. stdout'[p] = stdout[p]
      BY <1>5, <3>2
    <3> QED BY <2>4, <3>2, <3>3 DEF WordIn
  <2> QED BY <1>6, <2>4, <2>5 DEF WordIn
<1>11. ASSUME NEW g, Offsets(g)
       PROVE  /\ Len(stdout') = g[a + 1]
              /\ \A k \in 1..Regions : g[k + 1] <= Len(stdout') => RegionIn(g, k)'
  <2>1. Len(stdout) = g[a] /\ g[a + 1] = g[a] + RegionSize(a)
    BY <1>1, <1>2, <1>7, <1>11 DEF Printed, Offsets
  <2>2. Len(stdout') = g[a + 1] /\ Len(c) = g[a + 1] - g[a]
    BY <1>4, <1>5, <2>1
  <2>3. ASSUME NEW k \in 1..Regions, g[k + 1] <= Len(stdout') PROVE RegionIn(g, k)'
    <3>1. g[k] \in Nat /\ g[k + 1] \in Nat /\ g[a] \in Nat /\ g[a + 1] \in Nat
      BY <1>1, <1>11, OffsetsGrow
    <3>2. CASE k < a
      <4>1. g[k + 1] <= g[a]
        <5>1. a \in 1..(Regions + 1) /\ k + 1 \in 1..a
          BY <1>4, <3>2
        <5> QED BY <1>1, <1>11, <5>1, OffsetsGrow
      <4>2. RegionIn(g, k)
        BY <1>1, <1>7, <1>11, <2>1, <4>1 DEF Printed
      <4>3. \A j \in 1..(g[k + 1] - g[k]) : g[k] + j \in 1..Len(stdout)
        BY <2>1, <3>1, <4>1, SMTT(30)
      <4> QED BY <1>5, <1>6, <4>2, <4>3 DEF RegionIn
    <3>3. CASE k = a
      <4>1. ASSUME NEW j \in 1..(g[k + 1] - g[k]) PROVE stdout'[g[k] + j] = CellsAt(k)[j]
        <5>1. j \in 1..Len(c) /\ g[k] = Len(stdout)
          BY <2>1, <2>2, <3>3
        <5>2. stdout'[Len(stdout) + j] = c[j]
          BY <1>5, <5>1
        <5> QED BY <1>3, <3>3, <5>1, <5>2
      <4> QED BY <1>6, <4>1 DEF RegionIn
    <3>4. CASE k > a
      <4>1. k + 1 \in 1..(Regions + 1) /\ a + 1 \in 1..(k + 1) /\ a + 1 < k + 1
        BY <1>4, <3>4
      <4>2. g[a + 1] < g[k + 1]
        BY <1>1, <1>11, <4>1, OffsetsGrow
      <4> QED BY <2>2, <2>3, <3>1, <4>2
    <3> QED BY <3>2, <3>3, <3>4
  <2> QED BY <2>2, <2>3
<1>12. pc' # "done" /\ at' = a + 1
  BY <1>1, <1>2
<1> QED BY <1>6, <1>9, <1>10, <1>11, <1>12 DEF Printed

\* Printed is inductive.
LEMMA PrintedStep == ASSUME Control, Printed, Control', [Next]_vars PROVE Printed'
<1>1. CASE UNCHANGED vars
  <2>1. Fixed /\ pc' = pc /\ stdout' = stdout /\ at' = at /\ report' = report
    BY <1>1 DEF vars, Fixed, Rigid
  <2>2. /\ Regions' = Regions /\ \A g : Offsets(g)' = Offsets(g)
        /\ \A k : CellsAt(k)' = CellsAt(k)
    BY <2>1, FixedFacts
  <2> QED BY <2>1, <2>2 DEF Printed, Running, Fixed, Rigid, WordIn, RegionIn
<1>2. CASE Ended
  <2>1. UNCHANGED vars
    BY <1>2 DEF Ended
  <2> QED BY <1>1, <2>1
<1>3. CASE \/ Synthesize \/ NoExternal \/ Resolve \/ Generate
           \/ \E inputs \in ExternalCases : AppendExternal(inputs)
           \/ CallConforming \/ CallWrong \/ StrayStore
  <2>1. pc' \notin {"echo", "evaluate", "cut", "done"}
    BY <1>3 DEF Synthesize, NoExternal, Resolve, Generate, AppendExternal, CallConforming, CallWrong,
                StrayStore, Return
  <2> QED BY <2>1, NothingPrinted
<1> QED BY <1>1, <1>2, <1>3, ResultsPrinted, EchoPrinted, EndPrinted DEF Next

\* What stdout holds, as far as it reaches.
THEOREM PrintedInvariant == Spec => []Printed
<1>1. Init => Printed
  BY DEF Init, Printed, Running
<1> QED BY <1>1, ControlInvariant, PrintedStep, PTL DEF Spec

-----------------------------------------------------------------------------
(* The expected echoes are what the oracle claims of the vector's inputs.  *)

Canonical(a, b) == [p1 |-> [cells |-> a], p2 |-> [cells |-> b]]

\* Sequences are equal when they have the same length and the same items.
LEMMA SameSeq ==
    ASSUME NEW S, NEW s \in Seq(S), NEW T, NEW t \in Seq(T), Len(s) = Len(t), \A i \in 1..Len(s) : s[i] = t[i]
    PROVE  s = t
OBVIOUS

\* What is read through a pointer to a whole region.
LEMMA ReadCanonical ==
    ASSUME NEW a \in Seq(Int), NEW b \in Seq(Int), NEW p
    PROVE  /\ (Len(a) > 0 => p = Address("p1", 0)) => Cells(Canonical(a, b), p, Len(a)) = a
           /\ (Len(b) > 0 => p = Address("p2", 0)) => Cells(Canonical(a, b), p, Len(b)) = b
<1>1. \A s \in Seq(Int) : Len(s) \in Nat /\ (Len(s) = 0 => s = <<>>) /\ SubSeq(s, 1, Len(s)) = s
  OBVIOUS
<1>2. Canonical(a, b)["p1"].cells = a /\ Canonical(a, b)["p2"].cells = b
  BY DEF Canonical
<1>3. \A l \in {"p1", "p2"} : Address(l, 0).region = l /\ Address(l, 0).n = 0
  BY DEF Address
<1>4. ASSUME Len(a) > 0 => p = Address("p1", 0) PROVE Cells(Canonical(a, b), p, Len(a)) = a
  <2>1. CASE Len(a) = 0
    BY <1>1, <2>1 DEF Cells
  <2>2. CASE Len(a) # 0
    <3>1. p.region = "p1" /\ p.n = 0
      BY <1>1, <1>3, <1>4, <2>2
    <3>2. Cells(Canonical(a, b), p, Len(a)) = SubSeq(a, 0 + 1, 0 + Len(a))
      BY <1>2, <2>2, <3>1 DEF Cells
    <3> QED BY <1>1, <3>2
  <2> QED BY <2>1, <2>2
<1>5. ASSUME Len(b) > 0 => p = Address("p2", 0) PROVE Cells(Canonical(a, b), p, Len(b)) = b
  <2>1. CASE Len(b) = 0
    BY <1>1, <2>1 DEF Cells
  <2>2. CASE Len(b) # 0
    <3>1. p.region = "p2" /\ p.n = 0
      BY <1>1, <1>3, <1>5, <2>2
    <3>2. Cells(Canonical(a, b), p, Len(b)) = SubSeq(b, 0 + 1, 0 + Len(b))
      BY <1>2, <2>2, <3>1 DEF Cells
    <3> QED BY <1>1, <3>2
  <2> QED BY <2>1, <2>2
<1> QED BY <1>4, <1>5

\* What a store of a whole region leaves.
LEMMA StoreCanonical ==
    ASSUME NEW a \in Seq(Int), NEW b \in Seq(Int), NEW p, NEW s \in Seq(Int), Len(s) = Len(a),
           Len(a) > 0 => p = Address("p1", 0)
    PROVE  /\ Stored(Canonical(a, b), p, s)["p1"].cells = s
           /\ Stored(Canonical(a, b), p, s)["p2"].cells = b
<1>1. Canonical(a, b)["p1"].cells = a /\ Canonical(a, b)["p2"].cells = b
  BY DEF Canonical
<1>2. CASE s = <<>>
  <2>1. Len(a) = 0 /\ a = <<>>
    BY <1>2
  <2> QED BY <1>1, <1>2, <2>1 DEF Stored
<1>3. CASE s # <<>>
  <2>1. Len(a) > 0 /\ DOMAIN a = 1..Len(a) /\ DOMAIN s = 1..Len(a) /\ Len(a) \in Nat
    BY <1>3
  <2>2. p.region = "p1" /\ p.n = 0
    BY <2>1 DEF Address
  <2> DEFINE t == [k \in DOMAIN a |-> IF k - p.n \in DOMAIN s THEN s[k - p.n] ELSE a[k]]
  <2>3. t = s
    <3>1. \A k \in 1..Len(a) : k - p.n = k
      BY <2>2
    <3>2. t = [k \in 1..Len(a) |-> s[k]]
      BY <2>1, <3>1
    <3>3. s = [k \in 1..Len(a) |-> s[k]]
      BY <2>1
    <3> QED BY <3>2, <3>3
  <2>4. Stored(Canonical(a, b), p, s) = [Canonical(a, b) EXCEPT !["p1"].cells = t]
    BY <1>1, <1>3, <2>2 DEF Stored
  <2> HIDE DEF t
  <2>5. [Canonical(a, b) EXCEPT !["p1"].cells = t] = [p1 |-> [cells |-> t], p2 |-> [cells |-> b]]
    BY DEF Canonical
  <2>6. /\ [p1 |-> [cells |-> t], p2 |-> [cells |-> b]]["p1"].cells = t
        /\ [p1 |-> [cells |-> t], p2 |-> [cells |-> b]]["p2"].cells = b
    OBVIOUS
  <2> QED BY <2>3, <2>4, <2>5, <2>6
<1> QED BY <1>2, <1>3

\* The arguments made of the inputs of a vector.
LEMMA CanonicalFacts ==
    ASSUME NEW v \in VectorType, NEW k \in 1..Len(v.inputs)
    PROVE  /\ \A n \in Words : v.inputs[k] = Num(n) => /\ CanonicalArguments(v)[k].n = n
           /\ v.inputs[k] \in Buffers /\ Len(Items(v.inputs[k])) > 0 =>
                 CanonicalArguments(v)[k] = Address(IF k = 1 THEN "p1" ELSE "p2", 0)
           /\ CanonicalMemory(v) = Canonical(Items(Input(v, 1)), Items(Input(v, 2)))
<1>1. k \in DOMAIN v.inputs
  BY DEF VectorType
<1> DEFINE in == v.inputs[k]
<1>2. CanonicalArguments(v)[k] =
        IF in.k = "number" THEN Number(Bits(in.v))
        ELSE IF in.k = "null" THEN Number(0)
        ELSE Address(IF k = 1 THEN "p1" ELSE "p2", 0)
  BY <1>1, Zenon DEF CanonicalArguments
<1> HIDE DEF in
<1>3. ASSUME NEW n \in Words, in = Num(n) PROVE CanonicalArguments(v)[k].n = n
  <2>1. in.k = "number" /\ in.v = n
    BY <1>3 DEF Num
  <2>2. Bits(n) = n
    BY WordSize DEF Bits, Words
  <2>3. CanonicalArguments(v)[k] = Number(Bits(in.v))
    BY <1>2, <2>1
  <2>4. CanonicalArguments(v)[k] = Number(n)
    BY <2>1, <2>2, <2>3, Zenon
  <2>5. Number(n).n = n
    BY DEF Number
  <2> QED BY <2>4, <2>5, Zenon
<1>4. ASSUME in \in Buffers, Len(Items(in)) > 0
      PROVE  CanonicalArguments(v)[k] = Address(IF k = 1 THEN "p1" ELSE "p2", 0)
  <2>1. in # Null
    BY <1>4, BufferFacts
  <2>2. in.k = "array"
    BY <1>4, <2>1 DEF Buffers, Arr
  <2> QED BY <1>2, <2>2
<1>5. CanonicalMemory(v) = Canonical(Items(Input(v, 1)), Items(Input(v, 2)))
  BY DEF CanonicalMemory, Canonical
<1> QED BY <1>3, <1>4, <1>5 DEF in

\* Bytes are what they are read and compared as.
LEMMA BytesAsRead ==
    ASSUME NEW s \in Seq(Byte)
    PROVE  /\ [j \in DOMAIN s |-> Lesser(s[j], 255)] = s
           /\ [i \in DOMAIN s |-> s[i] % 256] = s
           /\ s \in Seq(Int) /\ Len(s) \in Nat /\ DOMAIN s = 1..Len(s)
<1>1. s \in Seq(Int) /\ Len(s) \in Nat /\ DOMAIN s = 1..Len(s)
  BY BufferFacts
<1>2. \A i \in DOMAIN s : Lesser(s[i], 255) = s[i] /\ s[i] % 256 = s[i]
  <2>1. \A n \in Byte : Lesser(n, 255) = n /\ n % 256 = n
    BY DEF Lesser, Byte
  <2>2. \A i \in DOMAIN s : s[i] \in Byte
    OBVIOUS
  <2> QED BY <2>1, <2>2
<1>3. s = [i \in DOMAIN s |-> s[i]]
  OBVIOUS
<1> QED BY <1>1, <1>2, <1>3

\* A byte is a word.
LEMMA ByteWords == \A n \in Byte : n \in Words /\ n \in Int /\ n % 256 = n /\ n \in Nat
BY WordSize DEF Byte, Words

\* The bytes a region is expected to hold in the end.
Payload(s, v, j) ==
    IF s = "ReplaceByte" THEN expected_replace_byte_buffer(v)
    ELSE IF s = "Memset" THEN expected_memset_buffer(v)
    ELSE IF j = 1 THEN expected_memcpy_buffer(v) ELSE vector_memcmp_buffer_bytes(v, 2)

RegionOf(j) == IF j = 1 THEN "p1" ELSE "p2"

\* They are as many as are echoed, and what the oracle claims.
Claims(s, v, j, signed) ==
    /\ Payload(s, v, j) \in Seq(Int) /\ Len(Payload(s, v, j)) = EchoLength(s, v)
    /\ Claimed(s, signed, CanonicalMemory(v), CanonicalArguments(v)).mem[RegionOf(j)].cells = Payload(s, v, j)

\* A fill leaves the byte everywhere.
LEMMA MemsetPayload ==
    ASSUME NEW v \in Form("memset"), NEW signed
    PROVE  Claims("Memset", v, 1, signed)
<1> DEFINE arg == CanonicalArguments(v)
           m == CanonicalMemory(v)
<1>0. v \in VectorType
  BY DEF Form
<1>1. PICK x \in Buffers, n \in Byte :
              /\ Len(v.inputs) = 3 /\ v.inputs[1] = x /\ v.inputs[2] = Num(Len(Items(x)))
              /\ v.inputs[3] = Num(n)
              /\ Input(v, 1) = x /\ Input(v, 2) = Num(Len(Items(x))) /\ Input(v, 3) = Num(n)
              /\ Items(x) \in Seq(Byte) /\ Len(Items(x)) \in 0..(Words2 - 1)
  BY FillForm
<1>2. PICK a \in Seq(Int) : a = Items(x) /\ Len(a) \in Words /\ Len(a) \in Nat
  BY <1>1, BytesAsRead DEF Words
<1>3. PICK b \in Seq(Int) : b = Items(Input(v, 2))
  BY <1>0, InputTypes
<1>4. n \in Words /\ n \in Int /\ n % 256 = n /\ n \in Nat
  BY <1>1, ByteWords
<1>5. /\ arg[2].n = Len(a) /\ arg[3].n = n
      /\ Len(a) > 0 => arg[1] = Address("p1", 0)
      /\ m = Canonical(a, b)
  <2>1. 1 \in 1..Len(v.inputs) /\ 2 \in 1..Len(v.inputs) /\ 3 \in 1..Len(v.inputs)
    BY <1>1
  <2>2. v.inputs[2] = Num(Len(a)) /\ v.inputs[3] = Num(n) /\ v.inputs[1] = x /\ Input(v, 1) = x
    BY <1>1, <1>2
  <2>3. arg[2].n = Len(a) /\ arg[3].n = n
    BY <1>0, <1>2, <1>4, <2>1, <2>2, CanonicalFacts
  <2>4. Len(a) > 0 => arg[1] = Address("p1", 0)
    BY <1>0, <1>1, <1>2, <2>1, <2>2, CanonicalFacts
  <2>5. m = Canonical(a, b)
    BY <1>0, <1>2, <1>3, <2>1, <2>2, CanonicalFacts
  <2> QED BY <2>3, <2>4, <2>5
<1> HIDE DEF arg, m
<1>6. Copies(n, Len(a)) \in Seq(Int) /\ Len(Copies(n, Len(a))) = Len(a)
  <2>1. Copies(n, Len(a)) \in [1..Len(a) -> Int]
    BY <1>4 DEF Copies
  <2> QED BY <1>2, <2>1, FunctionSeq
<1>7. Claimed("Memset", signed, m, arg).mem = Stored(m, arg[1], Copies(n, Len(a)))
  <2>1. Claimed("Memset", signed, m, arg) = [result |-> 0, mem |-> Stored(m, arg[1], Copies(arg[3].n, arg[2].n))]
    BY DEF Claimed, LengthOf
  <2> QED BY <1>5, <2>1
<1>8. Claimed("Memset", signed, m, arg).mem["p1"].cells = Copies(n, Len(a))
  <2>1. \A p : (Len(a) > 0 => p = Address("p1", 0)) =>
           Stored(Canonical(a, b), p, Copies(n, Len(a)))["p1"].cells = Copies(n, Len(a))
    BY <1>2, <1>3, <1>6, StoreCanonical
  <2> QED BY <1>5, <1>7, <2>1
<1>9. Payload("Memset", v, 1) = Copies(n, Len(a)) /\ EchoLength("Memset", v) = Len(a)
  <2>1. vector_length(v) = Len(a) /\ vector_needle(v) = n
    BY <1>1, <1>2, <1>4, NumFacts DEF vector_length, vector_needle
  <2> QED BY <2>1 DEF Payload, expected_memset_buffer, EchoLength
<1> QED BY <1>6, <1>8, <1>9 DEF Claims, RegionOf, arg, m

\* A replacement leaves the other byte where the needle was.
LEMMA ReplacePayload ==
    ASSUME NEW v \in Form("replace"), NEW signed
    PROVE  Claims("ReplaceByte", v, 1, signed)
<1> DEFINE arg == CanonicalArguments(v)
           m == CanonicalMemory(v)
<1>0. v \in VectorType
  BY DEF Form
<1>1. PICK x \in Buffers, n \in Byte, r \in Byte :
              /\ Len(v.inputs) = 4 /\ v.inputs[1] = x /\ v.inputs[2] = Num(Len(Items(x)))
              /\ v.inputs[3] = Num(n) /\ v.inputs[4] = Num(r)
              /\ Input(v, 1) = x /\ Input(v, 2) = Num(Len(Items(x))) /\ Input(v, 3) = Num(n)
              /\ Input(v, 4) = Num(r)
              /\ Items(x) \in Seq(Byte) /\ Len(Items(x)) \in 0..(Words2 - 1)
  BY ReplaceForm
<1>2. PICK a \in Seq(Byte) : a = Items(x)
  BY <1>1
<1>3. /\ a \in Seq(Int) /\ Len(a) \in Words /\ Len(a) \in Nat /\ DOMAIN a = 1..Len(a)
      /\ [j \in DOMAIN a |-> Lesser(a[j], 255)] = a /\ \A i \in DOMAIN a : a[i] \in Byte
  <2>1. Len(a) \in Words /\ \A i \in DOMAIN a : a[i] \in Byte
    BY <1>1, <1>2 DEF Words
  <2> QED BY <1>2, <2>1, BytesAsRead
<1>4. PICK b \in Seq(Int) : b = Items(Input(v, 2))
  BY <1>0, InputTypes
<1>5. /\ n \in Words /\ n \in Int /\ n % 256 = n /\ n \in Nat
      /\ r \in Words /\ r \in Int /\ r % 256 = r /\ r \in Nat
  BY <1>1, ByteWords
<1>6. /\ arg[2].n = Len(a) /\ arg[3].n = n /\ arg[4].n = r
      /\ Len(a) > 0 => arg[1] = Address("p1", 0)
      /\ m = Canonical(a, b)
  <2>1. 1 \in 1..Len(v.inputs) /\ 2 \in 1..Len(v.inputs) /\ 3 \in 1..Len(v.inputs) /\ 4 \in 1..Len(v.inputs)
    BY <1>1
  <2>2. /\ v.inputs[2] = Num(Len(a)) /\ v.inputs[3] = Num(n) /\ v.inputs[4] = Num(r)
        /\ v.inputs[1] = x /\ Input(v, 1) = x
    BY <1>1, <1>2
  <2>3. arg[2].n = Len(a) /\ arg[3].n = n /\ arg[4].n = r
    <3>1. \A k \in 1..Len(v.inputs) : \A w \in Words : v.inputs[k] = Num(w) => arg[k].n = w
      BY <1>0, CanonicalFacts
    <3>2. Len(a) \in Words /\ n \in Words /\ r \in Words
      BY <1>3, <1>5
    <3>3. v.inputs[2] = Num(Len(a)) /\ v.inputs[3] = Num(n) /\ v.inputs[4] = Num(r)
      BY <2>2
    <3> QED BY <2>1, <3>1, <3>2, <3>3, Zenon
  <2>4. Len(a) > 0 => arg[1] = Address("p1", 0)
    BY <1>0, <1>1, <1>2, <2>1, <2>2, CanonicalFacts
  <2>5. m = Canonical(a, b)
    BY <1>0, <1>2, <1>4, <2>1, <2>2, CanonicalFacts
  <2> QED BY <2>3, <2>4, <2>5
<1> DEFINE t == [i \in 1..Len(a) |-> IF i \in Positions(a, n) THEN r ELSE a[i]]
<1> HIDE DEF arg, m
<1>7. t \in Seq(Int) /\ Len(t) = Len(a)
  <2>1. t \in [1..Len(a) -> Int]
    BY <1>3, <1>5
  <2> HIDE DEF t
  <2> QED BY <1>3, <2>1, FunctionSeq
<1>8. Claimed("ReplaceByte", signed, m, arg).mem = Stored(m, arg[1], t)
  <2>1. Claimed("ReplaceByte", signed, m, arg).mem =
          Stored(m, arg[1], [i \in 1..arg[2].n |-> IF i \in Positions(Cells(m, arg[1], arg[2].n), arg[3].n)
                                                  THEN arg[4].n ELSE Cells(m, arg[1], arg[2].n)[i]])
    BY DEF Claimed, LengthOf
  <2>2. Cells(m, arg[1], Len(a)) = a
    <3>1. \A p : (Len(a) > 0 => p = Address("p1", 0)) => Cells(Canonical(a, b), p, Len(a)) = a
      BY <1>3, <1>4, ReadCanonical
    <3> QED BY <1>6, <3>1
  <2> QED BY <1>6, <2>1, <2>2
<1>9. t = [i \in DOMAIN a |-> LET c == a[i] % 256 IN IF c = n THEN r ELSE c]
  <2>1. \A i \in DOMAIN a : a[i] % 256 = a[i]
    BY <1>3, ByteWords
  <2> QED BY <1>3, <2>1 DEF Positions
<1> HIDE DEF t
<1>10. Claimed("ReplaceByte", signed, m, arg).mem["p1"].cells = t
  <2>1. \A p : (Len(a) > 0 => p = Address("p1", 0)) => Stored(Canonical(a, b), p, t)["p1"].cells = t
    BY <1>3, <1>4, <1>7, StoreCanonical
  <2> QED BY <1>6, <1>8, <2>1
<1>11. Payload("ReplaceByte", v, 1) = t /\ EchoLength("ReplaceByte", v) = Len(a)
  <2>1. vector_length(v) = Len(a) /\ vector_needle(v) = n /\ vector_replacement(v) = r
    BY <1>1, <1>2, <1>3, <1>5, NumFacts DEF vector_length, vector_needle, vector_replacement
  <2>2. vector_buffer_bytes(v) = a
    BY <1>1, <1>2, <1>3 DEF vector_buffer_bytes, vector_memcmp_buffer_bytes
  <2> QED BY <1>9, <2>1, <2>2 DEF Payload, expected_replace_byte_buffer, EchoLength
<1> QED BY <1>7, <1>10, <1>11 DEF Claims, RegionOf, arg, m

\* A copy leaves the source in both regions.
LEMMA MemcpyPayload ==
    ASSUME NEW v \in Form("memcpy"), NEW signed, NEW j \in 1..2
    PROVE  Claims("Memcpy", v, j, signed)
<1> DEFINE arg == CanonicalArguments(v)
           m == CanonicalMemory(v)
<1>0. v \in VectorType
  BY DEF Form
<1>1. PICK x \in Buffers, y \in Buffers :
              /\ Len(v.inputs) = 3 /\ v.inputs[1] = x /\ v.inputs[2] = y
              /\ v.inputs[3] = Num(Len(Items(x)))
              /\ Input(v, 1) = x /\ Input(v, 2) = y /\ Input(v, 3) = Num(Len(Items(x)))
              /\ Items(x) \in Seq(Byte) /\ Items(y) \in Seq(Byte)
              /\ Len(Items(x)) = Len(Items(y)) /\ Len(Items(x)) \in 0..(Words2 - 1)
  BY CopyForm
<1>2. PICK a, b \in Seq(Byte) : a = Items(x) /\ b = Items(y)
  BY <1>1
<1>3. /\ a \in Seq(Int) /\ b \in Seq(Int) /\ Len(a) \in Words /\ Len(a) \in Nat /\ Len(b) = Len(a)
      /\ [i \in DOMAIN b |-> Lesser(b[i], 255)] = b /\ [i \in DOMAIN b |-> b[i] % 256] = b
  <2>1. Len(a) \in Words /\ Len(b) = Len(a)
    BY <1>1, <1>2 DEF Words
  <2> QED BY <1>2, <2>1, BytesAsRead
<1>4. /\ arg[3].n = Len(a)
      /\ Len(a) > 0 => arg[1] = Address("p1", 0)
      /\ Len(b) > 0 => arg[2] = Address("p2", 0)
      /\ m = Canonical(a, b)
  <2>1. 1 \in 1..Len(v.inputs) /\ 2 \in 1..Len(v.inputs) /\ 3 \in 1..Len(v.inputs)
    BY <1>1
  <2>2. /\ v.inputs[3] = Num(Len(a)) /\ v.inputs[1] = x /\ v.inputs[2] = y /\ Input(v, 1) = x /\ Input(v, 2) = y
    BY <1>1, <1>2
  <2>3. arg[3].n = Len(a)
    BY <1>0, <1>3, <2>1, <2>2, CanonicalFacts
  <2>4. Len(a) > 0 => arg[1] = Address("p1", 0)
    BY <1>0, <1>1, <1>2, <2>1, <2>2, CanonicalFacts
  <2>5. Len(b) > 0 => arg[2] = Address("p2", 0)
    BY <1>0, <1>1, <1>2, <2>1, <2>2, CanonicalFacts
  <2>6. m = Canonical(a, b)
    BY <1>0, <1>2, <2>1, <2>2, CanonicalFacts
  <2> QED BY <2>3, <2>4, <2>5, <2>6
<1> HIDE DEF arg, m
<1>5. Claimed("Memcpy", signed, m, arg).mem = Stored(m, arg[1], b)
  <2>1. Claimed("Memcpy", signed, m, arg).mem = Stored(m, arg[1], Cells(m, arg[2], arg[3].n))
    BY DEF Claimed, LengthOf
  <2>2. Cells(m, arg[2], Len(b)) = b
    <3>1. \A p : (Len(b) > 0 => p = Address("p2", 0)) => Cells(Canonical(a, b), p, Len(b)) = b
      BY <1>3, ReadCanonical
    <3> QED BY <1>4, <3>1
  <2> QED BY <1>3, <1>4, <2>1, <2>2
<1>6. /\ Claimed("Memcpy", signed, m, arg).mem["p1"].cells = b
      /\ Claimed("Memcpy", signed, m, arg).mem["p2"].cells = b
  <2>1. \A p : (Len(a) > 0 => p = Address("p1", 0)) =>
           /\ Stored(Canonical(a, b), p, b)["p1"].cells = b
           /\ Stored(Canonical(a, b), p, b)["p2"].cells = b
    BY <1>3, StoreCanonical
  <2> QED BY <1>4, <1>5, <2>1
<1>7. Payload("Memcpy", v, j) = b /\ EchoLength("Memcpy", v) = Len(a)
  <2>1. vector_memcmp_length(v) = Len(a)
    BY <1>1, <1>2, <1>3, NumFacts DEF vector_memcmp_length
  <2>2. expected_memcpy_buffer(v) = b /\ vector_memcmp_buffer_bytes(v, 2) = b
    BY <1>1, <1>2, <1>3, ZenonT(40) DEF expected_memcpy_buffer, vector_memcmp_buffer_bytes
  <2> QED BY <2>1, <2>2 DEF Payload, EchoLength
<1> QED BY <1>3, <1>6, <1>7 DEF Claims, RegionOf, arg, m

-----------------------------------------------------------------------------
(* What the evaluation compares.                                           *)

\* The echo that is expected of a vector: its regions one after the other.
EchoParts(s, v) ==
    LET size == EchoLength(s, v) + 2
        e == ExpectedEcho(s, v)
    IN  /\ size \in Nat /\ e \in Seq(Int) /\ Len(e) = Len(EchoOf(s)) * size
        /\ \A j \in 1..Len(EchoOf(s)) : \A x \in 1..size :
              e[(j - 1) * size + x] = guarded_region(Payload(s, v, j))[x]

\* Two sequences of the same length, one after the other.
LEMMA Concatenation ==
    \A p, q \in Seq(Int) : Len(p) = Len(q) =>
       /\ Len(p) \in Nat /\ p \o q \in Seq(Int) /\ Len(p \o q) = 2 * Len(p)
       /\ \A x \in 1..Len(p) : (p \o q)[x] = p[x] /\ (p \o q)[Len(p) + x] = q[x]
<1>1. \A p, q \in Seq(Int) : p \o q \in Seq(Int) /\ Len(p \o q) = Len(p) + Len(q) /\ Len(p) \in Nat
  OBVIOUS
<1>2. \A p, q \in Seq(Int) : \A x \in 1..(Len(p) + Len(q)) :
         (p \o q)[x] = IF x <= Len(p) THEN p[x] ELSE q[x - Len(p)]
  OBVIOUS
<1>3. ASSUME NEW p \in Seq(Int), NEW q \in Seq(Int), NEW x \in 1..Len(p), Len(p) = Len(q)
      PROVE  (p \o q)[x] = p[x] /\ (p \o q)[Len(p) + x] = q[x]
  <2>1. /\ x \in 1..(Len(p) + Len(q)) /\ x <= Len(p)
        /\ Len(p) + x \in 1..(Len(p) + Len(q)) /\ ~(Len(p) + x <= Len(p)) /\ Len(p) + x - Len(p) = x
    BY <1>1, <1>3
  <2> QED BY <1>2, <2>1
<1>4. ASSUME NEW p \in Seq(Int), NEW q \in Seq(Int), Len(p) = Len(q)
      PROVE  Len(p) \in Nat /\ p \o q \in Seq(Int) /\ Len(p \o q) = 2 * Len(p)
  <2>1. PICK n : n = Len(p)
    OBVIOUS
  <2>2. p \o q \in Seq(Int) /\ Len(p \o q) = n + n /\ n \in Nat
    BY <1>1, <1>4, <2>1
  <2>3. 2 * n = n + n
    BY <2>2
  <2> QED BY <2>1, <2>2, <2>3
<1> QED BY <1>3, <1>4, Zenon

\* A payload between its guards.
LEMMA GuardedType ==
    ASSUME NEW t, t \in Seq(Int)
    PROVE  guarded_region(t) \in Seq(Int) /\ Len(t) \in Nat /\ Len(guarded_region(t)) = Len(t) + 2
BY RegionTypes

\* The echo has one part per region that is echoed.
LEMMA EchoFormat ==
    ASSUME NEW f \in {"replace", "memset", "memcpy"}, NEW v \in Form(f), NEW s, s = oracle_expected_shape(f)
    PROVE  /\ Len(EchoOf(s)) \in {1, 2} /\ DOMAIN EchoOf(s) = 1..Len(EchoOf(s))
           /\ \A j \in 1..Len(EchoOf(s)) : \A signed : Claims(s, v, j, signed)
           /\ EchoParts(s, v)
<1> DEFINE L == Len(EchoOf(s))
           size == EchoLength(s, v) + 2
           e == ExpectedEcho(s, v)
<1>1. ASSUME NEW j, NEW signed, Claims(s, v, j, signed)
      PROVE  /\ guarded_region(Payload(s, v, j)) \in Seq(Int) /\ EchoLength(s, v) \in Nat
             /\ Len(guarded_region(Payload(s, v, j))) = size
  <2>1. PICK t : t = Payload(s, v, j)
    OBVIOUS
  <2>2. t \in Seq(Int) /\ Len(t) = EchoLength(s, v)
    BY <1>1, <2>1 DEF Claims
  <2>3. guarded_region(t) \in Seq(Int) /\ Len(t) \in Nat /\ Len(guarded_region(t)) = Len(t) + 2
    BY <2>2, GuardedType
  <2> QED BY <2>1, <2>2, <2>3
<1>2. CASE f \in {"replace", "memset"}
  <2>1. s \in {"ReplaceByte", "Memset"} /\ EchoOf(s) = <<"buf">>
    BY <1>2 DEF oracle_expected_shape, EchoOf
  <2>2. L = 1 /\ DOMAIN EchoOf(s) = 1..1
    BY <2>1
  <2>3. \A signed : Claims(s, v, 1, signed)
    BY <1>2, MemsetPayload, ReplacePayload DEF oracle_expected_shape
  <2>5. e = guarded_region(Payload(s, v, 1))
    BY <2>1 DEF ExpectedEcho, expected_replace_byte_echo, expected_memset_echo, Payload
  <2>6. e \in Seq(Int) /\ EchoLength(s, v) \in Nat /\ Len(e) = size
    BY <1>1, <2>3, <2>5
  <2>7. \A x \in 1..size : e[(1 - 1) * size + x] = guarded_region(Payload(s, v, 1))[x]
    <3> HIDE DEF e
    <3>1. \A x \in 1..size : (1 - 1) * size + x = x
      BY <2>6
    <3> QED BY <2>5, <3>1
  <2>8. size \in Nat /\ Len(e) = L * size
    BY <2>2, <2>6
  <2> HIDE DEF e, size, L
  <2>9. EchoParts(s, v)
    <3>1. \A j \in 1..L : \A x \in 1..size : e[(j - 1) * size + x] = guarded_region(Payload(s, v, j))[x]
      <4>1. \A j \in 1..L : j = 1
        BY <2>2 DEF L
      <4>2. \A x \in 1..size : e[(1 - 1) * size + x] = guarded_region(Payload(s, v, 1))[x]
        BY <2>7 DEF e, size
      <4> QED BY <4>1, <4>2, Zenon
    <3>2. size \in Nat /\ e \in Seq(Int) /\ Len(e) = L * size
      BY <2>6, <2>8 DEF size, e, L
    <3> QED BY <3>1, <3>2, Zenon DEF EchoParts, e, size, L
  <2> QED BY <2>2, <2>3, <2>9 DEF L
<1>3. CASE f = "memcpy"
  <2>1. s = "Memcpy" /\ EchoOf(s) = <<"a", "b">>
    BY <1>3 DEF oracle_expected_shape, EchoOf
  <2>2. L = 2 /\ DOMAIN EchoOf(s) = 1..2
    BY <2>1
  <2>3. \A j \in 1..2 : \A signed : Claims(s, v, j, signed)
    BY <1>3, <2>1, MemcpyPayload
  <2> DEFINE p == guarded_region(Payload(s, v, 1))
             q == guarded_region(Payload(s, v, 2))
  <2>4. /\ p \in Seq(Int) /\ q \in Seq(Int) /\ Len(p) = size /\ Len(q) = size
        /\ EchoLength(s, v) \in Nat
    <3>1. 1 \in 1..2 /\ 2 \in 1..2
      OBVIOUS
    <3> QED BY <1>1, <2>3, <3>1
  <2>5. e = p \o q
    BY <2>1 DEF ExpectedEcho, expected_memcpy_echo, Payload
  <2> HIDE DEF p, q
  <2>6. size \in Nat /\ e \in Seq(Int) /\ Len(e) = 2 * size
        /\ \A x \in 1..size : e[x] = p[x] /\ e[size + x] = q[x]
    <3>1. PICK z \in Nat : z = size
      BY <2>4
    <3>2. p \in Seq(Int) /\ q \in Seq(Int) /\ Len(p) = z /\ Len(q) = z
      BY <2>4, <3>1 DEF p, q
    <3>3. PICK c : c = p \o q
      OBVIOUS
    <3>4. c \in Seq(Int) /\ Len(c) = 2 * z /\ \A x \in 1..z : c[x] = p[x] /\ c[z + x] = q[x]
      <4>1. z = Len(p) /\ z = Len(q)
        BY <3>2
      <4>2. /\ p \o q \in Seq(Int) /\ Len(p \o q) = 2 * z
            /\ \A x \in 1..z : (p \o q)[x] = p[x] /\ (p \o q)[z + x] = q[x]
        <5>1. PICK p1, q1 : p1 = p /\ q1 = q
          OBVIOUS
        <5>2. p1 \in Seq(Int) /\ q1 \in Seq(Int) /\ Len(p1) = Len(q1)
          BY <3>2, <5>1
        <5>3. /\ p1 \o q1 \in Seq(Int) /\ Len(p1 \o q1) = 2 * Len(p1)
              /\ \A x \in 1..Len(p1) : (p1 \o q1)[x] = p1[x] /\ (p1 \o q1)[Len(p1) + x] = q1[x]
          BY <5>2, Concatenation, Zenon
        <5> QED BY <4>1, <5>1, <5>3, Zenon
      <4> QED BY <3>3, <4>2
    <3>5. e = c
      BY <2>5, <3>3 DEF p, q
    <3> QED BY <3>1, <3>4, <3>5
  <2> HIDE DEF e, size, L
  <2>7. EchoParts(s, v)
    <3>1. \A j \in 1..L : \A x \in 1..size : e[(j - 1) * size + x] = guarded_region(Payload(s, v, j))[x]
      <4>1. \A j \in 1..L : j = 1 \/ j = 2
        BY <2>2 DEF L
      <4>2. size \in Nat /\ \A x \in 1..size : e[x] = p[x] /\ e[size + x] = q[x]
        BY <2>6 DEF size, e
      <4>3. ASSUME NEW x \in 1..size PROVE (1 - 1) * size + x = x /\ (2 - 1) * size + x = size + x
        BY <4>2
      <4>4. \A x \in 1..size : e[(1 - 1) * size + x] = p[x] /\ e[(2 - 1) * size + x] = q[x]
        BY <4>2, <4>3
      <4> QED BY <4>1, <4>4, Zenon DEF p, q
    <3>2. size \in Nat /\ e \in Seq(Int) /\ Len(e) = L * size
      BY <2>2, <2>6 DEF size, e, L
    <3> QED BY <3>1, <3>2, Zenon DEF EchoParts, e, size, L
  <2> QED BY <2>2, <2>3, <2>7 DEF L
<1> QED BY <1>2, <1>3

-----------------------------------------------------------------------------
(* A report without failures.                                              *)

\* The offsets evaluate_count_and_buffer computes.
WordsRead(out, n) ==
    IF Len(out) >= n * WordBytes THEN n * WordBytes ELSE (Len(out) \div WordBytes) * WordBytes
OffsetIs(out, vs, s, g) ==
    g = [i \in 1..(Len(vs) + 1) |->
            IF i = 1 THEN WordsRead(out, Len(vs))
            ELSE g[i - 1] + IF Len(out) >= g[i - 1] + Len(ExpectedEcho(s, vs[i - 1]))
                            THEN Len(ExpectedEcho(s, vs[i - 1])) ELSE 0]

\* Every echo is where it belongs.
EchoesAt(out, vs, s, o) ==
    /\ o \in [1..(Len(vs) + 1) -> Nat] /\ o[1] = Len(vs) * WordBytes
    /\ \A i \in 1..Len(vs) :
          /\ o[i + 1] = o[i] + Len(ExpectedEcho(s, vs[i])) /\ Len(out) >= o[i + 1]
          /\ SubSeq(out, o[i] + 1, o[i + 1]) = ExpectedEcho(s, vs[i])

\* When every vector passes no echo is skipped.
LEMMA EchoOffsets ==
    ASSUME NEW out \in Seq(Int), NEW n \in Nat \ {0}, NEW vs, Len(vs) = n, DOMAIN vs = 1..n, NEW s,
           \A i \in 1..n : ExpectedEcho(s, vs[i]) \in Seq(Int),
           \A i \in DOMAIN vs : evaluate_count_and_buffer(out, vs, s)[i]
    PROVE  \E o : EchoesAt(out, vs, s, o)
<1> DEFINE E(i) == Len(ExpectedEcho(s, vs[i]))
           L == Len(out)
           W == WordBytes
           w == WordsRead(out, n)
           Step(i, g) == IF i = 1 THEN w ELSE g[i - 1] + IF L >= g[i - 1] + E(i - 1) THEN E(i - 1) ELSE 0
           m == n + 1
           G == [i \in 1..m |-> [g \in [1..m -> Int] |-> Step(i, g)]]
<1>0. /\ L \in Nat /\ n \in Nat \ {0} /\ W \in Nat \ {0} /\ \A i \in 1..n : E(i) \in Nat
      /\ m \in Nat
  BY VectorAssumption
<1>a. w \in Int
  <2>1. n * W \in Int /\ L \div W \in Int
    BY <1>0
  <2>2. (L \div W) * W \in Int
    BY <1>0, <2>1
  <2> QED BY <2>1, <2>2 DEF WordsRead
<1> HIDE DEF w, E, L, W
<1>1. ASSUME NEW i \in 1..m, NEW g \in [1..m -> Int]
      PROVE  /\ G[i][g] = Step(i, g) /\ G[i][g] \in Int
             /\ i # 1 => i - 1 \in 1..(i - 1)
  <2>1. i # 1 => i - 1 \in 1..(i - 1) /\ i - 1 \in 1..m /\ i - 1 \in 1..n
    BY <1>0
  <2>2. i # 1 => g[i - 1] \in Int /\ E(i - 1) \in Nat
    BY <1>0, <2>1
  <2>3. Step(i, g) \in Int
    BY <1>a, <2>2
  <2>4. G[i][g] = Step(i, g)
    OBVIOUS
  <2> QED BY <2>1, <2>3, <2>4
<1> HIDE DEF G
<1>2. Causal(1, m, Int, G)
  <2>1. ASSUME NEW i \in 1..m, NEW g \in [1..m -> Int], NEW h \in [1..m -> Int],
               \A j \in 1..(i - 1) : g[j] = h[j]
        PROVE  G[i][g] = G[i][h]
    <3>1. i # 1 => g[i - 1] = h[i - 1]
      BY <1>1, <2>1
    <3>2. Step(i, g) = Step(i, h)
      BY <3>1, Zenon
    <3> HIDE DEF Step, m
    <3> QED BY <1>1, <3>2, Zenon
  <2> HIDE DEF m, Step
  <2> QED BY <1>1, <2>1 DEF Causal
<1>3. PICK f : Iterates(1, m, Int, G, f)
  <2>1. Int # {} /\ 1 \in Nat /\ m \in Int /\ 1 <= m + 1
    BY <1>0
  <2> HIDE DEF m
  <2> QED BY <1>2, <2>1, Iteration
<1>4. OffsetIs(out, vs, s, f)
  <2>1. f \in [1..m -> Int] /\ \A i \in 1..m : f[i] = G[i][f]
    BY <1>3 DEF Iterates
  <2>2. f = [i \in 1..m |-> Step(i, f)]
    <3> HIDE DEF Step, m
    <3>1. \A i \in 1..m : f[i] = Step(i, f)
      BY <1>1, <2>1, Zenon
    <3>2. f = [i \in 1..m |-> f[i]]
      BY <2>1
    <3> QED BY <3>1, <3>2, Zenon
  <2> QED BY <2>2 DEF OffsetIs, w, E, L
<1>5. PICK h : h = (CHOOSE g : OffsetIs(out, vs, s, g))
  OBVIOUS
<1>6. OffsetIs(out, vs, s, h)
  BY <1>4, <1>5, Zenon
<1>7. \A i \in 1..n : /\ WordAt(out, (i - 1) * WordBytes, expected_bits(vs[i]))
                      /\ L >= h[i] + E(i)
                      /\ SubSeq(out, h[i] + 1, h[i] + E(i)) = ExpectedEcho(s, vs[i])
  <2>1. evaluate_count_and_buffer(out, vs, s) =
           [i \in DOMAIN vs |->
               /\ WordAt(out, (i - 1) * WordBytes, expected_bits(vs[i]))
               /\ Len(out) >= h[i] + Len(ExpectedEcho(s, vs[i]))
               /\ SubSeq(out, h[i] + 1, h[i] + Len(ExpectedEcho(s, vs[i]))) = ExpectedEcho(s, vs[i])]
    BY <1>5, Zenon DEF evaluate_count_and_buffer, OffsetIs, WordsRead
  <2>2. \A i \in DOMAIN vs :
               /\ WordAt(out, (i - 1) * WordBytes, expected_bits(vs[i]))
               /\ Len(out) >= h[i] + Len(ExpectedEcho(s, vs[i]))
               /\ SubSeq(out, h[i] + 1, h[i] + Len(ExpectedEcho(s, vs[i]))) = ExpectedEcho(s, vs[i])
    BY <2>1, Zenon
  <2> QED BY <2>2, Zenon DEF E, L
<1>8. w = n * W
  <2>1. WordAt(out, (n - 1) * WordBytes, expected_bits(vs[n]))
    <3>1. n \in 1..n
      BY <1>0
    <3> QED BY <1>7, <3>1
  <2>2. L >= (n - 1) * W + W
    BY <2>1 DEF WordAt, L, W
  <2>3. (n - 1) * W + W = n * W
    BY <1>0
  <2>4. L >= n * W
    BY <2>2, <2>3
  <2> QED BY <2>4 DEF w, WordsRead, L, W
<1>9. /\ h = [i \in 1..m |-> Step(i, h)]
  BY <1>6 DEF OffsetIs, w, E, L
<1>10. DOMAIN h = 1..m /\ \A i \in 1..m : h[i] = Step(i, h)
  <2> HIDE DEF Step
  <2> QED BY <1>9
<1>11. h[1] = n * W /\ n * W \in Nat
  <2>1. 1 \in 1..m /\ n * W \in Nat
    BY <1>0
  <2>2. h[1] = w
    BY <1>10, <2>1
  <2> QED BY <1>8, <2>1, <2>2
<1>12. \A i \in 1..n : h[i] \in Nat => h[i + 1] = h[i] + E(i) /\ h[i + 1] \in Nat /\ L >= h[i + 1]
  <2> SUFFICES ASSUME NEW i \in 1..n, h[i] \in Nat
               PROVE  h[i + 1] = h[i] + E(i) /\ h[i + 1] \in Nat /\ L >= h[i + 1]
    OBVIOUS
  <2>1. i + 1 \in 1..m /\ i + 1 # 1 /\ i + 1 - 1 = i
    BY <1>0
  <2>2. h[i + 1] = Step(i + 1, h)
    BY <1>10, <2>1
  <2>3. h[i + 1] = h[i] + IF L >= h[i] + E(i) THEN E(i) ELSE 0
    BY <2>1, <2>2
  <2>4. L >= h[i] + E(i)
    BY <1>7
  <2>5. h[i + 1] = h[i] + E(i)
    BY <2>3, <2>4
  <2> QED BY <1>0, <2>4, <2>5
<1> DEFINE S == {i \in Nat : h[i] \in Nat}
<1>13. ASSUME NEW i \in 1..m, 1..(i - 1) \subseteq S PROVE i \in S
  <2>1. CASE i = 1
    BY <1>11, <2>1
  <2>2. CASE i # 1
    <3>1. i - 1 \in 1..n /\ i - 1 \in S /\ i - 1 + 1 = i /\ i \in Nat
      BY <1>0, <1>13, <2>2
    <3>2. h[i - 1 + 1] \in Nat
      BY <1>12, <3>1
    <3> QED BY <3>1, <3>2
  <2> QED BY <2>1, <2>2
<1> HIDE DEF S
<1>14. 1..m \subseteq S
  <2>1. 1 \in Nat /\ m \in Int
    BY <1>0
  <2> HIDE DEF m
  <2> QED BY <1>13, <2>1, Induction
<1>15. \A i \in 1..m : h[i] \in Nat
  BY <1>14 DEF S
<1>16. h \in [1..m -> Nat]
  <2>1. h = [i \in 1..m |-> h[i]]
    <3> HIDE DEF Step, m
    <3> QED BY <1>9
  <2> HIDE DEF m
  <2> QED BY <1>15, <2>1
<1>17. ASSUME NEW i \in 1..n
       PROVE  /\ h[i + 1] = h[i] + E(i) /\ L >= h[i + 1]
              /\ SubSeq(out, h[i] + 1, h[i + 1]) = ExpectedEcho(s, vs[i])
  <2>1. i \in 1..m
    BY <1>0
  <2>2. h[i + 1] = h[i] + E(i) /\ L >= h[i + 1]
    BY <1>12, <1>15, <2>1
  <2> QED BY <1>7, <2>2, Zenon
<1>18. EchoesAt(out, vs, s, h)
  BY <1>11, <1>16, <1>17, Zenon DEF EchoesAt, E, L, W
<1> QED BY <1>18

\* Where the regions of vectors with one or two regions each start.
Spread(L, n, size, o, g) ==
    /\ g \in [1..(n * L + 1) -> Nat] /\ g[1] = o[1]
    /\ \A k \in 1..(n * L) : g[k + 1] = g[k] + size[((k - 1) \div L) + 1]
    /\ \A i \in 1..n : \A j \in 1..L : /\ g[(i - 1) * L + j] = o[i] + (j - 1) * size[i]
                                       /\ g[(i - 1) * L + j + 1] = o[i] + j * size[i]

\* They can be given when the vectors' echoes follow each other.
LEMMA Spreads ==
    ASSUME NEW L \in {1, 2}, NEW n \in Nat, NEW size \in [1..n -> Nat], NEW o \in [1..(n + 1) -> Nat],
           \A i \in 1..n : o[i + 1] = o[i] + L * size[i]
    PROVE  \E g : Spread(L, n, size, o, g)
<1>1. CASE L = 1
  <2>1. n * L = n
    BY <1>1
  <2>2. \A k \in 1..n : ((k - 1) \div L) + 1 = k
    BY <1>1
  <2>3. \A i \in 1..n : o[i] \in Nat /\ size[i] \in Nat /\ o[i + 1] = o[i] + size[i]
    <3>1. \A i \in 1..n : o[i] \in Nat /\ size[i] \in Nat
      OBVIOUS
    <3> QED BY <1>1, <3>1
  <2>4. ASSUME NEW i \in 1..n, NEW j \in 1..L
        PROVE  /\ o[(i - 1) * L + j] = o[i] + (j - 1) * size[i]
               /\ o[(i - 1) * L + j + 1] = o[i] + j * size[i]
    <3>1. j = 1 /\ (i - 1) * L + j = i
      BY <1>1
    <3>2. (j - 1) * size[i] = 0 /\ j * size[i] = size[i]
      BY <2>3, <3>1, SMTT(30)
    <3>3. o[(i - 1) * L + j] = o[i] /\ o[(i - 1) * L + j + 1] = o[i + 1]
      BY <3>1, Zenon
    <3> QED BY <2>3, <3>2, <3>3
  <2>5. \A k \in 1..n : o[k + 1] = o[k] + size[((k - 1) \div L) + 1]
    BY <2>2, <2>3, Zenon
  <2>6. o \in [1..(n * L + 1) -> Nat]
    BY <2>1
  <2>7. Spread(L, n, size, o, o)
    BY <2>1, <2>4, <2>5, <2>6, Zenon DEF Spread
  <2> QED BY <2>7
<1>2. CASE L = 2
  <2> DEFINE g == [k \in 1..(2 * n + 1) |-> IF k % 2 = 1 THEN o[(k + 1) \div 2]
                                            ELSE o[k \div 2] + size[k \div 2]]
  <2>1. n * L = 2 * n
    BY <1>2
  <2>2. \A i \in 1..(n + 1) : /\ o[i] \in Nat /\ 2 * i - 1 \in 1..(2 * n + 1)
                              /\ (2 * i - 1) % 2 = 1 /\ (2 * i - 1 + 1) \div 2 = i
    OBVIOUS
  <2>3. \A i \in 1..n : /\ size[i] \in Nat /\ 2 * i \in 1..(2 * n + 1)
                        /\ (2 * i) % 2 # 1 /\ (2 * i) \div 2 = i
    OBVIOUS
  <2>4. \A i \in 1..(n + 1) : g[2 * i - 1] = o[i]
    BY <2>2
  <2>5. \A i \in 1..n : g[2 * i] = o[i] + size[i]
    BY <2>3
  <2>6. \A k \in 1..(2 * n + 1) : \/ \E i \in 1..(n + 1) : k = 2 * i - 1
                                  \/ \E i \in 1..n : k = 2 * i
    <3> SUFFICES ASSUME NEW k \in 1..(2 * n + 1)
                 PROVE  \/ \E i \in 1..(n + 1) : k = 2 * i - 1
                        \/ \E i \in 1..n : k = 2 * i
      OBVIOUS
    <3>1. CASE k % 2 = 1
      <4>1. PICK q \in Int : k = 2 * q + 1
        BY <3>1
      <4>2. q + 1 \in 1..(n + 1) /\ k = 2 * (q + 1) - 1
        BY <4>1
      <4> QED BY <4>2
    <3>2. CASE k % 2 # 1
      <4>1. k \div 2 \in 1..n /\ k = 2 * (k \div 2)
        BY <3>2
      <4> QED BY <4>1
    <3> QED BY <3>1, <3>2
  <2>7. DOMAIN g = 1..(2 * n + 1) /\ g = [k \in 1..(2 * n + 1) |-> g[k]]
    OBVIOUS
  <2> HIDE DEF g
  <2>8. \A k \in 1..(2 * n + 1) : g[k] \in Nat
    <3>1. ASSUME NEW i \in 1..n PROVE o[i] + size[i] \in Nat
      <4>1. i \in 1..(n + 1)
        OBVIOUS
      <4>2. o[i] \in Nat /\ size[i] \in Nat
        BY <4>1
      <4>3. \A a, b \in Nat : a + b \in Nat
        OBVIOUS
      <4> QED BY <4>2, <4>3, Zenon
    <3>2. ASSUME NEW k \in 1..(2 * n + 1), NEW i \in 1..(n + 1), k = 2 * i - 1 PROVE g[k] \in Nat
      BY <2>2, <2>4, <3>2, Zenon
    <3>3. ASSUME NEW k \in 1..(2 * n + 1), NEW i \in 1..n, k = 2 * i PROVE g[k] \in Nat
      BY <2>5, <3>1, <3>3, Zenon
    <3> QED BY <2>6, <3>2, <3>3, Zenon
  <2>9. \A i \in 1..n : i \in 1..(n + 1) /\ i + 1 \in 1..(n + 1) /\ 2 * (i + 1) - 1 = 2 * i + 1
    OBVIOUS
  <2>10. \A i \in 1..n : g[2 * i + 1] = o[i + 1] /\ o[i + 1] = o[i] + 2 * size[i]
    <3>1. \A i \in 1..n : g[2 * (i + 1) - 1] = o[i + 1]
      BY <2>4, <2>9
    <3>2. \A i \in 1..n : g[2 * i + 1] = o[i + 1]
      BY <2>9, <3>1
    <3> QED BY <1>2, <3>2
  <2>11. ASSUME NEW i \in 1..n, NEW j \in 1..L
         PROVE  /\ g[(i - 1) * L + j] = o[i] + (j - 1) * size[i]
                /\ g[(i - 1) * L + j + 1] = o[i] + j * size[i]
    <3>0. o[i] \in Nat /\ size[i] \in Nat /\ g[2 * i - 1] = o[i] /\ g[2 * i] = o[i] + size[i]
          /\ g[2 * i + 1] = o[i] + 2 * size[i]
      BY <2>2, <2>3, <2>4, <2>5, <2>9, <2>10
    <3>1. CASE j = 1
      <4>1. (i - 1) * L + j = 2 * i - 1 /\ (i - 1) * L + j + 1 = 2 * i
        BY <1>2, <3>1
      <4>2. o[i] + (j - 1) * size[i] = o[i] /\ o[i] + j * size[i] = o[i] + size[i]
        <5>1. \A a, b \in Nat : a + (1 - 1) * b = a /\ a + 1 * b = a + b
          OBVIOUS
        <5> QED BY <3>0, <3>1, <5>1, Zenon
      <4> QED BY <3>0, <4>1, <4>2, Zenon
    <3>2. CASE j = 2
      <4>1. (i - 1) * L + j = 2 * i /\ (i - 1) * L + j + 1 = 2 * i + 1
        BY <1>2, <3>2
      <4>2. o[i] + (j - 1) * size[i] = o[i] + size[i] /\ o[i] + j * size[i] = o[i] + 2 * size[i]
        <5>1. \A a, b \in Nat : a + (2 - 1) * b = a + b
          OBVIOUS
        <5> QED BY <3>0, <3>2, <5>1, Zenon
      <4> QED BY <3>0, <4>1, <4>2, Zenon
    <3> QED BY <1>2, <3>1, <3>2
  <2>12. ASSUME NEW k \in 1..(2 * n)
         PROVE  g[k + 1] = g[k] + size[((k - 1) \div L) + 1]
    <3>1. CASE \E i \in 1..(n + 1) : k = 2 * i - 1
      <4>1. PICK i \in 1..(n + 1) : k = 2 * i - 1
        BY <3>1
      <4>2. i \in 1..n /\ k + 1 = 2 * i /\ ((k - 1) \div L) + 1 = i
        BY <1>2, <4>1
      <4>3. g[2 * i] = g[2 * i - 1] + size[i]
        BY <2>4, <2>5, <4>2
      <4> QED BY <4>1, <4>2, <4>3, Zenon
    <3>2. CASE \E i \in 1..n : k = 2 * i
      <4>1. PICK i \in 1..n : k = 2 * i
        BY <3>2
      <4>2. k + 1 = 2 * i + 1 /\ ((k - 1) \div L) + 1 = i
        BY <1>2, <4>1
      <4>3. g[2 * i + 1] = g[2 * i] + size[i]
        <5>1. o[i] \in Nat /\ size[i] \in Nat
          BY <2>2, <2>3, <2>9, Zenon
        <5>2. \A a, b \in Nat : a + 2 * b = (a + b) + b
          OBVIOUS
        <5>3. g[2 * i] = o[i] + size[i] /\ g[2 * i + 1] = o[i] + 2 * size[i]
          BY <2>5, <2>10, Zenon
        <5> QED BY <5>1, <5>2, <5>3, ZenonT(40)
      <4> QED BY <4>1, <4>2, <4>3, Zenon
    <3>3. k \in 1..(2 * n + 1)
      OBVIOUS
    <3> QED BY <2>6, <3>1, <3>2, <3>3
  <2>13. g[1] = o[1]
    <3>1. 1 \in 1..(n + 1) /\ 2 * 1 - 1 = 1
      OBVIOUS
    <3>2. g[2 * 1 - 1] = o[1]
      BY <2>4, <3>1
    <3> QED BY <3>1, <3>2
  <2>14. g \in [1..(2 * n + 1) -> Nat]
    BY <2>7, <2>8
  <2>15. g \in [1..(n * L + 1) -> Nat]
    BY <2>1, <2>14
  <2>16. Spread(L, n, size, o, g)
    BY <2>1, <2>11, <2>12, <2>13, <2>15, Zenon DEF Spread
  <2> QED BY <2>16
<1> QED BY <1>1, <1>2

\* The regions hold what was expected of them when their echoes were as expected.
LEMMA EchoedRegions ==
    ASSUME Control, Printed, Running, stdout # <<>>, shape \in WriteShapes,
           NEW o, EchoesAt(stdout, vectors, shape, o), NEW i \in DOMAIN vectors, NEW j \in DOMAIN EchoOf(shape)
    PROVE  mem[i][EchoOf(shape)[j]].cells = guarded_region(Payload(shape, vectors[i], j))
<1> DEFINE L == Len(EchoOf(shape))
           n == Len(vectors)
           size == [x \in 1..n |-> EchoLength(shape, vectors[x]) + 2]
<1>0. /\ n \in Nat /\ DOMAIN vectors = 1..n /\ stdout \in Seq(Int)
      /\ Family \in {"replace", "memset", "memcpy"} /\ shape = oracle_expected_shape(Family)
      /\ \A x \in DOMAIN vectors : vectors[x] \in Form(Family)
  BY RunFacts DEF Control
<1>1. ASSUME NEW x \in DOMAIN vectors
      PROVE  /\ L \in {1, 2} /\ DOMAIN EchoOf(shape) = 1..L
             /\ \A y \in 1..L : \A signed : Claims(shape, vectors[x], y, signed)
             /\ EchoParts(shape, vectors[x])
  <2>1. PICK f, v, s : f = Family /\ v = vectors[x] /\ s = shape
    OBVIOUS
  <2>2. f \in {"replace", "memset", "memcpy"} /\ v \in Form(f) /\ s = oracle_expected_shape(f)
    BY <1>0, <2>1
  <2>3. /\ Len(EchoOf(s)) \in {1, 2} /\ DOMAIN EchoOf(s) = 1..Len(EchoOf(s))
        /\ \A y \in 1..Len(EchoOf(s)) : \A signed : Claims(s, v, y, signed)
        /\ EchoParts(s, v)
    BY <2>2, EchoFormat
  <2> QED BY <2>1, <2>3
<1>2. \A x \in 1..n : /\ size[x] = EchoLength(shape, vectors[x]) + 2 /\ size[x] \in Nat
                      /\ Len(ExpectedEcho(shape, vectors[x])) = L * size[x]
  BY <1>0, <1>1 DEF EchoParts
<1>3. i \in 1..n /\ j \in 1..L /\ L \in {1, 2}
  BY <1>0, <1>1
<1>4. PICK R : R = n * L
  OBVIOUS
<1>5. R = Regions
  BY <1>4 DEF Regions
<1>6. \A k : VectorAt(k) = ((k - 1) \div L) + 1
  BY DEF VectorAt
<1>7. \A k : LabelAt(k) = EchoOf(shape)[((k - 1) % L) + 1]
  BY DEF LabelAt
<1>a. size = [x \in 1..n |-> size[x]]
  OBVIOUS
<1> HIDE DEF L, n, size
<1>8. /\ o \in [1..(n + 1) -> Nat] /\ o[1] = n * WordBytes
      /\ \A x \in 1..n : /\ o[x + 1] = o[x] + L * size[x] /\ Len(stdout) >= o[x + 1]
                         /\ SubSeq(stdout, o[x] + 1, o[x + 1]) = ExpectedEcho(shape, vectors[x])
  <2>1. /\ o \in [1..(n + 1) -> Nat] /\ o[1] = n * WordBytes
        /\ \A x \in 1..n : /\ o[x + 1] = o[x] + Len(ExpectedEcho(shape, vectors[x])) /\ Len(stdout) >= o[x + 1]
                           /\ SubSeq(stdout, o[x] + 1, o[x + 1]) = ExpectedEcho(shape, vectors[x])
    BY Zenon DEF EchoesAt, n
  <2> QED BY <1>2, <2>1, Zenon
<1>9. PICK g : Spread(L, n, size, o, g)
  <2>1. size \in [1..n -> Nat]
    BY <1>2, <1>a
  <2> QED BY <1>0, <1>3, <1>8, <2>1, Spreads
<1>10. PICK k : k = (i - 1) * L + j
  OBVIOUS
<1>11. k \in 1..R /\ VectorAt(k) = i /\ ((k - 1) % L) + 1 = j
  <2>1. L \in Nat \ {0} /\ n \in Nat /\ i \in 1..n /\ j \in 1..L
    BY <1>0, <1>3
  <2>2. /\ (i - 1) * L + j \in 1..(n * L)
        /\ (((i - 1) * L + j - 1) \div L) + 1 = i
        /\ (((i - 1) * L + j - 1) % L) + 1 = j
    <3>2. PICK W1, n1 : W1 = L /\ n1 = n
      OBVIOUS
    <3>3. W1 \in Nat \ {0} /\ n1 \in Nat /\ i \in 1..n1 /\ j \in 1..W1
      BY <2>1, <3>2
    <3>4. /\ (i - 1) * W1 + j \in 1..(n1 * W1)
          /\ (((i - 1) * W1 + j - 1) \div W1) + 1 = i
          /\ (((i - 1) * W1 + j - 1) % W1) + 1 = j
      <4> DEFINE Placed(W, m, x, y) == /\ (x - 1) * W + y \in 1..(m * W)
                                       /\ (((x - 1) * W + y - 1) \div W) + 1 = x
                                       /\ (((x - 1) * W + y - 1) % W) + 1 = y
      <4>1. \A W \in Nat \ {0}, m \in Nat : \A x \in 1..m : \A y \in 1..W : Placed(W, m, x, y)
        BY BytePosition
      <4>2. Placed(W1, n1, i, j)
        <5> HIDE DEF Placed
        <5> QED BY <3>3, <4>1
      <4> QED BY <4>2
    <3> QED BY <3>2, <3>4
  <2>3. VectorAt(k) = ((k - 1) \div L) + 1
    BY <1>6
  <2>4. k - 1 = (i - 1) * L + j - 1
    <3>1. (i - 1) * L \in Int
      BY <1>0, <1>3
    <3>2. \A x \in Int, y \in Int : (x + y) - 1 = x + (y - 1)
      OBVIOUS
    <3>3. j \in Int
      BY <1>3
    <3>4. ((i - 1) * L + j) - 1 = (i - 1) * L + (j - 1)
      BY <3>1, <3>2, <3>3, Zenon
    <3> QED BY <1>10, <3>4, Zenon
  <2>5. VectorAt(k) = i
    BY <2>2, <2>3, <2>4, Zenon
  <2>6. ((k - 1) % L) + 1 = j
    BY <2>2, <2>4, Zenon
  <2> QED BY <1>4, <1>10, <2>2, <2>5, <2>6, Zenon
<1>12. CellsAt(k) = mem[i][EchoOf(shape)[j]].cells
  BY <1>7, <1>11 DEF CellsAt
<1>13. /\ CellsAt(k) \in Seq(Int) /\ Len(CellsAt(k)) = size[i]
       /\ \A x \in 1..R : VectorAt(x) \in 1..n
  <2>1. \A x \in 1..R : /\ CellsAt(x) \in Seq(Int) /\ VectorAt(x) \in DOMAIN vectors
                        /\ Len(CellsAt(x)) = EchoLength(shape, vectors[VectorAt(x)]) + 2
    BY <1>5, RegionFacts
  <2>2. Len(CellsAt(k)) = EchoLength(shape, vectors[i]) + 2
    BY <1>11, <2>1
  <2> QED BY <1>0, <1>2, <1>3, <1>11, <2>1, <2>2
<1>14. Offsets(g)
  <2>1. g \in [1..(R + 1) -> Nat] /\ g[1] = n * WordBytes
    BY <1>4, <1>8, <1>9 DEF Spread
  <2>2. ASSUME NEW x \in 1..R PROVE g[x + 1] = g[x] + RegionSize(x)
    <3>1. g[x + 1] = g[x] + size[((x - 1) \div L) + 1]
      BY <1>4, <1>9 DEF Spread
    <3>2. g[x + 1] = g[x] + size[VectorAt(x)]
      BY <1>6, <3>1, Zenon
    <3>3. RegionSize(x) = size[VectorAt(x)]
      BY <1>2, <1>13 DEF RegionSize
    <3> QED BY <3>2, <3>3, Zenon
  <2> QED BY <1>5, <2>1, <2>2 DEF Offsets, n
<1>15. g[k] = o[i] + (j - 1) * size[i] /\ g[k + 1] = o[i] + j * size[i]
  BY <1>3, <1>9, <1>10 DEF Spread
<1>16. PICK a \in Nat, z \in Nat : a = o[i] /\ z = size[i]
  <2>1. o[i] \in Nat /\ size[i] \in Nat
    <3>1. i \in 1..(n + 1)
      BY <1>0, <1>3
    <3> QED BY <1>2, <1>3, <1>8, <3>1
  <2> QED BY <2>1
<1>17. /\ g[k] = a + (j - 1) * z /\ g[k + 1] = a + j * z /\ g[k + 1] - g[k] = z
       /\ g[k + 1] <= a + L * z /\ a + L * z \in Nat /\ L * z \in Nat /\ (j - 1) * z \in Nat
  <2>1. g[k] = a + (j - 1) * z /\ g[k + 1] = a + j * z
    BY <1>15, <1>16, Zenon
  <2>2. \/ L = 1 /\ j = 1
        \/ L = 2 /\ j = 1
        \/ L = 2 /\ j = 2
    BY <1>3
  <2>3. /\ a + j * z - (a + (j - 1) * z) = z /\ a + j * z <= a + L * z
        /\ a + L * z \in Nat /\ L * z \in Nat /\ (j - 1) * z \in Nat
    <3>1. \A x \in Nat, y \in Nat :
             /\ x + 1 * y - (x + (1 - 1) * y) = y /\ x + 2 * y - (x + (2 - 1) * y) = y
             /\ x + 1 * y <= x + 1 * y /\ x + 1 * y <= x + 2 * y /\ x + 2 * y <= x + 2 * y
             /\ x + 1 * y \in Nat /\ x + 2 * y \in Nat /\ 1 * y \in Nat /\ 2 * y \in Nat
             /\ (1 - 1) * y \in Nat /\ (2 - 1) * y \in Nat
      OBVIOUS
    <3> QED BY <1>16, <2>2, <3>1, ZenonT(40)
  <2>4. PICK p, q : p = g[k] /\ q = g[k + 1]
    OBVIOUS
  <2>5. p = a + (j - 1) * z /\ q = a + j * z
    BY <2>1, <2>4, Zenon
  <2>6. q - p = z /\ q <= a + L * z
    <3>1. \A x \in Nat, y \in Nat :
             /\ x + (1 - 1) * y = x /\ x + 1 * y = x + y /\ x + (2 - 1) * y = x + y
             /\ x + 2 * y = (x + y) + y
      OBVIOUS
    <3>2. CASE j = 1
      <4>1. p = a /\ q = a + z
        BY <1>16, <2>5, <3>1, <3>2, Zenon
      <4>2. L * z >= z
        BY <1>16, <2>2
      <4> QED BY <1>16, <2>3, <4>1, <4>2
    <3>3. CASE j = 2 /\ L = 2
      <4>1. p = a + z /\ q = (a + z) + z /\ a + L * z = (a + z) + z
        BY <1>16, <2>5, <3>1, <3>3, Zenon
      <4> QED BY <1>16, <4>1
    <3> QED BY <2>2, <3>2, <3>3
  <2> QED BY <2>1, <2>3, <2>4, <2>6, Zenon
<1>18. RegionIn(g, k)
  <2>1. g[k + 1] <= Len(stdout)
    <3>1. Len(stdout) >= a + L * z /\ Len(stdout) \in Nat
      <4>1. Len(stdout) >= o[i + 1] /\ o[i + 1] = o[i] + L * size[i]
        BY <1>3, <1>8, Zenon
      <4>2. o[i + 1] = a + L * z
        BY <1>16, <4>1, Zenon
      <4>3. Len(stdout) \in Nat
        BY <1>0
      <4> QED BY <4>1, <4>2, <4>3
    <3>2. g[k + 1] \in Int
      <4>1. k + 1 \in 1..(R + 1) /\ g \in [1..(R + 1) -> Nat]
        <5>1. g \in [1..(R + 1) -> Nat]
          BY <1>4, <1>9 DEF Spread
        <5>2. R \in Int
          BY <1>0, <1>3, <1>4
        <5> QED BY <1>11, <5>1, <5>2
      <4> QED BY <4>1
    <3> QED BY <1>17, <3>1, <3>2
  <2> QED BY <1>5, <1>11, <1>14, <2>1 DEF Printed
<1>19. PICK c, e, t : c = CellsAt(k) /\ e = ExpectedEcho(shape, vectors[i])
                      /\ t = guarded_region(Payload(shape, vectors[i], j))
  OBVIOUS
<1>20. ASSUME NEW x \in 1..z PROVE c[x] = t[x]
  <2>1. stdout[g[k] + x] = c[x]
    <3>1. x \in 1..(g[k + 1] - g[k])
      BY <1>17
    <3> QED BY <1>18, <1>19, <3>1 DEF RegionIn
  <2>2. PICK y : y = (j - 1) * z + x
    OBVIOUS
  <2>3. y \in 1..(L * z)
    <3>1. z \in Nat \ {0} /\ L \in Nat
      BY <1>3, <1>20
    <3> QED BY <1>3, <2>2, <3>1, BytePosition
  <2>4. e[y] = t[x]
    <3>1. \A q \in 1..L : \A x1 \in 1..(EchoLength(shape, vectors[i]) + 2) :
             ExpectedEcho(shape, vectors[i])[(q - 1) * (EchoLength(shape, vectors[i]) + 2) + x1]
                 = guarded_region(Payload(shape, vectors[i], q))[x1]
      BY <1>0, <1>1, <1>3, Zenon DEF EchoParts, L
    <3>2. EchoLength(shape, vectors[i]) + 2 = z
      BY <1>2, <1>3, <1>16
    <3> QED BY <1>3, <1>19, <2>2, <3>1, <3>2, Zenon
  <2>5. e[y] = stdout[a + y]
    <3>1. e = SubSeq(stdout, a + 1, a + L * z) /\ Len(stdout) >= a + L * z
      BY <1>3, <1>8, <1>16, <1>19, Zenon
    <3>2. PICK b \in Nat : b = L * z
      BY <1>17
    <3>3. e = SubSeq(stdout, a + 1, a + b) /\ Len(stdout) >= a + b /\ y \in 1..b
      BY <2>3, <3>1, <3>2
    <3>4. y \in 1..(a + b - (a + 1) + 1) /\ a + 1 + y - 1 = a + y
      BY <3>3
    <3>5. SubSeq(stdout, a + 1, a + b)[y] = stdout[a + 1 + y - 1]
      BY <1>0, <3>3, <3>4
    <3> QED BY <3>3, <3>4, <3>5, Zenon
  <2>6. g[k] + x = a + y
    <3>1. PICK d \in Nat : d = (j - 1) * z
      BY <1>17
    <3> QED BY <1>17, <2>2, <3>1
  <2> QED BY <2>1, <2>4, <2>5, <2>6, Zenon
<1>21. t \in Seq(Int) /\ Len(t) = z
  <2>1. PICK p : p = Payload(shape, vectors[i], j)
    OBVIOUS
  <2>2. p \in Seq(Int) /\ Len(p) = EchoLength(shape, vectors[i])
    BY <1>0, <1>1, <1>3, <2>1 DEF Claims
  <2>3. guarded_region(p) \in Seq(Int) /\ Len(guarded_region(p)) = Len(p) + 2
    BY <2>2, GuardedType
  <2>4. EchoLength(shape, vectors[i]) + 2 = z
    BY <1>2, <1>3, <1>16
  <2> QED BY <1>19, <2>1, <2>2, <2>3, <2>4
<1>22. c = t
  <2>1. c \in Seq(Int) /\ Len(c) = z
    BY <1>13, <1>16, <1>19
  <2>2. t \in Seq(Int) /\ Len(c) = Len(t) /\ \A x \in 1..Len(c) : c[x] = t[x]
    BY <1>20, <1>21, <2>1
  <2> QED BY <2>1, <2>2, SameSeq
<1> QED BY <1>12, <1>19, <1>22, Zenon

\* What a report without failures says of every vector.
LEMMA PassedVectors ==
    ASSUME Control, Printed, pc = "done", AllPassed
    PROVE  /\ \A i \in DOMAIN vectors : WordAt(stdout, (i - 1) * WordBytes, expected_bits(vectors[i]))
           /\ shape \in WriteShapes => \A i \in DOMAIN vectors : evaluate_count_and_buffer(stdout, vectors, shape)[i]
<1>1. report = evaluate(stdout, vectors, shape)
  BY DEF Printed
<1>2. CASE shape \in WriteShapes
  <2>1. report = evaluate_count_and_buffer(stdout, vectors, shape)
    BY <1>1, <1>2 DEF evaluate, WriteShapes
  <2>2. PICK h : h = (CHOOSE g : OffsetIs(stdout, vectors, shape, g))
    OBVIOUS
  <2>3. evaluate_count_and_buffer(stdout, vectors, shape) =
           [i \in DOMAIN vectors |->
               /\ WordAt(stdout, (i - 1) * WordBytes, expected_bits(vectors[i]))
               /\ Len(stdout) >= h[i] + Len(ExpectedEcho(shape, vectors[i]))
               /\ SubSeq(stdout, h[i] + 1, h[i] + Len(ExpectedEcho(shape, vectors[i])))
                     = ExpectedEcho(shape, vectors[i])]
    BY <2>2, Zenon DEF evaluate_count_and_buffer, OffsetIs, WordsRead
  <2>4. DOMAIN report = DOMAIN vectors
    BY <2>1, <2>3, Zenon
  <2>5. \A i \in DOMAIN vectors : report[i]
    BY <2>4, Zenon DEF AllPassed
  <2>6. \A i \in DOMAIN vectors : WordAt(stdout, (i - 1) * WordBytes, expected_bits(vectors[i]))
    BY <2>1, <2>3, <2>5, Zenon
  <2> QED BY <2>1, <2>5, <2>6, Zenon
<1>3. CASE shape \notin WriteShapes
  <2>1. report = evaluate_words_only(stdout, vectors)
    BY <1>1, <1>3 DEF evaluate, WriteShapes
  <2>2. report = [i \in DOMAIN vectors |-> WordAt(stdout, (i - 1) * WordBytes, expected_bits(vectors[i]))]
    BY <2>1, Zenon DEF evaluate_words_only
  <2>3. DOMAIN report = DOMAIN vectors
    BY <2>2, Zenon
  <2>4. \A i \in DOMAIN vectors : WordAt(stdout, (i - 1) * WordBytes, expected_bits(vectors[i]))
    BY <2>2, <2>3, Zenon DEF AllPassed
  <2> QED BY <1>3, <2>4
<1> QED BY <1>2, <1>3

\* Bytes that are there and equal to those of a word come from that word.
LEMMA PassedWords ==
    ASSUME Control, Printed, pc = "done", AllPassed, NEW i \in DOMAIN vectors
    PROVE  /\ stdout # <<>> /\ i <= Len(results)
           /\ results[i] = expected_bits(vectors[i])
<1>1. Running /\ stdout \in Seq(Int) /\ results \in Seq(Words)
  BY DEF Control, Running
<1>2. i \in Nat \ {0} /\ vectors[i] \in VectorType
  BY <1>1, RunFacts
<1>3. PICK e : e = expected_bits(vectors[i])
  OBVIOUS
<1>4. e \in Words
  <2>1. vectors[i].expected \in Int
    BY <1>2 DEF VectorType
  <2> QED BY <1>3, <2>1, WordTypes DEF expected_bits, Words
<1>5. PICK w \in Nat \ {0} : w = WordBytes
  BY VectorAssumption
<1>6. PICK o \in Nat : o = (i - 1) * w
  <2>1. (i - 1) * w \in Nat
    BY <1>2, <1>5
  <2> QED BY <2>1
<1>7. Len(stdout) >= o + w /\ SubSeq(stdout, o + 1, o + w) = ToLeBytes(e)
  <2>1. WordAt(stdout, (i - 1) * WordBytes, expected_bits(vectors[i]))
    BY PassedVectors
  <2>2. WordAt(stdout, o, e)
    BY <1>3, <1>5, <1>6, <2>1, Zenon
  <2> QED BY <1>5, <2>2, Zenon DEF WordAt
<1>8. o + w = i * WordBytes
  <2>1. \A x \in Int, y \in Int : (x - 1) * y + y = x * y
    OBVIOUS
  <2>2. (i - 1) * w + w = i * w
    BY <1>2, <1>5, <2>1
  <2> QED BY <1>5, <1>6, <2>2
<1>9. stdout # <<>>
  <2>1. Len(<<>>) = 0 /\ Len(stdout) \in Nat
    BY <1>1
  <2>2. Len(stdout) > 0
    BY <1>5, <1>6, <1>7, <2>1
  <2> QED BY <2>1, <2>2
<1>10. i <= Len(results) /\ WordIn(i)
  <2>1. i * WordBytes <= Len(stdout)
    <3>1. Len(stdout) \in Nat
      BY <1>1
    <3> QED BY <1>7, <1>8, <3>1
  <2> QED BY <1>1, <1>9, <2>1 DEF Printed
<1>11. PICK r \in Words : r = results[i]
  <2>1. i \in 1..Len(results)
    BY <1>1, <1>2, <1>10
  <2> QED BY <1>1, <2>1
<1>12. ASSUME NEW k \in 1..w PROVE ToLeBytes(r)[k] = ToLeBytes(e)[k]
  <2>1. stdout[o + k] = ToLeBytes(r)[k]
    BY <1>5, <1>6, <1>10, <1>11, <1>12, Zenon DEF WordIn
  <2>2. k \in 1..(o + w - (o + 1) + 1) /\ o + 1 + k - 1 = o + k
    BY <1>5, <1>6
  <2>3. SubSeq(stdout, o + 1, o + w)[k] = stdout[o + 1 + k - 1]
    <3>1. PICK out \in Seq(Int) : out = stdout
      BY <1>1
    <3>2. o \in Nat /\ w \in Nat
      BY <1>5, <1>6
    <3>3. Len(out) >= o + w
      BY <1>7, <3>1
    <3>4. SubSeq(out, o + 1, o + w)[k] = out[o + 1 + k - 1]
      BY <3>1, <3>2, <3>3, <2>2
    <3> QED BY <3>1, <3>4
  <2> QED BY <1>7, <2>1, <2>2, <2>3, Zenon
<1>13. ToLeBytes(r) = ToLeBytes(e)
  <2>1. /\ ToLeBytes(r) = [k \in 1..w |-> ToLeBytes(r)[k]]
        /\ ToLeBytes(e) = [k \in 1..w |-> ToLeBytes(e)[k]]
    BY <1>5 DEF ToLeBytes
  <2> QED BY <1>12, <2>1, Zenon
<1>14. r = e
  BY <1>4, <1>11, <1>13, SameBytes DEF Words
<1> QED BY <1>3, <1>9, <1>10, <1>11, <1>14

\* The vectors expect the results the oracle claims for their inputs, which is
\* what the second part of VectorsMatchOracle says.
OracleAgrees == \A i \in DOMAIN vectors : expected_bits(vectors[i]) = ClaimFor(vectors[i]).result

\* A report without failures means what PassedMeansConforming says.
LEMMA ReportFacts ==
    ASSUME Control, Printed
    PROVE  OracleAgrees => PassedMeansConforming
<1> SUFFICES ASSUME OracleAgrees, pc = "done", AllPassed, NEW i \in DOMAIN vectors
             PROVE  /\ i <= Len(results)
                    /\ results[i] = ClaimFor(vectors[i]).result
                    /\ shape \in WriteShapes =>
                         LET echo == ProgramOf(i).echo IN
                         \A j \in DOMAIN echo :
                            mem[i][echo[j]].cells =
                                guarded_region(ClaimFor(vectors[i]).mem[IF j = 1 THEN "p1" ELSE "p2"].cells)
  BY DEF PassedMeansConforming
<1>1. /\ stdout # <<>> /\ i <= Len(results)
      /\ results[i] = ClaimFor(vectors[i]).result
  BY PassedWords DEF OracleAgrees
<1>2. ASSUME shape \in WriteShapes
      PROVE  \A j \in DOMAIN ProgramOf(i).echo :
                mem[i][ProgramOf(i).echo[j]].cells =
                    guarded_region(ClaimFor(vectors[i]).mem[IF j = 1 THEN "p1" ELSE "p2"].cells)
  <2>1. /\ Running /\ stdout \in Seq(Int) /\ Len(vectors) \in Nat \ {0} /\ DOMAIN vectors = 1..Len(vectors)
        /\ Family \in {"replace", "memset", "memcpy"} /\ shape = oracle_expected_shape(Family)
        /\ oracle.op = shape
        /\ \A x \in DOMAIN vectors : vectors[x] \in Form(Family)
        /\ ProgramOf(i).echo = EchoOf(shape)
    <3>1. Running /\ stdout \in Seq(Int)
      BY DEF Running, Control
    <3> QED BY <1>2, <3>1, RunFacts DEF Wired
  <2>2. \A x \in DOMAIN vectors :
           /\ DOMAIN EchoOf(shape) = 1..Len(EchoOf(shape))
           /\ \A y \in 1..Len(EchoOf(shape)) : \A signed : Claims(shape, vectors[x], y, signed)
           /\ ExpectedEcho(shape, vectors[x]) \in Seq(Int)
    <3>1. ASSUME NEW x \in DOMAIN vectors
          PROVE  /\ DOMAIN EchoOf(shape) = 1..Len(EchoOf(shape))
                 /\ \A y \in 1..Len(EchoOf(shape)) : \A signed : Claims(shape, vectors[x], y, signed)
                 /\ EchoParts(shape, vectors[x])
      <4>1. PICK f, v, s : f = Family /\ v = vectors[x] /\ s = shape
        OBVIOUS
      <4>2. f \in {"replace", "memset", "memcpy"} /\ v \in Form(f) /\ s = oracle_expected_shape(f)
        BY <2>1, <4>1
      <4>3. /\ DOMAIN EchoOf(s) = 1..Len(EchoOf(s))
            /\ \A y \in 1..Len(EchoOf(s)) : \A signed : Claims(s, v, y, signed)
            /\ EchoParts(s, v)
        BY <4>2, EchoFormat
      <4> QED BY <4>1, <4>3
    <3> QED BY <3>1 DEF EchoParts
  <2>3. PICK o : EchoesAt(stdout, vectors, shape, o)
    <3>1. PICK out, vs, s, n : out = stdout /\ vs = vectors /\ s = shape /\ n = Len(vectors)
      OBVIOUS
    <3>2. /\ out \in Seq(Int) /\ n \in Nat \ {0} /\ Len(vs) = n /\ DOMAIN vs = 1..n
          /\ \A x \in 1..n : ExpectedEcho(s, vs[x]) \in Seq(Int)
      BY <2>1, <2>2, <3>1
    <3>3. \A x \in DOMAIN vs : evaluate_count_and_buffer(out, vs, s)[x]
      BY <1>2, <3>1, PassedVectors
    <3>4. \E o : EchoesAt(out, vs, s, o)
      BY <3>2, <3>3, EchoOffsets
    <3> QED BY <3>1, <3>4
  <2>4. ASSUME NEW j \in DOMAIN EchoOf(shape)
        PROVE  mem[i][EchoOf(shape)[j]].cells =
                  guarded_region(ClaimFor(vectors[i]).mem[IF j = 1 THEN "p1" ELSE "p2"].cells)
    <3>1. mem[i][EchoOf(shape)[j]].cells = guarded_region(Payload(shape, vectors[i], j))
      BY <1>1, <1>2, <2>1, <2>3, EchoedRegions
    <3>2. Claims(shape, vectors[i], j, oracle.family # "pure")
      BY <2>2, Zenon
    <3>3. ClaimFor(vectors[i]).mem[IF j = 1 THEN "p1" ELSE "p2"].cells = Payload(shape, vectors[i], j)
      BY <2>1, <3>2, Zenon DEF Claims, RegionOf, ClaimFor, Claim
    <3> QED BY <3>1, <3>3, Zenon
  <2> QED BY <2>1, <2>4, Zenon
<1> QED BY <1>1, <1>2, Zenon

\* As long as the process runs the vectors expect what the oracle claims.
Agrees == Running => OracleAgrees

\* They are not changed once VectorsMatchOracle speaks of them.
LEMMA AgreesStep == ASSUME VectorsMatchOracle, Agrees, [Next]_vars PROVE Agrees'
<1>1. ASSUME vectors' = vectors, contract' = contract, OracleAgrees PROVE OracleAgrees'
  <2>1. OracleAgrees' = OracleAgrees
    BY <1>1 DEF OracleAgrees, ClaimFor, Claim, oracle
  <2> QED BY <1>1, <2>1
<1>2. CASE Running
  <2>1. OracleAgrees
    BY <1>2 DEF Agrees
  <2>2. vectors' = vectors /\ contract' = contract
    BY <1>2 DEF Running, Next, vars, Synthesize, NoExternal, Resolve, Generate, AppendExternal, CallConforming,
                CallWrong, StrayStore, Return, WriteResults, WriteEcho, Stops, Evaluate, Ended
  <2> QED BY <1>1, <2>1, <2>2 DEF Agrees
<1>3. CASE pc = "generate"
  <2>1. OracleAgrees
    BY <1>3 DEF VectorsMatchOracle, OracleAgrees
  <2>2. vectors' = vectors /\ contract' = contract
    BY <1>3 DEF Next, vars, Synthesize, NoExternal, Resolve, Generate, AppendExternal, CallConforming,
                CallWrong, StrayStore, Return, WriteResults, WriteEcho, Stops, Evaluate, Ended
  <2> QED BY <1>1, <2>1, <2>2 DEF Agrees
<1>4. CASE ~Running /\ pc # "generate"
  <2>1. ~Running'
    BY <1>4 DEF Running, Next, vars, Synthesize, NoExternal, Resolve, Generate, AppendExternal, CallConforming,
                CallWrong, StrayStore, Return, WriteResults, WriteEcho, Stops, Evaluate, Ended
  <2> QED BY <2>1 DEF Agrees
<1> QED BY <1>2, <1>3, <1>4

\* What a report without failures means, in every run on every contract: when
\* the vectors match the oracle, evaluate (harness.rs) passes all of them only
\* when every call returned what the oracle claims and, for the shapes that
\* write, left the claimed bytes between intact guards.
THEOREM PassedConforms == Spec /\ []VectorsMatchOracle => []PassedMeansConforming
<1>1. Init => Agrees
  BY DEF Init, Agrees, Running
<1>2. Control /\ Printed /\ Agrees => PassedMeansConforming
  <2> SUFFICES ASSUME Control, Printed, Agrees PROVE PassedMeansConforming
    OBVIOUS
  <2>1. CASE pc = "done"
    BY <2>1, ReportFacts DEF Agrees, Running
  <2>2. CASE pc # "done"
    BY <2>2 DEF PassedMeansConforming
  <2> QED BY <2>1, <2>2
<1> QED BY <1>1, <1>2, ControlInvariant, PrintedInvariant, AgreesStep, PTL DEF Spec

=============================================================================
