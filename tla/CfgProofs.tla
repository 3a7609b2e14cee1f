------------------------------ MODULE CfgProofs ------------------------------
(***************************************************************************)
(* Cfg, whatever the code: the control gate accepts no code with a branch *)
(* to an address that was not decoded, and the blocks tile the code, also *)
(* where several sections repeat addresses.  For `inspect`, which decodes  *)
(* one piece of code: no block reported as unreachable can be reached.     *)
(***************************************************************************)
EXTENDS Cfg, FiniteSetTheorems, TLAPS

EndKinds == Terminators \cup {"Call", "Fallthrough"}
Ends == [kind : EndKinds, target : SUBSET Nat]
Edges == [kind : {"Jump", "ConditionalTaken", "Fallthrough", "Call"}, to : SUBSET Nat]
Blocks == [start : Nat, end : Nat, start_address : Nat, end_address : Nat,
           last : Ends, edges : SUBSET Edges]

\* Types, and the position of the walk in the later phases.
WalkInv ==
    /\ caller \in {"inspect", "leaf"}
    /\ address \in Layouts
    /\ caller = "inspect" => Ascending(address)
    /\ prog \in [DOMAIN address -> Shapes]
    /\ pos \in 1 .. Len(address) + 1
    /\ blocks \in Seq(Blocks)
    /\ open \in BOOLEAN
    /\ open => blocks # <<>>
    /\ phase \in {"resolve", "policy"} => pos = Len(address) + 1
    /\ phase = "policy" => caller = "leaf"
    /\ verdict = "accepted" => phase = "done"

\* A call or jump the first pass of check_cfg_leaf rejects.
Forbidden(i) == \/ EndAt(i).kind \in {"Indirect", "Unknown"}
                \/ EndAt(i) = End("Call", {})

\* Behind the first pass of the gate nothing is forbidden.
ScanInv == caller = "leaf" /\ phase \in {"walk", "resolve", "policy"} =>
               \A i \in DOMAIN address : ~Forbidden(i)

Closed(k) == k \in DOMAIN blocks /\ ~(open /\ k = Len(blocks))

\* The edges of a block that a branch closes lead where the branch leads; a block
\* that still grows has edges of calls only.
EdgeInv ==
    \A k \in DOMAIN blocks :
        /\ ~Closed(k) => /\ blocks[k].last.kind \notin Directs
                         /\ \A e \in blocks[k].edges : e.kind = "Call"
        /\ blocks[k].last.kind \in Directs =>
              \A e \in blocks[k].edges :
                  e.kind \in {"Jump", "ConditionalTaken"} /\ e.to # {} =>
                      InstrAt(blocks[k].last.target) # {}

\* Every branch that was walked closes a block.
BranchInv ==
    \A n \in 1 .. pos - 1 :
        EndAt(Order(n)).kind \in Directs =>
            \E k \in DOMAIN blocks : Closed(k) /\ blocks[k].last = EndAt(Order(n))

CfgInv == WalkInv /\ ScanInv /\ EdgeInv /\ BranchInv /\ AcceptedStaysInside

------------------------------------------------------------------------------
(* Classification and order.                                               *)

\* classify() yields a BlockEnd.
LEMMA ClassifyType ==
    ASSUME NEW ins \in Instructions
    PROVE  Classify(ins) \in Ends
<1>1. ins.imm \in SUBSET Nat
  BY DEF Instructions
<1> DEFINE m == ins.mnemonic  g == ins.groups  t == ins.imm
<1>2. /\ End("Return", {}) \in Ends /\ End("Indirect", {}) \in Ends
      /\ End("Call", {}) \in Ends /\ End("Fallthrough", {}) \in Ends
      /\ End("ConditionalBranch", {0}) \in Ends
      /\ \A k \in EndKinds : End(k, t) \in Ends
  BY <1>1 DEF End, Ends, EndKinds, Terminators
<1>3. {"Call", "Indirect", "UnconditionalBranch", "ConditionalBranch"} \subseteq EndKinds
  BY DEF EndKinds, Terminators
<1> QED
  BY <1>2, <1>3 DEF Classify

\* What is known of the layout and the instructions in every state.
LEMMA LayoutFacts ==
    ASSUME WalkInv
    PROVE  /\ address \in Seq(Nat)
           /\ \A i \in DOMAIN address : EndAt(i) \in Ends
<1>1. address \in Seq(Nat)
  BY CfgAssumption DEF WalkInv
<1>2. ASSUME NEW i \in DOMAIN address PROVE EndAt(i) \in Ends
  <2>1. prog[i] \in Instructions
    BY CfgAssumption DEF WalkInv
  <2> QED BY <2>1, ClassifyType DEF EndAt
<1> QED BY <1>1, <1>2

\* The rank of an instruction is below the length of the code, and instructions
\* of one rank are equal.
LEMMA RankFacts ==
    ASSUME WalkInv
    PROVE  /\ IsFiniteSet(DOMAIN address) /\ Cardinality(DOMAIN address) = Len(address)
           /\ \A i \in DOMAIN address : Cardinality(Below(i)) \in 0 .. Len(address) - 1
           /\ \A i, j \in DOMAIN address : Cardinality(Below(i)) = Cardinality(Below(j)) => i = j
<1>1. address \in Seq(Nat)
  BY LayoutFacts
<1>2. DOMAIN address = 1 .. Len(address) /\ Len(address) \in Nat
  BY <1>1
<1>3. IsFiniteSet(DOMAIN address) /\ Cardinality(DOMAIN address) = Len(address)
  <2>1. IsFiniteSet(1 .. Len(address))
        /\ Cardinality(1 .. Len(address)) = IF 1 > Len(address) THEN 0 ELSE Len(address) - 1 + 1
    BY <1>2, FS_Interval
  <2> QED BY <1>2, <2>1
<1>4. ASSUME NEW i \in DOMAIN address
      PROVE  IsFiniteSet(Below(i)) /\ Cardinality(Below(i)) \in 0 .. Len(address) - 1
  <2>1. Below(i) \in SUBSET (DOMAIN address \ {i})
    <3>1. ~(address[i] < address[i]) /\ ~(i < i)
      BY <1>1
    <3> QED BY <3>1 DEF Below
  <2>2. /\ IsFiniteSet(DOMAIN address \ {i})
        /\ Cardinality(DOMAIN address \ {i}) = Len(address) - 1
    BY <1>3, FS_RemoveElement
  <2>3. /\ IsFiniteSet(Below(i))
        /\ Cardinality(Below(i)) <= Cardinality(DOMAIN address \ {i})
    BY <2>1, <2>2, FS_Subset
  <2>4. Cardinality(Below(i)) \in Nat
    BY <2>3, FS_CardinalityType
  <2> QED BY <1>2, <2>2, <2>3, <2>4
<1>5. ASSUME NEW i \in DOMAIN address, NEW j \in DOMAIN address, i \in Below(j)
      PROVE  Cardinality(Below(i)) # Cardinality(Below(j))
  <2>1. Below(i) \in SUBSET Below(j) /\ Below(i) # Below(j)
    <3>1. \A k \in DOMAIN address : address[k] \in Nat /\ k \in Nat
      BY <1>1
    <3>2. ASSUME NEW k \in Below(i) PROVE k \in Below(j)
      BY <1>5, <3>1, <3>2 DEF Below
    <3>3. i \notin Below(i)
      BY <3>1 DEF Below
    <3> QED BY <1>5, <3>2, <3>3
  <2>2. Cardinality(Below(j)) = Cardinality(Below(i)) => Below(j) = Below(i)
    BY <1>4, <2>1, FS_Subset
  <2> QED BY <2>1, <2>2
<1>6. ASSUME NEW i \in DOMAIN address, NEW j \in DOMAIN address,
             Cardinality(Below(i)) = Cardinality(Below(j))
      PROVE  i = j
  <2>1. address[i] \in Nat /\ address[j] \in Nat /\ i \in Nat /\ j \in Nat
    BY <1>1, <1>2
  <2>2. i \notin Below(j) /\ j \notin Below(i)
    BY <1>5, <1>6
  <2> QED BY <2>1, <2>2 DEF Below
<1> QED BY <1>3, <1>4, <1>6

\* Every rank is taken.
LEMMA RankIsTaken ==
    ASSUME WalkInv, NEW n \in 1 .. Len(address)
    PROVE  \E i \in DOMAIN address : Cardinality(Below(i)) = n - 1
<1>1. Len(address) \in Nat
  BY LayoutFacts
<1> DEFINE rank == [i \in DOMAIN address |-> Cardinality(Below(i))]
           R == 0 .. Len(address) - 1
<1>2. rank \in Injection(DOMAIN address, R)
  BY RankFacts DEF Injection, IsInjective
<1>3. IsFiniteSet(R) /\ Cardinality(R) = Len(address)
  <2>1. \A a, b \in Int : /\ IsFiniteSet(a .. b)
                          /\ Cardinality(a .. b) = IF a > b THEN 0 ELSE b - a + 1
    BY FS_Interval
  <2>2. 0 \in Int /\ Len(address) - 1 \in Int
    BY <1>1
  <2>3. IsFiniteSet(R) /\ Cardinality(R) = IF 0 > Len(address) - 1 THEN 0 ELSE Len(address) - 1 - 0 + 1
    BY <2>1, <2>2
  <2> QED BY <1>1, <2>3
<1>4. rank \in Surjection(DOMAIN address, R)
  <2>1. Cardinality(DOMAIN address) = Cardinality(R)
    BY <1>3, RankFacts
  <2> HIDE DEF rank, R
  <2> QED BY <1>2, <1>3, <2>1, FS_Injection
<1>5. n - 1 \in R
  BY <1>1
<1>6. PICK i \in DOMAIN address : rank[i] = n - 1
  BY <1>4, <1>5 DEF Surjection
<1> QED BY <1>6

\* The order depends on the addresses alone.
LEMMA OrderKept ==
    ASSUME address' = address
    PROVE  \A n : Order(n)' = Order(n)
BY Zenon DEF Order, Below

\* order is a permutation of the instructions.
LEMMA OrderFacts ==
    ASSUME WalkInv
    PROVE  /\ \A n \in 1 .. Len(address) : Order(n) \in DOMAIN address
           /\ \A i \in DOMAIN address : \E n \in 1 .. Len(address) : Order(n) = i
<1>1. Len(address) \in Nat
  BY LayoutFacts
<1>2. ASSUME NEW n \in 1 .. Len(address) PROVE Order(n) \in DOMAIN address
  <2>1. PICK i \in DOMAIN address : Cardinality(Below(i)) = n - 1
    BY RankIsTaken
  <2> QED BY <2>1, Zenon DEF Order
<1>3. ASSUME NEW i \in DOMAIN address PROVE \E n \in 1 .. Len(address) : Order(n) = i
  <2> DEFINE n == Cardinality(Below(i)) + 1
  <2>1. n \in 1 .. Len(address) /\ Cardinality(Below(i)) = n - 1
    BY <1>1, RankFacts
  <2>2. \A j \in DOMAIN address : Cardinality(Below(j)) = n - 1 => j = i
    BY <2>1, RankFacts
  <2>3. Order(n) = i
    <3> HIDE DEF n
    <3>1. Order(n) \in DOMAIN address /\ Cardinality(Below(Order(n))) = n - 1
      BY <2>1, Zenon DEF Order
    <3> QED BY <2>2, <3>1
  <2> HIDE DEF n
  <2> QED BY <2>1, <2>3
<1> QED BY <1>2, <1>3

------------------------------------------------------------------------------
(* The steps.                                                              *)

\* CfgInv holds initially.
LEMMA InitInv == Init => CfgInv
<1> SUFFICES ASSUME Init PROVE CfgInv
  OBVIOUS
<1>1. WalkInv
  <2>1. Len(address) \in Nat
    BY CfgAssumption DEF Init
  <2>2. <<>> \in Seq(Blocks)
    OBVIOUS
  <2>3. 1 \in 1 .. Len(address) + 1
    BY <2>1
  <2> QED BY <2>2, <2>3 DEF Init, WalkInv
<1>2. ScanInv
  BY DEF Init, ScanInv
<1>3. EdgeInv /\ BranchInv /\ AcceptedStaysInside
  BY DEF Init, EdgeInv, BranchInv, AcceptedStaysInside
<1> QED BY <1>1, <1>2, <1>3 DEF CfgInv

\* The edges of an instruction: a call has edges of calls, and where a branch has
\* edges other than its fall they lead to its target.
LEMMA EdgeFacts ==
    ASSUME WalkInv, NEW n \in 1 .. Len(address)
    PROVE  LET end == EndAt(Order(n)) IN
           /\ EdgesOf(n) \in SUBSET Edges
           /\ end.kind \notin Terminators => \A e \in EdgesOf(n) : e.kind = "Call"
           /\ end.kind \in Directs =>
                 \A e \in EdgesOf(n) : e.kind # "Fallthrough" => e.to = InstrAt(end.target)
<1> DEFINE end == EndAt(Order(n))
           to == InstrAt(end.target)
           next == IF n < Len(address)
                   THEN {Edge("Fallthrough", InstrAt({address[Order(n + 1)]}))} ELSE {}
<1>1. address \in Seq(Nat) /\ DOMAIN address \subseteq Nat
  BY LayoutFacts
<1>2. to \in SUBSET Nat
  BY <1>1 DEF InstrAt
<1>3. next \in SUBSET Edges /\ \A e \in next : e.kind = "Fallthrough"
  <2> DEFINE T == InstrAt({address[Order(n + 1)]})
  <2>1. T \in SUBSET Nat
    BY <1>1 DEF InstrAt
  <2> HIDE DEF T
  <2>2. Edge("Fallthrough", T) \in Edges /\ Edge("Fallthrough", T).kind = "Fallthrough"
    BY <2>1 DEF Edge, Edges
  <2> QED BY <2>2 DEF T
<1>4. /\ \A k \in {"Jump", "ConditionalTaken", "Call"} : Edge(k, to) \in Edges
      /\ \A k : Edge(k, to).kind = k /\ Edge(k, to).to = to
  BY <1>2 DEF Edge, Edges
<1>5. EdgesOf(n) = CASE end.kind = "UnconditionalBranch" -> {Edge("Jump", to)}
                     [] end.kind = "ConditionalBranch" -> {Edge("ConditionalTaken", to)} \cup next
                     [] end.kind = "Call" /\ end.target # {} -> {Edge("Call", to)}
                     [] OTHER -> {}
  BY DEF EdgesOf
<1> HIDE DEF end, to, next
<1>6. /\ EdgesOf(n) \in SUBSET Edges
      /\ end.kind \notin Terminators => \A e \in EdgesOf(n) : e.kind = "Call"
      /\ end.kind \in Directs =>
            \A e \in EdgesOf(n) : e.kind # "Fallthrough" => e.to = to
  BY <1>3, <1>4, <1>5 DEF Terminators, Directs
<1> QED BY <1>6 DEF end, to

\* The turn of the walk.
LEMMA WalkKeepsInv == CfgInv /\ Walk => CfgInv'
<1> SUFFICES ASSUME CfgInv, Walk PROVE CfgInv'
  OBVIOUS
<1> USE DEF CfgInv
<1> DEFINE i == Order(pos)
           b == IF open THEN blocks[Len(blocks)] ELSE NewBlock(i)
           grown == [b EXCEPT !.end = i + 1, !.end_address = address[i],
                              !.last = EndAt(i), !.edges = @ \cup EdgesOf(pos)]
           m == IF open THEN Len(blocks) ELSE Len(blocks) + 1
<1>1. /\ phase = "walk" /\ pos \in 1 .. Len(address) /\ Len(address) \in Nat
      /\ pos' = pos + 1
      /\ UNCHANGED <<caller, address, prog, phase, frontier, reached, verdict>>
      /\ open' = (EndAt(i).kind \notin Terminators)
      /\ blocks' = IF open THEN [blocks EXCEPT ![Len(blocks)] = grown]
                            ELSE Append(blocks, grown)
  BY LayoutFacts DEF Walk, WalkInv
<1>2. /\ i \in DOMAIN address /\ i \in Nat /\ address[i] \in Nat /\ EndAt(i) \in Ends
      /\ EdgesOf(pos) \in SUBSET Edges
  <2>1. WalkInv /\ pos \in 1 .. Len(address)
    BY <1>1
  <2>2. i \in DOMAIN address
    BY <2>1, OrderFacts
  <2>3. EdgesOf(pos) \in SUBSET Edges
    BY <2>1, EdgeFacts
  <2>4. address \in Seq(Nat) /\ EndAt(i) \in Ends
    BY <2>1, <2>2, LayoutFacts
  <2> QED BY <2>2, <2>3, <2>4
<1>3. blocks \in Seq(Blocks) /\ open \in BOOLEAN /\ (open => Len(blocks) \in DOMAIN blocks)
  BY DEF WalkInv
<1>4. b \in Blocks /\ \A e \in b.edges : e.kind = "Call"
  <2>1. CASE open
    BY <1>3, <2>1 DEF EdgeInv, Closed
  <2>2. CASE ~open
    <3>1. End("Fallthrough", {}) \in Ends
      BY DEF End, Ends, EndKinds
    <3> QED BY <1>2, <2>2, <3>1 DEF NewBlock, Blocks
  <2> QED BY <2>1, <2>2
<1>5. /\ grown \in Blocks /\ grown.last = EndAt(i)
      /\ grown.edges = b.edges \cup EdgesOf(pos)
  <2> HIDE DEF b, i
  <2>1. /\ b \in Blocks /\ i + 1 \in Nat /\ address[i] \in Nat /\ EndAt(i) \in Ends
        /\ EdgesOf(pos) \in SUBSET Edges
    BY <1>2, <1>4
  <2>2. grown \in Blocks
    BY <2>1, Zenon DEF Blocks
  <2>3. grown.last = EndAt(i) /\ grown.edges = b.edges \cup EdgesOf(pos)
    BY <2>1, Zenon DEF Blocks
  <2> QED BY <2>2, <2>3
<1> HIDE DEF grown, b
<1>6. /\ blocks' \in Seq(Blocks) /\ m = Len(blocks') /\ m \in DOMAIN blocks' /\ blocks'[m] = grown
      /\ DOMAIN blocks' = DOMAIN blocks \cup {m}
      /\ \A k \in DOMAIN blocks' \ {m} : k \in DOMAIN blocks /\ blocks'[k] = blocks[k]
      /\ \A k \in DOMAIN blocks : k # m => Closed(k)
      /\ \A k \in DOMAIN blocks : Closed(k) => k # m
  <2>1. CASE open
    <3>1. blocks' = [blocks EXCEPT ![Len(blocks)] = grown] /\ m = Len(blocks)
      BY <1>1, <2>1
    <3>2. /\ blocks' \in Seq(Blocks) /\ Len(blocks') = Len(blocks)
          /\ DOMAIN blocks' = DOMAIN blocks /\ m \in DOMAIN blocks
      BY <1>3, <1>5, <2>1, <3>1, SMTT(30)
    <3>3. blocks'[m] = grown /\ \A k \in DOMAIN blocks : k # m => blocks'[k] = blocks[k]
      BY <3>1, <3>2
    <3>4. \A k \in DOMAIN blocks : Closed(k) <=> k # m
      BY <2>1, <3>1 DEF Closed
    <3> QED BY <3>1, <3>2, <3>3, <3>4
  <2>2. CASE ~open
    BY <1>1, <1>3, <1>5, <2>2 DEF Closed
  <2> QED BY <2>1, <2>2, SMTT(30)
<1> HIDE DEF m, i
<1>7. WalkInv'
  BY <1>1, <1>6 DEF WalkInv
<1>8. ScanInv' /\ AcceptedStaysInside'
  BY <1>1 DEF ScanInv, AcceptedStaysInside, WalkInv, Forbidden, EndAt, InstrAt
<1>9. EdgeInv'
  <2>1. /\ EndAt(i).kind \notin Terminators => \A e \in EdgesOf(pos) : e.kind = "Call"
        /\ EndAt(i).kind \in Directs =>
              \A e \in EdgesOf(pos) : e.kind # "Fallthrough" => e.to = InstrAt(EndAt(i).target)
    BY <1>1, EdgeFacts DEF i
  <2>2. \A S : InstrAt(S)' = InstrAt(S)
    BY <1>1 DEF InstrAt
  <2> SUFFICES ASSUME NEW k \in DOMAIN blocks'
               PROVE  /\ ~Closed(k)' => /\ blocks'[k].last.kind \notin Directs
                                        /\ \A e \in blocks'[k].edges : e.kind = "Call"
                      /\ blocks'[k].last.kind \in Directs =>
                            \A e \in blocks'[k].edges :
                                e.kind \in {"Jump", "ConditionalTaken"} /\ e.to # {} =>
                                    InstrAt(blocks'[k].last.target) # {}
    BY <1>1 DEF EdgeInv, InstrAt
  <2>3. CASE k = m
    <3>1. ~Closed(k)' => EndAt(i).kind \notin Terminators
      BY <1>1, <1>6 DEF Closed
    <3> QED BY <1>4, <1>5, <1>6, <2>1, <2>3, <3>1 DEF Directs, Terminators
  <2>4. CASE k # m
    <3>1. Closed(k)' /\ Closed(k) /\ k \in DOMAIN blocks /\ blocks'[k] = blocks[k]
      BY <1>6, <2>4 DEF Closed
    <3> QED BY <3>1 DEF EdgeInv
  <2> QED BY <2>3, <2>4
<1>10. BranchInv'
  <2>1. \A j : EndAt(j)' = EndAt(j)
    BY <1>1 DEF EndAt
  <2>2. \A n : Order(n)' = Order(n)
    BY <1>1, OrderKept
  <2> SUFFICES ASSUME NEW n \in 1 .. pos, EndAt(Order(n)).kind \in Directs
               PROVE  \E k \in DOMAIN blocks' : Closed(k)' /\ blocks'[k].last = EndAt(Order(n))
    BY <1>1, <2>1, <2>2 DEF BranchInv
  <2>3. CASE n = pos
    <3>1. ~open'
      BY <1>1, <2>3 DEF i, Directs, Terminators
    <3> QED BY <1>5, <1>6, <2>3, <3>1 DEF Closed, i
  <2>4. CASE n # pos
    <3>1. PICK k \in DOMAIN blocks : Closed(k) /\ blocks[k].last = EndAt(Order(n))
      BY <1>1, <2>4 DEF BranchInv
    <3> QED BY <1>6, <3>1 DEF Closed
  <2> QED BY <2>3, <2>4
<1> QED BY <1>7, <1>8, <1>9, <1>10

\* Edges to instructions become edges to blocks; an edge that leads to no
\* instruction leads to no block.
LEMMA ResolveKeepsInv == CfgInv /\ Resolve => CfgInv'
<1> SUFFICES ASSUME CfgInv, Resolve PROVE CfgInv'
  OBVIOUS
<1> USE DEF CfgInv
<1> DEFINE resolved(k) == {Edge(e.kind, UNION {BlockOf(i) : i \in e.to}) : e \in blocks[k].edges}
<1>1. /\ phase = "resolve" /\ phase' \in {"search", "policy"}
      /\ phase' = "policy" => caller = "leaf"
      /\ UNCHANGED <<caller, address, prog, pos, open, verdict>>
      /\ blocks' = [k \in DOMAIN blocks |-> [blocks[k] EXCEPT !.edges = resolved(k)]]
  BY DEF Resolve
<1>2. blocks \in Seq(Blocks)
  BY DEF WalkInv
<1>3. ASSUME NEW k \in DOMAIN blocks
      PROVE  /\ blocks'[k] \in Blocks /\ blocks'[k].last = blocks[k].last
             /\ blocks'[k].edges = resolved(k)
  <2>1. blocks[k] \in Blocks
    BY <1>2
  <2>2. resolved(k) \in SUBSET Edges
    <3>1. \A i : BlockOf(i) \in SUBSET Nat
      BY <1>2 DEF BlockOf
    <3>2. ASSUME NEW e \in blocks[k].edges
          PROVE  Edge(e.kind, UNION {BlockOf(i) : i \in e.to}) \in Edges
      <4>1. e \in Edges
        BY <2>1 DEF Blocks
      <4>2. UNION {BlockOf(i) : i \in e.to} \in SUBSET Nat
        BY <3>1
      <4> QED BY <4>1, <4>2 DEF Edge, Edges
    <3> QED BY <3>2
  <2>3. blocks'[k] = [blocks[k] EXCEPT !.edges = resolved(k)]
    BY <1>1
  <2> HIDE DEF resolved
  <2> QED BY <2>1, <2>2, <2>3 DEF Blocks
<1>4. DOMAIN blocks' = DOMAIN blocks /\ Len(blocks') = Len(blocks) /\ blocks' \in Seq(Blocks)
  <2>1. blocks' \in [1 .. Len(blocks) -> Blocks] /\ Len(blocks) \in Nat
    <3>1. DOMAIN blocks' = DOMAIN blocks /\ blocks' = [k \in DOMAIN blocks' |-> blocks'[k]]
      BY <1>1, Zenon
    <3>2. DOMAIN blocks = 1 .. Len(blocks) /\ Len(blocks) \in Nat
      BY <1>2
    <3>3. \A k \in DOMAIN blocks : blocks'[k] \in Blocks
      BY <1>3
    <3> QED BY <3>1, <3>2, <3>3, Zenon
  <2>2. blocks' \in Seq(Blocks)
    BY <2>1
  <2> QED BY <1>2, <2>1, <2>2
<1>5. \A k : Closed(k)' = Closed(k)
  BY <1>1, <1>4 DEF Closed
<1>6. WalkInv'
  <2>1. blocks = <<>> <=> blocks' = <<>>
    BY <1>2, <1>4
  <2> QED BY <1>1, <1>4, <2>1 DEF WalkInv
<1>7. ScanInv' /\ AcceptedStaysInside'
  BY <1>1 DEF ScanInv, AcceptedStaysInside, WalkInv, Forbidden, EndAt
<1>8. EdgeInv'
  <2> SUFFICES ASSUME NEW k \in DOMAIN blocks
               PROVE  /\ ~Closed(k) => /\ blocks[k].last.kind \notin Directs
                                       /\ \A e \in blocks'[k].edges : e.kind = "Call"
                      /\ blocks[k].last.kind \in Directs =>
                            \A e \in blocks'[k].edges :
                                e.kind \in {"Jump", "ConditionalTaken"} /\ e.to # {} =>
                                    InstrAt(blocks[k].last.target) # {}
    <3>1. \A S : InstrAt(S)' = InstrAt(S)
      BY <1>1 DEF InstrAt
    <3>2. \A k \in DOMAIN blocks : blocks'[k].last = blocks[k].last
      BY <1>3
    <3> QED BY <1>4, <1>5, <3>1, <3>2 DEF EdgeInv
  <2>1. ASSUME NEW f \in blocks'[k].edges
        PROVE  \E e \in blocks[k].edges : f.kind = e.kind /\ (f.to # {} => e.to # {})
    <3>1. PICK e \in blocks[k].edges : f = Edge(e.kind, UNION {BlockOf(i) : i \in e.to})
      BY <1>3
    <3>2. f.kind = e.kind /\ f.to = UNION {BlockOf(i) : i \in e.to}
      BY <3>1 DEF Edge
    <3> QED BY <3>2
  <2> QED BY <2>1 DEF EdgeInv
<1>9. BranchInv'
  <2>1. \A j : EndAt(j)' = EndAt(j)
    BY <1>1 DEF EndAt
  <2>2. \A n : Order(n)' = Order(n)
    BY <1>1, OrderKept
  <2> SUFFICES ASSUME NEW n \in 1 .. pos - 1, EndAt(Order(n)).kind \in Directs
               PROVE  \E k \in DOMAIN blocks' : Closed(k)' /\ blocks'[k].last = EndAt(Order(n))
    BY <1>1, <2>1, <2>2 DEF BranchInv
  <2>3. PICK k \in DOMAIN blocks : Closed(k) /\ blocks[k].last = EndAt(Order(n))
    BY DEF BranchInv
  <2> QED BY <1>3, <1>4, <1>5, <2>3
<1> QED BY <1>6, <1>7, <1>8, <1>9

\* The second pass of check_cfg_leaf: what it lets pass stays inside.
LEMMA PolicyAccepts ==
    ASSUME CfgInv, phase = "policy", \A k \in DOMAIN blocks : ~Incomplete(blocks[k])
    PROVE  \A i \in DOMAIN address :
              /\ EndAt(i).kind # "Indirect"
              /\ EndAt(i).kind = "Call" => EndAt(i).target # {}
              /\ EndAt(i).kind \in Directs /\ 0 \notin EndAt(i).target =>
                    \E j \in DOMAIN address : address[j] \in EndAt(i).target
<1> USE DEF CfgInv
<1> SUFFICES ASSUME NEW i \in DOMAIN address
             PROVE  /\ EndAt(i).kind # "Indirect"
                    /\ EndAt(i).kind = "Call" => EndAt(i).target # {}
                    /\ EndAt(i).kind \in Directs /\ 0 \notin EndAt(i).target =>
                          \E j \in DOMAIN address : address[j] \in EndAt(i).target
  OBVIOUS
<1>1. EndAt(i) \in Ends /\ ~Forbidden(i)
  BY LayoutFacts DEF ScanInv, WalkInv
<1>2. EndAt(i).kind # "Indirect" /\ (EndAt(i).kind = "Call" => EndAt(i).target # {})
  BY <1>1 DEF Forbidden, End, Ends
<1>3. ASSUME EndAt(i).kind \in Directs, 0 \notin EndAt(i).target
      PROVE  InstrAt(EndAt(i).target) # {}
  <2>1. PICK n \in 1 .. pos - 1 : Order(n) = i
    <3>1. pos = Len(address) + 1 /\ Len(address) \in Nat
      BY LayoutFacts DEF WalkInv
    <3> QED BY <3>1, OrderFacts
  <2>2. PICK k \in DOMAIN blocks : blocks[k].last = EndAt(i)
    BY <1>3, <2>1 DEF BranchInv
  <2>3. ~Unresolved(blocks[k])
    BY <1>3, <2>2 DEF Incomplete
  <2>4. PICK e \in blocks[k].edges : e.kind \in {"Jump", "ConditionalTaken"} /\ e.to # {}
    BY <1>3, <2>2, <2>3 DEF Unresolved
  <2> QED BY <1>3, <2>2, <2>4 DEF EdgeInv
<1> QED BY <1>2, <1>3 DEF InstrAt

\* Every step keeps CfgInv.
LEMMA StepInv == CfgInv /\ [Next]_vars => CfgInv'
<1> SUFFICES ASSUME CfgInv, [Next]_vars PROVE CfgInv'
  OBVIOUS
<1> USE DEF CfgInv
\* Steps that leave the program, the walk and its blocks alone.
<1>1. ASSUME UNCHANGED <<caller, address, prog, pos, blocks, open>>,
             ScanInv', AcceptedStaysInside',
             phase' \in {"resolve", "policy"} => pos = Len(address) + 1,
             phase' = "policy" => caller = "leaf",
             verdict' = "accepted" => phase' = "done"
      PROVE  CfgInv'
  <2>1. WalkInv'
    BY <1>1 DEF WalkInv
  <2>2. EdgeInv'
    BY <1>1 DEF EdgeInv, Closed, InstrAt
  <2>3. BranchInv'
    BY <1>1, OrderKept DEF BranchInv, Closed, EndAt
  <2> QED BY <1>1, <2>1, <2>2, <2>3
<1>2. CASE Scan
  BY <1>1, <1>2 DEF Scan, ScanInv, AcceptedStaysInside, WalkInv, Forbidden, EndAt
<1>3. CASE EmptyInput
  BY <1>1, <1>3 DEF EmptyInput, ScanInv, AcceptedStaysInside, WalkInv
<1>4. CASE Walk
  BY <1>4, WalkKeepsInv
<1>5. CASE WalkEnds
  <2>1. pos = Len(address) + 1
    BY <1>5, LayoutFacts DEF WalkEnds, WalkInv
  <2> QED BY <1>1, <1>5, <2>1
          DEF WalkEnds, ScanInv, AcceptedStaysInside, WalkInv, Forbidden, EndAt
<1>6. CASE Resolve
  BY <1>6, ResolveKeepsInv
<1>7. CASE (\E k \in frontier : Search(k)) \/ SearchEnds
  BY <1>1, <1>7 DEF Search, SearchEnds, ScanInv, AcceptedStaysInside, WalkInv
<1>8. CASE Policy
  <2>1. AcceptedStaysInside'
    <3> SUFFICES ASSUME verdict' = "accepted" PROVE AcceptedStaysInside'
      BY DEF AcceptedStaysInside
    <3>1. phase = "policy" /\ \A k \in DOMAIN blocks : ~Incomplete(blocks[k])
      BY <1>8 DEF Policy
    <3> QED BY <1>8, <3>1, PolicyAccepts DEF Policy, AcceptedStaysInside, EndAt, InstrAt
  <2> QED BY <1>1, <1>8, <2>1 DEF Policy, ScanInv, WalkInv
<1>9. CASE Finished \/ UNCHANGED vars
  BY <1>1, <1>9
     DEF Finished, vars, ScanInv, AcceptedStaysInside, WalkInv, Forbidden, EndAt, InstrAt
<1> QED BY <1>2, <1>3, <1>4, <1>5, <1>6, <1>7, <1>8, <1>9 DEF Next

\* What check_cfg_leaf accepts has no indirect transfer, and every branch of it goes to
\* the address of a decoded instruction or is a relocation, for all code, also for
\* that of several sections, whose addresses repeat.
THEOREM GateIsTight == Spec => []AcceptedStaysInside
<1>1. CfgInv => AcceptedStaysInside
  BY DEF CfgInv
<1> QED BY <1>1, InitInv, StepInv, PTL DEF Spec

------------------------------------------------------------------------------
(* The blocks tile the code.                                               *)

\* The places of the first and the last instruction of a block.
First(b) == Place(b.start)
Last(b) == Place(b.end - 1)

\* The addresses of a block are those of these two.
Addressed(b) == /\ b.start_address = address[b.start]
                /\ b.end_address = address[b.end - 1]

\* What the walk has built: its blocks hold every instruction walked, lie behind
\* one another and end at instructions, the last one at the last instruction.
RangeInv ==
    /\ \A n \in 1 .. pos - 1 : \E k \in DOMAIN blocks : Holds(k, Order(n))
    /\ \A k, l \in DOMAIN blocks : k < l => Last(blocks[k]) < First(blocks[l])
    /\ \A k \in DOMAIN blocks :
          /\ First(blocks[k]) <= Last(blocks[k])
          /\ \E n \in 1 .. pos - 1 : First(blocks[k]) = n /\ blocks[k].start = Order(n)
          /\ \E n \in 1 .. pos - 1 : Last(blocks[k]) = n /\ blocks[k].end = Order(n) + 1
          /\ Addressed(blocks[k])
    /\ \A n \in 1 .. pos - 1 : \A k : k = Len(blocks) => n <= Last(blocks[k])

\* A terminator is the last instruction of its block, and any other instruction is
\* followed by the next one in its block.
TransferInv ==
    /\ \A n \in 1 .. pos - 1 : \A k \in DOMAIN blocks :
          Holds(k, Order(n)) /\ EndAt(Order(n)).kind \in Terminators =>
              Last(blocks[k]) = n /\ Closed(k)
    /\ \A n \in 1 .. pos - 2 : \A k \in DOMAIN blocks :
          Holds(k, Order(n)) /\ EndAt(Order(n)).kind \notin Terminators =>
              Holds(k, Order(n + 1))
    /\ \A n \in 1 .. pos - 1 :
          n = pos - 1 /\ EndAt(Order(n)).kind \notin Terminators => open

TileInv == CfgInv /\ RangeInv /\ TransferInv

\* The n-th instruction of the walk has the n-th place.
LEMMA PlaceFacts ==
    ASSUME WalkInv
    PROVE  /\ \A i : Place(i) \in Nat
           /\ \A n \in 1 .. Len(address) :
                 /\ Order(n) \in DOMAIN address /\ Order(n) \in Nat
                 /\ Place(Order(n)) = n /\ (Order(n) + 1) - 1 = Order(n)
                 /\ address[Order(n)] \in Nat
           /\ \A i \in DOMAIN address : Place(i) \in 1 .. Len(address) /\ Order(Place(i)) = i
<1>1. address \in Seq(Nat) /\ DOMAIN address = 1 .. Len(address) /\ Len(address) \in Nat
  BY LayoutFacts
<1>2. ASSUME NEW i PROVE Cardinality(Below(i)) \in Nat
  <2>1. Below(i) \in SUBSET (DOMAIN address)
    BY DEF Below
  <2>2. IsFiniteSet(Below(i))
    BY <2>1, RankFacts, FS_Subset
  <2> QED BY <2>2, FS_CardinalityType
<1>3. ASSUME NEW n \in 1 .. Len(address)
      PROVE  /\ Order(n) \in DOMAIN address /\ Order(n) \in Nat
             /\ Place(Order(n)) = n /\ (Order(n) + 1) - 1 = Order(n)
             /\ address[Order(n)] \in Nat
  <2>1. Order(n) \in DOMAIN address
    BY OrderFacts
  <2>2. PICK i \in DOMAIN address : Cardinality(Below(i)) = n - 1
    BY RankIsTaken
  <2>3. Cardinality(Below(Order(n))) = n - 1
    BY <2>2, Zenon DEF Order
  <2>4. Order(n) \in Nat /\ address[Order(n)] \in Nat
    BY <1>1, <2>1
  <2>5. (Order(n) + 1) - 1 = Order(n)
    BY <2>4
  <2>6. Place(Order(n)) = n
    BY <1>1, <2>3 DEF Place
  <2> QED BY <2>1, <2>4, <2>5, <2>6
<1>4. ASSUME NEW i \in DOMAIN address PROVE Place(i) \in 1 .. Len(address) /\ Order(Place(i)) = i
  <2>1. PICK n \in 1 .. Len(address) : Order(n) = i
    BY OrderFacts
  <2>2. Place(i) = n
    BY <1>3, <2>1
  <2> QED BY <2>1, <2>2
<1>5. ASSUME NEW i PROVE Place(i) \in Nat
  <2>1. Cardinality(Below(i)) \in Nat
    BY <1>2
  <2> QED BY <2>1 DEF Place
<1> QED BY <1>3, <1>4, <1>5

\* The places depend on the addresses alone.
LEMMA PlaceKept ==
    ASSUME address' = address
    PROVE  \A i : Place(i)' = Place(i)
BY DEF Place, Below

\* The block the next instruction joins or opens.
Current == IF open THEN Len(blocks) ELSE Len(blocks) + 1

\* What a turn of the walk does to the blocks.
LEMMA WalkBlocks ==
    ASSUME WalkInv, Walk
    PROVE  /\ pos \in 1 .. Len(address) /\ Len(address) \in Nat /\ pos' = pos + 1
           /\ UNCHANGED <<caller, address, prog, phase, frontier, reached, verdict>>
           /\ open' = (EndAt(Order(pos)).kind \notin Terminators)
           /\ DOMAIN blocks = 1 .. Len(blocks) /\ Len(blocks) \in Nat
           /\ DOMAIN blocks' = DOMAIN blocks \cup {Current}
           /\ Len(blocks') = Current /\ Current \in Nat
           /\ \A k \in DOMAIN blocks : k # Current => blocks'[k] = blocks[k] /\ k < Current
           /\ blocks'[Current].end = Order(pos) + 1
           /\ blocks'[Current].end_address = address[Order(pos)]
           /\ EdgesOf(pos) \subseteq blocks'[Current].edges
           /\ open => /\ Current \in DOMAIN blocks
                      /\ blocks'[Current].start = blocks[Current].start
                      /\ blocks'[Current].start_address = blocks[Current].start_address
                      /\ blocks[Current].edges \subseteq blocks'[Current].edges
           /\ ~open => /\ Current \notin DOMAIN blocks
                       /\ blocks'[Current].start = Order(pos)
                       /\ blocks'[Current].start_address = address[Order(pos)]
<1> DEFINE i == Order(pos)
           b == IF open THEN blocks[Len(blocks)] ELSE NewBlock(i)
           grown == [b EXCEPT !.end = i + 1, !.end_address = address[i],
                              !.last = EndAt(i), !.edges = @ \cup EdgesOf(pos)]
           m == Current
<1>1. /\ pos \in 1 .. Len(address) /\ Len(address) \in Nat /\ pos' = pos + 1
      /\ UNCHANGED <<caller, address, prog, phase, frontier, reached, verdict>>
      /\ open' = (EndAt(i).kind \notin Terminators)
      /\ blocks' = IF open THEN [blocks EXCEPT ![Len(blocks)] = grown]
                            ELSE Append(blocks, grown)
  BY LayoutFacts DEF Walk, WalkInv
<1>2. /\ blocks \in Seq(Blocks) /\ open \in BOOLEAN /\ Len(blocks) \in Nat
      /\ DOMAIN blocks = 1 .. Len(blocks) /\ (open => Len(blocks) \in DOMAIN blocks)
  BY DEF WalkInv
<1>3. /\ grown.end = i + 1 /\ grown.end_address = address[i]
      /\ grown.start = b.start /\ grown.start_address = b.start_address
      /\ grown.edges = b.edges \cup EdgesOf(pos)
  <2>1. b \in [start : {b.start}, end : {b.end}, start_address : {b.start_address},
               end_address : {b.end_address}, last : {b.last}, edges : {b.edges}]
    <3>1. CASE open
      <4>1. b \in Blocks
        BY <1>2, <3>1
      <4> HIDE DEF b
      <4> QED BY <4>1 DEF Blocks
    <3>2. CASE ~open
      BY <3>2 DEF NewBlock
    <3> QED BY <3>1, <3>2
  <2> HIDE DEF b
  <2> QED BY <2>1, Zenon
<1>4. /\ open => b = blocks[Len(blocks)]
      /\ ~open => b.start = i /\ b.start_address = address[i]
  BY DEF NewBlock
<1> HIDE DEF grown, b
<1>5. /\ blocks'[m] = grown /\ DOMAIN blocks' = DOMAIN blocks \cup {m} /\ Len(blocks') = m
      /\ \A k \in DOMAIN blocks : k # m => blocks'[k] = blocks[k] /\ k < m
      /\ open => m = Len(blocks) /\ m \in DOMAIN blocks
      /\ ~open => m \notin DOMAIN blocks
  <2>1. CASE open
    BY <1>1, <1>2, <2>1 DEF Current
  <2>2. CASE ~open
    <3> DEFINE T == Blocks \cup {grown}
    <3>1. blocks \in Seq(T) /\ grown \in T
      BY <1>2
    <3>2. blocks' = Append(blocks, grown) /\ m = Len(blocks) + 1
      BY <1>1, <2>2 DEF Current
    <3> HIDE DEF T, m
    <3>3. /\ Len(blocks') = m /\ DOMAIN blocks' = 1 .. m /\ blocks'[m] = grown
          /\ \A k \in 1 .. Len(blocks) : blocks'[k] = blocks[k]
      BY <3>1, <3>2
    <3>4. /\ 1 .. m = 1 .. Len(blocks) \cup {m} /\ m \notin 1 .. Len(blocks)
          /\ \A k \in 1 .. Len(blocks) : k < m
      BY <1>2, <3>2
    <3> QED BY <1>2, <2>2, <3>3, <3>4
  <2> QED BY <2>1, <2>2
<1>6. m \in Nat
  BY <1>2 DEF Current
<1> HIDE DEF m
<1>7. /\ blocks'[m].end = i + 1 /\ blocks'[m].end_address = address[i]
      /\ EdgesOf(pos) \subseteq blocks'[m].edges
  BY <1>3, <1>5
<1>8. open => /\ blocks'[m].start = blocks[m].start
              /\ blocks'[m].start_address = blocks[m].start_address
              /\ blocks[m].edges \subseteq blocks'[m].edges
  BY <1>3, <1>4, <1>5
<1>9. ~open => blocks'[m].start = i /\ blocks'[m].start_address = address[i]
  BY <1>3, <1>4, <1>5
<1> QED BY <1>1, <1>2, <1>5, <1>6, <1>7, <1>8, <1>9 DEF m, i

\* The first and the last place of the blocks after a turn of the walk.
LEMMA WalkPlaces ==
    ASSUME WalkInv, Walk
    PROVE  /\ Last(blocks'[Current]) = pos
           /\ open => First(blocks'[Current]) = First(blocks[Current])
           /\ ~open => First(blocks'[Current]) = pos
<1>1. pos \in 1 .. Len(address) /\ blocks'[Current].end = Order(pos) + 1
  BY WalkBlocks
<1>2. /\ open => blocks'[Current].start = blocks[Current].start
      /\ ~open => blocks'[Current].start = Order(pos)
  BY WalkBlocks
<1>3. Place(Order(pos)) = pos /\ (Order(pos) + 1) - 1 = Order(pos)
  BY <1>1, PlaceFacts
<1>4. blocks'[Current].end - 1 = Order(pos)
  BY <1>1, <1>3
<1> QED BY <1>2, <1>3, <1>4 DEF First, Last

\* The walk leaves the order alone.
LEMMA OrderUnchanged ==
    ASSUME UNCHANGED <<address, prog>>
    PROVE  /\ \A n : Order(n)' = Order(n)
           /\ \A i : Place(i)' = Place(i)
           /\ \A i : EndAt(i)' = EndAt(i)
           /\ \A S : InstrAt(S)' = InstrAt(S)
<1>1. \A n : Order(n)' = Order(n)
  BY OrderKept
<1> QED BY <1>1, PlaceKept DEF EndAt, InstrAt

\* The blocks are typed; what a block holds, before and after a step that leaves
\* the code alone.
LEMMA BlockFacts ==
    ASSUME WalkInv
    PROVE  /\ blocks \in Seq(Blocks) /\ Len(blocks) \in Nat /\ DOMAIN blocks = 1 .. Len(blocks)
           /\ \A k \in DOMAIN blocks : blocks[k] \in Blocks
           /\ \A k : First(blocks[k]) \in Nat /\ Last(blocks[k]) \in Nat
           /\ \A k : \A n \in 1 .. Len(address) :
                 Holds(k, Order(n)) <=> First(blocks[k]) <= n /\ n <= Last(blocks[k])
           /\ UNCHANGED <<address, prog>> =>
                 \A k : \A n \in 1 .. Len(address) :
                    Holds(k, Order(n))' <=> First(blocks'[k]) <= n /\ n <= Last(blocks'[k])
<1>1. blocks \in Seq(Blocks) /\ Len(blocks) \in Nat /\ DOMAIN blocks = 1 .. Len(blocks)
  BY DEF WalkInv
<1>2. \A k \in DOMAIN blocks : blocks[k] \in Blocks
  BY <1>1
<1>3. \A b : First(b) \in Nat /\ Last(b) \in Nat
  BY PlaceFacts DEF First, Last
<1>4. \A n \in 1 .. Len(address) : Place(Order(n)) = n
  BY PlaceFacts
<1>5. ASSUME NEW b, NEW n \in 1 .. Len(address)
      PROVE  n \in First(b) .. Last(b) <=> First(b) <= n /\ n <= Last(b)
  BY <1>3
<1>6. ASSUME NEW k, NEW n \in 1 .. Len(address)
      PROVE  Holds(k, Order(n)) <=> First(blocks[k]) <= n /\ n <= Last(blocks[k])
  <2>1. Holds(k, Order(n)) <=> n \in First(blocks[k]) .. Last(blocks[k])
    BY <1>4 DEF Holds, First, Last
  <2> QED BY <1>5, <2>1
<1>7. ASSUME UNCHANGED <<address, prog>>, NEW k, NEW n \in 1 .. Len(address)
      PROVE  Holds(k, Order(n))' <=> First(blocks'[k]) <= n /\ n <= Last(blocks'[k])
  <2>1. Order(n)' = Order(n) /\ \A i : Place(i)' = Place(i)
    BY <1>7, OrderUnchanged
  <2>2. Holds(k, Order(n))' <=> n \in First(blocks'[k]) .. Last(blocks'[k])
    BY <1>4, <2>1 DEF Holds, First, Last
  <2> QED BY <1>5, <2>2
<1> QED BY <1>1, <1>2, <1>3, <1>6, <1>7

\* The instructions walked are those of the first places.
LEMMA WalkedFacts ==
    ASSUME WalkInv
    PROVE  /\ pos \in Nat /\ Len(address) \in Nat /\ 1 <= pos /\ pos <= Len(address) + 1
           /\ \A n \in 1 .. pos - 1 : n \in 1 .. Len(address) /\ n \in Nat /\ n < pos
           /\ pos <= Len(address) => pos \in 1 .. Len(address)
<1>1. pos \in Nat /\ Len(address) \in Nat /\ 1 <= pos /\ pos <= Len(address) + 1
  BY LayoutFacts DEF WalkInv
<1> QED BY <1>1

\* The last block ends at the last instruction walked; it and no other holds it.
LEMMA LastHolds ==
    ASSUME WalkInv, RangeInv, pos > 1
    PROVE  /\ Len(blocks) \in DOMAIN blocks
           /\ Last(blocks[Len(blocks)]) = pos - 1
           /\ \A k \in DOMAIN blocks : Holds(k, Order(pos - 1)) <=> k = Len(blocks)
<1> DEFINE m == Len(blocks)  p == pos - 1
<1>1. p \in 1 .. p /\ p \in Nat
  BY WalkedFacts
<1>2. /\ m \in Nat /\ DOMAIN blocks = 1 .. m
      /\ \A k \in DOMAIN blocks : First(blocks[k]) \in Nat /\ Last(blocks[k]) \in Nat
  BY BlockFacts
<1>3. m \in DOMAIN blocks
  <2>1. PICK k \in DOMAIN blocks : Holds(k, Order(p))
    BY <1>1 DEF RangeInv
  <2> QED BY <1>2, <2>1
<1>4. \A n \in 1 .. p : n \in Nat /\ n <= p
  BY <1>1
<1>5. Last(blocks[m]) = p
  <2>1. PICK n \in 1 .. p : Last(blocks[m]) = n
    BY <1>3 DEF RangeInv
  <2>2. p <= Last(blocks[m])
    BY <1>1 DEF RangeInv
  <2>3. n \in Nat /\ n <= p /\ p \in Nat
    BY <1>1, <1>4
  <2> HIDE DEF m, p
  <2> QED BY <2>1, <2>2, <2>3
<1>6. ASSUME NEW k \in DOMAIN blocks PROVE Holds(k, Order(p)) <=> k = m
  <2>1. Holds(k, Order(p)) <=> /\ First(blocks[k]) <= p
                               /\ p <= Last(blocks[k])
    <3>1. p \in 1 .. Len(address)
      BY <1>1, WalkedFacts
    <3> QED BY <3>1, BlockFacts
  <2>2. First(blocks[m]) <= Last(blocks[m]) /\ p \in Nat
    BY <1>1, <1>3, <1>4 DEF RangeInv
  <2>3. k # m => Last(blocks[k]) < First(blocks[m])
    <3>1. k # m => k < m
      BY <1>2
    <3> HIDE DEF m
    <3> QED BY <1>3, <3>1 DEF RangeInv
  <2> HIDE DEF m, p
  <2> QED BY <1>2, <1>3, <1>5, <2>1, <2>2, <2>3
<1> QED BY <1>3, <1>5, <1>6

\* The instructions a block holds after a turn of the walk: the current block
\* gains the one walked, every other block keeps its own.
LEMMA WalkHolds ==
    ASSUME WalkInv, RangeInv, Walk
    PROVE  /\ \A n \in 1 .. pos - 1 : \A k \in DOMAIN blocks :
                 Holds(k, Order(n))' <=> Holds(k, Order(n))
           /\ \A n \in 1 .. pos - 1 : \A k \in DOMAIN blocks' \ DOMAIN blocks :
                 ~Holds(k, Order(n))'
           /\ \A n, k : n = pos /\ k \in DOMAIN blocks' => (Holds(k, Order(n))' <=> k = Len(blocks'))
<1> DEFINE c == Current
           s(k) == First(blocks[k])
           e(k) == Last(blocks[k])
           t(k) == First(blocks'[k])
           f(k) == Last(blocks'[k])
<1>1. /\ pos <= Len(address) /\ DOMAIN blocks' = DOMAIN blocks \cup {c}
      /\ UNCHANGED <<address, prog>>
      /\ \A k \in DOMAIN blocks : k # c => t(k) = s(k) /\ f(k) = e(k)
      /\ f(c) = pos
      /\ open => c \in DOMAIN blocks /\ c = Len(blocks) /\ t(c) = s(c)
      /\ ~open => c \notin DOMAIN blocks /\ t(c) = pos
      /\ Len(blocks') = c
  <2>1. open => c = Len(blocks)
    BY DEF Current
  <2>2. /\ pos \in 1 .. Len(address) /\ Len(address) \in Nat
        /\ UNCHANGED <<address, prog>>
        /\ \A k \in DOMAIN blocks : k # c => blocks'[k] = blocks[k]
        /\ DOMAIN blocks' = DOMAIN blocks \cup {c}
        /\ Len(blocks') = c
    BY WalkBlocks
  <2>3. f(c) = pos
    BY WalkPlaces
  <2>4. /\ open => c \in DOMAIN blocks /\ t(c) = s(c)
        /\ ~open => c \notin DOMAIN blocks /\ t(c) = pos
    BY WalkBlocks, WalkPlaces
  <2> QED BY <2>1, <2>2, <2>3, <2>4
<1>2. /\ pos \in Nat /\ pos \in 1 .. Len(address)
      /\ \A n \in 1 .. pos - 1 : n \in Nat /\ n < pos /\ n \in 1 .. Len(address)
  BY <1>1, WalkedFacts
<1>3. /\ \A k \in DOMAIN blocks : s(k) \in Nat /\ e(k) \in Nat
      /\ \A k : \A n \in 1 .. Len(address) : Holds(k, Order(n)) <=> s(k) <= n /\ n <= e(k)
      /\ \A k : \A n \in 1 .. Len(address) : Holds(k, Order(n))' <=> t(k) <= n /\ n <= f(k)
  BY <1>1, BlockFacts
<1>4. ASSUME NEW k \in DOMAIN blocks PROVE e(k) < pos /\ s(k) < pos
  <2>1. PICK n \in 1 .. pos - 1 : e(k) = n
    BY DEF RangeInv
  <2>2. s(k) <= e(k)
    BY DEF RangeInv
  <2> QED BY <1>2, <1>3, <2>1, <2>2
<1>5. \A n \in 1 .. pos - 1 : n <= e(Len(blocks))
  BY DEF RangeInv
<1> HIDE DEF c, s, e, t, f
<1>6. ASSUME NEW n \in 1 .. pos - 1, NEW k \in DOMAIN blocks
      PROVE  Holds(k, Order(n))' <=> Holds(k, Order(n))
  <2>1. CASE k # c
    BY <1>1, <1>2, <1>3, <2>1
  <2>2. CASE k = c
    BY <1>1, <1>2, <1>3, <1>5, <2>2
  <2> QED BY <2>1, <2>2
<1>7. ASSUME NEW n \in 1 .. pos - 1, NEW k \in DOMAIN blocks' \ DOMAIN blocks
      PROVE  ~Holds(k, Order(n))'
  BY <1>1, <1>2, <1>3
<1>8. ASSUME NEW n, n = pos, NEW k \in DOMAIN blocks' PROVE Holds(k, Order(n))' <=> k = c
  <2>0. Holds(k, Order(n))' <=> t(k) <= pos /\ pos <= f(k)
    BY <1>2, <1>3, <1>8
  <2>1. CASE k = c
    <3>1. t(c) <= pos
      BY <1>1, <1>2, <1>3, <1>4
    <3> QED BY <1>1, <1>2, <2>0, <2>1, <3>1
  <2>2. CASE k # c
    BY <1>1, <1>2, <1>3, <1>4, <2>0, <2>2
  <2> QED BY <2>1, <2>2
<1> QED BY <1>1, <1>6, <1>7, <1>8

\* A turn of the walk keeps the ranges.
LEMMA WalkKeepsRange == WalkInv /\ RangeInv /\ Walk => RangeInv'
<1> SUFFICES ASSUME WalkInv, RangeInv, Walk PROVE RangeInv'
  OBVIOUS
<1> DEFINE c == Current
<1>1. /\ pos \in Nat /\ 1 <= pos /\ pos' = pos + 1 /\ UNCHANGED <<address, prog>>
      /\ 1 .. pos' - 1 = 1 .. pos - 1 \cup {pos}
  BY WalkBlocks, WalkedFacts
<1>2. /\ DOMAIN blocks' = DOMAIN blocks \cup {c} /\ Len(blocks') = c
      /\ \A k \in DOMAIN blocks : k # c => blocks'[k] = blocks[k] /\ k < c
      /\ c \in Nat /\ DOMAIN blocks \subseteq Nat
  BY WalkBlocks
<1>3. /\ blocks'[c].end = Order(pos) + 1
      /\ Last(blocks'[c]) = pos
      /\ open => /\ c \in DOMAIN blocks
                 /\ blocks'[c].start = blocks[c].start
                 /\ First(blocks'[c]) = First(blocks[c])
      /\ ~open => /\ c \notin DOMAIN blocks
                  /\ blocks'[c].start = Order(pos)
                  /\ First(blocks'[c]) = pos
  BY WalkBlocks, WalkPlaces
<1>4. /\ pos \in Nat
      /\ \A n \in 1 .. pos - 1 : n \in Nat /\ n < pos
  BY WalkBlocks, WalkedFacts
<1>5. \A n : Order(n)' = Order(n)
  BY <1>1, OrderUnchanged
<1>6. \A k \in DOMAIN blocks : First(blocks[k]) \in Nat /\ Last(blocks[k]) \in Nat
  BY BlockFacts
<1> HIDE DEF c
<1>7. ASSUME NEW n \in 1 .. pos' - 1 PROVE \E k \in DOMAIN blocks' : Holds(k, Order(n))'
  <2>1. CASE n \in 1 .. pos - 1
    <3>1. PICK k \in DOMAIN blocks : Holds(k, Order(n))
      BY <2>1 DEF RangeInv
    <3>2. Holds(k, Order(n))' /\ k \in DOMAIN blocks'
      BY <1>2, <2>1, <3>1, WalkHolds
    <3> QED BY <3>2
  <2>2. CASE n = pos
    <3>1. PICK k \in DOMAIN blocks' : k = Len(blocks')
      BY <1>2
    <3>2. Holds(k, Order(n))' <=> k = Len(blocks')
      BY <2>2, WalkHolds
    <3> QED BY <3>1, <3>2
  <2> QED BY <1>1, <2>1, <2>2
<1>8. ASSUME NEW k \in DOMAIN blocks', NEW l \in DOMAIN blocks', k < l
      PROVE  Last(blocks'[k]) < First(blocks'[l])
  <2>1. k # c /\ k \in DOMAIN blocks /\ blocks'[k] = blocks[k]
    BY <1>2, <1>8
  <2>2. l \in DOMAIN blocks => Last(blocks[k]) < First(blocks[l])
    BY <1>8, <2>1 DEF RangeInv
  <2>3. CASE l \in DOMAIN blocks
    <3>1. First(blocks'[l]) = First(blocks[l])
      BY <1>2, <1>3, <2>3
    <3> QED BY <2>1, <2>2, <2>3, <3>1
  <2>4. CASE l \notin DOMAIN blocks
    <3>1. First(blocks'[l]) = pos
      BY <1>2, <1>3, <2>4
    <3>2. PICK n \in 1 .. pos - 1 : Last(blocks[k]) = n
      BY <2>1 DEF RangeInv
    <3> QED BY <1>4, <2>1, <3>1, <3>2
  <2> QED BY <2>3, <2>4
<1>9. ASSUME NEW k \in DOMAIN blocks'
      PROVE  /\ First(blocks'[k]) <= Last(blocks'[k])
             /\ \E n \in 1 .. pos' - 1 :
                   First(blocks'[k]) = n /\ blocks'[k].start = Order(n)
             /\ \E n \in 1 .. pos' - 1 :
                   Last(blocks'[k]) = n /\ blocks'[k].end = Order(n) + 1
  <2>1. k \in DOMAIN blocks =>
           /\ First(blocks[k]) <= Last(blocks[k])
           /\ \E n \in 1 .. pos - 1 :
                 First(blocks[k]) = n /\ blocks[k].start = Order(n)
           /\ \E n \in 1 .. pos - 1 :
                 Last(blocks[k]) = n /\ blocks[k].end = Order(n) + 1
    BY DEF RangeInv
  <2>2. CASE k # c
    BY <1>1, <1>2, <2>1, <2>2
  <2>3. CASE k = c /\ open
    <3>1. PICK n \in 1 .. pos - 1 :
             First(blocks[k]) = n /\ blocks[k].start = Order(n)
      BY <1>3, <2>1, <2>3
    <3>2. First(blocks'[k]) = n /\ blocks'[k].start = Order(n) /\ n \in 1 .. pos' - 1
      BY <1>1, <1>3, <2>3, <3>1
    <3>3. n <= pos /\ pos \in 1 .. pos' - 1
      BY <1>1, <1>4
    <3> QED BY <1>3, <2>3, <3>2, <3>3
  <2>4. CASE k = c /\ ~open
    <3>1. pos \in 1 .. pos' - 1 /\ pos <= pos
      BY <1>1, <1>4
    <3> QED BY <1>3, <2>4, <3>1
  <2> QED BY <2>2, <2>3, <2>4
<1>10. ASSUME NEW n \in 1 .. pos' - 1, NEW k, k = Len(blocks') PROVE n <= Last(blocks'[k])
  BY <1>1, <1>2, <1>3, <1>4, <1>10
<1>11. ASSUME NEW k \in DOMAIN blocks' PROVE Addressed(blocks'[k])
  <2>1. CASE k # c
    BY <1>2, <2>1 DEF RangeInv
  <2>2. CASE k = c
    <3>1. /\ blocks'[c].end_address = address[Order(pos)]
          /\ open => blocks'[c].start_address = blocks[c].start_address
          /\ ~open => blocks'[c].start_address = address[Order(pos)]
      BY WalkBlocks DEF c
    <3>2. pos \in 1 .. Len(address)
      BY WalkBlocks
    <3>3. (Order(pos) + 1) - 1 = Order(pos)
      BY <3>2, PlaceFacts
    <3>4. blocks'[c].end - 1 = Order(pos)
      BY <1>3, <3>3
    <3>5. open => blocks[c].start_address = address[blocks[c].start]
      BY <1>3 DEF RangeInv, Addressed
    <3> QED BY <1>3, <2>2, <3>1, <3>4, <3>5 DEF Addressed
  <2> QED BY <2>1, <2>2
<1>21. (\A n \in 1 .. pos - 1 : \E k \in DOMAIN blocks : Holds(k, Order(n)))'
  BY <1>1, <1>5, <1>7
<1>22. (\A k, l \in DOMAIN blocks : k < l => Last(blocks[k]) < First(blocks[l]))'
  BY <1>1, <1>5, <1>8 DEF First, Last, Place, Below
<1>23. (\A k \in DOMAIN blocks : First(blocks[k]) <= Last(blocks[k]))'
  BY <1>1, <1>5, <1>9 DEF First, Last, Place, Below
<1>24. (\A k \in DOMAIN blocks :
            /\ \E n \in 1 .. pos - 1 : First(blocks[k]) = n /\ blocks[k].start = Order(n)
            /\ \E n \in 1 .. pos - 1 : Last(blocks[k]) = n /\ blocks[k].end = Order(n) + 1)'
  BY <1>1, <1>5, <1>9 DEF First, Last, Place, Below
<1>25. (\A k \in DOMAIN blocks : Addressed(blocks[k]))'
  BY <1>1, <1>5, <1>11 DEF Addressed
<1>26. (\A n \in 1 .. pos - 1 : \A k : k = Len(blocks) => n <= Last(blocks[k]))'
  BY <1>1, <1>5, <1>10 DEF Last, Place, Below
<1> QED BY <1>21, <1>22, <1>23, <1>24, <1>25, <1>26 DEF RangeInv

\* A turn of the walk closes the block of a terminator, and no other.
LEMMA WalkKeepsTransfer == WalkInv /\ RangeInv /\ TransferInv /\ Walk => TransferInv'
<1> SUFFICES ASSUME WalkInv, RangeInv, TransferInv, Walk PROVE TransferInv'
  OBVIOUS
<1> DEFINE c == Current
<1>1. /\ pos \in Nat /\ 1 <= pos /\ pos' = pos + 1 /\ UNCHANGED <<address, prog>>
      /\ 1 .. pos' - 1 = 1 .. pos - 1 \cup {pos}
      /\ open' = (EndAt(Order(pos)).kind \notin Terminators)
  BY WalkBlocks, WalkedFacts
<1>2. /\ DOMAIN blocks' = DOMAIN blocks \cup {c} /\ Len(blocks') = c
      /\ \A k \in DOMAIN blocks : k # c => blocks'[k] = blocks[k] /\ k < c
      /\ c \in Nat /\ DOMAIN blocks \subseteq Nat
      /\ Last(blocks'[c]) = pos
  BY WalkBlocks, WalkPlaces
<1>3. \A n : Order(n)' = Order(n) /\ EndAt(Order(n))' = EndAt(Order(n))
  BY <1>1, OrderUnchanged
<1>4. /\ \A n \in 1 .. pos - 1 : \A k \in DOMAIN blocks :
            Holds(k, Order(n))' <=> Holds(k, Order(n))
      /\ \A n \in 1 .. pos - 1 : \A k \in DOMAIN blocks' \ DOMAIN blocks : ~Holds(k, Order(n))'
      /\ \A n, k : n = pos /\ k \in DOMAIN blocks' => (Holds(k, Order(n))' <=> k = c)
  BY <1>2, WalkHolds
<1>5. open => c = Len(blocks)
  BY DEF Current
<1> HIDE DEF c
<1>6. ASSUME NEW n \in 1 .. pos' - 1, NEW k \in DOMAIN blocks', Holds(k, Order(n))',
             EndAt(Order(n)).kind \in Terminators
      PROVE  Last(blocks'[k]) = n /\ Closed(k)'
  <2>1. CASE n = pos
    BY <1>1, <1>2, <1>4, <1>6, <2>1 DEF Closed
  <2>2. CASE n # pos
    <3>1. n \in 1 .. pos - 1 /\ k \in DOMAIN blocks /\ Holds(k, Order(n))
      BY <1>1, <1>4, <1>6, <2>2
    <3>2. Last(blocks[k]) = n /\ Closed(k)
      BY <1>6, <3>1 DEF TransferInv
    <3>3. k # c
      <4>1. CASE open
        BY <1>5, <3>2, <4>1 DEF Closed
      <4>2. CASE ~open
        BY <3>1, <4>2, WalkBlocks DEF c
      <4> QED BY <4>1, <4>2
    <3> QED BY <1>2, <3>1, <3>2, <3>3 DEF Closed
  <2> QED BY <2>1, <2>2
<1>7. ASSUME NEW n \in 1 .. pos' - 2, NEW k \in DOMAIN blocks', Holds(k, Order(n))',
             EndAt(Order(n)).kind \notin Terminators
      PROVE  Holds(k, Order(n + 1))'
  <2>1. n \in 1 .. pos - 1 /\ k \in DOMAIN blocks /\ Holds(k, Order(n))
    BY <1>1, <1>4, <1>7
  <2>2. CASE n + 1 = pos
    <3>1. open /\ n = pos - 1 /\ pos > 1
      BY <1>1, <1>7, <2>1, <2>2 DEF TransferInv
    <3>2. k = c
      BY <1>5, <2>1, <3>1, LastHolds
    <3> QED BY <1>2, <1>4, <2>2, <3>2
  <2>3. CASE n + 1 # pos
    <3>1. n \in 1 .. pos - 2 /\ n + 1 \in 1 .. pos - 1
      BY <1>1, <2>1, <2>3
    <3>2. Holds(k, Order(n + 1))
      BY <1>7, <2>1, <3>1 DEF TransferInv
    <3> QED BY <1>4, <2>1, <3>1, <3>2
  <2> QED BY <2>2, <2>3
<1>8. \A n : n = pos' - 1 /\ EndAt(Order(n)).kind \notin Terminators => open'
  <2>1. pos' - 1 = pos
    BY <1>1
  <2> QED BY <1>1, <2>1
<1> QED BY <1>1, <1>3, <1>6, <1>7, <1>8 DEF TransferInv, Last, Place, Below

\* What Resolve does to the blocks: it replaces their edges.
LEMMA ResolveBlocks ==
    ASSUME WalkInv, Resolve
    PROVE  /\ phase = "resolve" /\ UNCHANGED <<caller, address, prog, pos, open, verdict>>
           /\ DOMAIN blocks' = DOMAIN blocks /\ Len(blocks') = Len(blocks)
           /\ \A k \in DOMAIN blocks :
                 /\ blocks'[k].start = blocks[k].start /\ blocks'[k].end = blocks[k].end
                 /\ blocks'[k].start_address = blocks[k].start_address
                 /\ blocks'[k].end_address = blocks[k].end_address
                 /\ \A e \in blocks[k].edges :
                       Edge(e.kind, UNION {BlockOf(i) : i \in e.to}) \in blocks'[k].edges
<1> DEFINE resolved(k) == {Edge(e.kind, UNION {BlockOf(i) : i \in e.to}) : e \in blocks[k].edges}
<1>1. /\ phase = "resolve" /\ UNCHANGED <<caller, address, prog, pos, open, verdict>>
      /\ blocks' = [k \in DOMAIN blocks |-> [blocks[k] EXCEPT !.edges = resolved(k)]]
  BY DEF Resolve
<1>2. /\ DOMAIN blocks' = DOMAIN blocks
      /\ \A k \in DOMAIN blocks : blocks'[k] = [blocks[k] EXCEPT !.edges = resolved(k)]
  BY <1>1
<1>3. blocks \in Seq(Blocks) /\ DOMAIN blocks = 1 .. Len(blocks) /\ Len(blocks) \in Nat
  BY BlockFacts
<1>4. Len(blocks') = Len(blocks)
  <2> DEFINE g(k) == [blocks[k] EXCEPT !.edges = resolved(k)]
  <2>1. blocks' = [k \in 1 .. Len(blocks) |-> g(k)]
    BY <1>1, <1>3
  <2> HIDE DEF g
  <2> QED BY <1>3, <2>1
<1>5. ASSUME NEW k \in DOMAIN blocks
      PROVE  /\ blocks'[k].start = blocks[k].start /\ blocks'[k].end = blocks[k].end
             /\ blocks'[k].start_address = blocks[k].start_address
             /\ blocks'[k].end_address = blocks[k].end_address
             /\ blocks'[k].edges = resolved(k)
  <2>1. blocks[k] \in Blocks /\ blocks'[k] = [blocks[k] EXCEPT !.edges = resolved(k)]
    BY <1>2, BlockFacts
  <2> HIDE DEF resolved
  <2> QED BY <2>1 DEF Blocks
<1> QED BY <1>1, <1>2, <1>4, <1>5, ZenonT(30)

\* A step that leaves the code, the walk and the ranges of the blocks alone.
LEMMA TileUnchanged ==
    ASSUME UNCHANGED <<address, prog, pos, open>>,
           DOMAIN blocks' = DOMAIN blocks, Len(blocks') = Len(blocks),
           \/ UNCHANGED blocks
           \/ \A k \in DOMAIN blocks :
                 /\ blocks'[k].start = blocks[k].start /\ blocks'[k].end = blocks[k].end
                 /\ blocks'[k].start_address = blocks[k].start_address
                 /\ blocks'[k].end_address = blocks[k].end_address,
           WalkInv, RangeInv, TransferInv
    PROVE  RangeInv' /\ TransferInv'
<1>1. \A n : Order(n)' = Order(n) /\ EndAt(Order(n))' = EndAt(Order(n))
  BY OrderUnchanged
<1>2. \A k \in DOMAIN blocks :
         /\ blocks'[k].start = blocks[k].start /\ blocks'[k].end = blocks[k].end
         /\ First(blocks'[k]) = First(blocks[k])
         /\ Last(blocks'[k]) = Last(blocks[k])
         /\ Addressed(blocks[k]) => Addressed(blocks'[k])
  BY DEF First, Last, Addressed
<1>3. \A n \in 1 .. Len(address) : \A k \in DOMAIN blocks :
         Holds(k, Order(n))' <=> Holds(k, Order(n))
  BY <1>2, BlockFacts
<1>4. \A k : Closed(k)' <=> Closed(k)
  BY DEF Closed
<1>5. RangeInv'
  <2>1. \A n \in 1 .. pos - 1 : \A k : k = Len(blocks') => n <= Last(blocks'[k])
    <3> SUFFICES ASSUME NEW n \in 1 .. pos - 1, NEW k, k = Len(blocks)
                 PROVE  n <= Last(blocks'[k])
      OBVIOUS
    <3>1. pos > 1
      BY WalkedFacts
    <3> QED BY <1>2, <3>1, LastHolds DEF RangeInv
  <2>2. \A n \in 1 .. pos - 1 : \E k \in DOMAIN blocks : Holds(k, Order(n))'
    BY <1>3, WalkedFacts DEF RangeInv
  <2>3. \A k, l \in DOMAIN blocks : k < l => Last(blocks'[k]) < First(blocks'[l])
    BY <1>2 DEF RangeInv
  <2>4. ASSUME NEW k \in DOMAIN blocks
        PROVE  /\ First(blocks'[k]) <= Last(blocks'[k])
               /\ \E n \in 1 .. pos - 1 :
                     First(blocks'[k]) = n /\ blocks'[k].start = Order(n)
               /\ \E n \in 1 .. pos - 1 :
                     Last(blocks'[k]) = n /\ blocks'[k].end = Order(n) + 1
               /\ Addressed(blocks'[k])
    <3>1. /\ First(blocks[k]) <= Last(blocks[k])
          /\ \E n \in 1 .. pos - 1 : First(blocks[k]) = n /\ blocks[k].start = Order(n)
          /\ \E n \in 1 .. pos - 1 : Last(blocks[k]) = n /\ blocks[k].end = Order(n) + 1
          /\ Addressed(blocks[k])
      BY DEF RangeInv
    <3> QED BY <1>2, <3>1
  <2>21. (\A n \in 1 .. pos - 1 : \E k \in DOMAIN blocks : Holds(k, Order(n)))'
    BY <1>1, <2>2
  <2>22. (\A k, l \in DOMAIN blocks : k < l => Last(blocks[k]) < First(blocks[l]))'
    BY <1>1, <2>3 DEF First, Last, Place, Below
  <2>23. (\A k \in DOMAIN blocks : First(blocks[k]) <= Last(blocks[k]))'
    BY <1>1, <2>4 DEF First, Last, Place, Below
  <2>24. (\A k \in DOMAIN blocks :
              /\ \E n \in 1 .. pos - 1 : First(blocks[k]) = n /\ blocks[k].start = Order(n)
              /\ \E n \in 1 .. pos - 1 : Last(blocks[k]) = n /\ blocks[k].end = Order(n) + 1)'
    BY <1>1, <2>4 DEF First, Last, Place, Below
  <2>25. (\A k \in DOMAIN blocks : Addressed(blocks[k]))'
    BY <1>1, <2>4 DEF Addressed
  <2>26. (\A n \in 1 .. pos - 1 : \A k : k = Len(blocks) => n <= Last(blocks[k]))'
    BY <1>1, <2>1 DEF Last, Place, Below
  <2> QED BY <2>21, <2>22, <2>23, <2>24, <2>25, <2>26 DEF RangeInv
<1>6. TransferInv'
  <2>1. \A n \in 1 .. pos - 1 : \A k \in DOMAIN blocks :
           Holds(k, Order(n))' /\ EndAt(Order(n)).kind \in Terminators =>
              Last(blocks'[k]) = n /\ Closed(k)'
    BY <1>2, <1>3, <1>4, WalkedFacts DEF TransferInv
  <2>2. \A n \in 1 .. pos - 2 : \A k \in DOMAIN blocks :
           Holds(k, Order(n))' /\ EndAt(Order(n)).kind \notin Terminators =>
              Holds(k, Order(n + 1))'
    <3> SUFFICES ASSUME NEW n \in 1 .. pos - 2, NEW k \in DOMAIN blocks, Holds(k, Order(n))',
                        EndAt(Order(n)).kind \notin Terminators
                 PROVE  Holds(k, Order(n + 1))'
      OBVIOUS
    <3>1. n \in 1 .. Len(address) /\ n + 1 \in 1 .. Len(address)
      BY WalkedFacts
    <3> QED BY <1>3, <3>1 DEF TransferInv
  <2>3. (\A n \in 1 .. pos - 1 : \A k \in DOMAIN blocks :
            Holds(k, Order(n)) /\ EndAt(Order(n)).kind \in Terminators =>
                Last(blocks[k]) = n /\ Closed(k))'
    <3>1. \A k \in DOMAIN blocks : Last(blocks'[k]) = Last(blocks[k])'
      BY DEF Last, Place, Below
    <3> QED BY <1>1, <2>1, <3>1
  <2>4. (\A n \in 1 .. pos - 2 : \A k \in DOMAIN blocks :
            Holds(k, Order(n)) /\ EndAt(Order(n)).kind \notin Terminators =>
                Holds(k, Order(n + 1)))'
    BY <1>1, <2>2
  <2>5. (\A n \in 1 .. pos - 1 :
            n = pos - 1 /\ EndAt(Order(n)).kind \notin Terminators => open)'
    BY <1>1 DEF TransferInv
  <2> QED BY <2>3, <2>4, <2>5 DEF TransferInv
<1> QED BY <1>5, <1>6

\* TileInv holds initially.
LEMMA InitTile == Init => TileInv
<1> SUFFICES ASSUME Init PROVE TileInv
  OBVIOUS
<1>1. pos = 1 /\ blocks = <<>> /\ 1 .. pos - 1 = {} /\ 1 .. pos - 2 = {} /\ DOMAIN blocks = {}
  BY DEF Init
<1>2. RangeInv /\ TransferInv
  BY <1>1 DEF RangeInv, TransferInv
<1> QED BY <1>2, InitInv DEF TileInv

\* Every step keeps TileInv.
LEMMA StepTile == TileInv /\ [Next]_vars => TileInv'
<1> SUFFICES ASSUME TileInv, [Next]_vars PROVE TileInv'
  OBVIOUS
<1>1. CfgInv' /\ WalkInv /\ RangeInv /\ TransferInv
  BY StepInv DEF TileInv, CfgInv
<1>2. CASE Walk
  BY <1>1, <1>2, WalkKeepsRange, WalkKeepsTransfer DEF TileInv
<1>3. CASE Resolve
  BY <1>1, <1>3, ResolveBlocks, TileUnchanged DEF TileInv
<1>4. ASSUME UNCHANGED <<address, prog, pos, open, blocks>> PROVE TileInv'
  BY <1>1, <1>4, TileUnchanged DEF TileInv
<1>5. CASE Scan \/ EmptyInput \/ WalkEnds \/ SearchEnds \/ Policy \/ Finished \/ UNCHANGED vars
  BY <1>4, <1>5 DEF Scan, EmptyInput, WalkEnds, SearchEnds, Policy, Finished, vars
<1>6. CASE \E k \in frontier : Search(k)
  BY <1>4, <1>6 DEF Search
<1> QED BY <1>2, <1>3, <1>5, <1>6 DEF Next

\* The blocks hold disjoint ranges of instructions.
LEMMA HolderIsUnique ==
    ASSUME TileInv, NEW n \in 1 .. pos - 1, NEW k \in DOMAIN blocks, NEW l \in DOMAIN blocks,
           Holds(k, Order(n)), Holds(l, Order(n))
    PROVE  k = l
<1>1. WalkInv /\ RangeInv
  BY DEF TileInv, CfgInv
<1>2. /\ n \in Nat /\ n \in 1 .. Len(address) /\ k \in Nat /\ l \in Nat
      /\ First(blocks[k]) \in Nat /\ Last(blocks[k]) \in Nat
      /\ First(blocks[l]) \in Nat /\ Last(blocks[l]) \in Nat
      /\ First(blocks[k]) <= n /\ n <= Last(blocks[k])
      /\ First(blocks[l]) <= n /\ n <= Last(blocks[l])
  <2>1. n \in 1 .. Len(address) /\ n \in Nat
    BY <1>1, WalkedFacts
  <2>2. k \in Nat /\ l \in Nat
    <3>1. DOMAIN blocks = 1 .. Len(blocks) /\ Len(blocks) \in Nat
      BY <1>1, BlockFacts
    <3> QED BY <3>1
  <2> QED BY <1>1, <2>1, <2>2, BlockFacts
<1>3. /\ ~(Last(blocks[k]) < First(blocks[l]))
      /\ ~(Last(blocks[l]) < First(blocks[k]))
  BY <1>2
<1>4. ~(k < l) /\ ~(l < k)
  BY <1>1, <1>3 DEF RangeInv
<1> QED BY <1>2, <1>4

\* Code whose addresses ascend is walked as it was given.
LEMMA InputOrder ==
    ASSUME WalkInv, Ascending(address)
    PROVE  /\ DOMAIN address = 1 .. Len(address) /\ Len(address) \in Nat
           /\ \A n \in 1 .. Len(address) : /\ Order(n) = n /\ Below(n) = 1 .. n - 1
                                           /\ address[n] \in Nat
           /\ \A n, m \in 1 .. Len(address) : n <= m <=> address[n] <= address[m]
<1>1. address \in Seq(Nat) /\ DOMAIN address = 1 .. Len(address) /\ Len(address) \in Nat
  BY LayoutFacts
<1>2. \A i, j \in 1 .. Len(address) : i < j => address[i] < address[j]
  BY <1>1 DEF Ascending
<1>3. \A n \in 1 .. Len(address) : address[n] \in Nat
  BY <1>1
<1>4. \A n, m \in 1 .. Len(address) : n <= m <=> address[n] <= address[m]
  <2> SUFFICES ASSUME NEW n \in 1 .. Len(address), NEW m \in 1 .. Len(address)
               PROVE  n <= m <=> address[n] <= address[m]
    OBVIOUS
  <2>1. n < m => address[n] < address[m]
    BY <1>2
  <2>2. m < n => address[m] < address[n]
    BY <1>2
  <2>3. address[n] \in Nat /\ address[m] \in Nat
    BY <1>3
  <2> QED BY <2>1, <2>2, <2>3
<1>5. ASSUME NEW n \in 1 .. Len(address) PROVE Below(n) = 1 .. n - 1 /\ Order(n) = n
  <2>1. \A j \in 1 .. Len(address) : address[j] < address[n] <=> j < n
    <3> SUFFICES ASSUME NEW j \in 1 .. Len(address) PROVE address[j] < address[n] <=> j < n
      OBVIOUS
    <3>1. /\ n <= j <=> address[n] <= address[j]
          /\ address[n] \in Nat /\ address[j] \in Nat
      BY <1>3, <1>4
    <3> QED BY <3>1
  <2>2. Below(n) = {j \in 1 .. Len(address) : j < n}
    <3>1. \A j \in 1 .. Len(address) : address[j] = address[n] => ~(j < n)
      BY <1>3, <2>1
    <3> QED BY <1>1, <2>1, <3>1 DEF Below
  <2>3. Below(n) = 1 .. n - 1
    BY <1>1, <2>2
  <2>4. Cardinality(1 .. n - 1) = n - 1
    <3>1. \A a, b \in Int : Cardinality(a .. b) = IF a > b THEN 0 ELSE b - a + 1
      BY FS_Interval
    <3>2. 1 \in Int /\ n - 1 \in Int /\ n \in Nat /\ n >= 1
      BY <1>1
    <3>3. Cardinality(1 .. n - 1) = IF 1 > n - 1 THEN 0 ELSE n - 1 - 1 + 1
      BY <3>1, <3>2
    <3> QED BY <3>2, <3>3
  <2>5. n \in DOMAIN address /\ Cardinality(Below(n)) = n - 1
    BY <1>1, <2>3, <2>4
  <2>6. \A i \in DOMAIN address : Cardinality(Below(i)) = n - 1 => i = n
    BY <2>5, RankFacts
  <2>7. Order(n) = n
    <3>1. Order(n) \in DOMAIN address /\ Cardinality(Below(Order(n))) = n - 1
      BY <2>5, Zenon DEF Order
    <3> QED BY <2>6, <3>1
  <2> QED BY <2>3, <2>7
<1> QED BY <1>1, <1>3, <1>4, <1>5 

\* The addresses a block is shown with enclose what it holds, if they ascend.
LEMMA EnclosesHeld ==
    ASSUME TileInv, Ascending(address), NEW k \in DOMAIN blocks, NEW n \in 1 .. pos - 1
    PROVE  Encloses(k, Order(n)) <=> Holds(k, Order(n))
<1>1. WalkInv /\ RangeInv
  BY DEF TileInv, CfgInv
<1>2. /\ DOMAIN address = 1 .. Len(address) /\ n \in 1 .. Len(address)
      /\ \A m \in 1 .. Len(address) : Order(m) = m /\ address[m] \in Nat
      /\ \A m, l \in 1 .. Len(address) : m <= l <=> address[m] <= address[l]
  BY <1>1, InputOrder, WalkedFacts
<1>3. PICK f \in 1 .. Len(address) : First(blocks[k]) = f /\ blocks[k].start = Order(f)
  BY <1>1, WalkedFacts DEF RangeInv
<1>4. PICK l \in 1 .. Len(address) : Last(blocks[k]) = l /\ blocks[k].end = Order(l) + 1
  BY <1>1, WalkedFacts DEF RangeInv
<1>5. blocks[k].start_address = address[f] /\ blocks[k].end_address = address[l]
  <2>1. Order(f) = f /\ Order(l) = l /\ (l + 1) - 1 = l
    BY <1>2
  <2>2. blocks[k].start = f /\ blocks[k].end - 1 = l
    BY <1>3, <1>4, <2>1
  <2>3. Addressed(blocks[k])
    BY <1>1 DEF RangeInv
  <2> QED BY <2>2, <2>3 DEF Addressed
<1>6. Encloses(k, Order(n)) <=> address[f] <= address[n] /\ address[n] <= address[l]
  BY <1>2, <1>5 DEF Encloses
<1>7. Holds(k, Order(n)) <=> f <= n /\ n <= l
  BY <1>1, <1>2, <1>3, <1>4, BlockFacts
<1> QED BY <1>2, <1>6, <1>7

\* Every instruction walked is in exactly one block of the graph build() makes, and
\* control can leave a block by its last instruction only, for all code, also where
\* addresses repeat; the addresses a block is shown with say so where they ascend.
THEOREM TilingHolds == Spec => []BlocksTile
<1>1. TileInv => BlocksTile
  <2> SUFFICES ASSUME TileInv, NEW n \in 1 .. pos - 1
               PROVE  \E k \in DOMAIN blocks :
                         /\ \A l \in DOMAIN blocks : Holds(l, Order(n)) <=> l = k
                         /\ Ascending(address) =>
                               \A l \in DOMAIN blocks : Encloses(l, Order(n)) <=> l = k
                         /\ EndAt(Order(n)).kind \in Terminators =>
                               blocks[k].end = Order(n) + 1
    BY DEF BlocksTile
  <2>1. PICK k \in DOMAIN blocks : Holds(k, Order(n))
    BY DEF TileInv, RangeInv
  <2>2. \A l \in DOMAIN blocks : Holds(l, Order(n)) <=> l = k
    BY <2>1, HolderIsUnique
  <2>3. ASSUME EndAt(Order(n)).kind \in Terminators PROVE blocks[k].end = Order(n) + 1
    <3>1. Last(blocks[k]) = n
      BY <2>1, <2>3 DEF TileInv, TransferInv
    <3> QED BY <3>1 DEF TileInv, RangeInv
  <2>4. Ascending(address) => \A l \in DOMAIN blocks : Encloses(l, Order(n)) <=> l = k
    BY <2>2, EnclosesHeld
  <2> QED BY <2>2, <2>3, <2>4
<1> QED BY <1>1, InitTile, StepTile, PTL DEF Spec

------------------------------------------------------------------------------
(* Unreachable blocks, for `inspect`, whose code has ascending addresses:  *)
(* positions in the input are then positions of the walk.                  *)

\* The blocks the edges of a block lead to.
Succ(k) == UNION {e.to : e \in blocks[k].edges}

\* The walk: a block has the edges of its instructions.
WalkLinks ==
    phase \in {"scan", "walk", "resolve"} =>
        \A n \in 1 .. pos - 1 : \A k \in DOMAIN blocks :
            Holds(k, Order(n)) => EdgesOf(n) \subseteq blocks[k].edges

\* The graph: where an edge of one of its instructions leads, an edge of the
\* block leads to the block there.
GraphLinks ==
    phase \in {"search", "done"} /\ caller = "inspect" =>
        \A k \in DOMAIN blocks :
            /\ Succ(k) \subseteq DOMAIN blocks
            /\ \A n \in 1 .. pos - 1 : Holds(k, Order(n)) =>
                  \A e \in EdgesOf(n) : \A i \in e.to : \A l \in DOMAIN blocks :
                      Holds(l, i) => l \in Succ(k)

\* The search: what was reached holds the entry, and what has left the queue has
\* its successors reached.
SearchInv ==
    /\ phase = "scan" => caller = "leaf"
    /\ phase \in Phases
    /\ phase \in {"search", "done"} /\ caller = "inspect" /\ address # <<>> =>
          /\ pos = Len(address) + 1
          /\ frontier \subseteq reached /\ reached \subseteq DOMAIN blocks
          /\ \A n \in {1} : \E k \in reached : Holds(k, Order(n))
          /\ \A k \in reached \ frontier : Succ(k) \subseteq reached
          /\ phase = "done" => frontier = {}

DeadInv == TileInv /\ WalkLinks /\ GraphLinks /\ SearchInv

\* instr_to_block finds the block that holds an instruction.
LEMMA BlockOfHolder ==
    ASSUME TileInv, Ascending(address), pos = Len(address) + 1, NEW i \in DOMAIN address
    PROVE  /\ BlockOf(i) \subseteq DOMAIN blocks
           /\ \A l \in DOMAIN blocks : Holds(l, i) => l \in BlockOf(i)
<1>1. WalkInv /\ RangeInv
  BY DEF TileInv, CfgInv
<1>2. /\ DOMAIN address = 1 .. Len(address) /\ Len(address) \in Nat
      /\ \A n \in 1 .. Len(address) : Order(n) = n
  BY <1>1, InputOrder
<1>3. 1 .. pos - 1 = DOMAIN address
  BY <1>2
<1>4. ASSUME NEW k \in DOMAIN blocks
      PROVE  blocks[k].start <= i /\ i < blocks[k].end <=> Holds(k, i)
  <2>1. PICK n \in 1 .. pos - 1 : First(blocks[k]) = n /\ blocks[k].start = Order(n)
    BY <1>1 DEF RangeInv
  <2>2. PICK m \in 1 .. pos - 1 : Last(blocks[k]) = m /\ blocks[k].end = Order(m) + 1
    BY <1>1 DEF RangeInv
  <2>3. /\ First(blocks[k]) = n /\ blocks[k].start = n
        /\ Last(blocks[k]) = m /\ blocks[k].end = m + 1
    BY <1>2, <1>3, <2>1, <2>2
  <2>4. Holds(k, i) <=> n <= i /\ i <= m
    BY <1>1, <1>2, <2>3, BlockFacts
  <2>5. i < m + 1 <=> i <= m
    BY <1>2, <1>3
  <2> QED BY <2>3, <2>4, <2>5
<1>5. ASSUME NEW k \in DOMAIN blocks, NEW l \in DOMAIN blocks, Holds(k, i), Holds(l, i)
      PROVE  k = l
  <2>1. i \in 1 .. pos - 1 /\ Order(i) = i
    BY <1>2, <1>3
  <2> QED BY <1>5, <2>1, HolderIsUnique
<1>6. \A k \in DOMAIN blocks : k <= k
  BY <1>1, BlockFacts
<1> QED BY <1>4, <1>5, <1>6 DEF BlockOf

\* The edges of an instruction lead to instructions.
LEMMA EdgeTargets ==
    ASSUME WalkInv, NEW n \in 1 .. Len(address)
    PROVE  \A e \in EdgesOf(n) : e.to \subseteq DOMAIN address
<1> DEFINE end == EndAt(Order(n))
           to == InstrAt(end.target)
           next == IF n < Len(address)
                   THEN {Edge("Fallthrough", InstrAt({address[Order(n + 1)]}))} ELSE {}
<1>1. \A k : Edge(k, to).to \subseteq DOMAIN address
  BY DEF Edge, InstrAt
<1>2. \A e \in next : e.to \subseteq DOMAIN address
  BY DEF Edge, InstrAt
<1>3. EdgesOf(n) = CASE end.kind = "UnconditionalBranch" -> {Edge("Jump", to)}
                     [] end.kind = "ConditionalBranch" -> {Edge("ConditionalTaken", to)} \cup next
                     [] end.kind = "Call" /\ end.target # {} -> {Edge("Call", to)}
                     [] OTHER -> {}
  BY DEF EdgesOf
<1> HIDE DEF end, to, next
<1> QED BY <1>1, <1>2, <1>3

\* Only branches and calls have a target.
LEMMA ClassifyTarget ==
    ASSUME NEW ins \in Instructions,
           Classify(ins).kind \notin {"UnconditionalBranch", "ConditionalBranch", "Call"}
    PROVE  Classify(ins).target = {}
<1>1. \A k, t : End(k, t).kind = k /\ End(k, t).target = t
  BY DEF End
<1> QED BY <1>1 DEF Classify

\* What follows an instruction in memory is the next one of the walk.
LEMMA FollowingIsNext ==
    ASSUME WalkInv, Ascending(address),
           NEW n \in 1 .. Len(address), NEW j \in Following(Order(n))
    PROVE  /\ n < Len(address) /\ j = Order(n + 1)
           /\ j \in InstrAt({address[Order(n + 1)]})
<1>1. /\ DOMAIN address = 1 .. Len(address) /\ Len(address) \in Nat
      /\ \A m \in 1 .. Len(address) : Order(m) = m /\ address[m] \in Nat
      /\ \A m, l \in 1 .. Len(address) : m <= l <=> address[m] <= address[l]
  BY InputOrder
<1>2. /\ j \in 1 .. Len(address) /\ address[n] < address[j]
      /\ \A k \in 1 .. Len(address) : address[n] < address[k] => address[j] <= address[k]
  BY <1>1 DEF Following
<1>3. n < j
  BY <1>1, <1>2
<1>4. n + 1 \in 1 .. Len(address) /\ n < Len(address)
  BY <1>1, <1>2, <1>3
<1>5. address[j] <= address[n + 1]
  <2>1. address[n] < address[n + 1]
    <3>1. ~(n + 1 <= n)
      BY <1>1
    <3> QED BY <1>1, <1>4, <3>1
  <2> QED BY <1>2, <1>4, <2>1
<1>6. j = n + 1
  BY <1>1, <1>2, <1>3, <1>4, <1>5
<1>7. \A k \in 1 .. Len(address) : address[k] = address[j] => k <= j
  BY <1>1, <1>2
<1> QED BY <1>1, <1>2, <1>4, <1>6, <1>7 DEF InstrAt

\* Where control can go from an instruction, one of its edges leads, or it is the
\* next instruction of the same block.
LEMMA FlowIsEdge ==
    ASSUME WalkInv, Ascending(address), NEW n \in 1 .. Len(address), NEW j \in Flow(Order(n))
    PROVE  \/ \E e \in EdgesOf(n) : j \in e.to
           \/ /\ n < Len(address) /\ j = Order(n + 1)
              /\ EndAt(Order(n)).kind \notin Terminators
<1> DEFINE end == EndAt(Order(n))
           to == InstrAt(end.target)
           next == IF n < Len(address)
                   THEN {Edge("Fallthrough", InstrAt({address[Order(n + 1)]}))} ELSE {}
<1>1. EdgesOf(n) = CASE end.kind = "UnconditionalBranch" -> {Edge("Jump", to)}
                     [] end.kind = "ConditionalBranch" -> {Edge("ConditionalTaken", to)} \cup next
                     [] end.kind = "Call" /\ end.target # {} -> {Edge("Call", to)}
                     [] OTHER -> {}
  BY DEF EdgesOf
<1>2. \A k, t : Edge(k, t).to = t
  BY DEF Edge
<1>3. CASE j \in to
  <2>1. end.target # {}
    BY <1>3 DEF InstrAt
  <2>2. end.kind \in {"UnconditionalBranch", "ConditionalBranch", "Call"}
    <3>1. Order(n) \in DOMAIN address
      BY OrderFacts
    <3>2. prog[Order(n)] \in Instructions
      BY <3>1, CfgAssumption DEF WalkInv
    <3> QED BY <2>1, <3>2, ClassifyTarget DEF EndAt
  <2> HIDE DEF end, to, next
  <2>3. \E k : Edge(k, to) \in EdgesOf(n)
    BY <1>1, <2>1, <2>2
  <2> QED BY <1>2, <1>3, <2>3
<1>4. CASE j \notin to
  <2>1. /\ end.kind \in {"Fallthrough", "Call", "ConditionalBranch"}
        /\ j \in Following(Order(n))
    BY <1>4 DEF Flow
  <2>2. /\ n < Len(address) /\ j = Order(n + 1)
        /\ j \in InstrAt({address[Order(n + 1)]})
    BY <2>1, FollowingIsNext
  <2>3. CASE end.kind = "ConditionalBranch"
    <3> DEFINE T == InstrAt({address[Order(n + 1)]})
    <3>1. Edge("Fallthrough", T) \in next
      BY <2>2
    <3>2. j \in T
      BY <2>2
    <3> HIDE DEF end, to, next, T
    <3>3. Edge("Fallthrough", T) \in EdgesOf(n)
      BY <1>1, <2>3, <3>1
    <3> QED BY <1>2, <3>2, <3>3
  <2>4. CASE end.kind # "ConditionalBranch"
    BY <2>1, <2>2, <2>4 DEF Terminators
  <2> QED BY <2>3, <2>4
<1> QED BY <1>3, <1>4

\* Steps that leave the code alone leave the edges of its instructions alone.
LEMMA EdgesUnchanged ==
    ASSUME UNCHANGED <<address, prog>>
    PROVE  \A n : EdgesOf(n)' = EdgesOf(n)
<1>1. /\ \A n : Order(n)' = Order(n)
      /\ \A i : EndAt(i)' = EndAt(i)
      /\ \A S : InstrAt(S)' = InstrAt(S)
  BY OrderUnchanged
<1> SUFFICES ASSUME NEW n PROVE EdgesOf(n)' = EdgesOf(n)
  OBVIOUS
<1>2. /\ EndAt(Order(n))' = EndAt(Order(n)) /\ Order(n + 1)' = Order(n + 1)
      /\ InstrAt(EndAt(Order(n)).target)' = InstrAt(EndAt(Order(n)).target)
      /\ InstrAt({address[Order(n + 1)]})' = InstrAt({address[Order(n + 1)]})
  BY <1>1
<1> QED BY <1>2 DEF EdgesOf, Edge

\* A turn of the walk gives the current block the edges of the instruction.
LEMMA WalkKeepsLinks == TileInv /\ WalkLinks /\ Walk => WalkLinks'
<1> SUFFICES ASSUME TileInv, WalkLinks, Walk PROVE WalkLinks'
  OBVIOUS
<1> SUFFICES ASSUME NEW n \in 1 .. pos' - 1, NEW k \in DOMAIN blocks', Holds(k, Order(n))'
             PROVE  EdgesOf(n) \subseteq blocks'[k].edges
  <2>1. UNCHANGED <<address, prog>>
    BY DEF Walk
  <2>2. \A n : EdgesOf(n)' = EdgesOf(n)
    BY <2>1, EdgesUnchanged
  <2> QED BY <2>2 DEF WalkLinks
<1>1. WalkInv /\ RangeInv /\ phase = "walk"
  BY DEF TileInv, CfgInv, Walk
<1> DEFINE c == Current
<1>2. /\ 1 .. pos' - 1 = 1 .. pos - 1 \cup {pos}
      /\ DOMAIN blocks' = DOMAIN blocks \cup {c} /\ Len(blocks') = c
      /\ \A l \in DOMAIN blocks : l # c => blocks'[l] = blocks[l]
      /\ EdgesOf(pos) \subseteq blocks'[c].edges
      /\ open => blocks[c].edges \subseteq blocks'[c].edges
      /\ ~open => c \notin DOMAIN blocks
  <2>1. pos \in Nat /\ 1 <= pos /\ pos' = pos + 1
    BY <1>1, WalkBlocks, WalkedFacts
  <2>2. 1 .. pos' - 1 = 1 .. pos - 1 \cup {pos}
    BY <2>1
  <2> QED BY <1>1, <2>2, WalkBlocks
<1>3. /\ \A m \in 1 .. pos - 1 : \A l \in DOMAIN blocks :
            Holds(l, Order(m))' <=> Holds(l, Order(m))
      /\ \A m \in 1 .. pos - 1 : \A l \in DOMAIN blocks' \ DOMAIN blocks : ~Holds(l, Order(m))'
      /\ \A m, l : m = pos /\ l \in DOMAIN blocks' => (Holds(l, Order(m))' <=> l = c)
  BY <1>1, <1>2, WalkHolds
<1> HIDE DEF c
<1>4. CASE n = pos
  BY <1>2, <1>3, <1>4
<1>5. CASE n # pos
  <2>1. n \in 1 .. pos - 1 /\ k \in DOMAIN blocks /\ Holds(k, Order(n))
    BY <1>2, <1>3, <1>5
  <2>2. EdgesOf(n) \subseteq blocks[k].edges
    BY <1>1, <2>1 DEF WalkLinks
  <2>3. blocks[k].edges \subseteq blocks'[k].edges
    BY <1>2, <2>1
  <2> QED BY <2>2, <2>3
<1> QED BY <1>4, <1>5

\* Resolve turns the edges of the instructions into links between the blocks.
LEMMA ResolveLinks == TileInv /\ WalkLinks /\ Resolve => GraphLinks'
<1> SUFFICES ASSUME TileInv, WalkLinks, Resolve, caller = "inspect" PROVE GraphLinks'
  BY DEF GraphLinks, Resolve
<1>1. WalkInv /\ RangeInv /\ Ascending(address)
  BY DEF TileInv, CfgInv, WalkInv
<1>2. /\ phase = "resolve" /\ UNCHANGED <<address, prog, pos>> /\ DOMAIN blocks' = DOMAIN blocks
      /\ \A k \in DOMAIN blocks :
            /\ blocks'[k].start = blocks[k].start /\ blocks'[k].end = blocks[k].end
            /\ \A e \in blocks[k].edges :
                  Edge(e.kind, UNION {BlockOf(i) : i \in e.to}) \in blocks'[k].edges
  BY <1>1, ResolveBlocks
<1>3. pos = Len(address) + 1 /\ 1 .. pos - 1 = 1 .. Len(address)
  BY <1>1, <1>2, LayoutFacts DEF WalkInv
<1>4. \A k \in DOMAIN blocks : \A i : Holds(k, i)' <=> Holds(k, i)
  <2> SUFFICES ASSUME NEW k \in DOMAIN blocks, NEW i PROVE Holds(k, i)' <=> Holds(k, i)
    OBVIOUS
  <2> QED BY <1>2, PlaceKept DEF Holds
<1>5. ASSUME NEW k \in DOMAIN blocks PROVE Succ(k)' \subseteq DOMAIN blocks
  <2> SUFFICES ASSUME NEW f \in blocks'[k].edges, NEW l \in f.to PROVE l \in DOMAIN blocks
    BY DEF Succ
  <2>1. blocks'[k] = [blocks[k] EXCEPT !.edges =
                        {Edge(e.kind, UNION {BlockOf(i) : i \in e.to}) : e \in @}]
    BY DEF Resolve
  <2>2. blocks[k] \in Blocks
    BY <1>1, BlockFacts
  <2>3. blocks'[k].edges = {Edge(e.kind, UNION {BlockOf(i) : i \in e.to}) : e \in blocks[k].edges}
    BY <2>1, <2>2 DEF Blocks
  <2>4. PICK e \in blocks[k].edges : f = Edge(e.kind, UNION {BlockOf(i) : i \in e.to})
    BY <2>3
  <2>5. f.to = UNION {BlockOf(i) : i \in e.to}
    BY <2>4 DEF Edge
  <2>6. PICK i : l \in BlockOf(i)
    BY <2>5
  <2> QED BY <2>6 DEF BlockOf
<1>6. ASSUME NEW k \in DOMAIN blocks, NEW n \in 1 .. pos - 1, Holds(k, Order(n)),
             NEW e \in EdgesOf(n), NEW i \in e.to, NEW l \in DOMAIN blocks, Holds(l, i)
      PROVE  l \in Succ(k)'
  <2>1. e \in blocks[k].edges
    BY <1>2, <1>6 DEF WalkLinks
  <2>2. i \in DOMAIN address
    BY <1>1, <1>3, EdgeTargets
  <2>3. l \in BlockOf(i)
    BY <1>1, <1>3, <1>6, <2>2, BlockOfHolder
  <2> DEFINE f == Edge(e.kind, UNION {BlockOf(j) : j \in e.to})
  <2>4. f \in blocks'[k].edges
    BY <1>2, <2>1
  <2>5. l \in f.to
    BY <2>3 DEF Edge
  <2> HIDE DEF f
  <2> QED BY <2>4, <2>5 DEF Succ
<1>7. \A n : Order(n)' = Order(n) /\ EdgesOf(n)' = EdgesOf(n)
  BY <1>2, OrderUnchanged, EdgesUnchanged
<1>8. \A k \in DOMAIN blocks : \A n : Holds(k, Order(n))' <=> Holds(k, Order(n))
  BY <1>4, <1>7
<1> QED BY <1>2, <1>4, <1>5, <1>6, <1>7, <1>8 DEF GraphLinks

\* The search starts at the block that holds the lowest address.
LEMMA EntryHolds ==
    ASSUME TileInv, Ascending(address), pos > 1
    PROVE  EntryBlock \in DOMAIN blocks /\ Holds(EntryBlock, Order(1))
<1>1. WalkInv /\ RangeInv
  BY DEF TileInv, CfgInv
<1>2. 1 \in 1 .. pos - 1
  BY <1>1, WalkedFacts
<1>3. /\ \A m \in 1 .. Len(address) : Order(m) = m /\ address[m] \in Nat
      /\ \A m, l \in 1 .. Len(address) : m <= l <=> address[m] <= address[l]
      /\ \A n \in 1 .. pos - 1 : n \in 1 .. Len(address)
      /\ 1 \in 1 .. Len(address)
  BY <1>1, <1>2, InputOrder, WalkedFacts
<1>4. PICK k \in DOMAIN blocks : Holds(k, Order(1))
  BY <1>1, <1>2 DEF RangeInv
\* The start address of a block and the place of its first instruction.
<1>5. ASSUME NEW l \in DOMAIN blocks
      PROVE  /\ First(blocks[l]) \in 1 .. Len(address)
             /\ blocks[l].start_address = address[First(blocks[l])]
             /\ First(blocks[l]) <= Last(blocks[l]) /\ Last(blocks[l]) \in Nat
  <2>1. PICK n \in 1 .. pos - 1 : First(blocks[l]) = n /\ blocks[l].start = Order(n)
    BY <1>1 DEF RangeInv
  <2>2. Addressed(blocks[l]) /\ First(blocks[l]) <= Last(blocks[l])
    BY <1>1 DEF RangeInv
  <2>3. Last(blocks[l]) \in Nat
    BY <1>1, BlockFacts
  <2> QED BY <1>3, <2>1, <2>2, <2>3 DEF Addressed
<1>6. First(blocks[k]) = 1
  <2>1. First(blocks[k]) <= 1
    BY <1>1, <1>3, <1>4, BlockFacts
  <2> QED BY <1>5, <2>1
<1>7. ASSUME NEW l \in DOMAIN blocks, l # k
      PROVE  blocks[k].start_address < blocks[l].start_address
  <2>1. First(blocks[l]) # 1
    <3>1. k < l \/ l < k
      BY <1>1, <1>7, BlockFacts
    <3>2. CASE k < l
      <4>1. Last(blocks[k]) < First(blocks[l])
        BY <1>1, <3>2 DEF RangeInv
      <4> QED BY <1>5, <1>6, <4>1
    <3>3. CASE l < k
      <4>1. Last(blocks[l]) < First(blocks[k])
        BY <1>1, <3>3 DEF RangeInv
      <4> QED BY <1>5, <1>6, <4>1
    <3> QED BY <3>1, <3>2, <3>3
  <2> DEFINE f == First(blocks[l])
  <2>2. /\ f \in 1 .. Len(address) /\ f # 1
        /\ blocks[l].start_address = address[f] /\ blocks[k].start_address = address[1]
    BY <1>5, <1>6, <2>1
  <2> HIDE DEF f
  <2>3. ~(f <= 1) /\ (f <= 1 <=> address[f] <= address[1])
    BY <1>3, <2>2
  <2>4. address[f] \in Nat /\ address[1] \in Nat
    BY <1>3, <2>2
  <2> QED BY <2>2, <2>3, <2>4
<1>8. \A l \in DOMAIN blocks :
         \/ blocks[k].start_address < blocks[l].start_address
         \/ (blocks[k].start_address = blocks[l].start_address /\ k <= l)
  <2>1. k <= k
    BY <1>1, BlockFacts
  <2> QED BY <1>7, <2>1
<1>9. ASSUME NEW e \in DOMAIN blocks,
             \A l \in DOMAIN blocks :
                \/ blocks[e].start_address < blocks[l].start_address
                \/ (blocks[e].start_address = blocks[l].start_address /\ e <= l)
      PROVE  e = k
  <2>1. e # k => blocks[k].start_address < blocks[e].start_address
    BY <1>7
  <2>2. blocks[k].start_address \in Nat /\ blocks[e].start_address \in Nat
    BY <1>3, <1>5
  <2>3. \/ blocks[e].start_address < blocks[k].start_address
        \/ blocks[e].start_address = blocks[k].start_address
    BY <1>9
  <2> QED BY <2>1, <2>2, <2>3
<1>10. EntryBlock = k
  BY <1>8, <1>9, Zenon DEF EntryBlock
<1> QED BY <1>4, <1>10

\* DeadInv holds initially.
LEMMA InitDead == Init => DeadInv
<1> SUFFICES ASSUME Init PROVE DeadInv
  OBVIOUS
<1>1. /\ 1 .. pos - 1 = {} /\ DOMAIN blocks = {}
      /\ phase \in {"scan", "walk"} /\ (phase = "scan" => caller = "leaf")
  BY DEF Init
<1>2. WalkLinks /\ GraphLinks /\ SearchInv
  BY <1>1 DEF WalkLinks, GraphLinks, SearchInv, Phases
<1> QED BY <1>2, InitTile DEF DeadInv

\* A step that leaves the code and the graph alone keeps the links.
LEMMA LinksUnchanged ==
    ASSUME TileInv, UNCHANGED <<caller, address, prog, pos, blocks>>
    PROVE  /\ \A k : Succ(k)' = Succ(k)
           /\ \A k, i : Holds(k, i)' <=> Holds(k, i)
           /\ \A k, n : Holds(k, Order(n))' <=> Holds(k, Order(n))
           /\ WalkLinks /\ (phase' \in {"scan", "walk", "resolve"} =>
                               phase \in {"scan", "walk", "resolve"}) => WalkLinks'
           /\ GraphLinks /\ (phase' \in {"search", "done"} /\ caller = "inspect" =>
                               phase \in {"search", "done"} \/ DOMAIN blocks = {}) => GraphLinks'
<1>1. \A n : Order(n)' = Order(n) /\ EdgesOf(n)' = EdgesOf(n)
  BY OrderUnchanged, EdgesUnchanged
<1>2. \A k : Succ(k)' = Succ(k)
  BY DEF Succ
<1>3. \A k, i : Holds(k, i)' <=> Holds(k, i)
  BY PlaceKept DEF Holds
<1>4. \A k, n : Holds(k, Order(n))' <=> Holds(k, Order(n))
  BY <1>1, <1>3
<1>5. WalkLinks /\ (phase' \in {"scan", "walk", "resolve"} =>
                       phase \in {"scan", "walk", "resolve"}) => WalkLinks'
  BY <1>1, <1>4 DEF WalkLinks
<1>6. ASSUME GraphLinks, phase' \in {"search", "done"} /\ caller = "inspect" =>
                           phase \in {"search", "done"} \/ DOMAIN blocks = {}
      PROVE  GraphLinks'
  BY <1>1, <1>2, <1>3, <1>4, <1>6 DEF GraphLinks
<1> QED BY <1>2, <1>3, <1>4, <1>5, <1>6

\* The steps of the search.
LEMMA SearchKeepsInv ==
    ASSUME DeadInv, NEW k \in frontier, Search(k)
    PROVE  SearchInv'
<1>1. /\ phase = "search" /\ UNCHANGED <<caller, address, prog, phase, pos, blocks>>
      /\ reached' = reached \cup Succ(k)
      /\ frontier' = (frontier \ {k}) \cup (Succ(k) \ reached)
  BY DEF Search, Succ
<1>2. SearchInv /\ GraphLinks /\ TileInv
  BY DEF DeadInv
<1>3. /\ \A l : Succ(l)' = Succ(l)
      /\ \A l, n : Holds(l, Order(n))' <=> Holds(l, Order(n))
  BY <1>1, <1>2, LinksUnchanged
<1> SUFFICES ASSUME caller = "inspect", address # <<>>
             PROVE  /\ pos = Len(address) + 1
                    /\ frontier' \subseteq reached' /\ reached' \subseteq DOMAIN blocks
                    /\ \A n \in {1} : \E l \in reached' : Holds(l, Order(n))
                    /\ \A l \in reached' \ frontier' : Succ(l) \subseteq reached'
  BY <1>1, <1>2, <1>3 DEF SearchInv
<1>4. /\ pos = Len(address) + 1
      /\ frontier \subseteq reached /\ reached \subseteq DOMAIN blocks
      /\ \A n \in {1} : \E l \in reached : Holds(l, Order(n))
      /\ \A l \in reached \ frontier : Succ(l) \subseteq reached
  BY <1>1, <1>2 DEF SearchInv
<1>5. Succ(k) \subseteq DOMAIN blocks
  BY <1>1, <1>2, <1>4 DEF GraphLinks
<1> QED BY <1>1, <1>4, <1>5

\* Every step keeps DeadInv.
LEMMA StepDead == DeadInv /\ [Next]_vars => DeadInv'
<1> SUFFICES ASSUME DeadInv, [Next]_vars PROVE DeadInv'
  OBVIOUS
<1>1. TileInv /\ TileInv' /\ WalkLinks /\ GraphLinks /\ SearchInv /\ WalkInv
  BY StepTile DEF DeadInv, TileInv, CfgInv
<1>2. CASE Walk
  <2>1. phase = "walk" /\ phase' = "walk"
    BY <1>2 DEF Walk
  <2>2. WalkLinks' /\ GraphLinks' /\ SearchInv'
    BY <1>1, <1>2, <2>1, WalkKeepsLinks DEF GraphLinks, SearchInv, Phases
  <2> QED BY <1>1, <2>2 DEF DeadInv
<1>3. CASE Resolve
  <2>1. /\ phase = "resolve" /\ phase' \in {"search", "policy"}
        /\ UNCHANGED <<caller, address, prog, pos>> /\ DOMAIN blocks' = DOMAIN blocks
        /\ phase' = "search" => frontier' = {EntryBlock} /\ reached' = {EntryBlock}
    BY <1>1, <1>3, ResolveBlocks DEF Resolve
  <2>2. GraphLinks' /\ WalkLinks'
    BY <1>1, <1>3, <2>1, ResolveLinks DEF WalkLinks
  <2>3. SearchInv'
    <3> SUFFICES ASSUME phase' = "search", address # <<>>
                 PROVE  /\ pos = Len(address) + 1
                        /\ frontier' \subseteq reached' /\ reached' \subseteq DOMAIN blocks
                        /\ \A n \in {1} : \E l \in reached' : Holds(l, Order(n))'
                        /\ \A l \in reached' \ frontier' : Succ(l)' \subseteq reached'
      BY <2>1 DEF SearchInv, Phases
    <3>1. pos = Len(address) + 1 /\ pos > 1
      BY <1>1, <2>1, LayoutFacts DEF WalkInv
    <3>0. Ascending(address)
      BY <1>1, <1>3, <2>1 DEF Resolve, WalkInv
    <3>2. PICK k \in DOMAIN blocks : k = EntryBlock /\ Holds(k, Order(1))
      BY <1>1, <3>0, <3>1, EntryHolds
    <3>3. \A n \in {1} : Holds(k, Order(n))'
      <4>1. blocks'[k].start = blocks[k].start /\ blocks'[k].end = blocks[k].end
        BY <1>1, <1>3, <3>2, ResolveBlocks
      <4> QED BY <2>1, <3>2, <4>1, OrderUnchanged DEF Holds
    <3> QED BY <2>1, <3>1, <3>2, <3>3
  <2> QED BY <1>1, <2>2, <2>3 DEF DeadInv
<1>4. ASSUME NEW k \in frontier, Search(k) PROVE DeadInv'
  <2>1. phase = "search" /\ UNCHANGED <<caller, address, prog, phase, pos, blocks>>
    BY <1>4 DEF Search
  <2> QED BY <1>1, <1>4, <2>1, LinksUnchanged, SearchKeepsInv DEF DeadInv
\* Steps that leave the graph and the search alone.
<1>5. ASSUME UNCHANGED <<caller, address, prog, pos, blocks, frontier, reached>>,
             phase' \in Phases, phase' = "scan" => caller = "leaf",
             phase' \in {"scan", "walk", "resolve"} => phase \in {"scan", "walk", "resolve"},
             phase' \in {"search", "done"} /\ caller = "inspect" =>
                 \/ phase \in {"search", "done"} /\ (phase' = "done" => frontier = {} \/ phase = "done")
                 \/ address = <<>>
      PROVE  DeadInv'
  <2>1. address = <<>> => DOMAIN blocks = {}
    <3> SUFFICES ASSUME address = <<>>, NEW k \in DOMAIN blocks PROVE FALSE
      OBVIOUS
    <3>1. \E n \in 1 .. pos - 1 : TRUE
      BY <1>1 DEF TileInv, RangeInv
    <3>2. Len(address) = 0
      OBVIOUS
    <3> QED BY <1>1, <3>1, <3>2, WalkedFacts
  <2>2. /\ \A k : Succ(k)' = Succ(k)
        /\ \A k, n : Holds(k, Order(n))' <=> Holds(k, Order(n))
        /\ WalkLinks' /\ GraphLinks'
    BY <1>1, <1>5, <2>1, LinksUnchanged
  <2>3. SearchInv'
    BY <1>1, <1>5, <2>2 DEF SearchInv
  <2> QED BY <1>1, <2>2, <2>3 DEF DeadInv
<1>6. CASE Scan
  BY <1>1, <1>5, <1>6 DEF Scan, SearchInv, Phases
<1>7. CASE EmptyInput \/ WalkEnds
  BY <1>1, <1>5, <1>7 DEF EmptyInput, WalkEnds, Phases
<1>8. CASE SearchEnds
  BY <1>1, <1>5, <1>8 DEF SearchEnds, Phases
<1>9. CASE Policy
  BY <1>1, <1>5, <1>9 DEF Policy, Phases, WalkInv
<1>10. CASE Finished \/ UNCHANGED vars
  BY <1>1, <1>5, <1>10 DEF Finished, vars, SearchInv
<1> QED BY <1>2, <1>3, <1>4, <1>6, <1>7, <1>8, <1>9, <1>10 DEF Next

\* What unreachable_blocks() does not report is closed under the flow of control.
LEMMA ReachedIsClosed ==
    ASSUME DeadInv, phase = "done", caller = "inspect", address # <<>>
    PROVE  /\ \A i \in DOMAIN address : Below(i) = {} => Shown(i)
           /\ \A i \in DOMAIN address : Shown(i) => \A j \in Flow(i) : Shown(j)
<1>1. /\ TileInv /\ WalkInv /\ RangeInv /\ TransferInv /\ GraphLinks
      /\ Ascending(address)
  BY DEF DeadInv, TileInv, CfgInv, WalkInv
<1>2. /\ pos = Len(address) + 1 /\ reached \subseteq DOMAIN blocks
      /\ \E k \in reached : Holds(k, Order(1))
      /\ \A k \in reached : Succ(k) \subseteq reached
  BY DEF DeadInv, SearchInv
<1>3. /\ DOMAIN address = 1 .. Len(address) /\ Len(address) \in Nat
      /\ \A n \in 1 .. Len(address) : Order(n) = n /\ Below(n) = 1 .. n - 1
  BY <1>1, InputOrder
<1>4. 1 .. pos - 1 = 1 .. Len(address)
  BY <1>2, <1>3
<1>0. \A i \in DOMAIN address : Shown(i) <=> \E k \in reached : Holds(k, i)
  BY <1>1, <1>2, <1>3, <1>4, EnclosesHeld DEF Shown
<1>5. ASSUME NEW i \in DOMAIN address, Below(i) = {} PROVE Shown(i)
  <2>1. i = 1
    <3>1. 1 .. i - 1 = {} /\ i \in 1 .. Len(address)
      BY <1>3, <1>5
    <3>2. i > 1 => 1 \in 1 .. i - 1
      BY <1>3, <3>1
    <3> QED BY <1>3, <3>1, <3>2
  <2> QED BY <1>0, <1>2, <1>3, <2>1
<1>6. ASSUME NEW i \in DOMAIN address, Shown(i), NEW j \in Flow(i) PROVE Shown(j)
  <2>1. i \in 1 .. Len(address) /\ Order(i) = i
    BY <1>3
  <2>2. PICK k \in reached : Holds(k, i)
    BY <1>0, <1>6
  <2>3. j \in DOMAIN address
    BY DEF Flow, Following, InstrAt
  <2>4. PICK l \in DOMAIN blocks : Holds(l, j)
    BY <1>1, <1>3, <1>4, <2>3 DEF RangeInv
  <2>5. CASE \E e \in EdgesOf(i) : j \in e.to
    <3>1. l \in Succ(k)
      BY <1>1, <1>2, <1>4, <2>1, <2>2, <2>4, <2>5 DEF GraphLinks
    <3> QED BY <1>0, <1>2, <2>2, <2>3, <2>4, <3>1
  <2>6. CASE /\ i < Len(address) /\ j = Order(i + 1)
             /\ EndAt(Order(i)).kind \notin Terminators
    <3>1. i \in 1 .. pos - 2
      BY <1>2, <1>3, <2>1, <2>6
    <3>2. Holds(k, Order(i + 1))
      BY <1>1, <1>2, <2>1, <2>2, <2>6, <3>1 DEF TransferInv
    <3> QED BY <1>0, <2>2, <2>3, <2>6, <3>2
  <2>7. j \in Flow(Order(i))
    BY <2>1
  <2>8. \/ \E e \in EdgesOf(i) : j \in e.to
        \/ /\ i < Len(address) /\ j = Order(i + 1)
           /\ EndAt(Order(i)).kind \notin Terminators
    BY <1>1, <2>1, <2>7, FlowIsEdge
  <2> QED BY <2>5, <2>6, <2>8
<1> QED BY <1>5, <1>6

\* A block `inspect cfg` reports as unreachable holds no instruction control can
\* reach from the entry, for all code: what it decodes has ascending addresses.
THEOREM UnreachableHolds == Spec => []UnreachableIsDead
<1>1. DeadInv => UnreachableIsDead
  BY ReachedIsClosed DEF UnreachableIsDead
<1>2. DeadInv /\ [Next]_vars => DeadInv'
  BY StepDead
<1> QED BY <1>1, <1>2, InitDead, PTL DEF Spec

==============================================================================
