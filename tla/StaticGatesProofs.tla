--------------------------- MODULE StaticGatesProofs ---------------------------
(***************************************************************************)
(* StaticGates: what an accepted body did when it was executed, on every   *)
(* ABI and for straight-line bodies of any length and of any instructions  *)
(* that the machine executes (module StaticGates says which are left out), *)
(* under the conditions that the properties there state.                   *)
(***************************************************************************)
EXTENDS StaticGates, WellFoundedInduction, TLAPS

-----------------------------------------------------------------------------
(* Induction. *)

\* A set of natural numbers has a least element.
LEMMA Least ==
    ASSUME NEW T, T \subseteq Nat, T # {}
    PROVE  \E x \in T : \A y \in T : x <= y
<1> DEFINE R == OpToRel(<, Nat)
<1>1. IsWellFoundedOn(R, Nat)
  BY NatLessThanWellFounded
<1>2. \A x, y \in Nat : y < x => <<y, x>> \in R
  BY DEF OpToRel
<1> HIDE DEF R
<1>3. PICK x \in T : \A y \in T : ~(<<y, x>> \in R)
  BY <1>1, WFMin
<1>4. ASSUME NEW y \in T PROVE x <= y
  <2>1. x \in Nat /\ y \in Nat
    OBVIOUS
  <2>2. ~(y < x)
    BY <2>1, <1>2, <1>3, Zenon
  <2> QED BY <2>1, <2>2
<1> QED BY <1>4

\* Two walks that start alike and continue alike ...
Alike(n, f, g) ==
    f[1] = g[1] /\ \A i \in 1..n : f[i] = g[i] => f[i + 1] = g[i + 1]

\* ... are alike.
LEMMA WalksAgree ==
    ASSUME NEW n \in Nat, NEW f, NEW g, Alike(n, f, g)
    PROVE  \A i \in 1..(n + 1) : f[i] = g[i]
<1> DEFINE T == {i \in 1..(n + 1) : f[i] # g[i]}
<1> SUFFICES ASSUME T # {} PROVE FALSE
  OBVIOUS
<1>1. T \subseteq Nat
  OBVIOUS
<1>2. PICK x \in T : \A y \in T : x <= y
  BY <1>1, Least
<1>3. x \in 1..(n + 1) /\ f[x] # g[x]
  OBVIOUS
<1>4. x # 1
  BY <1>3 DEF Alike
<1>5. x - 1 \in 1..n /\ (x - 1) + 1 = x /\ ~(x <= x - 1)
  BY <1>3, <1>4
<1>6. f[x - 1] = g[x - 1]
  BY <1>2, <1>5
<1>7. f[(x - 1) + 1] = g[(x - 1) + 1]
  BY <1>5, <1>6 DEF Alike
<1> QED BY <1>3, <1>5, <1>7

\* A function that satisfies the recursion of DeltaBefore is DeltaBefore.
LEMMA SysvDelta ==
    ASSUME NEW b, Len(b) \in Nat, NEW d \in [1..(Len(b) + 1) -> Int], d[1] = 0,
           \A i \in 1..Len(b) : d[i + 1] = IF Sysv!is_mov_rsp_from_rbp(b[i]) THEN 8
                                           ELSE d[i] + Sysv!step(b[i]).rsp_change
    PROVE  Sysv!DeltaBefore(b) = d
<1> DEFINE G(f) == [i \in 1..(Len(b) + 1) |->
                      IF i = 1 THEN 0
                      ELSE IF Sysv!is_mov_rsp_from_rbp(b[i - 1]) THEN 8
                      ELSE f[i - 1] + Sysv!step(b[i - 1]).rsp_change]
<1>1. d = G(d)
  <2>1. \A i \in 1..(Len(b) + 1) : i # 1 => i - 1 \in 1..Len(b) /\ (i - 1) + 1 = i
    OBVIOUS
  <2>2. ASSUME NEW i \in 1..(Len(b) + 1) PROVE d[i] = G(d)[i]
    <3>1. CASE i = 1
      BY <3>1
    <3>2. CASE i # 1
      BY <2>1, <3>2
    <3> QED BY <3>1, <3>2
  <2> QED BY <2>2
<1>2. Sysv!DeltaBefore(b) = CHOOSE f : f = G(f)
  BY Zenon DEF Sysv!DeltaBefore
<1>3. PICK D : Sysv!DeltaBefore(b) = D /\ D = G(D)
  BY <1>1, <1>2, Zenon
<1>4. D[1] = d[1]
  BY <1>3
<1>5. ASSUME NEW i \in 1..Len(b), D[i] = d[i] PROVE D[i + 1] = d[i + 1]
  <2>1. i + 1 \in 1..(Len(b) + 1) /\ i + 1 # 1 /\ (i + 1) - 1 = i
    OBVIOUS
  <2>2. G(D)[i + 1] = G(d)[i + 1]
    BY <1>5, <2>1
  <2> QED BY <1>1, <1>3, <2>2
<1>6. Alike(Len(b), D, d)
  BY <1>4, <1>5 DEF Alike
<1>7. \A i \in 1..(Len(b) + 1) : D[i] = d[i]
  BY <1>6, WalksAgree
<1> QED BY <1>1, <1>3, <1>7

\* A function that satisfies the recursion of DeltaBefore is DeltaBefore.
LEMMA WinDelta ==
    ASSUME NEW b, Len(b) \in Nat, NEW d \in [1..(Len(b) + 1) -> Int], d[1] = 0,
           \A i \in 1..Len(b) : d[i + 1] = IF Win!is_mov_rsp_from_rbp(b[i]) THEN 8
                                           ELSE d[i] + Win!step(b[i]).rsp_change
    PROVE  Win!DeltaBefore(b) = d
<1> DEFINE G(f) == [i \in 1..(Len(b) + 1) |->
                      IF i = 1 THEN 0
                      ELSE IF Win!is_mov_rsp_from_rbp(b[i - 1]) THEN 8
                      ELSE f[i - 1] + Win!step(b[i - 1]).rsp_change]
<1>1. d = G(d)
  <2>1. \A i \in 1..(Len(b) + 1) : i # 1 => i - 1 \in 1..Len(b) /\ (i - 1) + 1 = i
    OBVIOUS
  <2>2. ASSUME NEW i \in 1..(Len(b) + 1) PROVE d[i] = G(d)[i]
    <3>1. CASE i = 1
      BY <3>1
    <3>2. CASE i # 1
      BY <2>1, <3>2
    <3> QED BY <3>1, <3>2
  <2> QED BY <2>2
<1>2. Win!DeltaBefore(b) = CHOOSE f : f = G(f)
  BY Zenon DEF Win!DeltaBefore
<1>3. PICK D : Win!DeltaBefore(b) = D /\ D = G(D)
  BY <1>1, <1>2, Zenon
<1>4. D[1] = d[1]
  BY <1>3
<1>5. ASSUME NEW i \in 1..Len(b), D[i] = d[i] PROVE D[i + 1] = d[i + 1]
  <2>1. i + 1 \in 1..(Len(b) + 1) /\ i + 1 # 1 /\ (i + 1) - 1 = i
    OBVIOUS
  <2>2. G(D)[i + 1] = G(d)[i + 1]
    BY <1>5, <2>1
  <2> QED BY <1>1, <1>3, <2>2
<1>6. Alike(Len(b), D, d)
  BY <1>4, <1>5 DEF Alike
<1>7. \A i \in 1..(Len(b) + 1) : D[i] = d[i]
  BY <1>6, WalksAgree
<1> QED BY <1>1, <1>3, <1>7

\* A function that satisfies the recursion of DeltaBefore is DeltaBefore.
LEMMA ArmDelta ==
    ASSUME NEW b, Len(b) \in Nat, NEW d \in [1..(Len(b) + 1) -> Int], d[1] = 0,
           \A i \in 1..Len(b) : d[i + 1] = d[i] + Arm!step(b[i]).sp_change
    PROVE  Arm!DeltaBefore(b) = d
<1> DEFINE G(f) == [i \in 1..(Len(b) + 1) |->
                      IF i = 1 THEN 0 ELSE f[i - 1] + Arm!step(b[i - 1]).sp_change]
<1>1. d = G(d)
  <2>1. \A i \in 1..(Len(b) + 1) : i # 1 => i - 1 \in 1..Len(b) /\ (i - 1) + 1 = i
    OBVIOUS
  <2>2. ASSUME NEW i \in 1..(Len(b) + 1) PROVE d[i] = G(d)[i]
    <3>1. CASE i = 1
      BY <3>1
    <3>2. CASE i # 1
      BY <2>1, <3>2
    <3> QED BY <3>1, <3>2
  <2> QED BY <2>2
<1>2. Arm!DeltaBefore(b) = CHOOSE f : f = G(f)
  BY Zenon DEF Arm!DeltaBefore
<1>3. PICK D : Arm!DeltaBefore(b) = D /\ D = G(D)
  BY <1>1, <1>2, Zenon
<1>4. D[1] = d[1]
  BY <1>3
<1>5. ASSUME NEW i \in 1..Len(b), D[i] = d[i] PROVE D[i + 1] = d[i + 1]
  <2>1. i + 1 \in 1..(Len(b) + 1) /\ i + 1 # 1 /\ (i + 1) - 1 = i
    OBVIOUS
  <2>2. G(D)[i + 1] = G(d)[i + 1]
    BY <1>5, <2>1
  <2> QED BY <1>1, <1>3, <2>2
<1>6. Alike(Len(b), D, d)
  BY <1>4, <1>5 DEF Alike
<1>7. \A i \in 1..(Len(b) + 1) : D[i] = d[i]
  BY <1>6, WalksAgree
<1> QED BY <1>1, <1>3, <1>7

\* A function that satisfies the recursion of DeltaBefore is DeltaBefore.
LEMMA RvDelta ==
    ASSUME NEW b, Len(b) \in Nat, NEW d \in [1..(Len(b) + 1) -> Int], d[1] = 0,
           \A i \in 1..Len(b) : d[i + 1] = d[i] + Rv!step(b[i]).sp_change
    PROVE  Rv!DeltaBefore(b) = d
<1> DEFINE G(f) == [i \in 1..(Len(b) + 1) |->
                      IF i = 1 THEN 0 ELSE f[i - 1] + Rv!step(b[i - 1]).sp_change]
<1>1. d = G(d)
  <2>1. \A i \in 1..(Len(b) + 1) : i # 1 => i - 1 \in 1..Len(b) /\ (i - 1) + 1 = i
    OBVIOUS
  <2>2. ASSUME NEW i \in 1..(Len(b) + 1) PROVE d[i] = G(d)[i]
    <3>1. CASE i = 1
      BY <3>1
    <3>2. CASE i # 1
      BY <2>1, <3>2
    <3> QED BY <3>1, <3>2
  <2> QED BY <2>2
<1>2. Rv!DeltaBefore(b) = CHOOSE f : f = G(f)
  BY Zenon DEF Rv!DeltaBefore
<1>3. PICK D : Rv!DeltaBefore(b) = D /\ D = G(D)
  BY <1>1, <1>2, Zenon
<1>4. D[1] = d[1]
  BY <1>3
<1>5. ASSUME NEW i \in 1..Len(b), D[i] = d[i] PROVE D[i + 1] = d[i + 1]
  <2>1. i + 1 \in 1..(Len(b) + 1) /\ i + 1 # 1 /\ (i + 1) - 1 = i
    OBVIOUS
  <2>2. G(D)[i + 1] = G(d)[i + 1]
    BY <1>5, <2>1
  <2> QED BY <1>1, <1>3, <2>2
<1>6. Alike(Len(b), D, d)
  BY <1>4, <1>5 DEF Alike
<1>7. \A i \in 1..(Len(b) + 1) : D[i] = d[i]
  BY <1>6, WalksAgree
<1> QED BY <1>1, <1>3, <1>7


-----------------------------------------------------------------------------
(* What lowering keeps of an instruction. *)

\* An operand has the fields of its type.
LEMMA OperandTypes ==
    ASSUME NEW op \in DecodedOperands
    PROVE  /\ op.t \in {"reg", "imm", "mem"}
           /\ op.t = "reg" => op = Reg(op.r) /\ op.r \in STRING
           /\ op.t = "imm" => op = Imm(op.n) /\ op.n \in Int
           /\ op.t = "mem" => op.base \in STRING /\ op.disp \in Int
BY DEF DecodedOperands, Reg, Imm

\* Registers and immediates are kept as they are, memory stays memory.
Keeps(op, low) ==
    /\ op.t # "mem" => low = op
    /\ op.t = "mem" => low.t = "mem"

\* x86 lowering keeps the mnemonic and the operands, whose base may be lost.
LEMMA X86Shape ==
    ASSUME abi \in X86, NEW ins, WellFormed(ins), lower(abi, ins) # Unsupported
    PROVE  LET l == lower(abi, ins) IN
           /\ l.mn = ins.mn /\ l.kind = Sysv!KindOf(ins.mn) /\ l.kind # "Unsupported"
           /\ DOMAIN l.ops = DOMAIN ins.ops /\ Len(l.ops) = Len(ins.ops)
           /\ \A i \in DOMAIN ins.ops :
                /\ Keeps(ins.ops[i], l.ops[i])
                /\ ins.ops[i].t = "mem" => l.ops[i].base \in {ins.ops[i].base, NoReg}
<1> DEFINE l == lower(abi, ins)
<1>1. ins.ops \in Seq(DecodedOperands) /\ ins.mn \in STRING
  BY DEF WellFormed
<1>2. l = Sysv!lower(ins)
  BY DEF lower, X86
<1>3. /\ Sysv!KindOf(ins.mn) # "Unsupported"
      /\ l = [mn |-> ins.mn, kind |-> Sysv!KindOf(ins.mn),
              ops |-> [i \in DOMAIN ins.ops |-> Sysv!parse_operand(ins.ops[i])]]
  BY <1>2, Zenon DEF Sysv!lower, Sysv!LoweredInstr, Unsupported, Sysv!Unsupported, LoweredInstr
<1>4. /\ l.mn = ins.mn /\ l.kind = Sysv!KindOf(ins.mn)
      /\ l.ops = [i \in 1..Len(ins.ops) |-> Sysv!parse_operand(ins.ops[i])]
  BY <1>1, <1>3
<1>5. DOMAIN l.ops = DOMAIN ins.ops /\ Len(l.ops) = Len(ins.ops)
  BY <1>1, <1>4
<1>6. ASSUME NEW i \in DOMAIN ins.ops
      PROVE  /\ Keeps(ins.ops[i], l.ops[i])
             /\ ins.ops[i].t = "mem" => l.ops[i].base \in {ins.ops[i].base, NoReg}
  <2>1. l.ops[i] = Sysv!parse_operand(ins.ops[i])
    BY <1>1, <1>4
  <2> QED BY <2>1 DEF Keeps, Sysv!parse_operand, Sysv!parse_memory, Sysv!Mem, Sysv!NoReg, NoReg
<1> QED BY <1>3, <1>4, <1>5, <1>6

\* RISC-V lowering keeps the operands and names calls and returns anew.
LEMMA RvShape ==
    ASSUME abi = "Riscv", NEW ins, WellFormed(ins), lower(abi, ins) # Unsupported
    PROVE  LET l == lower(abi, ins)
               kind == Rv!classify(ins.mn)
           IN
           /\ kind # "Unsupported"
           /\ l.mn = IF kind \in {"Load", "Store"} /\ MemOperands(ins) = {} THEN "mv"
                     ELSE IF kind = "Return" THEN "ret"
                     ELSE IF kind = "Call" THEN "call" ELSE ins.mn
           /\ l.kind = IF kind \in {"Load", "Store"} /\ MemOperands(ins) = {} THEN "Store" ELSE kind
           /\ DOMAIN l.ops = DOMAIN ins.ops /\ Len(l.ops) = Len(ins.ops)
           /\ \A i \in DOMAIN ins.ops :
                /\ Keeps(ins.ops[i], l.ops[i])
                /\ ins.ops[i].t = "mem" => /\ l.ops[i].base = ins.ops[i].base
                                           /\ l.ops[i].disp = ins.ops[i].disp
<1> DEFINE l == lower(abi, ins)
           kind == Rv!classify(ins.mn)
           ops == [i \in DOMAIN ins.ops |-> Rv!parse_one_operand(ins.ops[i])]
<1>1. ins.ops \in Seq(DecodedOperands) /\ ins.mn \in STRING
  BY DEF WellFormed
<1>2. l = Rv!lower(ins)
  BY DEF lower, X86
<1>3. Rv!MemOperands(ins) = MemOperands(ins) /\ Rv!Unsupported = Unsupported
  BY DEF Rv!MemOperands, MemOperands, Rv!Operands, Operands, Rv!Unsupported, Unsupported, Rv!Range, Range,
         Rv!LoweredInstr, LoweredInstr
<1>4. kind # "Unsupported"
  BY <1>2, <1>3 DEF Rv!lower
<1>5. l = IF kind \in {"Load", "Store"} /\ MemOperands(ins) = {}
          THEN [mn |-> "mv", kind |-> "Store", ops |-> ops]
          ELSE [mn |-> IF kind = "Return" THEN "ret" ELSE IF kind = "Call" THEN "call" ELSE ins.mn,
                kind |-> kind, ops |-> ops]
  BY <1>2, <1>3, <1>4 DEF Rv!lower, Rv!LoweredInstr, Rv!default_mnemonic
<1>6. /\ l.ops = [i \in 1..Len(ins.ops) |-> Rv!parse_one_operand(ins.ops[i])]
      /\ DOMAIN ins.ops = 1..Len(ins.ops)
  BY <1>1, <1>5
<1>7. DOMAIN l.ops = DOMAIN ins.ops /\ Len(l.ops) = Len(ins.ops)
  BY <1>1, <1>6
<1>8. ASSUME NEW i \in DOMAIN ins.ops
      PROVE  /\ Keeps(ins.ops[i], l.ops[i])
             /\ ins.ops[i].t = "mem" => /\ l.ops[i].base = ins.ops[i].base
                                        /\ l.ops[i].disp = ins.ops[i].disp
  <2>1. l.ops[i] = Rv!parse_one_operand(ins.ops[i])
    BY <1>6
  <2> QED BY <2>1 DEF Keeps, Rv!parse_one_operand, Rv!parse_memory_riscv, Rv!Mem
<1> QED BY <1>4, <1>5, <1>7, <1>8


\* AArch64 lowering keeps the operands but for displacements, which are lost or
\* become an operand of their own, and names calls and returns anew.
LEMMA ArmShape ==
    ASSUME abi = "Aapcs64", NEW ins, WellFormed(ins), lower(abi, ins) # Unsupported
    PROVE  LET l == lower(abi, ins)
               kind == Arm!classify(ins.mn)
           IN
           /\ kind # "Unsupported"
           /\ l.mn = IF kind \in {"Load", "Store"} /\ MemOperands(ins) = {} THEN "mov"
                     ELSE IF kind = "Return" THEN "ret"
                     ELSE IF kind = "Call" THEN "bl" ELSE ins.mn
           /\ l.kind = IF kind \in {"Load", "Store"} /\ MemOperands(ins) = {} THEN "Store" ELSE kind
           /\ DOMAIN l.ops = 1..Len(l.ops)
           /\ Len(l.ops) = Len(ins.ops) \/ Len(l.ops) = Len(ins.ops) + 1
           /\ MemOperands(ins) = {} => Len(l.ops) = Len(ins.ops)
           /\ \A i \in DOMAIN ins.ops :
                /\ Keeps(ins.ops[i], l.ops[i])
                /\ ins.ops[i].t = "mem" => l.ops[i].base = ins.ops[i].base /\ l.ops[i].disp = 0
           /\ \A i \in DOMAIN l.ops : i \notin DOMAIN ins.ops => l.ops[i].t = "imm"
<1> DEFINE l == lower(abi, ins)
           kind == Arm!classify(ins.mn)
           first == [i \in DOMAIN ins.ops |-> Arm!parse_one_operand(ins.ops[i])]
           last == IF Arm!PostIndexed(ins.ops) = {} THEN <<>>
                   ELSE <<Arm!Imm(Arm!Displacement(Arm!PostIndexed(ins.ops)))>>
           ops == Arm!parse_operands(ins.ops)
<1>1. ins.ops \in Seq(DecodedOperands) /\ ins.mn \in STRING
  BY DEF WellFormed
<1>2. l = Arm!lower(ins)
  BY DEF lower, X86
<1>3. Arm!MemOperands(ins) = MemOperands(ins) /\ Arm!Unsupported = Unsupported
  BY DEF Arm!MemOperands, MemOperands, Arm!Operands, Operands, Arm!Unsupported, Unsupported,
         Arm!Range, Range, Arm!LoweredInstr, LoweredInstr
<1>4. kind # "Unsupported"
  BY <1>2, <1>3 DEF Arm!lower
<1>5. l = IF kind \in {"Load", "Store"} /\ MemOperands(ins) = {}
          THEN [mn |-> "mov", kind |-> "Store", ops |-> ops]
          ELSE [mn |-> IF kind = "Return" THEN "ret" ELSE IF kind = "Call" THEN "bl" ELSE ins.mn,
                kind |-> kind, ops |-> ops]
  BY <1>2, <1>3, <1>4 DEF Arm!lower, Arm!LoweredInstr, Arm!default_mnemonic
<1>6. l.ops = ops
  BY <1>5
<1>7. ops = first \o last
  BY Zenon DEF Arm!parse_operands
<1>8. PICK x : Arm!Imm(Arm!Displacement(Arm!PostIndexed(ins.ops))) = x /\ x.t = "imm"
  <2>1. Arm!Imm(Arm!Displacement(Arm!PostIndexed(ins.ops))).t = "imm"
    BY DEF Arm!Imm
  <2> QED BY <2>1, Zenon
<1>9. last = <<>> \/ last = <<x>>
  BY <1>8
<1>10. MemOperands(ins) = {} => last = <<>>
  <2>1. Arm!PostIndexed(ins.ops) \subseteq MemOperands(ins)
    BY DEF Arm!PostIndexed, MemOperands, Operands, Range, Arm!Range
  <2> QED BY <2>1
<1>11. first \in Seq({first[i] : i \in DOMAIN ins.ops}) /\ Len(first) = Len(ins.ops)
       /\ DOMAIN ins.ops = 1..Len(ins.ops) /\ Len(ins.ops) \in Nat
  BY <1>1
<1> HIDE DEF last
<1>12. /\ Len(l.ops) = Len(ins.ops) + Len(last) /\ DOMAIN l.ops = 1..Len(l.ops)
       /\ \A i \in DOMAIN ins.ops : l.ops[i] = first[i]
       /\ \A i \in DOMAIN l.ops : i \notin DOMAIN ins.ops => l.ops[i] = x
  <2> HIDE DEF first
  <2>1. CASE last = <<>>
    BY <1>6, <1>7, <1>11, <2>1
  <2>2. CASE last = <<x>>
    BY <1>6, <1>7, <1>11, <2>2
  <2> QED BY <1>9, <2>1, <2>2
<1>13. Len(last) = 0 \/ Len(last) = 1
  BY <1>9
<1>14. MemOperands(ins) = {} => Len(last) = 0
  BY <1>10
<1>15. ASSUME NEW i \in DOMAIN ins.ops
      PROVE  /\ Keeps(ins.ops[i], l.ops[i])
             /\ ins.ops[i].t = "mem" => l.ops[i].base = ins.ops[i].base /\ l.ops[i].disp = 0
  <2>1. l.ops[i] = Arm!parse_one_operand(ins.ops[i])
    BY <1>12
  <2> QED BY <2>1 DEF Keeps, Arm!parse_one_operand, Arm!parse_memory, Arm!Mem
<1>16. /\ Len(l.ops) = Len(ins.ops) \/ Len(l.ops) = Len(ins.ops) + 1
       /\ MemOperands(ins) = {} => Len(l.ops) = Len(ins.ops)
  <2>1. Len(l.ops) = Len(ins.ops) + Len(last) /\ Len(ins.ops) \in Nat
    BY <1>11, <1>12
  <2>2. PICK m, n, k : m = Len(l.ops) /\ n = Len(ins.ops) /\ k = Len(last)
    BY Zenon
  <2>3. m = n + k /\ n \in Nat /\ (k = 0 \/ k = 1)
    BY <1>13, <2>1, <2>2, Zenon
  <2>4. (m = n \/ m = n + 1) /\ (k = 0 => m = n)
    BY <2>3
  <2> QED BY <1>14, <2>2, <2>4, Zenon
<1>17. /\ l.mn = IF kind \in {"Load", "Store"} /\ MemOperands(ins) = {} THEN "mov"
                 ELSE IF kind = "Return" THEN "ret"
                 ELSE IF kind = "Call" THEN "bl" ELSE ins.mn
       /\ l.kind = IF kind \in {"Load", "Store"} /\ MemOperands(ins) = {} THEN "Store" ELSE kind
  BY <1>5
<1> QED BY <1>4, <1>8, <1>12, <1>15, <1>16, <1>17


ABIs == X86 \cup {"Aapcs64", "Riscv"}

\* On every ABI the operands of the decoded instruction come first.
LEMMA Shape ==
    ASSUME abi \in ABIs, NEW ins, WellFormed(ins), lower(abi, ins) # Unsupported
    PROVE  LET l == lower(abi, ins) IN
           /\ DOMAIN l.ops = 1..Len(l.ops) /\ DOMAIN ins.ops = 1..Len(ins.ops)
           /\ Len(l.ops) \in Nat /\ Len(ins.ops) \in Nat /\ Len(ins.ops) <= Len(l.ops)
           /\ \A i \in DOMAIN ins.ops : ins.ops[i] \in DecodedOperands /\ Keeps(ins.ops[i], l.ops[i])
           /\ \A i \in DOMAIN l.ops : i \notin DOMAIN ins.ops => l.ops[i].t = "imm"
           /\ MemOperands(ins) = {} => Len(l.ops) = Len(ins.ops)
<1> DEFINE l == lower(abi, ins)
<1>1. /\ DOMAIN ins.ops = 1..Len(ins.ops) /\ Len(ins.ops) \in Nat
      /\ \A i \in DOMAIN ins.ops : ins.ops[i] \in DecodedOperands
  BY DEF WellFormed
<1>2. CASE abi = "Aapcs64"
  <2>1. /\ DOMAIN l.ops = 1..Len(l.ops)
        /\ Len(l.ops) = Len(ins.ops) \/ Len(l.ops) = Len(ins.ops) + 1
        /\ MemOperands(ins) = {} => Len(l.ops) = Len(ins.ops)
        /\ \A i \in DOMAIN ins.ops : Keeps(ins.ops[i], l.ops[i])
        /\ \A i \in DOMAIN l.ops : i \notin DOMAIN ins.ops => l.ops[i].t = "imm"
    BY <1>2, ArmShape
  <2>2. Len(l.ops) \in Nat /\ Len(ins.ops) <= Len(l.ops)
    BY <1>1, <2>1
  <2> QED BY <1>1, <2>1, <2>2, Zenon
<1>3. CASE abi # "Aapcs64"
  <2>1. /\ DOMAIN l.ops = DOMAIN ins.ops /\ Len(l.ops) = Len(ins.ops)
        /\ \A i \in DOMAIN ins.ops : Keeps(ins.ops[i], l.ops[i])
    BY <1>3, X86Shape, RvShape DEF ABIs
  <2>2. Len(ins.ops) <= Len(l.ops)
    BY <1>1, <2>1
  <2> QED BY <1>1, <2>1, <2>2, Zenon
<1> QED BY <1>2, <1>3

\* Lowering keeps the registers, where they are.
LEMMA RegistersKept ==
    ASSUME abi \in ABIs, NEW ins, WellFormed(ins), lower(abi, ins) # Unsupported
    PROVE  LET l == lower(abi, ins) IN
           /\ Registers(l) = Registers(ins)
           /\ \A i \in Nat \ {0} : \A r : Is(l, i, Reg(r)) <=> Is(ins, i, Reg(r))
<1> DEFINE l == lower(abi, ins)
<1>1. /\ DOMAIN l.ops = 1..Len(l.ops) /\ DOMAIN ins.ops = 1..Len(ins.ops)
      /\ Len(l.ops) \in Nat /\ Len(ins.ops) \in Nat /\ Len(ins.ops) <= Len(l.ops)
      /\ \A i \in DOMAIN ins.ops : ins.ops[i] \in DecodedOperands /\ Keeps(ins.ops[i], l.ops[i])
      /\ \A i \in DOMAIN l.ops : i \notin DOMAIN ins.ops => l.ops[i].t = "imm"
  BY Shape
<1> HIDE DEF l
<1>2. ASSUME NEW i \in Nat \ {0}, NEW r PROVE Is(l, i, Reg(r)) <=> Is(ins, i, Reg(r))
  <2>1. Reg(r).t = "reg"
    BY DEF Reg
  <2>2. CASE i \in DOMAIN ins.ops
    <3>1. Keeps(ins.ops[i], l.ops[i]) /\ i <= Len(ins.ops) /\ i <= Len(l.ops)
      BY <1>1, <2>2
    <3> QED BY <2>1, <3>1 DEF Is, Keeps
  <2>3. CASE i \notin DOMAIN ins.ops
    <3>1. ~(i <= Len(ins.ops))
      BY <1>1, <2>3
    <3>2. ASSUME i <= Len(l.ops) PROVE l.ops[i].t = "imm"
      BY <1>1, <2>3, <3>2
    <3> QED BY <2>1, <3>1, <3>2 DEF Is
  <2> QED BY <2>2, <2>3
<1>3. ASSUME NEW r PROVE r \in Registers(l) <=> r \in Registers(ins)
  <2>1. r \in Registers(l) <=> \E i \in DOMAIN l.ops : l.ops[i].t = "reg" /\ l.ops[i].r = r
    BY DEF Registers, Operands, Range
  <2>2. r \in Registers(ins) <=> \E i \in DOMAIN ins.ops : ins.ops[i].t = "reg" /\ ins.ops[i].r = r
    BY DEF Registers, Operands, Range
  <2>3. \A i \in DOMAIN ins.ops : i \in DOMAIN l.ops
    BY <1>1
  <2>4. \A i \in DOMAIN ins.ops : /\ ins.ops[i].t = "reg" => l.ops[i] = ins.ops[i]
                                  /\ l.ops[i].t = "reg" => l.ops[i] = ins.ops[i]
    BY <1>1 DEF Keeps
  <2>5. \A i \in DOMAIN l.ops : l.ops[i].t = "reg" => i \in DOMAIN ins.ops
    BY <1>1
  <2> QED BY <2>1, <2>2, <2>3, <2>4, <2>5
<1> QED BY <1>2, <1>3 DEF l


-----------------------------------------------------------------------------
(* What the analyses read off a lowered instruction. *)

Resets(a, l) == a \in X86 /\ Sysv!is_mov_rsp_from_rbp(l)
Change(a, l) == IF a = "SysVAmd64" THEN Sysv!step(l).rsp_change
             ELSE IF a = "WindowsX64" THEN Win!step(l).rsp_change
             ELSE IF a = "Aapcs64" THEN Arm!step(l).sp_change ELSE Rv!step(l).sp_change
IsCall(a, l) == IF a = "SysVAmd64" THEN Sysv!step(l).is_call
             ELSE IF a = "WindowsX64" THEN Win!step(l).is_call
             ELSE IF a = "Aapcs64" THEN Arm!step(l).is_call ELSE Rv!step(l).is_call
IsRet(a, l) == IF a = "SysVAmd64" THEN Sysv!step(l).is_ret
            ELSE IF a = "WindowsX64" THEN Win!step(l).is_ret
            ELSE IF a = "Aapcs64" THEN Arm!step(l).is_ret ELSE Rv!step(l).is_ret

\* x86: pushes, pops and immediates added to RSP.
LEMMA X86Step ==
    ASSUME abi \in X86, NEW l
    PROVE  /\ Change(abi, l) = IF l.mn = "push" THEN 8 ELSE IF l.mn = "pop" THEN -8
                          ELSE IF l.mn = "sub" /\ Is(l, 1, Reg("rsp")) /\ IsImm(l, 2) THEN l.ops[2].n
                          ELSE IF l.mn = "add" /\ Is(l, 1, Reg("rsp")) /\ IsImm(l, 2) THEN -l.ops[2].n
                          ELSE 0
           /\ IsCall(abi, l) <=> l.mn = "call"
           /\ IsRet(abi, l) <=> l.mn \in {"ret", "retn", "retf"}
           /\ Resets(abi, l) <=> l.mn \in {"mov", "movabs"} /\ Is(l, 1, Reg("rsp")) /\ Is(l, 2, Reg("rbp"))
<1>1. CASE abi = "SysVAmd64"
  BY <1>1 DEF Change, IsCall, IsRet, Resets, Sysv!step, Sysv!is_mov_rsp_from_rbp, Sysv!Is, Is, Sysv!IsImm,
              IsImm, Sysv!Reg, Reg, Sysv!Returns, X86
<1>2. CASE abi = "WindowsX64"
  BY <1>2 DEF Change, IsCall, IsRet, Resets, Win!step, Sysv!is_mov_rsp_from_rbp, Win!Is, Is, Sysv!Is, Win!IsImm,
              IsImm, Win!Reg, Reg, Sysv!Reg, Win!Returns, X86
<1> QED BY <1>1, <1>2 DEF X86

\* AArch64: immediates added to SP, and displacements off SP.
LEMMA ArmStep ==
    ASSUME abi = "Aapcs64", NEW l
    PROVE  LET imm == IF IsImm(l, 2) THEN l.ops[2].n
                      ELSE IF IsReg(l, 2) /\ IsImm(l, 3) THEN l.ops[3].n ELSE 0
           IN
           /\ Change(abi, l) = IF l.mn \in {"str", "stp", "ldr", "ldp"}
                          THEN IF \E m \in MemOperands(l) : m.base = "sp"
                               THEN -Arm!Displacement(MemOperands(l)) ELSE 0
                          ELSE IF l.mn = "sub" /\ Is(l, 1, Reg("sp")) THEN imm
                          ELSE IF l.mn = "add" /\ Is(l, 1, Reg("sp")) THEN -imm ELSE 0
           /\ IsCall(abi, l) <=> l.mn = "bl"
           /\ IsRet(abi, l) <=> l.mn = "ret"
           /\ ~Resets(abi, l)
<1>1. Arm!MemOperands(l) = MemOperands(l)
  BY DEF Arm!MemOperands, MemOperands, Arm!Operands, Operands, Arm!Range, Range
<1>2. /\ \A i : Arm!IsImm(l, i) <=> IsImm(l, i)
      /\ \A i : Arm!IsReg(l, i) <=> IsReg(l, i)
      /\ \A i : Arm!Is(l, i, Arm!Reg("sp")) <=> Is(l, i, Reg("sp"))
  BY DEF Arm!IsImm, IsImm, Arm!IsReg, IsReg, Arm!Is, Is, Arm!Reg, Reg
<1> QED BY <1>1, <1>2 DEF Change, IsCall, IsRet, Resets, Arm!step, Arm!OnStack, X86

\* RISC-V: immediates added to SP, and displacements off SP.
LEMMA RvStep ==
    ASSUME abi = "Riscv", NEW l
    PROVE  LET disp == IF \E m \in MemOperands(l) : m.base = "sp"
                       THEN Rv!Displacement(MemOperands(l)) ELSE 0
               two == Len(l.ops) = 2 /\ Is(l, 1, Reg("sp")) /\ IsImm(l, 2)
               three == Is(l, 1, Reg("sp")) /\ Is(l, 2, Reg("sp")) /\ IsImm(l, 3)
               adds == l.mn \in {"addi", "add", "c.addi", "c.addi16sp"}
           IN
           /\ Change(abi, l) = IF l.mn \in {"sd", "sw", "sdsp", "swsp"} THEN -disp
                          ELSE IF l.mn \in {"ld", "lw"} /\ disp > 0 THEN -disp
                          ELSE IF adds /\ two THEN -l.ops[2].n
                          ELSE IF adds /\ three THEN -l.ops[3].n ELSE 0
           /\ l.mn # "jalr" => (IsCall(abi, l) <=> l.mn = "call") /\ (IsRet(abi, l) <=> l.mn = "ret")
           /\ ~Resets(abi, l)
<1>1. Rv!MemOperands(l) = MemOperands(l)
  BY DEF Rv!MemOperands, MemOperands, Rv!Operands, Operands, Rv!Range, Range
<1>2. /\ \A i : Rv!IsImm(l, i) <=> IsImm(l, i)
      /\ \A i : Rv!Is(l, i, Rv!Reg("sp")) <=> Is(l, i, Reg("sp"))
  BY DEF Rv!IsImm, IsImm, Rv!Is, Is, Rv!Reg, Reg
<1>3. ~(IsImm(l, 2) /\ Is(l, 2, Reg("sp")))
  BY DEF IsImm, Is, Reg
<1>4. /\ l.mn # "jalr" => (IsCall(abi, l) <=> l.mn = "call") /\ (IsRet(abi, l) <=> l.mn = "ret")
      /\ ~Resets(abi, l)
  BY DEF IsCall, IsRet, Resets, Rv!step, X86
<1>5. Change(abi, l) = Rv!step(l).sp_change
  BY DEF Change
<1>6. CASE l.mn \in {"sd", "sw", "sdsp", "swsp"}
  BY <1>1, <1>4, <1>5, <1>6 DEF Rv!step, Rv!OnStack
<1>7. CASE l.mn \in {"ld", "lw"}
  BY <1>1, <1>4, <1>5, <1>7 DEF Rv!step, Rv!OnStack
<1>8. CASE l.mn \in {"addi", "add", "c.addi", "c.addi16sp"}
  BY <1>2, <1>3, <1>4, <1>5, <1>8 DEF Rv!step
<1>9. CASE l.mn \notin {"sd", "sw", "sdsp", "swsp", "ld", "lw", "addi", "add", "c.addi", "c.addi16sp"}
  BY <1>4, <1>5, <1>9 DEF Rv!step
<1> QED BY <1>6, <1>7, <1>8, <1>9


-----------------------------------------------------------------------------
(* What each instruction of the machine does to the depth of the analyses. *)

\* An operand that is a register is among the registers.
LEMMA IsRegister ==
    ASSUME NEW ins, WellFormed(ins), NEW i \in Nat \ {0}, NEW r, Is(ins, i, Reg(r))
    PROVE  r \in Registers(ins)
<1>1. i \in DOMAIN ins.ops /\ ins.ops[i] = Reg(r)
  BY DEF WellFormed, Is
<1> QED BY <1>1 DEF Registers, Operands, Range, Reg

Still(a, l) == ~Resets(a, l) /\ Change(a, l) = 0 /\ ~IsCall(a, l)

\* The instructions that only stop, trap or compare, and those that return.
Comparisons == {"cmp", "test", "cmn", "tst", "brk", "hlt"}
SystemCalls == {"syscall", "svc", "hvc", "smc", "ecall", "ebreak", "csrr", "csrw"}
ReturnsOf(a) == IF a \in X86 THEN {"ret", "retn", "retf"} ELSE {"ret"}

\* The mnemonic of a lowered instruction.
LEMMA Mnemonics ==
    ASSUME abi \in ABIs, NEW ins, WellFormed(ins), lower(abi, ins) # Unsupported
    PROVE  LET l == lower(abi, ins) IN
           /\ abi \in X86 =>
                /\ l.mn = ins.mn
                /\ ins.mn \notin {"bl", "jal"} \cup (SystemCalls \ {"syscall"}) \cup (Comparisons \ {"cmp", "test"})
           /\ abi = "Aapcs64" =>
                /\ ins.mn \notin {"push", "pop", "call", "jal", "test"} \cup (SystemCalls \ {"svc", "hvc", "smc"})
                /\ ins.mn \in Arithmetic \cup Comparisons \cup SystemCalls \cup {"ret", "bl"} => l.mn = ins.mn
                /\ ins.mn \in {"mov", "movz", "movk", "movn"} => l.mn \in {"mov", "movz", "movk", "movn"}
                /\ ins.mn \in Loads \cup Stores => l.mn = IF MemOperands(ins) = {} THEN "mov" ELSE ins.mn
           /\ abi = "Riscv" =>
                /\ ins.mn \notin {"push", "pop", "call", "bl", "syscall", "svc", "hvc", "smc"} \cup Comparisons
                /\ ins.mn \in Arithmetic \cup {"slt", "sltu", "slti", "sltiu"} \cup SystemCalls \cup {"ret"}
                      => l.mn = ins.mn
                /\ ins.mn \in {"mv", "li"} => l.mn \in {"mv", "li"}
                /\ ins.mn \in Loads \cup Stores => l.mn = IF MemOperands(ins) = {} THEN "mv" ELSE ins.mn
                /\ ins.mn = "jal" => l.mn = "call"
<1> DEFINE l == lower(abi, ins)
<1>1. CASE abi \in X86
  <2>1. l.mn = ins.mn /\ Sysv!KindOf(ins.mn) # "Unsupported"
    BY <1>1, X86Shape
  <2>2. \A mn \in {"bl", "jal"} \cup (SystemCalls \ {"syscall"}) \cup (Comparisons \ {"cmp", "test"}) :
            Sysv!KindOf(mn) = "Unsupported"
    BY DEF Sysv!KindOf, Sysv!classify_cmov, Sysv!ConditionalMoves, SystemCalls, Comparisons
  <2>3. abi # "Aapcs64" /\ abi # "Riscv"
    BY <1>1 DEF X86
  <2> QED BY <2>1, <2>2, <2>3, Zenon
<1>2. CASE abi = "Aapcs64"
  <2> DEFINE kind == Arm!classify(ins.mn)
  <2>1. /\ kind # "Unsupported"
        /\ l.mn = IF kind \in {"Load", "Store"} /\ MemOperands(ins) = {} THEN "mov"
                  ELSE IF kind = "Return" THEN "ret"
                  ELSE IF kind = "Call" THEN "bl" ELSE ins.mn
    BY <1>2, ArmShape
  <2>2. abi \notin X86 /\ abi # "Riscv"
    BY <1>2 DEF X86
  <2>3. \A mn \in {"push", "pop", "call", "jal", "test"} \cup (SystemCalls \ {"svc", "hvc", "smc"}) :
            Arm!classify(mn) = "Unsupported"
    BY DEF Arm!classify, SystemCalls
  <2>4. ASSUME ins.mn \in Arithmetic \cup Comparisons \cup SystemCalls \cup {"ret", "bl"} PROVE l.mn = ins.mn
    <3>1. \/ Arm!classify(ins.mn) \in {"Binary", "Compare", "Unknown", "Unsupported"}
          \/ Arm!classify(ins.mn) = "Return" /\ ins.mn = "ret"
          \/ Arm!classify(ins.mn) = "Call" /\ ins.mn = "bl"
      BY <2>2, <2>4 DEF Arm!classify, SystemCalls, Comparisons, Arithmetic
    <3> QED BY <2>1, <3>1
  <2>5. ASSUME ins.mn \in {"mov", "movz", "movk", "movn"} PROVE l.mn \in {"mov", "movz", "movk", "movn"}
    <3>1. Arm!classify(ins.mn) = "Store"
      BY <2>5 DEF Arm!classify
    <3> QED BY <2>1, <2>5, <3>1
  <2>6. ASSUME ins.mn \in Loads \cup Stores PROVE l.mn = IF MemOperands(ins) = {} THEN "mov" ELSE ins.mn
    <3>1. Arm!classify(ins.mn) \in {"Load", "Store"}
      BY <1>2, <2>2, <2>6 DEF Arm!classify, Loads, Stores
    <3> QED BY <2>1, <3>1
  <2> QED BY <2>1, <2>2, <2>3, <2>4, <2>5, <2>6, Zenon
<1>3. CASE abi = "Riscv"
  <2> DEFINE kind == Rv!classify(ins.mn)
  <2>1. /\ kind # "Unsupported"
        /\ l.mn = IF kind \in {"Load", "Store"} /\ MemOperands(ins) = {} THEN "mv"
                  ELSE IF kind = "Return" THEN "ret"
                  ELSE IF kind = "Call" THEN "call" ELSE ins.mn
    BY <1>3, RvShape
  <2>2. abi \notin X86 /\ abi # "Aapcs64"
    BY <1>3 DEF X86
  <2>3. \A mn \in {"push", "pop", "call", "bl", "syscall", "svc", "hvc", "smc"} \cup Comparisons :
            Rv!classify(mn) = "Unsupported"
    BY DEF Rv!classify, Comparisons
  <2>4. ASSUME ins.mn \in Arithmetic \cup {"slt", "sltu", "slti", "sltiu"} \cup SystemCalls \cup {"ret"}
        PROVE  l.mn = ins.mn
    <3>1. \/ Rv!classify(ins.mn) \in {"Binary", "Compare", "Unknown", "Unsupported"}
          \/ Rv!classify(ins.mn) = "Return" /\ ins.mn = "ret"
      BY <1>3, <2>2, <2>4 DEF Rv!classify, SystemCalls, Arithmetic
    <3> QED BY <2>1, <3>1
  <2>5. ASSUME ins.mn \in {"mv", "li"} PROVE l.mn \in {"mv", "li"}
    <3>1. Rv!classify(ins.mn) = "Store"
      BY <2>5 DEF Rv!classify
    <3> QED BY <2>1, <2>5, <3>1
  <2>6. ASSUME ins.mn \in Loads \cup Stores PROVE l.mn = IF MemOperands(ins) = {} THEN "mv" ELSE ins.mn
    <3>1. Rv!classify(ins.mn) \in {"Load", "Store"}
      BY <1>3, <2>2, <2>6 DEF Rv!classify, Loads, Stores
    <3> QED BY <2>1, <3>1
  <2>7. ASSUME ins.mn = "jal" PROVE l.mn = "call"
    <3>1. Rv!classify(ins.mn) = "Call"
      BY <2>7 DEF Rv!classify
    <3> QED BY <2>1, <3>1
  <2> QED BY <2>1, <2>2, <2>3, <2>4, <2>5, <2>6, <2>7, Zenon
<1> QED BY <1>1, <1>2, <1>3 DEF ABIs

\* Computations away from the stack pointer, literal loads, copies other than
\* mov rsp, rbp, comparisons, system calls and returns leave the depth alone.
LEMMA StillInstructions ==
    ASSUME abi \in ABIs, NEW ins, WellFormed(ins), lower(abi, ins) # Unsupported,
           \/ ins.mn \in Computations /\ ~Is(ins, 1, Reg(StackPointer))
           \/ ins.mn \in Loads /\ MemOperands(ins) = {}
           \/ /\ ins.mn \in Copies
              /\ ~(abi \in X86 /\ Is(ins, 1, Reg("rsp")) /\ Is(ins, 2, Reg("rbp")))
           \/ ins.mn \in Comparisons \cup SystemCalls \cup ReturnsOf(abi)
    PROVE  Still(abi, lower(abi, ins))
<1> DEFINE l == lower(abi, ins)
<1>1. \A i \in Nat \ {0} : \A r : Is(l, i, Reg(r)) <=> Is(ins, i, Reg(r))
  BY RegistersKept
<1> HIDE DEF l
<1>2. CASE abi \in X86
  <2>1. l.mn = ins.mn /\ StackPointer = "rsp" /\ abi # "Aapcs64" /\ abi # "Riscv"
    BY <1>2, Mnemonics DEF StackPointer, l, X86
  <2>2. l.mn \notin {"push", "pop", "call"}
    BY <1>2, <2>1 DEF Computations, Loads, Copies, Arithmetic, Sysv!ConditionalMoves, Comparisons, SystemCalls,
                      ReturnsOf
  <2>3. l.mn \in {"sub", "add"} => ~Is(ins, 1, Reg("rsp"))
    BY <1>2, <2>1 DEF Loads, Copies, Comparisons, SystemCalls, ReturnsOf
  <2>4. l.mn \in {"mov", "movabs"} => ~(Is(ins, 1, Reg("rsp")) /\ Is(ins, 2, Reg("rbp")))
    BY <1>2, <2>1 DEF Loads, Comparisons, SystemCalls, ReturnsOf
  <2>5. 1 \in Nat \ {0} /\ 2 \in Nat \ {0}
    OBVIOUS
  <2> QED BY <1>1, <1>2, <2>2, <2>3, <2>4, <2>5, X86Step DEF Still, l
<1>3. CASE abi = "Aapcs64"
  <2>1. StackPointer = "sp" /\ abi \notin X86
    BY <1>3 DEF StackPointer, X86
  <2>2. l.mn \in {"mov", "movz", "movk", "movn"} \cup Arithmetic \cup Comparisons \cup SystemCalls \cup {"ret"}
    BY <1>3, <2>1, Mnemonics DEF l, Computations, Copies, ReturnsOf
  <2>3. l.mn \in {"add", "sub"} => ~Is(l, 1, Reg("sp"))
    <3>1. l.mn \in {"add", "sub"} => ins.mn \in {"add", "sub"}
      BY <1>3, <2>1, Mnemonics DEF l, Computations, Copies, ReturnsOf, Comparisons, SystemCalls
    <3>2. ins.mn \in {"add", "sub"} => ~Is(ins, 1, Reg("sp"))
      BY <1>3, <2>1 DEF Loads, Copies, Comparisons, SystemCalls, ReturnsOf
    <3> QED BY <1>1, <3>1, <3>2
  <2>4. l.mn \notin {"str", "stp", "ldr", "ldp", "bl"}
    BY <1>3, <2>1, <2>2 DEF Arithmetic, Comparisons, SystemCalls
  <2> QED BY <1>3, <2>3, <2>4, ArmStep DEF Still, l
<1>4. CASE abi = "Riscv"
  <2>1. StackPointer = "sp" /\ abi \notin X86
    BY <1>4 DEF StackPointer, X86
  <2>2. l.mn \in {"mv", "li", "slt", "sltu", "slti", "sltiu"} \cup Arithmetic \cup SystemCalls \cup {"ret"}
    BY <1>4, <2>1, Mnemonics DEF l, Computations, Copies, ReturnsOf
  <2>3. l.mn \in {"add", "addi"} => ~Is(l, 1, Reg("sp"))
    <3>1. l.mn \in {"add", "addi"} => ins.mn \in {"add", "addi"}
      BY <1>4, <2>1, Mnemonics DEF l, Computations, Copies, ReturnsOf, SystemCalls
    <3>2. ins.mn \in {"add", "addi"} => ~Is(ins, 1, Reg("sp"))
      BY <1>4, <2>1 DEF Loads, Copies, Comparisons, SystemCalls, ReturnsOf
    <3> QED BY <1>1, <3>1, <3>2
  <2>4. l.mn \notin {"sd", "sw", "sdsp", "swsp", "ld", "lw", "c.addi", "c.addi16sp", "jalr", "call"}
    BY <1>4, <2>1, <2>2 DEF Arithmetic, SystemCalls
  <2> QED BY <1>4, <2>3, <2>4, RvStep DEF Still, l
<1> QED BY <1>2, <1>3, <1>4 DEF ABIs, l


\* Pushes and pops move the depth by eight bytes.
LEMMA PushPop ==
    ASSUME abi \in ABIs, NEW ins, WellFormed(ins), lower(abi, ins) # Unsupported, ins.mn \in {"push", "pop"}
    PROVE  LET l == lower(abi, ins) IN
           abi \in X86 /\ ~Resets(abi, l) /\ ~IsCall(abi, l) /\ Change(abi, l) = IF ins.mn = "push" THEN 8 ELSE -8
<1>1. abi \in X86
  BY Mnemonics DEF ABIs
<1>2. lower(abi, ins).mn = ins.mn
  BY <1>1, Mnemonics
<1> QED BY <1>1, <1>2, X86Step

\* mov rsp, rbp resets the depth.
LEMMA FrameReset ==
    ASSUME abi \in X86, NEW ins, WellFormed(ins), lower(abi, ins) # Unsupported, ins.mn \in Copies,
           Is(ins, 1, Reg("rsp")), Is(ins, 2, Reg("rbp"))
    PROVE  Resets(abi, lower(abi, ins)) /\ ~IsCall(abi, lower(abi, ins))
<1>1. lower(abi, ins).mn \in {"mov", "movabs"} /\ abi \in ABIs
  <2>1. abi \in ABIs
    BY DEF ABIs
  <2>2. ins.mn \in {"mov", "movabs"}
    BY DEF Copies, X86
  <2> QED BY <2>1, <2>2, Mnemonics
<1>2. Is(lower(abi, ins), 1, Reg("rsp")) /\ Is(lower(abi, ins), 2, Reg("rbp"))
  <2>1. 1 \in Nat \ {0} /\ 2 \in Nat \ {0}
    OBVIOUS
  <2> QED BY <1>1, <2>1, RegistersKept
<1> QED BY <1>1, <1>2, X86Step

\* A call is read as a call, on every ABI, and moves nothing.
LEMMA Calls ==
    ASSUME abi \in ABIs, NEW ins, WellFormed(ins), lower(abi, ins) # Unsupported,
           ins.mn \in {"call", "bl", "jal"}
    PROVE  LET l == lower(abi, ins) IN IsCall(abi, l) /\ ~Resets(abi, l) /\ Change(abi, l) = 0
<1>1. CASE abi \in X86
  BY <1>1, Mnemonics, X86Step
<1>2. CASE abi = "Aapcs64"
  BY <1>2, Mnemonics, ArmStep
<1>3. CASE abi = "Riscv"
  BY <1>3, Mnemonics, RvStep
<1> QED BY <1>1, <1>2, <1>3 DEF ABIs

\* Adding an immediate to the stack pointer moves the depth by it.
LEMMA Adjusts ==
    ASSUME abi \in ABIs, NEW ins, WellFormed(ins), lower(abi, ins) # Unsupported, AddsImmediate(ins)
    PROVE  LET l == lower(abi, ins)
               n == ins.ops[Len(ins.ops)].n
           IN  /\ n \in Int /\ ~Resets(abi, l) /\ ~IsCall(abi, l)
               /\ Change(abi, l) = IF ins.mn = "sub" THEN n ELSE -n
<1> DEFINE l == lower(abi, ins)
           n == ins.ops[Len(ins.ops)].n
<1>1. /\ ins.mn \in (IF abi = "Riscv" THEN {"addi"} ELSE {"sub", "add"})
      /\ Len(ins.ops) = IF abi \in X86 THEN 2 ELSE 3
      /\ ins.ops[Len(ins.ops)].t = "imm"
      /\ \A i \in 1..(Len(ins.ops) - 1) : ins.ops[i] = Reg(StackPointer)
  BY DEF AddsImmediate, IsImm, Is
<1>2. DOMAIN ins.ops = 1..Len(ins.ops) /\ \A i \in DOMAIN ins.ops : ins.ops[i] \in DecodedOperands
  BY DEF WellFormed
<1>3. n \in Int
  BY <1>1, <1>2, OperandTypes
<1>4. MemOperands(ins) = {}
  <2>1. \A i \in DOMAIN ins.ops : ins.ops[i].t # "mem"
    BY <1>1, <1>2 DEF Reg
  <2> QED BY <2>1 DEF MemOperands, Operands, Range
<1>5. /\ Len(l.ops) = Len(ins.ops) /\ l.mn = ins.mn
      /\ \A i \in DOMAIN ins.ops : Keeps(ins.ops[i], l.ops[i])
  BY <1>1, <1>4, Shape, Mnemonics DEF ABIs, Arithmetic, X86
<1>6. \A i \in DOMAIN ins.ops : l.ops[i] = ins.ops[i]
  BY <1>1, <1>2, <1>5 DEF Keeps, Reg
<1> HIDE DEF l
<1>7. CASE abi \in X86
  <2>1. StackPointer = "rsp" /\ abi # "Riscv"
    BY <1>7 DEF StackPointer, X86
  <2>2. l.ops[1] = Reg("rsp") /\ l.ops[2] = ins.ops[2] /\ Len(l.ops) = 2 /\ l.ops[2].t = "imm"
    BY <1>1, <1>2, <1>5, <1>6, <1>7, <2>1
  <2>3. Is(l, 1, Reg("rsp")) /\ IsImm(l, 2) /\ l.ops[2].n = n
    BY <1>1, <1>7, <2>2 DEF Is, IsImm
  <2> QED BY <1>1, <1>3, <1>5, <1>7, <2>1, <2>3, X86Step DEF l
<1>8. CASE abi \notin X86
  <2>1. StackPointer = "sp"
    BY <1>8 DEF StackPointer
  <2>2. /\ l.ops[1] = Reg("sp") /\ l.ops[2] = Reg("sp") /\ l.ops[3] = ins.ops[3] /\ Len(l.ops) = 3
        /\ l.ops[3].t = "imm"
    BY <1>1, <1>2, <1>5, <1>6, <1>8, <2>1
  <2>3. /\ Is(l, 1, Reg("sp")) /\ Is(l, 2, Reg("sp")) /\ IsReg(l, 2) /\ ~IsImm(l, 2)
        /\ IsImm(l, 3) /\ l.ops[3].n = n
    BY <1>1, <1>8, <2>2 DEF Is, IsImm, IsReg, Reg
  <2>4. CASE abi = "Aapcs64"
    BY <1>1, <1>3, <1>5, <2>3, <2>4, ArmStep DEF l
  <2>5. CASE abi = "Riscv"
    BY <1>1, <1>3, <1>5, <2>3, <2>5, RvStep DEF l
  <2> QED BY <1>8, <2>4, <2>5 DEF ABIs
<1> QED BY <1>7, <1>8


\* The displacement of memory operands that all have the same one.
LEMMA SameDisplacement ==
    ASSUME NEW S, S # {}, \A m \in S : m.disp = 0
    PROVE  Arm!Displacement(S) = 0 /\ Rv!Displacement(S) = 0
<1>1. (CHOOSE op \in S : TRUE) \in S
  BY Zenon
<1> QED BY <1>1, Zenon DEF Arm!Displacement, Rv!Displacement

\* The memory operand of a store or a load: x86 names the destination first.
Place == IF abi \in X86 THEN 1 ELSE 2

\* An access of AArch64 or RISC-V keeps its memory operand, the only one.
LEMMA LoweredAccess ==
    ASSUME abi \in ABIs, abi \notin X86, NEW ins, WellFormed(ins), lower(abi, ins) # Unsupported,
           ins.mn \in Loads \cup Stores, IsMem(ins, 2)
    PROVE  LET l == lower(abi, ins) IN
           /\ l.mn = ins.mn /\ MemOperands(l) = {l.ops[2]} /\ l.ops[2].base = ins.ops[2].base
           /\ abi = "Aapcs64" => l.ops[2].disp = 0
           /\ abi = "Riscv" => l.ops[2].disp = ins.ops[2].disp
           /\ MemOperands(ins) # {} /\ ins.ops[1].t = "reg" /\ Len(ins.ops) = 2
<1> DEFINE l == lower(abi, ins)
<1>1. ins.mn \in StoreMnemonics \cup LoadMnemonics
  BY DEF Loads, Stores, StoreMnemonics, LoadMnemonics, ABIs
<1>2. /\ Len(ins.ops) = 2 /\ ins.ops[1].t = "reg" /\ ins.ops[2].t = "mem"
      /\ DOMAIN ins.ops = {1, 2} /\ \A i \in DOMAIN ins.ops : ins.ops[i] \in DecodedOperands
  BY <1>1 DEF WellFormed, IsMem
<1>3. ins.ops[2] \in MemOperands(ins)
  BY <1>2 DEF MemOperands, Operands, Range
<1>4. l.mn = ins.mn
  BY <1>3, Mnemonics DEF ABIs
<1>5. /\ DOMAIN l.ops = 1..Len(l.ops) /\ Len(l.ops) \in Nat
      /\ \A i \in DOMAIN ins.ops : Keeps(ins.ops[i], l.ops[i])
      /\ \A i \in DOMAIN l.ops : i \notin DOMAIN ins.ops => l.ops[i].t = "imm"
      /\ Len(ins.ops) <= Len(l.ops)
  BY Shape
<1>6. /\ l.ops[2].base = ins.ops[2].base
      /\ abi = "Aapcs64" => l.ops[2].disp = 0
      /\ abi = "Riscv" => l.ops[2].disp = ins.ops[2].disp
  <2>1. CASE abi = "Aapcs64"
    BY <1>2, <2>1, ArmShape
  <2>2. CASE abi = "Riscv"
    BY <1>2, <2>2, RvShape
  <2> QED BY <2>1, <2>2 DEF ABIs
<1> HIDE DEF l
<1>7. MemOperands(l) = {l.ops[2]}
  <2>1. l.ops[1].t = "reg" /\ l.ops[2].t = "mem" /\ 2 \in DOMAIN l.ops
    BY <1>2, <1>5 DEF Keeps
  <2>2. \A i \in DOMAIN l.ops : l.ops[i].t = "mem" => i = 2
    BY <1>2, <1>5, <2>1
  <2> QED BY <2>1, <2>2 DEF MemOperands, Operands, Range
<1> QED BY <1>2, <1>3, <1>4, <1>6, <1>7 DEF l

\* An access that the analysis reads as it is performed moves neither the depth
\* nor the stack pointer.
LEMMA Accesses ==
    ASSUME abi \in ABIs, NEW ins, WellFormed(ins), lower(abi, ins) # Unsupported, sp \in Int,
           ins.mn \in Loads \cup Stores, IsMem(ins, Place), ReadRight(ins, ins.ops[Place])
    PROVE  Still(abi, lower(abi, ins)) /\ SpAfter(ins.ops[Place]) = sp
<1> DEFINE l == lower(abi, ins)
<1>1. SpAfter(ins.ops[Place]) = sp
  BY DEF SpAfter, ReadRight
<1>2. CASE abi \in X86
  <2>1. l.mn = ins.mn /\ ins.mn \notin {"push", "pop", "call"}
    BY <1>2, Mnemonics DEF Loads, Stores, Copies, Arithmetic, X86
  <2>2. 1 \in Nat \ {0} /\ 2 \in Nat \ {0}
    OBVIOUS
  <2>3. ~Is(ins, 1, Reg("rsp"))
    BY <1>2 DEF Is, IsMem, Place, Reg
  <2>4. ~Is(l, 1, Reg("rsp"))
    BY <2>2, <2>3, RegistersKept
  <2> HIDE DEF l
  <2>5. Still(abi, l)
    BY <1>2, <2>1, <2>4, X86Step DEF Still
  <2> QED BY <1>1, <2>5 DEF l
<1>3. CASE abi \notin X86
  <2>1. Place = 2
    BY <1>3 DEF Place
  <2>2. /\ l.mn = ins.mn /\ MemOperands(l) = {l.ops[2]} /\ l.ops[2].base = ins.ops[2].base
        /\ abi = "Aapcs64" => l.ops[2].disp = 0
        /\ abi = "Riscv" => l.ops[2].disp = ins.ops[2].disp
    BY <1>3, <2>1, LoweredAccess
  <2> HIDE DEF l
  <2>3. Still(abi, l)
    <3>1. CASE abi = "Aapcs64"
      <4>1. l.mn \notin {"add", "sub", "bl"}
        BY <2>2, <3>1 DEF Loads, Stores, X86
      <4>2. Arm!Displacement(MemOperands(l)) = 0
        BY <2>2, <3>1, SameDisplacement
      <4> QED BY <3>1, <4>1, <4>2, ArmStep DEF Still
    <3>2. CASE abi = "Riscv"
      <4>1. l.mn \notin {"addi", "add", "c.addi", "c.addi16sp", "sdsp", "swsp", "jalr", "call"}
        BY <2>2, <3>2 DEF Loads, Stores, X86
      <4>2. CASE l.ops[2].base # "sp"
        BY <2>2, <3>2, <4>1, <4>2, RvStep DEF Still
      <4>3. CASE l.ops[2].base = "sp" /\ l.mn \in {"sd", "sw", "ld", "lw"}
        <5>1. l.ops[2].disp = 0
          BY <1>3, <2>1, <2>2, <3>2, <4>3 DEF ReadRight, StackPointer
        <5>2. Rv!Displacement(MemOperands(l)) = 0
          BY <2>2, <5>1, SameDisplacement
        <5> QED BY <3>2, <4>1, <5>2, RvStep DEF Still
      <4>4. CASE l.mn \notin {"sd", "sw", "ld", "lw"}
        BY <3>2, <4>1, <4>4, RvStep DEF Still
      <4> QED BY <4>2, <4>3, <4>4
    <3> QED BY <1>3, <3>1, <3>2 DEF ABIs
  <2> QED BY <1>1, <2>3 DEF l
<1> QED BY <1>2, <1>3


-----------------------------------------------------------------------------
(* Types. *)

\* A value that may be a depth of the stack.
IsValue(v) == v.n \in Int
Histories == [exact : BOOLEAN, lifo : BOOLEAN, adjusted : SUBSET STRING, aligned : BOOLEAN,
              stored : BOOLEAN, popped : BOOLEAN, framed : BOOLEAN, syscall : BOOLEAN]

\* A body is made of decoded instructions, and judged once it has returned.
Typed ==
    /\ abi \in ABIs
    /\ \A ins \in code : WellFormed(ins)
    /\ body \in Seq(code)
    /\ sp \in Int
    /\ DOMAIN reg = Nonvolatile \cup {Link} /\ \A r \in DOMAIN reg : IsValue(reg[r])
    /\ \A d \in DOMAIN slot : IsValue(slot[d])
    /\ seen \in Histories
    /\ gate # "run" => body # <<>> /\ body[Len(body)].mn \in ReturnsOf(abi)

\* A step of the machine.
Executes(ins) ==
    \/ Push(ins) \/ Pop(ins) \/ AdjustStack(ins) \/ RestoreFrame(ins) \/ MoveStack(ins)
    \/ Compute(ins) \/ Compare(ins) \/ Load(ins) \/ Store(ins)
    \/ Call(ins) \/ SystemCall(ins) \/ Unmodelled(ins) \/ Return(ins)

\* A step of the gates: the execution is over.
Judges ==
    \/ lower_instructions
    \/ check_x86_abi_capability \/ check_aarch64_abi_capability \/ check_riscv_abi_capability
    \/ check_read_only_buffer_leaf

\* A step executes an instruction, judges the body or changes nothing.
LEMMA Steps ==
    ASSUME [Next]_vars
    PROVE  \/ \E ins \in code : Executes(ins)
           \/ Judges
           \/ UNCHANGED vars
BY Zenon DEF Next, Execute, Executes, Judges, Verdict

\* The gates leave the machine and its history alone.
LEMMA JudgesKeep ==
    ASSUME Judges
    PROVE  /\ gate \in {"lowering", "abi", "memory"}
           /\ gate' # "run"
           /\ UNCHANGED <<abi, code, maxBody, body, sp, reg, slot, seen>>
BY SMTT(30) DEF Judges, lower_instructions, check_x86_abi_capability, check_aarch64_abi_capability,
       check_riscv_abi_capability, check_read_only_buffer_leaf, Proceed, input, machine

\* The instruction is appended to the body, which is over with a return.
LEMMA ExecutesRuns ==
    ASSUME NEW ins, Executes(ins)
    PROVE  /\ gate = "run" /\ body' = Append(body, ins)
           /\ UNCHANGED <<abi, code, maxBody, readOnly, lowered>>
           /\ gate' = "run" \/ (gate' = "lowering" /\ ins.mn \in ReturnsOf(abi))
BY DEF Executes, Push, Pop, AdjustStack, RestoreFrame, MoveStack, Compute, Compare, Load, Store,
       Call, SystemCall, Unmodelled, Return, Runs, input, ReturnsOf, Sysv!Returns

\* What is read from a register or a slot is a value.
LEMMA ReadsTyped ==
    ASSUME Typed
    PROVE  /\ \A r : IsValue(Read(r)) /\ IsValue(EntryValue(r))
           /\ \A d : IsValue(SlotAt(d))
           /\ IsValue(Data)
           /\ \A n \in Int : IsValue(Depth(n))
           /\ \A v, n : IsValue(v) /\ n \in Int => IsValue(Shifted(v, n))
<1>1. IsValue(Data) /\ (\A n \in Int : IsValue(Depth(n))) /\ \A r : IsValue(EntryValue(r))
  BY DEF Data, Depth, EntryValue, Value, IsValue
<1>2. sp \in Int
  BY DEF Typed
<1>3. \A d : IsValue(SlotAt(d))
  BY <1>1 DEF Typed, SlotAt
<1>4. \A r : IsValue(Read(r))
  <2>1. \A r \in DOMAIN reg : IsValue(reg[r])
    BY DEF Typed
  <2> QED BY <1>1, <1>2, <2>1 DEF Read
<1>5. ASSUME NEW v, NEW n \in Int, IsValue(v) PROVE IsValue(Shifted(v, n))
  <2>1. v.n - n \in Int
    BY <1>5 DEF IsValue
  <2> QED BY <1>1, <2>1 DEF Shifted
<1> QED BY <1>1, <1>3, <1>4, <1>5

\* What is written to a register or a slot keeps the machine typed.
LEMMA WritesTyped ==
    ASSUME Typed, NEW v, IsValue(v)
    PROVE  /\ \A r : DOMAIN Written(r, v) = DOMAIN reg /\ \A x \in DOMAIN reg : IsValue(Written(r, v)[x])
           /\ \A d : \A x \in DOMAIN SlotsWith(d, v) : IsValue(SlotsWith(d, v)[x])
BY DEF Typed, Written, SlotsWith

\* Operands of a decoded instruction.
LEMMA OperandOf ==
    ASSUME NEW ins, WellFormed(ins), NEW i \in Nat \ {0}
    PROVE  /\ IsReg(ins, i) => ins.ops[i] = Reg(ins.ops[i].r) /\ ins.ops[i].r \in STRING
           /\ IsImm(ins, i) => ins.ops[i].n \in Int
           /\ i <= Len(ins.ops) => i \in DOMAIN ins.ops /\ ins.ops[i] \in DecodedOperands
<1>1. i <= Len(ins.ops) => i \in DOMAIN ins.ops /\ ins.ops[i] \in DecodedOperands
  BY DEF WellFormed
<1> QED BY <1>1, OperandTypes DEF IsReg, IsImm


\* The memory operand of an access.
LEMMA MemoryOperand ==
    ASSUME NEW ins, WellFormed(ins), NEW i \in Nat \ {0}, IsMem(ins, i)
    PROVE  /\ ins.ops[i] \in MemOperands(ins)
           /\ ins.ops[i].disp \in Int /\ ins.ops[i].base \in STRING
<1>1. i \in DOMAIN ins.ops /\ ins.ops[i] \in DecodedOperands /\ ins.ops[i].t = "mem"
  BY OperandOf DEF IsMem
<1>2. ins.ops[i] \in MemOperands(ins)
  BY <1>1 DEF MemOperands, Operands, Range
<1> QED BY <1>1, <1>2, OperandTypes

\* The address of an access, what it loads and how it leaves its base.
LEMMA AccessTyped ==
    ASSUME Typed, NEW m, m.disp \in Int, m.base \in STRING
    PROVE  /\ IsValue(Address(m)) /\ IsValue(Loaded(m)) /\ SpAfter(m) \in Int
           /\ DOMAIN BaseAfter(m) = DOMAIN reg /\ \A r \in DOMAIN reg : IsValue(BaseAfter(m)[r])
           /\ BaseAdjusted(m) \subseteq STRING
<1>1. /\ \A r : IsValue(Read(r))
      /\ \A d : IsValue(SlotAt(d))
      /\ IsValue(Data)
      /\ \A v, n : IsValue(v) /\ n \in Int => IsValue(Shifted(v, n))
  BY ReadsTyped
<1>2. IsValue(Address(m))
  <2>1. (IF m.mode = "post" THEN 0 ELSE m.disp) \in Int
    OBVIOUS
  <2> QED BY <1>1, <2>1 DEF Address
<1>3. IsValue(Loaded(m))
  BY <1>1 DEF Loaded
<1>4. SpAfter(m) \in Int
  BY DEF SpAfter, Typed
<1>5. DOMAIN BaseAfter(m) = DOMAIN reg /\ \A r \in DOMAIN reg : IsValue(BaseAfter(m)[r])
  <2>1. IsValue(Shifted(Read(m.base), m.disp))
    BY <1>1
  <2>2. \A r \in DOMAIN reg : IsValue(reg[r])
    BY DEF Typed
  <2> QED BY <2>1, <2>2, WritesTyped DEF BaseAfter
<1>6. BaseAdjusted(m) \subseteq STRING
  BY DEF BaseAdjusted
<1> QED BY <1>2, <1>3, <1>4, <1>5, <1>6

\* The result of a computation is a value.
LEMMA ResultTyped ==
    ASSUME Typed, NEW ins, WellFormed(ins)
    PROVE  IsValue(Result(ins)) /\ IsValue(StoredValue(ins))
<1>1. /\ \A r : IsValue(Read(r))
      /\ IsValue(Data)
      /\ \A v, n : IsValue(v) /\ n \in Int => IsValue(Shifted(v, n))
  BY ReadsTyped
<1>2. IsMem(ins, 2) => IsValue(Loaded(ins.ops[2])) /\ IsValue(Address(ins.ops[2]))
  <2>1. 2 \in Nat \ {0}
    OBVIOUS
  <2> QED BY <2>1, MemoryOperand, AccessTyped
<1>3. IsImm(ins, 3) => ins.ops[3].n \in Int
  <2>1. 3 \in Nat \ {0}
    OBVIOUS
  <2> QED BY <2>1, OperandOf
<1>4. IsReg(ins, 2) /\ IsImm(ins, 3) => IsValue(Shifted(Read(ins.ops[2].r), ins.ops[3].n))
  BY <1>1, <1>3
<1>5. IsValue(Result(ins))
  BY <1>1, <1>2, <1>4, Zenon DEF Result
<1>6. IsValue(StoredValue(ins))
  BY <1>1, Zenon DEF StoredValue
<1> QED BY <1>5, <1>6

\* Every instruction keeps the machine and its history typed.
LEMMA MachineTyped ==
    ASSUME Typed, NEW ins \in code, Executes(ins)
    PROVE  /\ sp' \in Int
           /\ DOMAIN reg' = DOMAIN reg /\ \A r \in DOMAIN reg' : IsValue(reg'[r])
           /\ \A d \in DOMAIN slot' : IsValue(slot'[d])
           /\ seen' \in Histories
<1>1. WellFormed(ins) /\ sp \in Int /\ seen \in Histories
  BY DEF Typed
<1>2. \A r \in DOMAIN reg : IsValue(reg[r])
  BY DEF Typed
<1>3. \A d \in DOMAIN slot : IsValue(slot[d])
  BY DEF Typed
<1>4. /\ \A r : IsValue(Read(r))
      /\ \A d : IsValue(SlotAt(d))
      /\ IsValue(Data) /\ IsValue(Depth(sp))
  BY <1>1, ReadsTyped
<1>5. \A v : IsValue(v) =>
        /\ \A r : DOMAIN Written(r, v) = DOMAIN reg /\ \A x \in DOMAIN reg : IsValue(Written(r, v)[x])
        /\ \A d : \A x \in DOMAIN SlotsWith(d, v) : IsValue(SlotsWith(d, v)[x])
  BY WritesTyped
<1>6. /\ \A i \in {1, 2} : IsReg(ins, i) => ins.ops[i].r \in STRING
      /\ IsImm(ins, 1) => ins.ops[1].n \in Int
      /\ IsImm(ins, Len(ins.ops)) /\ Len(ins.ops) # 0 => ins.ops[Len(ins.ops)].n \in Int
  <2>1. Len(ins.ops) \in Nat
    BY <1>1 DEF WellFormed
  <2> QED BY <1>1, <2>1, OperandOf
<1>7. \A i \in {1, 2} : IsMem(ins, i) => ins.ops[i].disp \in Int /\ ins.ops[i].base \in STRING
  BY <1>1, MemoryOperand
<1>8. CASE Push(ins)
  <2>1. sp' = sp + 8 /\ UNCHANGED <<reg, seen>>
    BY <1>8 DEF Push
  <2>2. PICK v, d : slot' = SlotsWith(d, v) /\ IsValue(v)
    <3>1. PICK v : v = IF IsReg(ins, 1) THEN Read(ins.ops[1].r) ELSE Data
      BY Zenon
    <3>2. IsValue(v)
      BY <1>4, <3>1
    <3> QED BY <1>8, <3>1, <3>2 DEF Push
  <2> QED BY <1>1, <1>2, <1>5, <2>1, <2>2
<1>9. CASE Pop(ins)
  <2>1. sp' = sp - 8 /\ UNCHANGED slot
    BY <1>9 DEF Pop
  <2>2. CASE IsReg(ins, 1)
    <3>1. /\ reg' = Written(ins.ops[1].r, SlotAt(sp))
          /\ seen' = [seen EXCEPT !.lifo = @ /\ (ins.ops[1].r \in Nonvolatile
                                                   => SlotAt(sp) = EntryValue(ins.ops[1].r)),
                                  !.adjusted = @ \ {ins.ops[1].r}]
      BY <1>9, <2>2 DEF Pop
    <3>2. seen' \in Histories
      BY <1>1, <3>1 DEF Histories
    <3>3. DOMAIN reg' = DOMAIN reg /\ \A x \in DOMAIN reg' : IsValue(reg'[x])
      BY <1>4, <1>5, <3>1
    <3> QED BY <1>1, <1>3, <2>1, <3>2, <3>3
  <2>3. CASE ~IsReg(ins, 1)
    <3>1. seen' = [seen EXCEPT !.stored = TRUE, !.popped = TRUE] /\ UNCHANGED reg
      BY <1>9, <2>3 DEF Pop
    <3>2. seen' \in Histories
      BY <1>1, <3>1 DEF Histories
    <3> QED BY <1>1, <1>2, <1>3, <2>1, <3>1, <3>2
  <2> QED BY <2>2, <2>3
<1>10. CASE AdjustStack(ins)
  <2>1. /\ UNCHANGED <<reg, slot, seen>> /\ IsImm(ins, Len(ins.ops)) /\ Len(ins.ops) # 0
        /\ sp' = IF ins.mn = "sub" THEN sp + ins.ops[Len(ins.ops)].n ELSE sp - ins.ops[Len(ins.ops)].n
    BY <1>10 DEF AdjustStack, AddsImmediate
  <2> QED BY <1>1, <1>2, <1>3, <1>6, <2>1
<1>11. CASE RestoreFrame(ins)
  <2>1. UNCHANGED <<reg, slot>> /\ sp' = Read(ins.ops[2].r).n
    BY <1>11 DEF RestoreFrame
  <2>2. PICK e : seen' = [seen EXCEPT !.exact = @ /\ e]
    <3>1. PICK e : e = (sp' = IF abi \in X86 /\ ins.ops[2].r = "rbp" THEN 8 ELSE sp)
      BY Zenon
    <3> QED BY <1>11, <3>1 DEF RestoreFrame
  <2>3. seen' \in Histories
    BY <1>1, <2>2 DEF Histories
  <2>4. sp' \in Int
    BY <1>4, <2>1 DEF IsValue
  <2> QED BY <1>2, <1>3, <2>1, <2>3, <2>4
<1>12. CASE MoveStack(ins)
  <2>1. PICK k \in Strides : sp' = sp + k
    BY <1>12 DEF MoveStack
  <2>2. k \in Int
    BY StridesAssumption
  <2>3. UNCHANGED <<reg, slot>> /\ seen' = [seen EXCEPT !.exact = FALSE]
    BY <1>12 DEF MoveStack
  <2>4. seen' \in Histories
    BY <1>1, <2>3 DEF Histories
  <2> QED BY <1>1, <1>2, <1>3, <2>1, <2>2, <2>3, <2>4
<1>13. CASE Compute(ins)
  <2>1. /\ reg' = Written(ins.ops[1].r, Result(ins)) /\ UNCHANGED <<sp, slot>> /\ ins.ops[1].r \in STRING
        /\ seen' = [seen EXCEPT !.adjusted = @ \cup (IF ins.mn \in Passing THEN {ins.ops[1].r} ELSE {})]
    BY <1>6, <1>13 DEF Compute
  <2>2. seen' \in Histories
    BY <1>1, <2>1 DEF Histories
  <2>3. IsValue(Result(ins))
    BY <1>1, ResultTyped
  <2> QED BY <1>1, <1>3, <1>5, <2>1, <2>2, <2>3
<1>14. CASE Load(ins)
  <2> DEFINE m == ins.ops[2]
             r == ins.ops[1].r
             v == IF ins.mn \in {"ldr", "ld"} THEN Loaded(m) ELSE Data
  <2>1. m.disp \in Int /\ m.base \in STRING
    BY <1>7, <1>14 DEF Load
  <2>2. /\ reg' = IF r \in DOMAIN reg THEN [BaseAfter(m) EXCEPT ![r] = v] ELSE BaseAfter(m)
        /\ seen' = [seen EXCEPT !.lifo = @ /\ (m.base = StackPointer /\ r \in Nonvolatile => v = EntryValue(r)),
                                !.adjusted = (IF m.base = StackPointer THEN @ \ {r} ELSE @) \cup BaseAdjusted(m),
                                !.exact = @ /\ ReadRight(ins, m)]
    BY <1>14 DEF Load
  <2>3. UNCHANGED slot /\ sp' = SpAfter(m)
    BY <1>14, Zenon DEF Load
  <2> HIDE DEF m, r
  <2>4. /\ IsValue(Loaded(m)) /\ SpAfter(m) \in Int
        /\ DOMAIN BaseAfter(m) = DOMAIN reg /\ \A x \in DOMAIN reg : IsValue(BaseAfter(m)[x])
        /\ BaseAdjusted(m) \subseteq STRING
    BY <2>1, AccessTyped
  <2>5. IsValue(v)
    BY <1>4, <2>4
  <2> HIDE DEF v
  <2>6. DOMAIN reg' = DOMAIN reg /\ \A x \in DOMAIN reg' : IsValue(reg'[x])
    BY <2>2, <2>4, <2>5
  <2>7. seen' \in Histories
    BY <1>1, <2>2, <2>4 DEF Histories
  <2> QED BY <1>3, <2>3, <2>4, <2>6, <2>7
<1>15. CASE Store(ins)
  <2> DEFINE m == ins.ops[Place]
             local == Address(m).k = "stack"
  <2>1. m.disp \in Int /\ m.base \in STRING
    BY <1>7, <1>15 DEF Store, Place
  <2>2. /\ slot' = IF local THEN SlotsWith(Address(m).n, StoredValue(ins)) ELSE slot
        /\ reg' = BaseAfter(m) /\ sp' = SpAfter(m)
        /\ seen' = [seen EXCEPT !.stored = @ \/ ~local,
                                !.framed = @ /\ (m.base \in {StackPointer, FramePointer} => local),
                                !.adjusted = @ \cup BaseAdjusted(m),
                                !.exact = @ /\ ReadRight(ins, m)]
    BY <1>15, Zenon DEF Store, Place
  <2> HIDE DEF m, local
  <2>3. /\ SpAfter(m) \in Int
        /\ DOMAIN BaseAfter(m) = DOMAIN reg /\ \A x \in DOMAIN reg : IsValue(BaseAfter(m)[x])
        /\ BaseAdjusted(m) \subseteq STRING
    BY <2>1, AccessTyped
  <2>4. IsValue(StoredValue(ins))
    BY <1>1, ResultTyped
  <2>5. \A d \in DOMAIN slot' : IsValue(slot'[d])
    BY <1>3, <1>5, <2>2, <2>4
  <2>6. seen' \in Histories
    BY <1>1, <2>2, <2>3 DEF Histories
  <2> QED BY <2>2, <2>3, <2>5, <2>6
<1>16. CASE Call(ins)
  <2>1. reg' = Written(LinkOf(ins), Data) /\ UNCHANGED <<sp, slot>>
    BY <1>16 DEF Call
  <2>2. seen' \in Histories
    BY <1>1, <1>16 DEF Call, Histories
  <2> QED BY <1>1, <1>3, <1>4, <1>5, <2>1, <2>2
<1>17. CASE SystemCall(ins)
  BY <1>1, <1>2, <1>3, <1>17 DEF SystemCall, Histories
<1>18. CASE Return(ins)
  <2>1. UNCHANGED <<reg, slot>> /\ sp' \in Int
    BY <1>1, <1>6, <1>18 DEF Return
  <2>2. seen' \in Histories
    BY <1>1, <1>18 DEF Return, Histories
  <2> QED BY <1>2, <1>3, <2>1, <2>2
<1>19. CASE Compare(ins) \/ Unmodelled(ins)
  BY <1>1, <1>2, <1>3, <1>19 DEF Compare, Unmodelled
<1> QED BY <1>8, <1>9, <1>10, <1>11, <1>12, <1>13, <1>14, <1>15, <1>16, <1>17, <1>18, <1>19 DEF Executes

\* Typed holds initially ...
LEMMA TypedInit == Init => Typed
<1> SUFFICES ASSUME Init PROVE Typed
  OBVIOUS
<1>1. abi \in ABIs /\ \A ins \in code : WellFormed(ins)
  BY AlphabetsAssumption DEF Init, ABIs
<1>2. /\ body = <<>> /\ sp = 0 /\ slot = <<>> /\ gate = "run" /\ seen = Unseen
      /\ reg = [r \in Nonvolatile \cup {Link} |-> EntryValue(r)]
  BY DEF Init
<1>3. \A r : IsValue(EntryValue(r))
  BY DEF IsValue, EntryValue, Value
<1>4. DOMAIN reg = Nonvolatile \cup {Link} /\ \A r \in DOMAIN reg : IsValue(reg[r])
  BY <1>2, <1>3
<1>5. seen \in Histories
  BY <1>2 DEF Unseen, Histories
<1>6. DOMAIN slot = {} /\ body \in Seq(code) /\ sp \in Int
  BY <1>2
<1> QED BY <1>1, <1>2, <1>4, <1>5, <1>6 DEF Typed

\* ... and after every step.
LEMMA TypedStep == Typed /\ [Next]_vars => Typed'
<1> SUFFICES ASSUME Typed, [Next]_vars PROVE Typed'
  OBVIOUS
<1>1. CASE UNCHANGED vars
  BY <1>1 DEF Typed, vars, Nonvolatile, Link
<1>2. CASE Judges
  <2>1. UNCHANGED <<abi, code, body, sp, reg, slot, seen>> /\ gate # "run"
    BY <1>2, JudgesKeep
  <2> QED BY <2>1 DEF Typed, Nonvolatile, Link
<1>3. CASE \E ins \in code : Executes(ins)
  <2>1. PICK ins \in code : Executes(ins)
    BY <1>3
  <2>2. /\ body' = Append(body, ins) /\ UNCHANGED <<abi, code>>
        /\ gate' = "run" \/ (gate' = "lowering" /\ ins.mn \in ReturnsOf(abi))
    BY <2>1, ExecutesRuns
  <2>3. /\ body' \in Seq(code') /\ body' # <<>>
        /\ body'[Len(body')] = ins
    BY <2>2 DEF Typed
  <2>4. DOMAIN reg' = Nonvolatile' \cup {Link'}
    <3>1. Nonvolatile' = Nonvolatile /\ Link' = Link
      BY <2>2 DEF Nonvolatile, Link
    <3> QED BY <2>1, <3>1, MachineTyped DEF Typed
  <2> QED BY <2>1, <2>2, <2>3, <2>4, MachineTyped DEF Typed
<1> QED BY <1>1, <1>2, <1>3, Steps


-----------------------------------------------------------------------------
(* Stores outside the stack, and system calls. *)

\* Stores, by ABI, and loads; where their memory operand is.
StoresOf(a) == CASE a = "Aapcs64" -> {"str", "strb", "strh"}
                 [] a = "Riscv" -> {"sd", "sb", "sh", "sw"}
                 [] OTHER -> {"mov", "movabs", "xor", "add", "sub", "inc", "dec", "and", "or", "shl", "shr"}
LoadsOf(a) == CASE a = "Aapcs64" -> {"ldr", "ldrb", "ldrh", "ldrsb", "ldrsh", "ldrsw"}
                [] a = "Riscv" -> {"ld", "lb", "lh", "lw", "ldu", "lbu", "lhu", "lwu"}
                [] OTHER -> {}
PlaceOf(a) == IF a \in X86 THEN 1 ELSE 2

\* A store through neither the stack pointer nor the frame pointer.
FrameBases(a) == CASE a = "Aapcs64" -> {"sp", "fp"} [] a = "Riscv" -> {"sp", "s0"} [] OTHER -> {"rsp", "rbp"}
StoresOut(a, ins) ==
    ins.mn \in StoresOf(a) /\ IsMem(ins, PlaceOf(a)) /\ ins.ops[PlaceOf(a)].base \notin FrameBases(a)

\* They are those of the machine.
LEMMA AccessesOf ==
    ASSUME abi \in ABIs
    PROVE  /\ Stores = StoresOf(abi) /\ Loads = LoadsOf(abi) /\ Place = PlaceOf(abi)
           /\ FrameBases(abi) = {StackPointer, FramePointer}
BY DEF Stores, Loads, StoresOf, LoadsOf, Place, PlaceOf, Copies, Arithmetic, FrameBases, StackPointer,
       FramePointer, ABIs, X86

\* The history blames an instruction of the body for what it reports.
Blamed ==
    /\ seen.stored /\ ~seen.popped /\ seen.framed => \E i \in DOMAIN body : StoresOut(abi, body[i])
    /\ seen.syscall => \E i \in DOMAIN body : body[i].mn \in SystemCalls

\* Only such a store reports a store, and only a system call a system call.
LEMMA BlameEffect ==
    ASSUME Typed, NEW ins \in code, Executes(ins)
    PROVE  /\ seen'.stored /\ ~seen'.popped /\ seen'.framed =>
                (seen.stored /\ ~seen.popped /\ seen.framed) \/ StoresOut(abi, ins)
           /\ seen'.syscall => seen.syscall \/ ins.mn \in SystemCalls
<1> USE DEF Histories
<1>1. seen \in Histories
  BY DEF Typed
<1>2. CASE Store(ins)
  <2> DEFINE m == ins.ops[Place]
             local == Address(m).k = "stack"
  <2>1. /\ ins.mn \in Stores /\ IsMem(ins, Place)
        /\ seen' = [seen EXCEPT !.stored = @ \/ ~local,
                                !.framed = @ /\ (m.base \in {StackPointer, FramePointer} => local),
                                !.adjusted = @ \cup BaseAdjusted(m),
                                !.exact = @ /\ ReadRight(ins, m)]
    BY <1>2, Zenon DEF Store, Place
  <2>2. m.base \notin {StackPointer, FramePointer} => StoresOut(abi, ins)
    BY <2>1, AccessesOf DEF StoresOut, Typed
  <2> HIDE DEF m, local
  <2> QED BY <1>1, <2>1, <2>2
<1>3. CASE Pop(ins)
  BY <1>1, <1>3 DEF Pop
<1>4. CASE SystemCall(ins)
  BY <1>1, <1>4 DEF SystemCall, SystemCalls
<1>5. CASE Load(ins)
  <2>1. /\ seen'.stored = seen.stored /\ seen'.popped = seen.popped /\ seen'.framed = seen.framed
        /\ seen'.syscall = seen.syscall
    BY <1>1, <1>5 DEF Load
  <2> QED BY <2>1
<1>6. CASE RestoreFrame(ins) \/ MoveStack(ins) \/ Call(ins) \/ Compute(ins) \/ Return(ins)
  BY <1>1, <1>6 DEF RestoreFrame, MoveStack, Call, Compute, Return
<1>7. CASE Push(ins) \/ AdjustStack(ins) \/ Compare(ins) \/ Unmodelled(ins)
  BY <1>7 DEF Push, AdjustStack, Compare, Unmodelled
<1> QED BY <1>2, <1>3, <1>4, <1>5, <1>6, <1>7 DEF Executes

\* Blamed is preserved.
LEMMA BlamedStep == Typed /\ Blamed /\ [Next]_vars => Blamed'
<1> SUFFICES ASSUME Typed, Blamed, [Next]_vars PROVE Blamed'
  OBVIOUS
<1>1. CASE UNCHANGED <<abi, body, seen>>
  BY <1>1 DEF Blamed
<1>2. ASSUME NEW ins \in code, Executes(ins) PROVE Blamed'
  <2>1. body' = Append(body, ins) /\ UNCHANGED abi
    BY <1>2, ExecutesRuns
  <2>2. /\ Len(body) + 1 \in DOMAIN body' /\ body'[Len(body) + 1] = ins
        /\ \A i \in DOMAIN body : i \in DOMAIN body' /\ body'[i] = body[i]
    BY <2>1 DEF Typed
  <2>3. (\E i \in DOMAIN body : StoresOut(abi, body[i])) \/ StoresOut(abi, ins)
            => \E i \in DOMAIN body' : StoresOut(abi, body'[i])
    BY <2>2
  <2>4. (\E i \in DOMAIN body : body[i].mn \in SystemCalls) \/ ins.mn \in SystemCalls
            => \E i \in DOMAIN body' : body'[i].mn \in SystemCalls
    BY <2>2
  <2> QED BY <1>2, <2>1, <2>3, <2>4, BlameEffect DEF Blamed
<1> QED BY <1>1, <1>2, Steps, JudgesKeep DEF vars


\* The policy recognises such a store in its lowered form.
LEMMA StoresAreWrites ==
    ASSUME abi \in ABIs, NEW ins, WellFormed(ins), lower(abi, ins) # Unsupported, StoresOut(abi, ins)
    PROVE  Writes(lower(abi, ins))
<1> DEFINE l == lower(abi, ins)
<1>1. DOMAIN ins.ops = 1..Len(ins.ops) /\ Len(ins.ops) \in Nat
  BY DEF WellFormed
<1>2. CASE abi \in X86
  <2>1. FrameBases(abi) = {"rsp", "rbp"} /\ PlaceOf(abi) = 1
    BY <1>2 DEF FrameBases, PlaceOf, X86
  <2>2. /\ ins.mn \in {"mov", "movabs", "xor", "add", "sub", "inc", "dec", "and", "or", "shl", "shr"}
        /\ IsMem(ins, 1) /\ ins.ops[1].base \notin {"rsp", "rbp"}
    BY <1>2, <2>1 DEF StoresOut, StoresOf, X86
  <2>3. 1 \in DOMAIN ins.ops /\ ins.ops[1].t = "mem" /\ Len(ins.ops) # 0
    BY <1>1, <2>2 DEF IsMem
  <2>4. /\ l.mn = ins.mn /\ Len(l.ops) = Len(ins.ops) /\ l.ops[1].t = "mem"
        /\ l.ops[1].base \in {ins.ops[1].base, NoReg}
    BY <1>2, <2>3, X86Shape DEF Keeps
  <2>5. l.ops[1].base # "rbp"
    BY <2>2, <2>4 DEF NoReg
  <2>6. l.ops # <<>>
    BY <2>3, <2>4
  <2> HIDE DEF l
  <2>7. is_x86_explicit_memory_write(l)
    BY <2>2, <2>4, <2>5, <2>6 DEF is_x86_explicit_memory_write
  <2> QED BY <1>2, <2>7 DEF Writes, X86, l
<1>3. CASE abi \notin X86
  <2>1. /\ ins.mn \in StoresOf(abi) /\ ins.mn \in Stores /\ IsMem(ins, 2)
        /\ ins.ops[2].base \notin FrameBases(abi)
    BY <1>3, AccessesOf DEF StoresOut, PlaceOf
  <2>2. /\ MemOperands(l) = {l.ops[2]} /\ l.ops[2].base = ins.ops[2].base /\ MemOperands(ins) # {}
    BY <1>3, <2>1, LoweredAccess
  <2>3. CASE abi = "Aapcs64"
    <3>1. Arm!classify(ins.mn) = "Store"
      BY <2>1, <2>3 DEF StoresOf, Arm!classify
    <3>2. l.kind = "Store"
      BY <2>2, <2>3, <3>1, ArmShape
    <3> HIDE DEF l
    <3> QED BY <1>3, <2>1, <2>2, <2>3, <3>2 DEF Writes, is_aarch64_explicit_memory_write, FrameBases, l
  <2>4. CASE abi = "Riscv"
    <3>1. Rv!classify(ins.mn) = "Store"
      BY <2>1, <2>4 DEF StoresOf, Rv!classify
    <3>2. l.kind = "Store"
      BY <2>2, <2>4, <3>1, RvShape
    <3> HIDE DEF l
    <3> QED BY <1>3, <2>1, <2>2, <2>4, <3>2 DEF Writes, is_riscv_explicit_memory_write, FrameBases, l
  <2> QED BY <1>3, <2>3, <2>4 DEF ABIs
<1> QED BY <1>2, <1>3

-----------------------------------------------------------------------------
(* The gates. *)

\* Findings of the ABI analysis other than warnings, and system calls.
Clean(a, b) == CASE a = "SysVAmd64" -> Sysv!is_clean(Sysv!analyze(b))
                 [] a = "WindowsX64" -> Win!is_clean(Win!analyze(b))
                 [] a = "Aapcs64" -> Arm!is_clean(Arm!analyze(b))
                 [] OTHER -> Rv!is_clean(Rv!analyze(b))

\* A body past a gate satisfies it.
Judged ==
    /\ gate \in {"abi", "memory", "accepted"} =>
          /\ lowered = [i \in DOMAIN body |-> lower(abi, body[i])]
          /\ \A i \in DOMAIN body : lower(abi, body[i]) # Unsupported
    /\ gate \in {"memory", "accepted"} =>
          Clean(abi, lowered) /\ \A i \in DOMAIN lowered : lowered[i].mn \notin SystemCalls
    /\ gate = "accepted" /\ readOnly => \A i \in DOMAIN lowered : ~Writes(lowered[i])

\* The system calls of an ABI.
CallsOf(a) == CASE a = "Aapcs64" -> {"svc", "hvc", "smc"}
                [] a = "Riscv" -> {"ecall", "ebreak", "csrr", "csrw"}
                [] OTHER -> {"syscall"}

\* Lowering lets no other through.
LEMMA LoweredSystemCall ==
    ASSUME abi \in ABIs, NEW ins, WellFormed(ins), lower(abi, ins) # Unsupported,
           lower(abi, ins).mn \in SystemCalls
    PROVE  lower(abi, ins).mn \in CallsOf(abi)
<1>1. CASE abi \in X86
  BY <1>1, Mnemonics DEF CallsOf, SystemCalls, X86
<1>2. CASE abi = "Aapcs64"
  <2>1. lower(abi, ins).mn \in {"mov", "ret", "bl"} \/ lower(abi, ins).mn = ins.mn
    BY <1>2, ArmShape
  <2> QED BY <1>2, <2>1, Mnemonics DEF CallsOf, SystemCalls
<1>3. CASE abi = "Riscv"
  <2>1. lower(abi, ins).mn \in {"mv", "ret", "call"} \/ lower(abi, ins).mn = ins.mn
    BY <1>3, RvShape
  <2> QED BY <1>3, <2>1, Mnemonics DEF CallsOf, SystemCalls
<1> QED BY <1>1, <1>2, <1>3 DEF ABIs

\* Judged is preserved.
LEMMA JudgedStep == Typed /\ Judged /\ [Next]_vars => Judged'
<1> SUFFICES ASSUME Typed, Judged, [Next]_vars PROVE Judged'
  OBVIOUS
<1>1. CASE UNCHANGED vars
  BY <1>1 DEF Judged, vars, Writes
<1>2. ASSUME NEW ins \in code, Executes(ins) PROVE Judged'
  <2>1. gate' \notin {"abi", "memory", "accepted"}
    BY <1>2, ExecutesRuns
  <2> QED BY <2>1 DEF Judged
<1>3. CASE lower_instructions
  <2>1. /\ lowered' = [i \in DOMAIN body |-> lower(abi, body[i])]
        /\ gate' = IF Unsupported \in Range(lowered') THEN "failed:lowering" ELSE "abi"
        /\ UNCHANGED <<abi, body>>
    BY <1>3 DEF lower_instructions, Proceed, input
  <2>2. CASE Unsupported \in Range(lowered')
    BY <2>1, <2>2 DEF Judged
  <2>3. CASE Unsupported \notin Range(lowered')
    <3>1. \A i \in DOMAIN body : lower(abi, body[i]) # Unsupported
      BY <2>1, <2>3 DEF Range
    <3> QED BY <2>1, <2>3, <3>1 DEF Judged
  <2> QED BY <2>2, <2>3
<1>4. ASSUME gate = "abi", UNCHANGED <<abi, body, lowered>>,
             \/ gate' \in {"failed:abi", "failed:capability"}
             \/ /\ gate' = "memory" /\ Clean(abi, lowered)
                /\ \A i \in DOMAIN lowered : lowered[i].mn \notin SystemCalls
      PROVE  Judged'
  BY <1>4 DEF Judged
<1>5. ASSUME NEW i \in DOMAIN body, lower(abi, body[i]) # Unsupported, WellFormed(body[i]),
             lower(abi, body[i]).mn \in SystemCalls
      PROVE  lower(abi, body[i]).mn \in CallsOf(abi)
  BY <1>5, LoweredSystemCall DEF Typed
<1>6. gate = "abi" => \A i \in DOMAIN lowered : lowered[i].mn \in SystemCalls => lowered[i].mn \in CallsOf(abi)
  BY <1>5 DEF Judged, Typed
<1>7. CASE check_x86_abi_capability
  <2>1. gate = "abi" /\ abi \in X86 /\ UNCHANGED <<abi, body, lowered>>
    BY <1>7 DEF check_x86_abi_capability, Proceed, input
  <2>2. CASE abi = "SysVAmd64"
    <3>1. gate' = IF ~Sysv!is_clean(Sysv!analyze(lowered)) THEN "failed:abi"
                  ELSE IF Sysv!analyze(lowered).has_syscall THEN "failed:capability" ELSE "memory"
      BY <1>7, <2>2 DEF check_x86_abi_capability, Proceed
    <3>2. Sysv!analyze(lowered).has_syscall <=> \E i \in DOMAIN lowered : lowered[i].mn = "syscall"
      BY Zenon DEF Sysv!analyze, Sysv!step
    <3> QED BY <1>4, <1>6, <2>1, <2>2, <3>1, <3>2 DEF Clean, CallsOf, X86
  <2>3. CASE abi = "WindowsX64"
    <3>1. gate' = IF ~Win!is_clean(Win!analyze(lowered)) THEN "failed:abi"
                  ELSE IF \E i \in DOMAIN lowered : lowered[i].mn = "syscall"
                  THEN "failed:capability" ELSE "memory"
      BY <1>7, <2>3 DEF check_x86_abi_capability, Proceed
    <3> QED BY <1>4, <1>6, <2>1, <2>3, <3>1 DEF Clean, CallsOf, X86
  <2> QED BY <2>1, <2>2, <2>3 DEF X86
<1>8. CASE check_aarch64_abi_capability
  <2>1. /\ gate = "abi" /\ abi = "Aapcs64" /\ UNCHANGED <<abi, body, lowered>>
        /\ gate' = IF ~Arm!is_clean(Arm!analyze(lowered)) THEN "failed:abi"
                   ELSE IF \E i \in DOMAIN lowered : lowered[i].mn \in {"svc", "hvc", "smc"}
                   THEN "failed:capability" ELSE "memory"
    BY <1>8 DEF check_aarch64_abi_capability, Proceed, input
  <2> QED BY <1>4, <1>6, <2>1 DEF Clean, CallsOf, X86
<1>9. CASE check_riscv_abi_capability
  <2>1. /\ gate = "abi" /\ abi = "Riscv" /\ UNCHANGED <<abi, body, lowered>>
        /\ gate' = IF ~Rv!is_clean(Rv!analyze(lowered)) THEN "failed:abi"
                   ELSE IF \E i \in DOMAIN lowered : lowered[i].mn \in {"ecall", "ebreak", "csrr", "csrw"}
                   THEN "failed:capability" ELSE "memory"
    BY <1>9 DEF check_riscv_abi_capability, Proceed, input
  <2> QED BY <1>4, <1>6, <2>1 DEF Clean, CallsOf, X86
<1>10. CASE check_read_only_buffer_leaf
  <2>1. /\ gate = "memory" /\ UNCHANGED <<abi, body, lowered>>
        /\ gate' = IF readOnly' /\ \E i \in DOMAIN lowered : Writes(lowered[i])
                   THEN "failed:memory" ELSE "accepted"
    BY <1>10 DEF check_read_only_buffer_leaf, Proceed, input
  <2> QED BY <2>1 DEF Judged, Writes
<1> QED BY <1>1, <1>2, <1>3, <1>7, <1>8, <1>9, <1>10, Steps DEF Judges


-----------------------------------------------------------------------------
(* Nonvolatile registers. *)

Supported(a, b) == \A i \in DOMAIN b : lower(a, b[i]) # Unsupported

\* Computations that the scan for the epilogue stops at.
Blocking(a) ==
    CASE a = "Aapcs64" -> {"mov", "movz", "movk", "movn"}
      [] a = "Riscv" -> {"mv", "li", "slt", "sltu", "slti", "sltiu"}
      [] OTHER -> {"mov", "movabs", "xor", "inc", "dec", "and", "or", "shl", "shr", "lea", "movzx"}
                  \cup Sysv!ConditionalMoves

\* Writes to a register that the scan stops at, and what it takes for restores.
LoadsOffStack(a, ins) == ins.mn \in LoadsOf(a) /\ IsMem(ins, 2) /\ ins.ops[2].base = "sp"
Spoils(a, ins, r) ==
    /\ r \in Registers(ins)
    /\ \/ ins.mn \in Blocking(a)
       \/ ins.mn \in LoadsOf(a) /\ ~LoadsOffStack(a, ins)
       \/ a = "Riscv" /\ ins.mn = "jal"
Reloads(a, ins, r) == (ins.mn = "pop" \/ LoadsOffStack(a, ins)) /\ Is(ins, 1, Reg(r))

\* A register written and not restored since.
Dirty(a, b, r) ==
    \E i \in DOMAIN b : Spoils(a, b[i], r) /\ \A j \in DOMAIN b : j > i => ~Reloads(a, b[j], r)

\* A register without its entry value is dirty.
Preserved ==
    Supported(abi, body) /\ seen.lifo =>
        \A r \in Nonvolatile : \/ reg[r] = EntryValue(r) \/ r \in seen.adjusted
                               \/ Dirty(abi, body, r)

\* What becomes of a register: it has its entry value, was adjusted or spoilt,
\* or is as it was and not restored.
Fate(ins, r) ==
    \/ reg'[r] = EntryValue(r) \/ r \in seen'.adjusted \/ Spoils(abi, ins, r)
    \/ /\ reg'[r] = reg[r] /\ (r \in seen.adjusted => r \in seen'.adjusted)
       /\ ~Reloads(abi, ins, r)

\* The registers of the machine and the scan.
LEMMA Scanned ==
    ASSUME Typed
    PROVE  /\ Nonvolatile \subseteq DOMAIN reg /\ Link \notin Nonvolatile /\ StackPointer \notin Nonvolatile
           /\ Computations = Blocking(abi) \cup Passing /\ Loads = LoadsOf(abi)
           /\ abi \notin X86 => StackPointer = "sp"
           /\ "pop" \notin Computations \cup Loads \cup Stores /\ Loads \cap (Computations \cup Stores) = {}
           /\ abi \in X86 => Loads = {}
<1>1. abi \in ABIs /\ Nonvolatile \subseteq DOMAIN reg
  BY DEF Typed
<1>2. Link \notin Nonvolatile /\ StackPointer \notin Nonvolatile
  BY <1>1, SMTT(30) DEF Link, StackPointer, Nonvolatile, ABIs, X86, NoReg, Sysv!NONVOLATILE_GP,
         Win!NONVOLATILE_WIN64, Arm!NONVOLATILE_GP, Rv!NONVOLATILE_GPR
<1>3. Computations = Blocking(abi) \cup Passing
  BY <1>1, SMTT(30) DEF Computations, Blocking, Passing, Copies, Arithmetic, ABIs, X86
<1>4. "pop" \notin Computations \cup Loads \cup Stores /\ Loads \cap (Computations \cup Stores) = {}
  BY <1>1, SMTT(30) DEF Computations, Loads, Stores, Copies, Arithmetic, Sysv!ConditionalMoves, ABIs, X86
<1> QED BY <1>1, <1>2, <1>3, <1>4, AccessesOf DEF StackPointer, LoadsOf, X86

\* A write to one register.
LEMMA OneWritten ==
    ASSUME Typed, NEW r, NEW v, reg' = Written(r, v)
    PROVE  \A x \in Nonvolatile : (x # r => reg'[x] = reg[x]) /\ (x = r => reg'[x] = v)
<1>1. Nonvolatile \subseteq DOMAIN reg
  BY Scanned
<1> QED BY <1>1 DEF Written

\* What an instruction does to the registers.
LEMMA SaveEffect ==
    ASSUME Typed, NEW ins \in code, Executes(ins), lower(abi, ins) # Unsupported
    PROVE  seen'.lifo => seen.lifo /\ \A r \in Nonvolatile : Fate(ins, r)
<1>1. WellFormed(ins) /\ seen \in Histories /\ abi \in ABIs /\ ins.mn \in STRING
  BY DEF Typed, WellFormed
<1>2. /\ Nonvolatile \subseteq DOMAIN reg /\ Link \notin Nonvolatile /\ StackPointer \notin Nonvolatile
      /\ Computations = Blocking(abi) \cup Passing /\ Loads = LoadsOf(abi)
      /\ abi \notin X86 => StackPointer = "sp"
      /\ "pop" \notin Computations \cup Loads \cup Stores /\ Loads \cap (Computations \cup Stores) = {}
      /\ abi \in X86 => Loads = {}
  BY Scanned
<1>3. \A r : Is(ins, 1, Reg(r)) => IsReg(ins, 1) /\ ins.ops[1].r = r
  BY DEF Is, IsReg, Reg
<1>4. IsReg(ins, 1) => Is(ins, 1, Reg(ins.ops[1].r)) /\ ins.ops[1].r \in Registers(ins)
  <2>1. 1 \in Nat \ {0}
    OBVIOUS
  <2>2. IsReg(ins, 1) => Is(ins, 1, Reg(ins.ops[1].r))
    BY <1>1, <2>1, OperandOf DEF Is, IsReg
  <2> QED BY <1>1, <2>1, <2>2, IsRegister
<1>5. ASSUME UNCHANGED reg, seen'.lifo = seen.lifo, seen'.adjusted = seen.adjusted,
             \A r \in Nonvolatile : ~Reloads(abi, ins, r)
      PROVE  seen'.lifo => seen.lifo /\ \A r \in Nonvolatile : Fate(ins, r)
  BY <1>5 DEF Fate
<1>6. CASE Pop(ins)
  <2>1. CASE IsReg(ins, 1)
    <3> DEFINE p == ins.ops[1].r
    <3>1. /\ seen'.lifo => seen.lifo /\ (p \in Nonvolatile => SlotAt(sp) = EntryValue(p))
          /\ seen'.adjusted = seen.adjusted \ {p}
          /\ reg' = Written(p, SlotAt(sp))
      BY <1>1, <1>6, <2>1 DEF Pop, Histories
    <3>2. \A x \in Nonvolatile : (x # p => reg'[x] = reg[x]) /\ (x = p => reg'[x] = SlotAt(sp))
      BY <3>1, OneWritten
    <3>3. \A r : Reloads(abi, ins, r) => r = p
      BY <1>3 DEF Reloads
    <3> HIDE DEF p
    <3> QED BY <3>1, <3>2, <3>3 DEF Fate
  <2>2. CASE ~IsReg(ins, 1)
    <3>1. UNCHANGED reg /\ seen'.lifo = seen.lifo /\ seen'.adjusted = seen.adjusted
      BY <1>1, <1>6, <2>2 DEF Pop, Histories
    <3> QED BY <1>3, <1>5, <2>2, <3>1 DEF Reloads
  <2> QED BY <2>1, <2>2
<1>7. CASE Load(ins)
  <2> DEFINE m == ins.ops[2]
             p == ins.ops[1].r
             off == m.base = StackPointer
             v == IF ins.mn \in {"ldr", "ld"} THEN Loaded(m) ELSE Data
  <2>1. ins.mn \in Loads /\ IsMem(ins, 2) /\ abi \notin X86 /\ StackPointer = "sp"
    BY <1>2, <1>7 DEF Load
  <2>2. IsReg(ins, 1)
    <3>1. ins.ops[1].t = "reg" /\ Len(ins.ops) = 2
      BY <1>1, <2>1, LoweredAccess
    <3> QED BY <3>1 DEF IsReg
  <2>3. p \in Registers(ins) /\ (LoadsOffStack(abi, ins) <=> off)
    BY <1>2, <1>4, <2>1, <2>2 DEF LoadsOffStack
  <2>4. \A r : Reloads(abi, ins, r) => r = p /\ off
    BY <1>2, <1>3, <2>1, <2>3 DEF Reloads
  <2>5. ~off => Spoils(abi, ins, p)
    BY <1>2, <2>1, <2>3 DEF Spoils
  <2>6. /\ reg' = IF p \in DOMAIN reg THEN [BaseAfter(m) EXCEPT ![p] = v] ELSE BaseAfter(m)
        /\ seen' = [seen EXCEPT !.lifo = @ /\ (off /\ p \in Nonvolatile => v = EntryValue(p)),
                                !.adjusted = (IF off THEN @ \ {p} ELSE @) \cup BaseAdjusted(m),
                                !.exact = @ /\ ReadRight(ins, m)]
    BY <1>7 DEF Load
  <2>7. /\ DOMAIN BaseAfter(m) = DOMAIN reg
        /\ off => BaseAfter(m) = reg /\ BaseAdjusted(m) = {}
        /\ \A x \in DOMAIN reg : BaseAfter(m)[x] = reg[x] \/ x \in BaseAdjusted(m)
    BY DEF BaseAfter, BaseAdjusted, Written
  <2> HIDE DEF m, p, off, v
  <2>8. /\ seen'.lifo => seen.lifo /\ (off /\ p \in Nonvolatile => v = EntryValue(p))
        /\ seen'.adjusted = (IF off THEN seen.adjusted \ {p} ELSE seen.adjusted) \cup BaseAdjusted(m)
    BY <1>1, <2>6 DEF Histories
  <2>9. \A x \in Nonvolatile : /\ x # p => reg'[x] = reg[x] \/ x \in BaseAdjusted(m)
                               /\ x = p => reg'[x] = v
    BY <1>2, <2>6, <2>7
  <2> QED BY <2>4, <2>5, <2>7, <2>8, <2>9 DEF Fate
<1>8. CASE Compute(ins)
  <2> DEFINE p == ins.ops[1].r
  <2>1. /\ reg' = Written(p, Result(ins)) /\ seen'.lifo = seen.lifo
        /\ seen'.adjusted = seen.adjusted \cup (IF ins.mn \in Passing THEN {p} ELSE {})
        /\ p \in Registers(ins)
        /\ ins.mn \in Computations \/ (ins.mn \in Loads /\ ~IsMem(ins, 2))
    BY <1>1, <1>4, <1>8 DEF Compute, Histories
  <2>2. /\ ins.mn \in Passing \/ Spoils(abi, ins, p)
        /\ \A r : ~Reloads(abi, ins, r)
    BY <1>2, <2>1 DEF Spoils, Reloads, LoadsOffStack
  <2>3. \A x \in Nonvolatile : x # p => reg'[x] = reg[x]
    BY <2>1, OneWritten
  <2> HIDE DEF p
  <2> QED BY <2>1, <2>2, <2>3 DEF Fate
<1>9. CASE Call(ins)
  <2>1. /\ reg' = Written(LinkOf(ins), Data) /\ seen'.lifo = seen.lifo /\ seen'.adjusted = seen.adjusted
        /\ ins.mn \in {"call", "bl", "jal"}
    BY <1>1, <1>9 DEF Call, Histories
  <2>2. \A r : ~Reloads(abi, ins, r)
    BY <2>1 DEF Reloads, LoadsOffStack, LoadsOf
  <2>3. LinkOf(ins) = Link \/ Spoils(abi, ins, LinkOf(ins))
    <3>1. ins.mn = "jal" => abi = "Riscv"
      BY <1>1, Mnemonics DEF ABIs
    <3> QED BY <1>4, <3>1 DEF LinkOf, Spoils
  <2>4. \A x \in Nonvolatile : x # LinkOf(ins) => reg'[x] = reg[x]
    BY <2>1, OneWritten
  <2> QED BY <1>2, <2>1, <2>2, <2>3, <2>4 DEF Fate
<1>10. CASE Store(ins)
  <2> DEFINE m == ins.ops[Place]
  <2>1. /\ ins.mn \in Stores /\ reg' = BaseAfter(m)
        /\ seen'.lifo = seen.lifo /\ seen'.adjusted = seen.adjusted \cup BaseAdjusted(m)
    BY <1>1, <1>10 DEF Store, Histories, Place
  <2>2. \A r : ~Reloads(abi, ins, r)
    BY <1>2, <2>1 DEF Reloads, LoadsOffStack
  <2>3. \A x \in DOMAIN reg : BaseAfter(m)[x] = reg[x] \/ x \in BaseAdjusted(m)
    BY DEF BaseAfter, BaseAdjusted, Written
  <2> HIDE DEF m
  <2> QED BY <1>2, <2>1, <2>2, <2>3 DEF Fate
<1>11. CASE MoveStack(ins)
  <2>1. /\ UNCHANGED reg /\ seen'.lifo = seen.lifo /\ seen'.adjusted = seen.adjusted
        /\ Is(ins, 1, Reg(StackPointer))
    BY <1>1, <1>11 DEF MoveStack, Histories
  <2>2. \A r \in Nonvolatile : ~Reloads(abi, ins, r)
    BY <1>2, <1>3, <2>1 DEF Reloads
  <2> QED BY <1>5, <2>1, <2>2
<1>12. CASE RestoreFrame(ins)
  <2>1. /\ UNCHANGED reg /\ seen'.lifo = seen.lifo /\ seen'.adjusted = seen.adjusted
        /\ ins.mn \in Computations
    BY <1>1, <1>12 DEF RestoreFrame, CopiesAddress, Computations, Histories
  <2>2. \A r \in Nonvolatile : ~Reloads(abi, ins, r)
    BY <1>2, <2>1 DEF Reloads, LoadsOffStack
  <2> QED BY <1>5, <2>1, <2>2
<1>13. CASE Push(ins) \/ AdjustStack(ins) \/ Compare(ins) \/ SystemCall(ins) \/ Return(ins)
  <2>1. UNCHANGED reg /\ seen'.lifo = seen.lifo /\ seen'.adjusted = seen.adjusted
    BY <1>1, <1>13 DEF Push, AdjustStack, Compare, SystemCall, Return, Histories
  <2>2. ins.mn \in {"push", "addi", "sub", "add"} \cup Comparisons \cup SystemCalls \cup {"ret", "retn", "retf"}
    BY <1>13 DEF Push, AdjustStack, AddsImmediate, Compare, SystemCall, Return, Comparisons, SystemCalls, Sysv!Returns
  <2>3. ins.mn # "pop" /\ ins.mn \notin LoadsOf(abi)
    BY <2>2 DEF LoadsOf, Comparisons, SystemCalls
  <2> QED BY <1>5, <2>1, <2>3 DEF Reloads, LoadsOffStack
<1>14. CASE Unmodelled(ins)
  BY <1>14 DEF Unmodelled
<1> QED BY <1>6, <1>7, <1>8, <1>9, <1>10, <1>11, <1>12, <1>13, <1>14 DEF Executes

\* Preserved is preserved.
LEMMA PreservedStep == Typed /\ Preserved /\ [Next]_vars => Preserved'
<1> SUFFICES ASSUME Typed, Preserved, [Next]_vars PROVE Preserved'
  OBVIOUS
<1>1. CASE UNCHANGED <<abi, body, seen, reg>>
  BY <1>1 DEF Preserved, Nonvolatile
<1>2. ASSUME NEW ins \in code, Executes(ins) PROVE Preserved'
  <2>1. body' = Append(body, ins) /\ UNCHANGED abi
    BY <1>2, ExecutesRuns
  <2>2. /\ Len(body) + 1 \in DOMAIN body' /\ body'[Len(body) + 1] = ins /\ Len(body) \in Nat
        /\ \A i \in DOMAIN body : i \in DOMAIN body' /\ body'[i] = body[i] /\ i \in Nat
        /\ \A i \in DOMAIN body' : i \in DOMAIN body \/ i = Len(body) + 1
        /\ \A i \in DOMAIN body' : ~(i > Len(body) + 1)
    BY <2>1 DEF Typed
  <2>3. Nonvolatile' = Nonvolatile
    BY <2>1 DEF Nonvolatile
  <2>4. ASSUME NEW r, Spoils(abi, ins, r) PROVE Dirty(abi, body', r)
    BY <2>2, <2>4 DEF Dirty
  <2>5. ASSUME NEW r, Dirty(abi, body, r), ~Reloads(abi, ins, r) PROVE Dirty(abi, body', r)
    <3>1. PICK i \in DOMAIN body : /\ Spoils(abi, body[i], r)
                                   /\ \A j \in DOMAIN body : j > i => ~Reloads(abi, body[j], r)
      BY <2>5 DEF Dirty
    <3>2. Spoils(abi, body'[i], r) /\ \A j \in DOMAIN body' : j > i => ~Reloads(abi, body'[j], r)
      BY <2>2, <2>5, <3>1
    <3> QED BY <2>2, <3>2 DEF Dirty
  <2>6. ASSUME Supported(abi, body'), seen'.lifo, NEW r \in Nonvolatile
        PROVE  reg'[r] = EntryValue(r) \/ r \in seen'.adjusted \/ Dirty(abi, body', r)
    <3>1. Supported(abi, body) /\ lower(abi, ins) # Unsupported
      BY <2>2, <2>6 DEF Supported
    <3>2. seen.lifo /\ Fate(ins, r)
      BY <1>2, <2>6, <3>1, SaveEffect
    <3>3. reg[r] = EntryValue(r) \/ r \in seen.adjusted \/ Dirty(abi, body, r)
      BY <3>1, <3>2 DEF Preserved
    <3> QED BY <2>4, <2>5, <3>2, <3>3 DEF Fate
  <2> QED BY <2>1, <2>3, <2>6 DEF Preserved
<1> QED BY <1>1, <1>2, Steps, JudgesKeep DEF vars


\* The one register of a pop or of a load off the stack pointer.
LEMMA OneRegister ==
    ASSUME NEW a, NEW ins, WellFormed(ins), ins.mn = "pop" \/ LoadsOffStack(a, ins), NEW r \in Registers(ins)
    PROVE  Reloads(a, ins, r)
<1>1. PICK i \in DOMAIN ins.ops : ins.ops[i].t = "reg" /\ ins.ops[i].r = r
  BY DEF Registers, Operands, Range
<1>2. /\ DOMAIN ins.ops = 1..Len(ins.ops) /\ ins.ops[i] \in DecodedOperands
      /\ Len(ins.ops) = 1 \/ (Len(ins.ops) = 2 /\ ins.ops[2].t = "mem")
  <2>1. CASE ins.mn = "pop"
    BY <2>1 DEF WellFormed
  <2>2. CASE LoadsOffStack(a, ins)
    <3>1. ins.mn \in LoadMnemonics /\ ins.ops[2].t = "mem"
      BY <2>2 DEF LoadsOffStack, LoadsOf, LoadMnemonics, IsMem
    <3> QED BY <3>1 DEF WellFormed
  <2> QED BY <2>1, <2>2
<1>3. i = 1
  BY <1>1, <1>2
<1>4. ins.ops[1] = Reg(r)
  BY <1>1, <1>2, <1>3, OperandTypes
<1> QED BY <1>2, <1>4 DEF Reloads, Is

\* The registers of an instruction, as each analysis collects them.
LEMMA SameRegisters ==
    ASSUME NEW l
    PROVE  /\ Sysv!Registers(l) = Registers(l) /\ Win!Registers(l) = Registers(l)
           /\ Arm!Registers(l) = Registers(l) /\ Rv!Registers(l) = Registers(l)
BY DEF Registers, Operands, Range, Sysv!Registers, Sysv!Operands, Sysv!Range, Win!Registers, Win!Operands,
       Win!Range, Arm!Registers, Arm!Operands, Arm!Range, Rv!Registers, Rv!Operands, Rv!Range

\* A clean body restores what it writes.
LEMMA CleanRestores ==
    ASSUME NEW a \in ABIs, NEW b, Clean(a, b)
    PROVE  /\ a = "SysVAmd64" => Sysv!written_nonvolatile(b) \subseteq Sysv!epilogue_restored(b)
           /\ a = "WindowsX64" => Win!written_nonvolatile(b) \subseteq Win!epilogue_restored(b)
           /\ a = "Aapcs64" => Arm!written_nonvolatile(b) \subseteq Arm!epilogue_restored(b)
           /\ a = "Riscv" => Rv!written_nonvolatile(b) \subseteq Rv!epilogue_restored(b)
<1>1. CASE a = "SysVAmd64"
  <2>1. Sysv!is_clean(Sysv!analyze(b))
    BY <1>1 DEF Clean
  <2>2. Sysv!check_callee_saved(b) \subseteq Sysv!analyze(b).findings
    BY DEF Sysv!analyze
  <2>3. \A f \in Sysv!check_callee_saved(b) : f.code = "CALLER_SAVED"
    BY <2>1, <2>2 DEF Sysv!is_clean, Sysv!Warnings
  <2>4. ASSUME ~(Sysv!written_nonvolatile(b) \subseteq Sysv!epilogue_restored(b)) PROVE FALSE
    <3>1. Sysv!Finding("CALLEE_SAVED_NOT_RESTORED", Sysv!Nowhere) \in Sysv!check_callee_saved(b)
      BY <2>4 DEF Sysv!check_callee_saved
    <3>2. Sysv!Finding("CALLEE_SAVED_NOT_RESTORED", Sysv!Nowhere).code = "CALLEE_SAVED_NOT_RESTORED"
      BY DEF Sysv!Finding
    <3> QED BY <2>3, <3>1, <3>2
  <2> QED BY <1>1, <2>4
<1>2. CASE a = "WindowsX64"
  <2>1. Win!is_clean(Win!analyze(b))
    BY <1>2 DEF Clean
  <2>2. Win!check_callee_saved(b) = {}
    BY <2>1 DEF Win!analyze, Win!is_clean
  <2> QED BY <1>2, <2>2 DEF Win!check_callee_saved, Win!Finding
<1>3. CASE a = "Aapcs64"
  <2>1. Arm!is_clean(Arm!analyze(b))
    BY <1>3 DEF Clean
  <2>2. Arm!check_callee_saved(b) = {}
    BY <2>1 DEF Arm!analyze, Arm!is_clean
  <2> QED BY <1>3, <2>2 DEF Arm!check_callee_saved, Arm!Finding
<1>4. CASE a = "Riscv"
  <2>1. Rv!is_clean(Rv!analyze(b))
    BY <1>4 DEF Clean
  <2>2. Rv!check_callee_saved(b) = {}
    BY <2>1 DEF Rv!analyze, Rv!is_clean
  <2> QED BY <1>4, <2>2 DEF Rv!check_callee_saved, Rv!Finding
<1> QED BY <1>1, <1>2, <1>3, <1>4 DEF ABIs, X86

\* The lowered body, position by position.
LEMMA LoweredBody ==
    ASSUME Typed, Judged, gate \in {"abi", "memory", "accepted"}
    PROVE  /\ DOMAIN lowered = DOMAIN body /\ Len(lowered) = Len(body) /\ Len(body) \in Nat
           /\ DOMAIN body = 1..Len(body)
           /\ \A i \in DOMAIN body : /\ lowered[i] = lower(abi, body[i]) /\ lowered[i] # Unsupported
                                     /\ WellFormed(body[i]) /\ abi \in ABIs
<1>1. DOMAIN body = 1..Len(body) /\ Len(body) \in Nat
  BY DEF Typed
<1>2. lowered = [i \in 1..Len(body) |-> lower(abi, body[i])]
  BY <1>1 DEF Judged
<1>3. DOMAIN lowered = 1..Len(body) /\ Len(lowered) = Len(body)
  BY <1>1, <1>2
<1> QED BY <1>1, <1>2, <1>3 DEF Judged, Typed

\* Off x86 the scan for restores collects registers that are reloaded, and
\* stops at what spoils a register.
LEMMA ScanStops ==
    ASSUME abi \in ABIs, abi \notin X86, NEW ins, WellFormed(ins), lower(abi, ins) # Unsupported
    PROVE  LET l == lower(abi, ins)
               restores == l.kind = "Load" /\ \E m \in MemOperands(l) : m.base = "sp"
           IN  /\ restores => \A r \in Registers(l) : Reloads(abi, ins, r)
               /\ \A r : Spoils(abi, ins, r) => ~restores /\ l.kind \notin {"Return", "Binary", "Unknown"}
<1> DEFINE l == lower(abi, ins)
           kind == IF abi = "Aapcs64" THEN Arm!classify(ins.mn) ELSE Rv!classify(ins.mn)
           restores == l.kind = "Load" /\ \E m \in MemOperands(l) : m.base = "sp"
<1>1. l.kind = IF kind \in {"Load", "Store"} /\ MemOperands(ins) = {} THEN "Store" ELSE kind
  BY ArmShape, RvShape DEF ABIs
<1>2. kind = "Load" <=> ins.mn \in LoadsOf(abi)
  BY DEF LoadsOf, Arm!classify, Rv!classify, ABIs
<1>3. ins.mn \in LoadsOf(abi) => /\ Len(ins.ops) = 2 /\ DOMAIN ins.ops = {1, 2} /\ ins.ops[1].t = "reg"
                                 /\ ins.ops[2].t \in {"mem", "imm"}
  <2>1. ins.mn \in LoadsOf(abi) => ins.mn \in LoadMnemonics
    BY DEF LoadsOf, LoadMnemonics, ABIs
  <2> QED BY <2>1 DEF WellFormed
<1>4. ASSUME ins.mn \in LoadsOf(abi) PROVE MemOperands(ins) # {} <=> IsMem(ins, 2)
  BY <1>3, <1>4 DEF MemOperands, Operands, Range, IsMem
<1>5. ins.mn \in LoadsOf(abi) /\ IsMem(ins, 2) => MemOperands(l) = {l.ops[2]} /\ l.ops[2].base = ins.ops[2].base
  BY AccessesOf, LoweredAccess
<1>6. Registers(l) = Registers(ins)
  BY RegistersKept
<1> HIDE DEF l, kind
<1>7. restores => LoadsOffStack(abi, ins)
  BY <1>1, <1>2, <1>4, <1>5 DEF LoadsOffStack
<1>8. \A r \in Registers(ins) : LoadsOffStack(abi, ins) => Reloads(abi, ins, r)
  BY OneRegister
<1>9. ASSUME NEW r, Spoils(abi, ins, r) PROVE ~restores /\ l.kind \notin {"Return", "Binary", "Unknown"}
  <2>1. CASE ins.mn \in LoadsOf(abi) /\ ~LoadsOffStack(abi, ins)
    BY <1>1, <1>2, <1>7, <2>1
  <2>2. CASE ins.mn \in Blocking(abi)
    <3>1. kind \in {"Store", "Compare"}
      BY <2>2 DEF Blocking, kind, Arm!classify, Rv!classify, ABIs, X86
    <3> QED BY <1>1, <3>1
  <2>3. CASE abi = "Riscv" /\ ins.mn = "jal"
    <3>1. kind = "Call"
      BY <2>3 DEF kind, Rv!classify
    <3> QED BY <1>1, <3>1
  <2> QED BY <1>9, <2>1, <2>2, <2>3 DEF Spoils
<1> QED BY <1>6, <1>7, <1>8, <1>9 DEF l

\* No nonvolatile register of an accepted body is dirty.
LEMMA NoneDirty ==
    ASSUME Typed, Judged, gate = "accepted", NEW r \in Nonvolatile
    PROVE  ~Dirty(abi, body, r)
<1> SUFFICES ASSUME Dirty(abi, body, r) PROVE FALSE
  OBVIOUS
<1>1. /\ DOMAIN lowered = 1..Len(lowered) /\ DOMAIN body = DOMAIN lowered /\ Len(lowered) \in Nat
      /\ \A i \in DOMAIN body : /\ lowered[i] = lower(abi, body[i]) /\ lowered[i] # Unsupported
                                /\ WellFormed(body[i]) /\ abi \in ABIs
  BY LoweredBody
<1>2. PICK i \in DOMAIN body : /\ Spoils(abi, body[i], r)
                               /\ \A j \in DOMAIN body : j > i => ~Reloads(abi, body[j], r)
  BY DEF Dirty
<1>3. \A j \in DOMAIN body : Registers(lowered[j]) = Registers(body[j])
  BY <1>1, RegistersKept
<1>4. r \in Registers(lowered[i])
  BY <1>2, <1>3 DEF Spoils
<1>5. ASSUME NEW j \in DOMAIN body, j > i, r \in Registers(lowered[j]), body[j].mn = "pop"
      PROVE  FALSE
  <2>1. Reloads(abi, body[j], r)
    BY <1>1, <1>3, <1>5, OneRegister
  <2> QED BY <1>2, <1>5, <2>1
<1>6. Clean(abi, lowered) /\ abi \in ABIs
  BY DEF Judged, Typed
<1>7. CASE abi \in X86
  <2>1. \A k \in DOMAIN body : lowered[k].mn = body[k].mn
    BY <1>1, <1>7, Mnemonics
  <2>2. lowered[i].mn \in Blocking(abi)
    BY <1>2, <1>7, <2>1 DEF Spoils, LoadsOf, X86
  <2>3. lowered[i].mn \notin {"push", "pop", "ret", "retn", "retf", "add", "sub"}
    BY <1>7, <2>2 DEF Blocking, Sysv!ConditionalMoves, X86
  <2>4. CASE abi = "SysVAmd64"
    <3> DEFINE ends == {k \in DOMAIN lowered : IF lowered[k].mn = "pop" THEN Sysv!Is(lowered[k], 1, Sysv!Reg("rsp"))
                                               ELSE lowered[k].mn \notin Sysv!Returns \cup {"add", "sub"}}
    <3>1. r \in Sysv!written_nonvolatile(lowered)
      BY <1>1, <1>4, <2>3, <2>4, SameRegisters DEF Sysv!written_nonvolatile, Nonvolatile
    <3>2. r \in Sysv!epilogue_restored(lowered)
      BY <1>6, <2>4, <3>1, CleanRestores
    <3>3. PICK j \in Sysv!After(lowered, ends) : lowered[j].mn = "pop" /\ r \in Registers(lowered[j])
      BY <3>2, SameRegisters DEF Sysv!epilogue_restored
    <3>4. i \in ends
      BY <1>1, <2>3 DEF Sysv!Returns
    <3>5. j \in DOMAIN body /\ j > i
      BY <1>1, <3>4 DEF Sysv!After
    <3> QED BY <1>5, <2>1, <3>3, <3>5
  <2>5. CASE abi = "WindowsX64"
    <3> DEFINE ends == {k \in DOMAIN lowered : IF lowered[k].mn = "pop" THEN Win!Is(lowered[k], 1, Win!Reg("rsp"))
                                               ELSE lowered[k].mn \notin Win!Returns \cup {"add", "sub"}}
    <3>1. r \in Win!written_nonvolatile(lowered)
      BY <1>1, <1>4, <2>3, <2>5, SameRegisters DEF Win!written_nonvolatile, Nonvolatile
    <3>2. r \in Win!epilogue_restored(lowered)
      BY <1>6, <2>5, <3>1, CleanRestores
    <3>3. PICK j \in Win!After(lowered, ends) : lowered[j].mn = "pop" /\ r \in Registers(lowered[j])
      BY <3>2, SameRegisters DEF Win!epilogue_restored
    <3>4. i \in ends
      BY <1>1, <2>3 DEF Win!Returns
    <3>5. j \in DOMAIN body /\ j > i
      BY <1>1, <3>4 DEF Win!After
    <3> QED BY <1>5, <2>1, <3>3, <3>5
  <2> QED BY <1>7, <2>4, <2>5 DEF X86
<1>8. CASE abi \notin X86
  <2> DEFINE restores(k) == lowered[k].kind = "Load" /\ \E m \in MemOperands(lowered[k]) : m.base = "sp"
  <2>1. /\ ~restores(i) /\ lowered[i].kind \notin {"Return", "Binary", "Unknown"}
        /\ \A j \in DOMAIN body : restores(j) => \A x \in Registers(lowered[j]) : Reloads(abi, body[j], x)
    BY <1>1, <1>2, <1>8, ScanStops
  <2>2. CASE abi = "Aapcs64"
    <3> DEFINE ends == {k \in DOMAIN lowered : /\ lowered[k].kind \notin {"Return", "Binary", "Unknown"}
                                               /\ Arm!sp_load_targets(lowered[k]) = {}}
    <3>1. r \in Arm!written_nonvolatile(lowered)
      BY <1>1, <1>4, <2>2, SameRegisters DEF Arm!written_nonvolatile, Nonvolatile, X86
    <3>2. r \in Arm!epilogue_restored(lowered)
      BY <1>6, <2>2, <3>1, CleanRestores
    <3>3. PICK j \in Arm!After(lowered, ends) : r \in Arm!sp_load_targets(lowered[j])
      BY <3>2 DEF Arm!epilogue_restored
    <3>4. \A k : Arm!MemOperands(lowered[k]) = MemOperands(lowered[k])
      BY DEF Arm!MemOperands, MemOperands, Arm!Operands, Operands, Arm!Range, Range
    <3>5. restores(j) /\ r \in Registers(lowered[j])
      BY <3>3, <3>4, SameRegisters DEF Arm!sp_load_targets, Arm!OnStack
    <3>6. i \in ends
      BY <1>1, <2>1, <3>4 DEF Arm!sp_load_targets, Arm!OnStack
    <3>7. j \in DOMAIN body /\ j > i
      BY <1>1, <3>6 DEF Arm!After
    <3> QED BY <1>2, <2>1, <3>5, <3>7
  <2>3. CASE abi = "Riscv"
    <3> DEFINE ends == {k \in DOMAIN lowered : /\ lowered[k].kind \notin {"Return", "Binary", "Unknown"}
                                               /\ Rv!sp_load_targets(lowered[k]) = {}}
    <3>1. r \in Rv!written_nonvolatile(lowered)
      BY <1>1, <1>4, <2>3, SameRegisters DEF Rv!written_nonvolatile, Nonvolatile, X86
    <3>2. r \in Rv!epilogue_restored(lowered)
      BY <1>6, <2>3, <3>1, CleanRestores
    <3>3. PICK j \in Rv!After(lowered, ends) : r \in Rv!sp_load_targets(lowered[j])
      BY <3>2 DEF Rv!epilogue_restored
    <3>4. \A k : Rv!MemOperands(lowered[k]) = MemOperands(lowered[k])
      BY DEF Rv!MemOperands, MemOperands, Rv!Operands, Operands, Rv!Range, Range
    <3>5. restores(j) /\ r \in Registers(lowered[j])
      BY <3>3, <3>4, SameRegisters DEF Rv!sp_load_targets, Rv!OnStack
    <3>6. i \in ends
      BY <1>1, <2>1, <3>4 DEF Rv!sp_load_targets, Rv!OnStack
    <3>7. j \in DOMAIN body /\ j > i
      BY <1>1, <3>6 DEF Rv!After
    <3> QED BY <1>2, <2>1, <3>5, <3>7
  <2> QED BY <1>6, <1>8, <2>2, <2>3 DEF ABIs
<1> QED BY <1>7, <1>8


-----------------------------------------------------------------------------
(* The depth of the stack. *)

\* A call is prepared when the stack is aligned, with the shadow store on Windows.
Prepared(a, d) ==
    (d + IF a \in X86 THEN 8 ELSE 0) % 16 = 0 /\ (a = "WindowsX64" => d >= 32)

\* d holds the depths that the analysis computes for the lowered body.
Walk(a, b, d) ==
    /\ d \in [1..(Len(b) + 1) -> Int] /\ d[1] = 0
    /\ \A i \in 1..Len(b) :
          d[i + 1] = IF Resets(a, lower(a, b[i])) THEN 8 ELSE d[i] + Change(a, lower(a, b[i]))

\* The walk ends where the stack pointer is and blames a call for misalignment.
Tracked ==
    seen.exact /\ Supported(abi, body) =>
        \E d : /\ Walk(abi, body, d) /\ d[Len(body) + 1] = sp
               /\ ~seen.aligned => \E i \in 1..Len(body) : /\ IsCall(abi, lower(abi, body[i]))
                                                           /\ ~Prepared(abi, d[i])

\* What an instruction read as performed does to the stack pointer is what the
\* analysis takes it to do.
LEMMA DepthEffect ==
    ASSUME Typed, NEW ins \in code, Executes(ins), seen'.exact, lower(abi, ins) # Unsupported
    PROVE  LET l == lower(abi, ins) IN
           /\ seen.exact
           /\ sp' = IF Resets(abi, l) THEN 8 ELSE sp + Change(abi, l)
           /\ ~seen'.aligned => ~seen.aligned \/ (IsCall(abi, l) /\ ~Prepared(abi, sp))
<1> DEFINE l == lower(abi, ins)
<1>1. WellFormed(ins) /\ seen \in Histories /\ abi \in ABIs /\ sp \in Int
  BY DEF Typed
<1>2. 1 \in Nat \ {0} /\ 2 \in Nat \ {0}
  OBVIOUS
<1> HIDE DEF l
<1>3. ASSUME Still(abi, l), sp' = sp, seen.exact, seen'.aligned = seen.aligned
      PROVE  /\ seen.exact
             /\ sp' = IF Resets(abi, l) THEN 8 ELSE sp + Change(abi, l)
             /\ ~seen'.aligned => ~seen.aligned \/ (IsCall(abi, l) /\ ~Prepared(abi, sp))
  BY <1>1, <1>3 DEF Still
<1>4. CASE Push(ins) \/ Pop(ins)
  <2>1. /\ ins.mn \in {"push", "pop"} /\ sp' = IF ins.mn = "push" THEN sp + 8 ELSE sp - 8
        /\ seen'.exact = seen.exact /\ seen'.aligned = seen.aligned
    BY <1>1, <1>4 DEF Push, Pop, Histories
  <2>2. ~Resets(abi, l) /\ Change(abi, l) = IF ins.mn = "push" THEN 8 ELSE -8
    BY <1>1, <2>1, PushPop DEF l
  <2> QED BY <1>1, <2>1, <2>2 DEF l
<1>5. CASE Load(ins) \/ Store(ins)
  <2>1. ins.mn \in Loads \cup Stores /\ IsMem(ins, Place)
    <3>1. Loads # {} => Place = 2
      BY <1>1, AccessesOf DEF LoadsOf, PlaceOf, ABIs, X86
    <3> QED BY <1>5, <3>1 DEF Load, Store, Place
  <2> DEFINE m == ins.ops[Place]
  <2>2. sp' = SpAfter(m) /\ seen'.aligned = seen.aligned /\ seen.exact /\ ReadRight(ins, m)
    <3>1. CASE Load(ins)
      <4>1. Place = 2
        BY <1>1, <3>1, AccessesOf DEF Load, LoadsOf, PlaceOf, ABIs, X86
      <4> QED BY <1>1, <3>1, <4>1 DEF Load, Histories
    <3>2. CASE Store(ins)
      BY <1>1, <3>2 DEF Store, Place, Histories
    <3> QED BY <1>5, <3>1, <3>2
  <2>3. Still(abi, l) /\ SpAfter(m) = sp
    BY <1>1, <2>1, <2>2, Accesses DEF l
  <2> HIDE DEF m
  <2> QED BY <1>3, <2>2, <2>3 DEF l
<1>6. CASE AdjustStack(ins)
  <2> DEFINE n == ins.ops[Len(ins.ops)].n
  <2>1. UNCHANGED seen /\ sp' = IF ins.mn = "sub" THEN sp + n ELSE sp - n
    BY <1>6 DEF AdjustStack
  <2>2. n \in Int /\ ~Resets(abi, l) /\ Change(abi, l) = IF ins.mn = "sub" THEN n ELSE -n
    BY <1>1, <1>6, Adjusts DEF l, AdjustStack
  <2> HIDE DEF n
  <2> QED BY <1>1, <2>1, <2>2 DEF l
<1>7. CASE RestoreFrame(ins)
  <2>1. /\ ins.mn \in Copies /\ Is(ins, 1, Reg(StackPointer)) /\ IsReg(ins, 2)
        /\ seen.exact /\ seen'.aligned = seen.aligned
        /\ sp' = IF abi \in X86 /\ ins.ops[2].r = "rbp" THEN 8 ELSE sp
    BY <1>1, <1>7 DEF RestoreFrame, CopiesAddress, Histories
  <2>2. ins.ops[2] = Reg(ins.ops[2].r)
    BY <1>1, <1>2, <2>1, OperandOf
  <2>3. CASE abi \in X86 /\ ins.ops[2].r = "rbp"
    <3>1. Is(ins, 1, Reg("rsp")) /\ Is(ins, 2, Reg("rbp"))
      BY <2>1, <2>2, <2>3 DEF Is, IsReg, StackPointer
    <3>2. Resets(abi, l)
      BY <1>1, <2>1, <2>3, <3>1, FrameReset DEF l
    <3> QED BY <2>1, <2>3, <3>2 DEF l
  <2>4. CASE ~(abi \in X86 /\ ins.ops[2].r = "rbp")
    <3>1. ~(abi \in X86 /\ Is(ins, 1, Reg("rsp")) /\ Is(ins, 2, Reg("rbp")))
      BY <2>4 DEF Is, Reg
    <3>2. Still(abi, l)
      BY <1>1, <2>1, <3>1, StillInstructions DEF l
    <3> QED BY <1>3, <2>1, <2>4, <3>2 DEF l
  <2> QED BY <2>3, <2>4
<1>8. CASE Call(ins)
  <2>1. /\ ins.mn \in {"call", "bl", "jal"} /\ sp' = sp /\ seen'.exact = seen.exact
        /\ seen'.aligned <=> seen.aligned /\ Prepared(abi, sp)
    BY <1>1, <1>8 DEF Call, Histories, Prepared
  <2>2. IsCall(abi, l) /\ ~Resets(abi, l) /\ Change(abi, l) = 0
    BY <1>1, <2>1, Calls DEF l
  <2> QED BY <1>1, <2>1, <2>2 DEF l
<1>9. CASE Compute(ins)
  <2>1. /\ \/ ins.mn \in Computations /\ ~Is(ins, 1, Reg(StackPointer))
           \/ ins.mn \in Loads /\ ~IsMem(ins, 2)
        /\ UNCHANGED sp /\ seen.exact /\ seen'.aligned = seen.aligned
    BY <1>1, <1>9 DEF Compute, Histories
  <2>2. ins.mn \in Loads /\ ~IsMem(ins, 2) => MemOperands(ins) = {}
    <3>1. ins.mn \in Loads => ins.mn \in LoadMnemonics
      BY DEF Loads, LoadMnemonics
    <3>2. ins.mn \in LoadMnemonics => /\ Len(ins.ops) = 2 /\ DOMAIN ins.ops = {1, 2} /\ ins.ops[1].t = "reg"
      BY <1>1 DEF WellFormed
    <3> QED BY <3>1, <3>2 DEF MemOperands, Operands, Range, IsMem
  <2>3. Still(abi, l)
    BY <1>1, <2>1, <2>2, StillInstructions DEF l
  <2> QED BY <1>3, <2>1, <2>3 DEF l
<1>10. CASE SystemCall(ins) \/ Compare(ins) \/ Return(ins)
  <2>1. /\ ins.mn \in Comparisons \cup SystemCalls \cup ReturnsOf(abi)
        /\ seen.exact /\ seen'.aligned = seen.aligned
    BY <1>1, <1>10 DEF SystemCall, Compare, Return, Histories, Comparisons, SystemCalls, ReturnsOf, Sysv!Returns
  <2>2. UNCHANGED sp
    <3>1. CASE Return(ins)
      <4>1. abi \in X86 => ins.ops = <<>>
        BY <1>1, <3>1 DEF Return, Histories
      <4>2. ins.ops = <<>> => ~IsImm(ins, 1)
        BY DEF IsImm
      <4> QED BY <3>1, <4>1, <4>2 DEF Return
    <3> QED BY <1>10, <3>1 DEF SystemCall, Compare
  <2>3. Still(abi, l)
    BY <1>1, <2>1, StillInstructions DEF l
  <2> QED BY <1>3, <2>1, <2>2, <2>3 DEF l
<1>11. CASE MoveStack(ins)
  <2>1. ~seen'.exact
    BY <1>1, <1>11 DEF MoveStack, Histories
  <2> QED BY <2>1
<1>12. CASE Unmodelled(ins)
  BY <1>12 DEF Unmodelled
<1> QED BY <1>4, <1>5, <1>6, <1>7, <1>8, <1>9, <1>10, <1>11, <1>12 DEF Executes

\* Tracked is preserved.
LEMMA TrackedStep == Typed /\ Tracked /\ [Next]_vars => Tracked'
<1> SUFFICES ASSUME Typed, Tracked, [Next]_vars PROVE Tracked'
  OBVIOUS
<1>1. CASE UNCHANGED <<abi, body, seen, sp>>
  BY <1>1 DEF Tracked
<1>2. ASSUME NEW ins \in code, Executes(ins) PROVE Tracked'
  <2>1. body' = Append(body, ins) /\ UNCHANGED abi
    BY <1>2, ExecutesRuns
  <2> DEFINE n == Len(body)
  <2>2. /\ n \in Nat /\ Len(body') = n + 1 /\ body'[n + 1] = ins
        /\ DOMAIN body = 1..n /\ DOMAIN body' = 1..(n + 1)
        /\ \A i \in 1..n : body'[i] = body[i]
    BY <2>1 DEF Typed
  <2> HIDE DEF n
  <2> SUFFICES ASSUME seen'.exact, Supported(abi, body')
               PROVE  \E e : /\ Walk(abi, body', e) /\ e[n + 2] = sp'
                             /\ ~seen'.aligned => \E i \in 1..(n + 1) : /\ IsCall(abi, lower(abi, body'[i]))
                                                                        /\ ~Prepared(abi, e[i])
    <3>1. n + 1 + 1 = n + 2
      BY <2>2
    <3> QED BY <2>1, <2>2, <3>1 DEF Tracked
  <2>3. lower(abi, ins) # Unsupported /\ Supported(abi, body)
    BY <2>2 DEF Supported
  <2>4. /\ seen.exact
        /\ sp' = IF Resets(abi, lower(abi, ins)) THEN 8 ELSE sp + Change(abi, lower(abi, ins))
        /\ ~seen'.aligned => ~seen.aligned \/ (IsCall(abi, lower(abi, ins)) /\ ~Prepared(abi, sp))
    BY <1>2, <2>3, DepthEffect
  <2>5. PICK d : /\ Walk(abi, body, d) /\ d[n + 1] = sp
                 /\ ~seen.aligned => \E i \in 1..n : /\ IsCall(abi, lower(abi, body[i]))
                                                     /\ ~Prepared(abi, d[i])
    BY <2>3, <2>4 DEF Tracked, n
  <2>6. sp' \in Int
    BY <1>2, MachineTyped
  <2> DEFINE e == [i \in 1..(n + 2) |-> IF i = n + 2 THEN sp' ELSE d[i]]
  <2>7. d \in [1..(n + 1) -> Int] /\ d[1] = 0
    BY <2>5 DEF Walk, n
  <2>8. /\ e \in [1..(n + 2) -> Int] /\ e[n + 2] = sp' /\ \A i \in 1..(n + 1) : e[i] = d[i]
    BY <2>2, <2>6, <2>7
  <2> HIDE DEF e
  <2>9. ASSUME NEW i \in 1..(n + 1)
        PROVE  e[i + 1] = IF Resets(abi, lower(abi, body'[i])) THEN 8
                          ELSE e[i] + Change(abi, lower(abi, body'[i]))
    <3>1. CASE i = n + 1
      <4>1. i + 1 = n + 2 /\ body'[i] = ins /\ e[i] = sp
        BY <2>2, <2>5, <2>8, <3>1
      <4> QED BY <2>4, <2>8, <4>1
    <3>2. CASE i # n + 1
      <4>1. i \in 1..n /\ i + 1 \in 1..(n + 1) /\ body'[i] = body[i]
        BY <2>2, <3>2
      <4>2. d[i + 1] = IF Resets(abi, lower(abi, body[i])) THEN 8 ELSE d[i] + Change(abi, lower(abi, body[i]))
        BY <2>5, <4>1 DEF Walk, n
      <4> QED BY <2>8, <4>1, <4>2
    <3> QED BY <3>1, <3>2
  <2>10. Walk(abi, body', e)
    <3>1. Len(body') + 1 = n + 2 /\ 1 \in 1..(n + 1)
      BY <2>2
    <3> QED BY <2>2, <2>7, <2>8, <2>9, <3>1 DEF Walk
  <2>11. ASSUME ~seen'.aligned
         PROVE  \E i \in 1..(n + 1) : IsCall(abi, lower(abi, body'[i])) /\ ~Prepared(abi, e[i])
    <3>1. CASE ~seen.aligned
      <4>1. PICK i \in 1..n : IsCall(abi, lower(abi, body[i])) /\ ~Prepared(abi, d[i])
        BY <2>5, <3>1
      <4>2. i \in 1..(n + 1) /\ e[i] = d[i] /\ body'[i] = body[i]
        BY <2>2, <2>8
      <4> QED BY <4>1, <4>2
    <3>2. CASE IsCall(abi, lower(abi, ins)) /\ ~Prepared(abi, sp)
      <4>1. n + 1 \in 1..(n + 1) /\ e[n + 1] = sp
        BY <2>2, <2>5, <2>8
      <4> QED BY <2>2, <3>2, <4>1
    <3> QED BY <2>4, <2>11, <3>1, <3>2
  <2> QED BY <2>8, <2>10, <2>11
<1> QED BY <1>1, <1>2, Steps, JudgesKeep DEF vars


\* The depths of the analysis are those of the walk.
LEMMA DeltaIsWalk ==
    ASSUME Typed, Judged, gate \in {"abi", "memory", "accepted"}, NEW d, Walk(abi, body, d)
    PROVE  DeltaOf(lowered) = d
<1>1. /\ DOMAIN body = 1..Len(body) /\ Len(lowered) = Len(body) /\ Len(body) \in Nat
      /\ \A i \in DOMAIN body : lowered[i] = lower(abi, body[i])
  BY LoweredBody
<1>2. /\ d \in [1..(Len(lowered) + 1) -> Int] /\ d[1] = 0 /\ Len(lowered) \in Nat
      /\ \A i \in 1..Len(lowered) :
            d[i + 1] = IF Resets(abi, lowered[i]) THEN 8 ELSE d[i] + Change(abi, lowered[i])
  BY <1>1 DEF Walk
<1>3. CASE abi = "SysVAmd64"
  <2>1. \A i \in 1..Len(lowered) : d[i + 1] = IF Sysv!is_mov_rsp_from_rbp(lowered[i]) THEN 8
                                             ELSE d[i] + Sysv!step(lowered[i]).rsp_change
    BY <1>2, <1>3 DEF Resets, Change, X86
  <2>2. Sysv!DeltaBefore(lowered) = d
    BY <1>2, <2>1, SysvDelta
  <2> QED BY <1>3, <2>2 DEF DeltaOf
<1>4. CASE abi = "WindowsX64"
  <2>1. \A l : Win!is_mov_rsp_from_rbp(l) <=> Sysv!is_mov_rsp_from_rbp(l)
    BY DEF Win!is_mov_rsp_from_rbp, Sysv!is_mov_rsp_from_rbp, Win!Is, Sysv!Is, Win!Reg, Sysv!Reg
  <2>2. \A i \in 1..Len(lowered) : d[i + 1] = IF Win!is_mov_rsp_from_rbp(lowered[i]) THEN 8
                                             ELSE d[i] + Win!step(lowered[i]).rsp_change
    BY <1>2, <1>4, <2>1 DEF Resets, Change, X86
  <2>3. Win!DeltaBefore(lowered) = d
    BY <1>2, <2>2, WinDelta
  <2> QED BY <1>4, <2>3 DEF DeltaOf
<1>5. CASE abi = "Aapcs64"
  <2>1. \A i \in 1..Len(lowered) : d[i + 1] = d[i] + Arm!step(lowered[i]).sp_change
    BY <1>2, <1>5 DEF Resets, Change, X86
  <2>2. Arm!DeltaBefore(lowered) = d
    BY <1>2, <2>1, ArmDelta
  <2> QED BY <1>5, <2>2 DEF DeltaOf
<1>6. CASE abi = "Riscv"
  <2>1. \A i \in 1..Len(lowered) : d[i + 1] = d[i] + Rv!step(lowered[i]).sp_change
    BY <1>2, <1>6 DEF Resets, Change, X86
  <2>2. Rv!DeltaBefore(lowered) = d
    BY <1>2, <2>1, RvDelta
  <2> QED BY <1>6, <2>2 DEF DeltaOf
<1> QED BY <1>3, <1>4, <1>5, <1>6 DEF Typed, ABIs, X86

\* A clean body makes every call prepared and returns at depth zero, by the
\* depths of the analysis.
LEMMA CleanStack ==
    ASSUME abi \in ABIs, NEW b, Clean(abi, b), NEW i \in DOMAIN b, DeltaOf(b)[i] \in Int
    PROVE  /\ IsCall(abi, b[i]) => Prepared(abi, DeltaOf(b)[i])
           /\ IsRet(abi, b[i]) => DeltaOf(b)[i] = 0
<1>1. CASE abi = "SysVAmd64"
  <2> DEFINE d == Sysv!DeltaBefore(b)
  <2>1. /\ Sysv!is_clean(Sysv!analyze(b)) /\ DeltaOf(b) = d /\ abi \in X86 /\ abi # "WindowsX64"
        /\ IsCall(abi, b[i]) = Sysv!step(b[i]).is_call /\ IsRet(abi, b[i]) = Sysv!step(b[i]).is_ret
    BY <1>1 DEF Clean, DeltaOf, IsCall, IsRet, X86
  <2>2. \A f \in Sysv!analyze(b).findings : f.code = "CALLER_SAVED"
    BY <2>1 DEF Sysv!is_clean, Sysv!Warnings
  <2>3. ASSUME Sysv!step(b[i]).is_call, ~Sysv!Aligned(d[i]) PROVE FALSE
    <3>1. Sysv!Finding("STACK_ALIGN_CALL", i) \in Sysv!analyze(b).findings
      BY <2>3 DEF Sysv!analyze
    <3> QED BY <2>2, <3>1 DEF Sysv!Finding
  <2>4. ASSUME Sysv!step(b[i]).is_ret, d[i] # 0 PROVE FALSE
    <3>1. Sysv!Finding("STACK_BALANCE_RET", i) \in Sysv!analyze(b).findings
      BY <2>4 DEF Sysv!analyze
    <3> QED BY <2>2, <3>1 DEF Sysv!Finding
  <2> HIDE DEF d
  <2>5. Sysv!Aligned(d[i]) => Prepared(abi, d[i])
    BY <2>1 DEF Sysv!Aligned, Sysv!ENTRY_RSP_MOD, Sysv!STACK_ALIGN, Prepared
  <2> QED BY <2>1, <2>3, <2>4, <2>5 DEF d
<1>2. CASE abi = "WindowsX64"
  <2> DEFINE d == Win!DeltaBefore(b)
  <2>1. /\ Win!is_clean(Win!analyze(b)) /\ DeltaOf(b) = d /\ abi \in X86
        /\ IsCall(abi, b[i]) = Win!step(b[i]).is_call /\ IsRet(abi, b[i]) = Win!step(b[i]).is_ret
    BY <1>2 DEF Clean, DeltaOf, IsCall, IsRet, X86
  <2>2. Win!analyze(b).findings = {}
    BY <2>1 DEF Win!is_clean
  <2>3. ASSUME Win!step(b[i]).is_call PROVE Win!Aligned(d[i]) /\ ~(d[i] < Win!SHADOW_BYTES)
    <3>1. ASSUME ~Win!Aligned(d[i]) PROVE FALSE
      <4>1. Win!Finding("STACK_ALIGN_CALL", i) \in Win!analyze(b).findings
        BY <2>3, <3>1 DEF Win!analyze
      <4> QED BY <2>2, <4>1
    <3>2. ASSUME d[i] < Win!SHADOW_BYTES PROVE FALSE
      <4>1. Win!Finding("SHADOW_SPACE_MISSING", i) \in Win!analyze(b).findings
        BY <2>3, <3>2 DEF Win!analyze
      <4> QED BY <2>2, <4>1
    <3> QED BY <3>1, <3>2
  <2>4. ASSUME Win!step(b[i]).is_ret, d[i] # 0 PROVE FALSE
    <3>1. Win!Finding("STACK_BALANCE_RET", i) \in Win!analyze(b).findings
      BY <2>4 DEF Win!analyze
    <3> QED BY <2>2, <3>1
  <2> HIDE DEF d
  <2>5. Win!Aligned(d[i]) /\ ~(d[i] < Win!SHADOW_BYTES) => Prepared(abi, d[i])
    BY <2>1 DEF Win!Aligned, Win!ENTRY_RSP_MOD, Win!STACK_ALIGN, Win!SHADOW_BYTES, Prepared
  <2> QED BY <2>1, <2>3, <2>4, <2>5 DEF d
<1>3. CASE abi = "Aapcs64"
  <2> DEFINE d == Arm!DeltaBefore(b)
  <2>1. /\ Arm!is_clean(Arm!analyze(b)) /\ DeltaOf(b) = d /\ abi \notin X86 /\ abi # "WindowsX64"
        /\ IsCall(abi, b[i]) = Arm!step(b[i]).is_call /\ IsRet(abi, b[i]) = Arm!step(b[i]).is_ret
    BY <1>3 DEF Clean, DeltaOf, IsCall, IsRet, X86
  <2>2. Arm!analyze(b).findings = {}
    BY <2>1 DEF Arm!is_clean
  <2>3. ASSUME Arm!step(b[i]).is_call PROVE Arm!Aligned(d[i])
    BY <2>2, <2>3 DEF Arm!analyze
  <2>4. ASSUME Arm!step(b[i]).is_ret PROVE d[i] = 0
    BY <2>2, <2>4 DEF Arm!analyze
  <2> HIDE DEF d
  <2>5. Arm!Aligned(d[i]) => Prepared(abi, d[i])
    BY <2>1 DEF Arm!Aligned, Arm!ENTRY_SP_MOD, Arm!STACK_ALIGN, Prepared
  <2> QED BY <2>1, <2>3, <2>4, <2>5 DEF d
<1>4. CASE abi = "Riscv"
  <2> DEFINE d == Rv!DeltaBefore(b)
  <2>1. /\ Rv!is_clean(Rv!analyze(b)) /\ DeltaOf(b) = d /\ abi \notin X86 /\ abi # "WindowsX64"
        /\ IsCall(abi, b[i]) = Rv!step(b[i]).is_call /\ IsRet(abi, b[i]) = Rv!step(b[i]).is_ret
    BY <1>4 DEF Clean, DeltaOf, IsCall, IsRet, X86
  <2>2. Rv!analyze(b).findings = {}
    BY <2>1 DEF Rv!is_clean
  <2>3. ASSUME Rv!step(b[i]).is_call PROVE Rv!Aligned(d[i])
    BY <2>2, <2>3 DEF Rv!analyze
  <2>4. ASSUME Rv!step(b[i]).is_ret PROVE d[i] = 0
    BY <2>2, <2>4 DEF Rv!analyze
  <2> HIDE DEF d
  <2>5. Rv!Aligned(d[i]) => Prepared(abi, d[i])
    BY <2>1 DEF Rv!Aligned, Rv!ENTRY_SP_MOD, Rv!STACK_ALIGN, Prepared
  <2> QED BY <2>1, <2>3, <2>4, <2>5 DEF d
<1> QED BY <1>1, <1>2, <1>3, <1>4 DEF ABIs, X86

\* A return is read as a return, and a system call as a system call.
LEMMA ReadAsIs ==
    ASSUME abi \in ABIs, NEW ins, WellFormed(ins), lower(abi, ins) # Unsupported
    PROVE  /\ ins.mn \in ReturnsOf(abi) => IsRet(abi, lower(abi, ins))
           /\ ins.mn \in SystemCalls => lower(abi, ins).mn \in SystemCalls
<1>1. CASE abi \in X86
  BY <1>1, Mnemonics, X86Step DEF ReturnsOf
<1>2. CASE abi = "Aapcs64"
  BY <1>2, Mnemonics, ArmStep DEF ReturnsOf, X86
<1>3. CASE abi = "Riscv"
  <2>1. lower(abi, ins).mn = "ret" => IsRet(abi, lower(abi, ins))
    BY <1>3, RvStep
  <2> QED BY <1>3, <2>1, Mnemonics DEF ReturnsOf, X86
<1> QED BY <1>1, <1>2, <1>3 DEF ABIs

-----------------------------------------------------------------------------
(* The theorems. *)

\* The inductive invariant.
Inductive == Typed /\ Judged /\ Blamed /\ Preserved /\ Tracked

\* It holds initially ...
LEMMA InductiveInit == Init => Inductive
<1> SUFFICES ASSUME Init PROVE Inductive
  OBVIOUS
<1>1. Typed
  BY TypedInit
<1>2. gate = "run" /\ body = <<>> /\ sp = 0 /\ seen = Unseen
  BY DEF Init
<1>3. Judged
  BY <1>2 DEF Judged
<1>4. Blamed
  BY <1>2 DEF Blamed, Unseen
<1>5. Preserved
  <2>1. \A r \in Nonvolatile : reg[r] = EntryValue(r)
    BY DEF Init
  <2> QED BY <1>2, <2>1 DEF Preserved
<1>6. Tracked
  <2>1. Walk(abi, body, [i \in 1..1 |-> 0])
    BY <1>2 DEF Walk
  <2>2. [i \in 1..1 |-> 0][Len(body) + 1] = sp /\ seen.aligned
    BY <1>2 DEF Unseen
  <2> QED BY <2>1, <2>2 DEF Tracked
<1> QED BY <1>1, <1>3, <1>4, <1>5, <1>6 DEF Inductive

\* ... and always.
LEMMA InductiveHolds == Spec => []Inductive
<1>1. Inductive /\ [Next]_vars => Inductive'
  BY TypedStep, JudgedStep, BlamedStep, PreservedStep, TrackedStep DEF Inductive
<1> QED BY <1>1, InductiveInit, PTL DEF Spec

\* The depth that the analysis computes for a straight-line body is where the
\* stack pointer is at its end, on every ABI, if the body has none of the
\* instructions listed at DepthIsExact (writes of the stack pointer that the
\* walk does not see or reads wrongly, displacements off it, ret n).
THEOREM DepthHolds == Spec => []DepthIsExact
<1>1. Inductive => DepthIsExact
  <2> SUFFICES ASSUME Inductive, gate \in {"abi", "memory", "accepted"}, seen.exact
               PROVE  DeltaOf(lowered)[Len(lowered) + 1] = sp
    BY DEF DepthIsExact
  <2>1. Supported(abi, body)
    BY DEF Inductive, Judged, Supported
  <2>2. PICK d : Walk(abi, body, d) /\ d[Len(body) + 1] = sp
    BY <2>1 DEF Inductive, Tracked
  <2>3. DeltaOf(lowered) = d
    BY <2>2, DeltaIsWalk DEF Inductive
  <2> QED BY <2>2, <2>3, LoweredBody DEF Inductive
<1> QED BY <1>1, InductiveHolds, PTL

\* An accepted body made no system call; if it has none of the instructions
\* listed at DepthIsExact it returned with the stack pointer where it found it
\* and made every call on an aligned stack, with the shadow store on Windows.
THEOREM BalanceHolds == Spec => []AcceptedIsBalanced
<1>1. Inductive => AcceptedIsBalanced
  <2> SUFFICES ASSUME Inductive, gate = "accepted"
               PROVE  ~seen.syscall /\ (seen.exact => sp = 0 /\ seen.aligned)
    BY DEF AcceptedIsBalanced, Accepted
  <2> DEFINE n == Len(body)
  <2>1. /\ DOMAIN lowered = DOMAIN body /\ n \in Nat /\ DOMAIN body = 1..n
        /\ \A i \in DOMAIN body : /\ lowered[i] = lower(abi, body[i]) /\ lowered[i] # Unsupported
                                  /\ WellFormed(body[i]) /\ abi \in ABIs
    BY LoweredBody DEF Inductive
  <2>2. Clean(abi, lowered) /\ \A i \in DOMAIN lowered : lowered[i].mn \notin SystemCalls
    BY DEF Inductive, Judged
  <2>3. ~seen.syscall
    BY <2>1, <2>2, ReadAsIs DEF Inductive, Blamed
  <2> SUFFICES ASSUME seen.exact PROVE sp = 0 /\ seen.aligned
    BY <2>3
  <2>4. PICK d : /\ Walk(abi, body, d) /\ d[n + 1] = sp
                 /\ ~seen.aligned => \E i \in 1..n : /\ IsCall(abi, lower(abi, body[i]))
                                                     /\ ~Prepared(abi, d[i])
    <3>1. Supported(abi, body)
      BY DEF Inductive, Judged, Supported
    <3> QED BY <3>1 DEF Inductive, Tracked
  <2>5. DeltaOf(lowered) = d
    BY <2>4, DeltaIsWalk DEF Inductive
  <2>6. n \in DOMAIN body /\ body[n].mn \in ReturnsOf(abi)
    BY <2>1 DEF Inductive, Typed
  <2> HIDE DEF n
  <2>7. /\ \A i \in 1..(n + 1) : d[i] \in Int
        /\ \A i \in 1..n : d[i + 1] = IF Resets(abi, lowered[i]) THEN 8 ELSE d[i] + Change(abi, lowered[i])
    BY <2>1, <2>4 DEF Walk, n
  <2>8. \A i \in 1..n : /\ IsCall(abi, lowered[i]) => Prepared(abi, d[i])
                        /\ IsRet(abi, lowered[i]) => d[i] = 0
    <3> SUFFICES ASSUME NEW i \in 1..n
                 PROVE  /\ IsCall(abi, lowered[i]) => Prepared(abi, d[i])
                        /\ IsRet(abi, lowered[i]) => d[i] = 0
      OBVIOUS
    <3>1. i \in DOMAIN lowered /\ abi \in ABIs /\ i \in 1..(n + 1)
      BY <2>1
    <3>2. DeltaOf(lowered)[i] \in Int
      BY <2>5, <2>7, <3>1
    <3> QED BY <2>2, <2>5, <3>1, <3>2, CleanStack
  <2>9. d[n] = 0
    BY <2>1, <2>6, <2>8, ReadAsIs
  <2>10. Still(abi, lowered[n])
    BY <2>1, <2>6, StillInstructions
  <2>11. sp = 0
    <3>1. n \in 1..n
      BY <2>1, <2>6
    <3>2. d[n + 1] = d[n] + 0
      BY <2>7, <2>10, <3>1 DEF Still
    <3> QED BY <2>4, <2>9, <3>2
  <2>12. seen.aligned
    BY <2>1, <2>4, <2>8
  <2> QED BY <2>11, <2>12
<1> QED BY <1>1, InductiveHolds, PTL

\* An accepted body left every nonvolatile register as it found it, provided
\* its restores read their registers' own save slots, but for additions (or the
\* like) after the restore and the write-back of accesses.
THEOREM RegistersHold == Spec => []AcceptedPreservesRegisters
<1>1. Inductive => AcceptedPreservesRegisters
  <2>1. Inductive /\ gate = "accepted" => Supported(abi, body)
    BY DEF Inductive, Judged, Supported
  <2> QED BY <2>1, NoneDirty DEF Inductive, AcceptedPreservesRegisters, Accepted, Preserved
<1> QED BY <1>1, InductiveHolds, PTL

\* A body accepted for a read-only leaf wrote nothing outside the stack, when
\* the frame pointer it stored through did point to the stack, no store off it
\* or off the stack pointer had an index register and it did not pop into memory.
THEOREM ReadOnlyHolds == Spec => []AcceptedReadOnlyStoresNothing
<1>1. Inductive => AcceptedReadOnlyStoresNothing
  <2> SUFFICES ASSUME Inductive, gate = "accepted", readOnly, seen.framed, ~seen.popped, seen.stored
               PROVE  FALSE
    BY DEF AcceptedReadOnlyStoresNothing, Accepted
  <2>1. PICK i \in DOMAIN body : StoresOut(abi, body[i])
    BY DEF Inductive, Blamed
  <2>2. /\ i \in DOMAIN lowered /\ lowered[i] = lower(abi, body[i]) /\ lowered[i] # Unsupported
        /\ WellFormed(body[i]) /\ abi \in ABIs
    BY LoweredBody DEF Inductive
  <2>3. Writes(lowered[i])
    BY <2>1, <2>2, StoresAreWrites
  <2> QED BY <2>2, <2>3 DEF Inductive, Judged
<1> QED BY <1>1, InductiveHolds, PTL

===============================================================================
