----------------------------- MODULE Instructions -----------------------------
(***************************************************************************)
(* Decoded and lowered instructions: a mnemonic, for lowered ones a kind   *)
(* of operation, and operands.  A memory operand of a decoded instruction  *)
(* carries its addressing mode (plain, pre- or post-indexed); lowering     *)
(* drops it.  Widths and signedness are left out.                          *)
(***************************************************************************)
EXTENDS Integers, Sequences, FiniteSets, Functions

Reg(r) == [t |-> "reg", r |-> r]
Imm(n) == [t |-> "imm", n |-> n]
NoReg == "-"
Mem(base, index, disp) == [t |-> "mem", base |-> base, index |-> index, disp |-> disp]
Indexed(base, disp, mode) ==
    [t |-> "mem", base |-> base, index |-> NoReg, disp |-> disp, mode |-> mode]

\* A decoded instruction; pushes and pops have one operand, the stores and loads
\* of AArch64 and RISC-V a register and a memory operand, or a literal to load.
DecodedOperands ==
    [t : {"reg"}, r : STRING] \cup [t : {"imm"}, n : Int]
    \cup [t : {"mem"}, base : STRING, index : STRING, disp : Int, mode : {"none", "pre", "post"}]
StoreMnemonics == {"str", "strb", "strh", "sd", "sb", "sh", "sw"}
LoadMnemonics == {"ldr", "ldrb", "ldrh", "ldrsb", "ldrsh", "ldrsw",
                  "ld", "lb", "lh", "lw", "ldu", "lbu", "lhu", "lwu"}
WellFormed(ins) ==
    /\ ins \in [mn : STRING, ops : Seq(DecodedOperands)]
    /\ ins.mn \in {"push", "pop"} => Len(ins.ops) = 1
    /\ ins.mn \in StoreMnemonics \cup LoadMnemonics =>
          /\ Len(ins.ops) = 2 /\ ins.ops[1].t = "reg"
          /\ ins.ops[2].t = "mem" \/ (ins.mn \in LoadMnemonics /\ ins.ops[2].t = "imm")

Decoded(mn, ops) == [mn |-> mn, ops |-> ops]
LoweredInstr(mn, kind, ops) == [mn |-> mn, kind |-> kind, ops |-> ops]
Unsupported == LoweredInstr("", "Unsupported", <<>>)

Operands(ins) == Range(ins.ops)
Registers(ins) == {op.r : op \in {o \in Operands(ins) : o.t = "reg"}}
MemOperands(ins) == {op \in Operands(ins) : op.t = "mem"}
Is(ins, i, op) == i <= Len(ins.ops) /\ ins.ops[i] = op
IsImm(ins, i) == i <= Len(ins.ops) /\ ins.ops[i].t = "imm"
IsReg(ins, i) == i <= Len(ins.ops) /\ ins.ops[i].t = "reg"
IsMem(ins, i) == i <= Len(ins.ops) /\ ins.ops[i].t = "mem"

\* Positions before the first, or after the last, instruction of a set.
Before(body, stop) == {i \in DOMAIN body : \A j \in 1..i : j \notin stop}
After(body, stop) == {i \in DOMAIN body : \A j \in i..Len(body) : j \notin stop}

Finding(code, at) == [code |-> code, at |-> at]
Nowhere == 0
Warnings == {"CALLER_SAVED"}
Smallest(S) == CHOOSE x \in S : \A y \in S : x <= y

===============================================================================
