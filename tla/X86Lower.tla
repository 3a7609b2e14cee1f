------------------------------- MODULE X86Lower -------------------------------
(* Lowering of decoded x86-64 instructions (crates/semasm-x86/src/lower.rs). *)
EXTENDS Instructions

\* Whether the operand of a decoded instruction can be parsed: a register the
\* tables know, an immediate, or a memory operand made of such.
Registers64 == {"rax", "rbx", "rcx", "rdx", "rsi", "rdi", "rsp", "rbp", "r8", "r9", "r10",
                "r11", "r12", "r13", "r14", "r15", "rip"}
parse_reg(r) == r \in Registers64

parse_memory(op) ==
    IF {op.base, op.index} \subseteq Registers64 \cup {NoReg} THEN Mem(op.base, op.index, op.disp)
    ELSE Mem(NoReg, NoReg, 0)

parse_operand(op) == IF op.t = "mem" THEN parse_memory(op) ELSE op
Parses(op) == op.t = "reg" => parse_reg(op.r)

\* The condition suffixes classify_cmov knows: unsigned, signed, and the flags.
ConditionalMoves ==
    {"cmova", "cmovnbe", "cmovae", "cmovnb", "cmovnc", "cmovb", "cmovc", "cmovnae", "cmovbe", "cmovna"}
    \cup {"cmovg", "cmovnle", "cmovge", "cmovnl", "cmovl", "cmovnge", "cmovle", "cmovng"}
    \cup {"cmove", "cmovz", "cmovne", "cmovnz", "cmovs", "cmovns", "cmovo", "cmovno",
          "cmovp", "cmovpe", "cmovnp", "cmovpo"}

classify_cmov(mn) == IF mn \in ConditionalMoves THEN "Select" ELSE "Unsupported"

KindOf(mn) ==
    CASE mn \in {"mov", "movabs", "push", "pop"} -> "Store"
      [] mn \in {"lea", "movzx"} -> "Load"
      [] mn \in {"xor", "add", "sub", "inc", "dec", "and", "or", "shl", "shr"} -> "Binary"
      [] mn \in {"cmp", "test"} -> "Compare"
      [] mn \in {"jmp", "je", "jne", "jz", "jnz", "ja", "jae", "jb", "jbe",
                "jg", "jge", "jl", "jle"} -> "Branch"
      [] mn = "call" -> "Call"
      [] mn \in {"ret", "retn", "retf"} -> "Return"
      [] mn = "syscall" -> "Unknown"
      [] OTHER -> classify_cmov(mn)

lower(ins) ==
    IF KindOf(ins.mn) = "Unsupported" \/ \E op \in Operands(ins) : ~Parses(op)
    THEN Unsupported
    ELSE LoweredInstr(ins.mn, KindOf(ins.mn), [i \in DOMAIN ins.ops |-> parse_operand(ins.ops[i])])

===============================================================================
