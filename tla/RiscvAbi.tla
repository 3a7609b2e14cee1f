------------------------------- MODULE RiscvAbi -------------------------------
(***************************************************************************)
(* RISC-V lowering (crates/semasm-riscv/src/lower.rs) and the LP64         *)
(* conformance analysis (crates/semasm-riscv/src/abi.rs).                  *)
(***************************************************************************)
EXTENDS Instructions

STACK_ALIGN == 16
ENTRY_SP_MOD == 0
NONVOLATILE_GPR == {"sp", "s0", "s1", "s2", "s3", "s4", "s5", "s6", "s7", "s8", "s9",
                    "s10", "s11"}

classify(mn) ==
    CASE mn \in {"add", "sub", "mul", "and", "or", "xor", "sll", "srl", "sra"} -> "Binary"
      [] mn \in {"ld", "lb", "lh", "lw", "ldu", "lbu", "lhu", "lwu"} -> "Load"
      [] mn \in {"sd", "sb", "sh", "sw", "mv", "li"} -> "Store"
      [] mn \in {"addi", "addiw", "subw", "addw", "andi", "ori", "slli"} -> "Binary"
      [] mn \in {"slt", "sltu", "slti", "sltiu"} -> "Compare"
      [] mn \in {"beq", "bne", "blt", "bge", "bltu", "bgeu", "beqz", "bnez", "j", "jr"} -> "Branch"
      [] mn \in {"jalr", "jal"} -> "Call"
      [] mn = "ret" -> "Return"
      [] mn \in {"ecall", "ebreak", "csrr", "csrw"} -> "Unknown"
      [] OTHER -> "Unsupported"

default_mnemonic(kind) == IF kind = "Return" THEN "ret" ELSE "call"

\* disp(base): no comma, so nothing is lost.
parse_memory_riscv(op) == Mem(op.base, NoReg, op.disp)
parse_one_operand(op) == IF op.t = "mem" THEN parse_memory_riscv(op) ELSE op

\* Every jalr becomes a call, the one that returns too.
lower(ins) ==
    LET kind == classify(ins.mn)
        ops == [i \in DOMAIN ins.ops |-> parse_one_operand(ins.ops[i])]
    IN  CASE kind = "Unsupported" -> Unsupported
          [] kind \in {"Load", "Store"} /\ MemOperands(ins) = {} -> LoweredInstr("mv", "Store", ops)
          [] kind \in {"Return", "Call"} -> LoweredInstr(default_mnemonic(kind), kind, ops)
          [] OTHER -> LoweredInstr(ins.mn, kind, ops)

-----------------------------------------------------------------------------

is_clean(report) == report.findings = {}

written_nonvolatile(body) ==
    {r \in NONVOLATILE_GPR \ {"sp"} : \E i \in DOMAIN body : r \in Registers(body[i])}

OnStack(ins) == \E m \in MemOperands(ins) : m.base = "sp"
sp_store_targets(ins) == IF ins.kind = "Store" /\ OnStack(ins) THEN Registers(ins) ELSE {}
sp_load_targets(ins) == IF ins.kind = "Load" /\ OnStack(ins) THEN Registers(ins) ELSE {}

prologue_saved(body) ==
    LET saves == {i \in DOMAIN body : sp_store_targets(body[i]) # {}}
        ends == {i \in DOMAIN body \ saves : \E j \in saves : j < i}
    IN  UNION {sp_store_targets(body[i]) : i \in Before(body, ends)}

epilogue_restored(body) ==
    LET ends == {i \in DOMAIN body : /\ body[i].kind \notin {"Return", "Binary", "Unknown"}
                                     /\ sp_load_targets(body[i]) = {}}
    IN  UNION {sp_load_targets(body[i]) : i \in After(body, ends)}

\* Of the first memory operand; an instruction has at most one.
Displacement(S) == (CHOOSE op \in S : TRUE).disp

\* sd and ld off SP are taken to move SP by their displacement.
step(ins) ==
    LET disp == IF OnStack(ins) THEN Displacement(MemOperands(ins)) ELSE 0
        two == Len(ins.ops) = 2 /\ Is(ins, 1, Reg("sp")) /\ IsImm(ins, 2)
        three == Is(ins, 1, Reg("sp")) /\ Is(ins, 2, Reg("sp")) /\ IsImm(ins, 3)
        rd(r) == ins.mn = "jalr" /\ Is(ins, 1, Reg(r))
    IN  [sp_change |->
            CASE ins.mn \in {"sd", "sw", "sdsp", "swsp"} -> -disp
              [] ins.mn \in {"ld", "lw"} /\ disp > 0 -> -disp
              [] ins.mn \in {"addi", "add", "c.addi", "c.addi16sp"} /\ two -> -ins.ops[2].n
              [] ins.mn \in {"addi", "add", "c.addi", "c.addi16sp"} /\ three -> -ins.ops[3].n
              [] OTHER -> 0,
         is_call |-> ins.mn = "call" \/ rd("ra"),
         is_ret |-> \/ ins.mn = "ret"
                    \/ rd("zero") /\ \E m \in MemOperands(ins) : m.base = "ra"]

check_callee_saved(body) ==
    (IF written_nonvolatile(body) \subseteq prologue_saved(body) THEN {}
     ELSE {Finding("CALLEE_SAVED_NOT_PRESERVED", Nowhere)})
    \cup (IF written_nonvolatile(body) \subseteq epilogue_restored(body) THEN {}
          ELSE {Finding("CALLEE_SAVED_NOT_RESTORED", Nowhere)})

DeltaBefore(body) ==
    LET delta[i \in 1..(Len(body) + 1)] ==
            IF i = 1 THEN 0 ELSE delta[i - 1] + step(body[i - 1]).sp_change
    IN  delta

Aligned(delta) == (ENTRY_SP_MOD + delta) % STACK_ALIGN = 0

analyze(body) ==
    LET delta == DeltaBefore(body)
        calls == {i \in DOMAIN body : step(body[i]).is_call}
        ra_ever_saved == \E i \in DOMAIN body : "ra" \in sp_store_targets(body[i])
        ra_written == \E i \in DOMAIN body : "ra" \in Registers(body[i])
    IN  [findings |->
            {Finding("STACK_ALIGN_CALL", i) : i \in {j \in calls : ~Aligned(delta[j])}}
            \cup {Finding("STACK_BALANCE_RET", i) :
                     i \in {j \in DOMAIN body : step(body[j]).is_ret /\ delta[j] # 0}}
            \cup check_callee_saved(body)
            \cup (IF calls # {} /\ ~ra_ever_saved /\ ra_written
                  THEN {Finding("RA_CLOBBERED_NON_LEAF", Nowhere)} ELSE {})]

===============================================================================
