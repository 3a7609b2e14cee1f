------------------------------ MODULE Aapcs64Abi ------------------------------
(***************************************************************************)
(* AArch64 lowering (crates/semasm-aarch64/src/lower.rs) and the AAPCS64   *)
(* conformance analysis (crates/semasm-aarch64/src/abi.rs).                *)
(***************************************************************************)
EXTENDS Instructions

STACK_ALIGN == 16
ENTRY_SP_MOD == 0
NONVOLATILE_GP == {"x19", "x20", "x21", "x22", "x23", "x24", "x25", "x26", "x27", "x28",
                   "fp", "lr"}

classify(mn) ==
    CASE mn \in {"mov", "movz", "movk", "movn", "str", "strb", "strh"} -> "Store"
      [] mn \in {"ldr", "ldrb", "ldrh", "ldrsb", "ldrsh", "ldrsw"} -> "Load"
      [] mn \in {"add", "adds", "sub", "subs", "mul", "and", "orr", "eor", "lsl", "lsr"} -> "Binary"
      [] mn \in {"cmp", "cmn", "tst"} -> "Compare"
      [] mn \in {"b", "br", "cbz", "cbnz", "tbz", "tbnz"} -> "Branch"
      [] mn \in {"bl", "blr"} -> "Call"
      [] mn = "ret" -> "Return"
      [] mn \in {"svc", "hvc", "smc", "brk", "hlt"} -> "Unknown"
      [] OTHER -> "Unsupported"

default_mnemonic(kind) == IF kind = "Return" THEN "ret" ELSE "bl"

\* The decoder splits the operand text at every comma: of [base, #disp] and
\* [base, #disp]! only the base survives, of [base], #disp, which is always the
\* last operand, the displacement becomes an operand of its own.
parse_memory(op) == Mem(op.base, NoReg, 0)
parse_one_operand(op) == IF op.t = "mem" THEN parse_memory(op) ELSE op
PostIndexed(ops) == {op \in Range(ops) : op.t = "mem" /\ op.mode = "post"}
\* Of the first memory operand; an instruction has at most one.
Displacement(S) == (CHOOSE op \in S : TRUE).disp
parse_operands(ops) ==
    [i \in DOMAIN ops |-> parse_one_operand(ops[i])]
    \o (IF PostIndexed(ops) = {} THEN <<>> ELSE <<Imm(Displacement(PostIndexed(ops)))>>)

lower(ins) ==
    LET kind == classify(ins.mn)
        ops == parse_operands(ins.ops)
    IN  CASE kind = "Unsupported" -> Unsupported
          [] kind \in {"Load", "Store"} /\ MemOperands(ins) = {} -> LoweredInstr("mov", "Store", ops)
          [] kind \in {"Return", "Call"} -> LoweredInstr(default_mnemonic(kind), kind, ops)
          [] OTHER -> LoweredInstr(ins.mn, kind, ops)

-----------------------------------------------------------------------------

is_clean(report) == report.findings = {}

\* Any mention counts, saves and restores included.
written_nonvolatile(body) ==
    {r \in NONVOLATILE_GP : \E i \in DOMAIN body : r \in Registers(body[i])}

OnStack(ins) == \E m \in MemOperands(ins) : m.base = "sp"
sp_store_targets(ins) == IF ins.kind = "Store" /\ OnStack(ins) THEN Registers(ins) ELSE {}
sp_load_targets(ins) == IF ins.kind = "Load" /\ OnStack(ins) THEN Registers(ins) ELSE {}

\* The first run of consecutive stores to the stack.
prologue_saved(body) ==
    LET saves == {i \in DOMAIN body : sp_store_targets(body[i]) # {}}
        ends == {i \in DOMAIN body \ saves : \E j \in saves : j < i}
    IN  UNION {sp_store_targets(body[i]) : i \in Before(body, ends)}

epilogue_restored(body) ==
    LET ends == {i \in DOMAIN body : /\ body[i].kind \notin {"Return", "Binary", "Unknown"}
                                     /\ sp_load_targets(body[i]) = {}}
    IN  UNION {sp_load_targets(body[i]) : i \in After(body, ends)}

\* A displacement off SP is taken for a change of SP, whatever the addressing mode.
step(ins) ==
    LET moved == IF OnStack(ins) THEN -Displacement(MemOperands(ins)) ELSE 0
        imm == IF IsImm(ins, 2) THEN ins.ops[2].n
               ELSE IF IsReg(ins, 2) /\ IsImm(ins, 3) THEN ins.ops[3].n ELSE 0
    IN  [sp_change |->
            CASE ins.mn \in {"str", "stp", "ldr", "ldp"} -> moved
              [] ins.mn = "sub" /\ Is(ins, 1, Reg("sp")) -> imm
              [] ins.mn = "add" /\ Is(ins, 1, Reg("sp")) -> -imm
              [] OTHER -> 0,
         is_call |-> ins.mn = "bl",
         is_ret |-> ins.mn = "ret"]

check_callee_saved(body) ==
    (IF written_nonvolatile(body) \subseteq prologue_saved(body) THEN {}
     ELSE {Finding("CALLEE_SAVED_NOT_PRESERVED", Nowhere)})
    \cup (IF written_nonvolatile(body) \subseteq epilogue_restored(body) THEN {}
          ELSE {Finding("CALLEE_SAVED_NOT_RESTORED", Nowhere)})

DeltaBefore(body) ==
    LET delta[i \in 1..(Len(body) + 1)] ==
            IF i = 1 THEN 0 ELSE delta[i - 1] + step(body[i - 1]).sp_change
    IN  delta

Aligned(delta) == (ENTRY_SP_MOD + delta) % STACK_ALIGN = 0

analyze(body) ==
    LET delta == DeltaBefore(body)
        calls == {i \in DOMAIN body : step(body[i]).is_call}
        lr_ever_saved == \E i \in DOMAIN body : "lr" \in sp_store_targets(body[i])
    IN  [findings |->
            {Finding("STACK_ALIGN_CALL", i) : i \in {j \in calls : ~Aligned(delta[j])}}
            \cup {Finding("STACK_BALANCE_RET", i) :
                     i \in {j \in DOMAIN body : step(body[j]).is_ret /\ delta[j] # 0}}
            \cup check_callee_saved(body)
            \cup (IF calls # {} /\ ~lr_ever_saved /\ "lr" \in written_nonvolatile(body)
                  THEN {Finding("LR_CLOBBERED_NON_LEAF", Nowhere)} ELSE {})]

===============================================================================
