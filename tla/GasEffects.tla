------------------------------ MODULE GasEffects ------------------------------
(***************************************************************************)
(* The AArch64 and RISC-V collectors of memory accesses                    *)
(* (crates/semasm-cli/src/memory_effects_aarch64.rs, _riscv.rs): parameter *)
(* affinity only, no constants, ranges or loops.                           *)
(***************************************************************************)
EXTENDS MemoryEffects

aarch64_arguments == <<"x0", "x1", "x2", "x3", "x4", "x5", "x6", "x7">>
riscv_arguments == <<"a0", "a1", "a2", "a3", "a4", "a5", "a6", "a7">>

\* The decoder splits [base, #disp] and [base, index] at the comma; only the
\* base survives.
aarch64_parse_memory(op) == [op EXCEPT !.index = NoReg, !.scale = 1, !.disp = 0]

aarch64_is_stack_frame(mem) == mem.base = "sp" \/ (mem.base = "fp" /\ mem.index = NoReg)
riscv_is_stack_frame(mem) == mem.base \in {"sp", "s0"} /\ mem.index = NoReg

AddressBy(mem, affinity) ==
    IF mem.base \notin DOMAIN affinity THEN UnknownAddr
    ELSE IF mem.index = NoReg THEN Affine(affinity[mem.base], mem.disp)
    ELSE IndexedAddr(affinity[mem.base], mem.scale, mem.disp, Unset, Unset)
aarch64_classify_addr(mem, affinity) ==
    IF aarch64_is_stack_frame(mem) THEN StackFrame ELSE AddressBy(mem, affinity)
riscv_classify_addr(mem, affinity) ==
    IF riscv_is_stack_frame(mem) THEN StackFrame ELSE AddressBy(mem, affinity)

aarch64_access_mode(mn) == IF mn \in {"str", "strb", "strh"} THEN "store" ELSE "load"
riscv_access_mode(mn) == IF mn \in {"sd", "sb", "sh", "sw"} THEN "store" ELSE "load"

Memories(ins) == {i \in DOMAIN ins.ops : ins.ops[i].t = "mem"}
FirstMemory(ins) == ins.ops[Min(Memories(ins))]
RowsOf(ins, at, mode, addr) ==
    IF Memories(ins) = {} THEN <<>>
    ELSE <<[mode |-> mode, width |-> FirstMemory(ins).width, at |-> at, addr |-> addr]>>
aarch64_record_accesses(ins, at, affinity) ==
    RowsOf(ins, at, aarch64_access_mode(ins.mn),
           aarch64_classify_addr(aarch64_parse_memory(FirstMemory(ins)), affinity))
riscv_record_accesses(ins, at, affinity) ==
    RowsOf(ins, at, riscv_access_mode(ins.mn),
           riscv_classify_addr(FirstMemory(ins), affinity))

\* A move copies or ends the affinity, an addition to a parameter copies it,
\* an addition to anything else leaves what was known about the destination.
Moved(affinity, ins) == IF IsReg(ins, 2) THEN Copy(affinity, ins.ops[1].r, affinity, ins.ops[2].r)
                        ELSE Drop(affinity, ins.ops[1].r)
Added(affinity, ins) == IF IsReg(ins, 2) /\ ins.ops[2].r \in DOMAIN affinity
                        THEN Put(affinity, ins.ops[1].r, affinity[ins.ops[2].r]) ELSE affinity

aarch64_update_affinity(affinity, ins) ==
    CASE ins.mn \in {"mov", "movz", "movn"} -> Moved(affinity, ins)
      [] ins.mn \in {"add", "sub"} -> Added(affinity, ins)
      [] ins.mn \in {"ldr", "ldrb", "ldrh", "ldrsb", "ldrsh", "ldrsw", "and", "orr", "eor", "mul",
                     "movk"} -> Drop(affinity, ins.ops[1].r)
      [] OTHER -> affinity

riscv_update_affinity(affinity, ins) ==
    CASE ins.mn \in {"mv", "li"} -> Moved(affinity, ins)
      [] ins.mn \in {"addi", "add", "addiw", "addw", "sub", "subw"} -> Added(affinity, ins)
      [] ins.mn \in {"ld", "lb", "lh", "lw", "lbu", "lhu", "lwu", "and", "andi", "or", "ori", "xor",
                     "mul", "sll", "slli"} -> Drop(affinity, ins.ops[1].r)
      [] OTHER -> affinity

===============================================================================
