------------------------------ MODULE StaticGates ------------------------------
(***************************************************************************)
(* The static gates of agent verify on the decoded candidate: lowering,    *)
(* ABI analysis, capability policy and the read-only leaf policy           *)
(* (verify_candidate_semantics and the check_* functions of                *)
(* crates/semasm-cli/src/commands.rs).  The control-flow gate between them *)
(* is module Cfg; bodies here are straight-line, which it accepts.         *)
(*                                                                         *)
(* Beside the gates runs what they judge: the candidate is executed as it  *)
(* is written down, on a machine of registers and stack slots (external),  *)
(* so that an accepted body can be compared with what it did.  It executes *)
(* every instruction the backends lower but for branches, indirect calls   *)
(* and RISC-V's jal zero.  sp counts the bytes the stack pointer lies      *)
(* below its value at entry.                                               *)
(***************************************************************************)
EXTENDS Instructions

CONSTANTS
    Alphabets,  \* an ABI, the decoded instructions bodies are made of, and a
                \* bound on the length of a body
    Strides     \* how far an instruction that computes the stack pointer from
                \* a register or from memory may move it

X86 == {"SysVAmd64", "WindowsX64"}

\* What the disassembler returns of machine code.
ASSUME AlphabetsAssumption ==
    \A a \in Alphabets : /\ a[1] \in X86 \cup {"Aapcs64", "Riscv"}
                         /\ \A ins \in a[2] : WellFormed(ins)
ASSUME StridesAssumption == Strides \subseteq Int

Sysv == INSTANCE SysvAbi
Win == INSTANCE Win64Abi
Arm == INSTANCE Aapcs64Abi
Rv == INSTANCE RiscvAbi

VARIABLES
    abi, code, maxBody,  \* the ABI, the alphabet and the bound
    readOnly,   \* is_read_only_buffer_scan(contract), once it has been asked
    body,       \* decoded instructions, all executed
    sp, reg, slot,  \* the machine: depth, registers, stack slots by depth
    seen,       \* history of the execution
    gate,       \* "run" while executing, then the gate that is next, or the verdict
    lowered     \* LoweredInstr, 1:1 with body

input == <<abi, code, maxBody>>
vars == <<abi, code, maxBody, readOnly, body, sp, reg, slot, seen, gate, lowered>>
machine == <<sp, reg, slot>>

Link == CASE abi = "Aapcs64" -> "lr" [] abi = "Riscv" -> "ra" [] OTHER -> NoReg
StackPointer == IF abi \in X86 THEN "rsp" ELSE "sp"
FramePointer == CASE abi = "Aapcs64" -> "fp" [] abi = "Riscv" -> "s0" [] OTHER -> "rbp"
Nonvolatile == CASE abi = "SysVAmd64" -> Sysv!NONVOLATILE_GP \ {"rsp"}
                 [] abi = "WindowsX64" -> Win!NONVOLATILE_WIN64
                 [] abi = "Aapcs64" -> Arm!NONVOLATILE_GP \ {"lr"}
                 [] abi = "Riscv" -> Rv!NONVOLATILE_GPR \ {"sp"}

Value(k, r, n) == [k |-> k, r |-> r, n |-> n]
EntryValue(r) == Value("entry", r, 0)
Data == Value("data", NoReg, 0)
Depth(d) == Value("stack", NoReg, d)

\* exact: sp was moved by nothing but a push, a pop, an immediate added to it
\*   and a mov rsp, rbp that undoes the frame set up right after push rbp; no
\*   AArch64 access wrote its base SP back, no RISC-V sd, sw, ld or lw off SP
\*   had a displacement, and the return is a plain one
\* lifo: every load off SP and every pop into a nonvolatile register read the
\*   register's entry value
\* adjusted: registers added to (or the like), or written back by an access
\*   through them, since their last restore
\* aligned: sp was aligned (and the shadow store there) at every call
\* stored: something outside the stack was written;  popped: by a pop
\* framed: every store through the frame pointer or SP was to the stack, and
\*   had no index register
Unseen == [exact |-> TRUE, lifo |-> TRUE, adjusted |-> {}, aligned |-> TRUE,
           stored |-> FALSE, popped |-> FALSE, framed |-> TRUE, syscall |-> FALSE]

Init ==
    /\ \E a \in Alphabets : abi = a[1] /\ code = a[2] /\ maxBody = a[3]
    /\ readOnly = FALSE
    /\ body = <<>> /\ sp = 0 /\ slot = <<>> /\ lowered = <<>>
    /\ reg = [r \in Nonvolatile \cup {Link} |-> EntryValue(r)]
    /\ seen = Unseen
    /\ gate = "run"

lower(target, ins) == CASE target \in X86 -> Sysv!lower(ins)
                        [] target = "Aapcs64" -> Arm!lower(ins)
                        [] target = "Riscv" -> Rv!lower(ins)

-----------------------------------------------------------------------------
(* The machine. *)

Read(r) == IF r = StackPointer THEN Depth(sp) ELSE IF r \in DOMAIN reg THEN reg[r] ELSE Data
Written(r, v) == IF r \in DOMAIN reg THEN [reg EXCEPT ![r] = v] ELSE reg
SlotAt(d) == IF d \in DOMAIN slot THEN slot[d] ELSE Data
SlotsWith(d, v) == [x \in DOMAIN slot \cup {d} |-> IF x = d THEN v ELSE slot[x]]

\* Instructions that compute their first operand, those of them that copy a
\* register, and loads and stores.  On x86 the destination may be memory.
Copies == CASE abi \in X86 -> {"mov", "movabs"} [] abi = "Riscv" -> {"mv"} [] OTHER -> {"mov"}
Arithmetic == CASE abi \in X86 -> {"xor", "add", "sub", "inc", "dec", "and", "or", "shl", "shr"}
                [] abi = "Riscv" -> {"add", "sub", "mul", "and", "or", "xor", "sll", "srl", "sra", "addi",
                                     "addiw", "subw", "addw", "andi", "ori", "slli"}
                [] OTHER -> {"add", "adds", "sub", "subs", "mul", "and", "orr", "eor", "lsl", "lsr"}
Computations == Copies \cup Arithmetic
                \cup (CASE abi \in X86 -> {"lea", "movzx"} \cup Sysv!ConditionalMoves
                        [] abi = "Riscv" -> {"li", "slt", "sltu", "slti", "sltiu"}
                        [] OTHER -> {"movz", "movk", "movn"})
\* What the scan for the epilogue takes for an adjustment of the stack pointer.
Passing == IF abi \in X86 THEN {"add", "sub"} ELSE Arithmetic
Loads == CASE abi = "Aapcs64" -> {"ldr", "ldrb", "ldrh", "ldrsb", "ldrsh", "ldrsw"}
           [] abi = "Riscv" -> {"ld", "lb", "lh", "lw", "ldu", "lbu", "lhu", "lwu"}
           [] OTHER -> {}
Stores == CASE abi = "Aapcs64" -> {"str", "strb", "strh"}
            [] abi = "Riscv" -> {"sd", "sb", "sh", "sw"}
            [] OTHER -> Copies \cup Arithmetic

Runs(ins) ==
    /\ gate = "run"
    /\ Len(body) < maxBody - 1 \/ ins.mn \in Sysv!Returns
    /\ body' = Append(body, ins)
    /\ UNCHANGED <<input, readOnly, lowered>>

\* A stack address moved by a displacement.
Shifted(v, n) == IF v.k = "stack" THEN Depth(v.n - n) ELSE Data
\* The address of an access; with an index it is not known.
Address(m) == IF m.index # NoReg THEN Data
              ELSE Shifted(Read(m.base), IF m.mode = "post" THEN 0 ELSE m.disp)
Loaded(m) == IF Address(m).k = "stack" THEN SlotAt(Address(m).n) ELSE Data
\* Where a pre- or post-indexed access leaves its base.
WritesBack(m) == m.mode # "none"
SpAfter(m) == IF WritesBack(m) /\ m.base = StackPointer THEN sp - m.disp ELSE sp
BaseAfter(m) == IF WritesBack(m) /\ m.base # StackPointer
                THEN Written(m.base, Shifted(Read(m.base), m.disp)) ELSE reg
BaseAdjusted(m) == IF WritesBack(m) /\ m.base # StackPointer THEN {m.base} ELSE {}
\* Whether the analysis reads what an access does to sp as the machine does it.
ReadRight(ins, m) ==
    m.base = StackPointer =>
        ~WritesBack(m) /\ (abi = "Riscv" /\ ins.mn \in {"sd", "sw", "ld", "lw"} => m.disp = 0)

Push(ins) ==
    /\ Runs(ins) /\ ins.mn = "push"
    /\ sp' = sp + 8
    /\ slot' = SlotsWith(sp + 8, IF IsReg(ins, 1) THEN Read(ins.ops[1].r) ELSE Data)
    /\ UNCHANGED <<reg, seen, gate>>

Pop(ins) ==
    /\ Runs(ins) /\ ins.mn = "pop" /\ ~Is(ins, 1, Reg(StackPointer))
    /\ sp' = sp - 8
    /\ IF IsReg(ins, 1)
       THEN LET r == ins.ops[1].r IN
            /\ reg' = Written(r, SlotAt(sp))
            /\ seen' = [seen EXCEPT !.lifo = @ /\ (r \in Nonvolatile => SlotAt(sp) = EntryValue(r)),
                                    !.adjusted = @ \ {r}]
       ELSE seen' = [seen EXCEPT !.stored = TRUE, !.popped = TRUE] /\ UNCHANGED reg
    /\ UNCHANGED <<slot, gate>>

\* sub rsp, n / add rsp, n;  sub sp, sp, n;  addi sp, sp, n
AddsImmediate(ins) ==
    /\ ins.mn \in (IF abi = "Riscv" THEN {"addi"} ELSE {"sub", "add"})
    /\ Len(ins.ops) = IF abi \in X86 THEN 2 ELSE 3
    /\ IsImm(ins, Len(ins.ops))
    /\ \A i \in 1..(Len(ins.ops) - 1) : Is(ins, i, Reg(StackPointer))

AdjustStack(ins) ==
    /\ Runs(ins) /\ AddsImmediate(ins)
    /\ LET n == ins.ops[Len(ins.ops)].n IN sp' = IF ins.mn = "sub" THEN sp + n ELSE sp - n
    /\ UNCHANGED <<reg, slot, seen, gate>>

\* mov rsp, rbp of a copy of the stack pointer.
CopiesAddress(ins) == ins.mn \in Copies /\ IsReg(ins, 2) /\ Read(ins.ops[2].r).k = "stack"

\* The analysis expects the depth after push rbp, elsewhere that sp does not move.
RestoreFrame(ins) ==
    /\ Runs(ins) /\ Is(ins, 1, Reg(StackPointer)) /\ CopiesAddress(ins)
    /\ sp' = Read(ins.ops[2].r).n
    /\ seen' = [seen EXCEPT !.exact = @ /\ sp' = IF abi \in X86 /\ ins.ops[2].r = "rbp" THEN 8 ELSE sp]
    /\ UNCHANGED <<reg, slot, gate>>

\* Everything else that writes the stack pointer: sub rsp, rax, and rsp, -16,
\* lea rsp, [rbp-8], pop rsp, sub sp, sp, #1, lsl #12, ld sp, 0(a0), jal sp, f.
MoveStack(ins) ==
    /\ Runs(ins) /\ ins.mn \in Computations \cup Loads \cup {"pop", "jal"}
    /\ Is(ins, 1, Reg(StackPointer)) /\ ~AddsImmediate(ins) /\ ~CopiesAddress(ins)
    /\ \E k \in Strides : sp' = sp + k
    /\ seen' = [seen EXCEPT !.exact = FALSE]
    /\ UNCHANGED <<reg, slot, gate>>

\* A copy, what a memory operand holds or, of lea, its address, a stack address
\* plus an immediate; all else is data.
Result(ins) ==
    CASE ins.mn \in Copies /\ IsReg(ins, 2) -> Read(ins.ops[2].r)
      [] ins.mn \in Copies /\ IsMem(ins, 2) -> Loaded(ins.ops[2])
      [] ins.mn = "lea" /\ IsMem(ins, 2) -> Address(ins.ops[2])
      [] ins.mn \in {"add", "addi"} /\ IsReg(ins, 2) /\ IsImm(ins, 3) ->
            Shifted(Read(ins.ops[2].r), ins.ops[3].n)
      [] OTHER -> Data

\* A load without a memory operand is one of a literal.
Compute(ins) ==
    /\ Runs(ins) /\ (ins.mn \in Computations \/ (ins.mn \in Loads /\ ~IsMem(ins, 2)))
    /\ IsReg(ins, 1) /\ ~Is(ins, 1, Reg(StackPointer))
    /\ reg' = Written(ins.ops[1].r, Result(ins))
    /\ seen' = [seen EXCEPT !.adjusted = @ \cup (IF ins.mn \in Passing THEN {ins.ops[1].r} ELSE {})]
    /\ UNCHANGED <<sp, slot, gate>>

\* Comparisons, and breakpoints that are continued from.
Compare(ins) ==
    /\ Runs(ins) /\ ins.mn \in {"cmp", "test", "cmn", "tst", "brk", "hlt"}
    /\ UNCHANGED <<sp, reg, slot, seen, gate>>

\* Off SP the scan for the epilogue takes every load for a restore.
Load(ins) ==
    /\ Runs(ins) /\ ins.mn \in Loads /\ IsMem(ins, 2) /\ ~Is(ins, 1, Reg(StackPointer))
    /\ LET m == ins.ops[2]
           r == ins.ops[1].r
           v == IF ins.mn \in {"ldr", "ld"} THEN Loaded(m) ELSE Data
           restores == m.base = StackPointer
       IN  /\ reg' = IF r \in DOMAIN reg THEN [BaseAfter(m) EXCEPT ![r] = v] ELSE BaseAfter(m)
           /\ seen' = [seen EXCEPT !.lifo = @ /\ (restores /\ r \in Nonvolatile => v = EntryValue(r)),
                                   !.adjusted = (IF restores THEN @ \ {r} ELSE @) \cup BaseAdjusted(m),
                                   !.exact = @ /\ ReadRight(ins, m)]
           /\ sp' = SpAfter(m)
    /\ UNCHANGED <<slot, gate>>

\* Bytes stored into a slot leave no register's value there.
StoredValue(ins) ==
    CASE ins.mn \in {"str", "sd"} -> Read(ins.ops[1].r)
      [] ins.mn \in {"mov", "movabs"} /\ IsReg(ins, 2) -> Read(ins.ops[2].r)
      [] OTHER -> Data

\* x86 names the destination first.
Store(ins) ==
    LET place == IF abi \in X86 THEN 1 ELSE 2 IN
    /\ Runs(ins) /\ ins.mn \in Stores /\ IsMem(ins, place)
    /\ LET m == ins.ops[place]
           local == Address(m).k = "stack"
       IN  /\ slot' = IF local THEN SlotsWith(Address(m).n, StoredValue(ins)) ELSE slot
           /\ reg' = BaseAfter(m)
           /\ seen' = [seen EXCEPT !.stored = @ \/ ~local,
                                   !.framed = @ /\ (m.base \in {StackPointer, FramePointer} => local),
                                   !.adjusted = @ \cup BaseAdjusted(m),
                                   !.exact = @ /\ ReadRight(ins, m)]
           /\ sp' = SpAfter(m)
    /\ UNCHANGED gate

\* jal names the register that takes the return address, or means ra.
LinkOf(ins) == IF ins.mn = "jal" /\ IsReg(ins, 1) THEN ins.ops[1].r ELSE Link

Call(ins) ==
    /\ Runs(ins) /\ ins.mn \in {"call", "bl", "jal"} /\ LinkOf(ins) \notin {StackPointer, "zero"}
    /\ LET mod == IF abi \in X86 THEN 8 ELSE 0 IN
       seen' = [seen EXCEPT !.aligned = @ /\ (sp + mod) % 16 = 0
                                          /\ (abi = "WindowsX64" => sp >= 32)]
    /\ reg' = Written(LinkOf(ins), Data)
    /\ UNCHANGED <<sp, slot, gate>>

\* What it does to the registers is left out: it is never accepted.
SystemCall(ins) ==
    /\ Runs(ins) /\ ins.mn \in {"syscall", "svc", "hvc", "smc", "ecall", "ebreak", "csrr", "csrw"}
    /\ seen' = [seen EXCEPT !.syscall = TRUE, !.exact = @ /\ ~Is(ins, 1, Reg(StackPointer))]
    /\ UNCHANGED <<sp, reg, slot, gate>>

\* Instructions no backend lowers; what they do is left out for the same reason.
Unmodelled(ins) ==
    /\ Runs(ins) /\ lower(abi, ins) = Unsupported
    /\ UNCHANGED <<sp, reg, slot, seen, gate>>

\* ret n pops n bytes more, retf a segment too.
Return(ins) ==
    /\ Runs(ins) /\ ins.mn \in (IF abi \in X86 THEN Sysv!Returns ELSE {"ret"})
    /\ sp' = IF abi \in X86 /\ IsImm(ins, 1) THEN sp - ins.ops[1].n ELSE sp
    /\ seen' = [seen EXCEPT !.exact = @ /\ (abi \in X86 => ins.mn # "retf" /\ ins.ops = <<>>)]
    /\ gate' = "lowering"
    /\ UNCHANGED <<reg, slot>>

Execute ==
    \E ins \in code :
        \/ Push(ins) \/ Pop(ins) \/ AdjustStack(ins) \/ RestoreFrame(ins) \/ MoveStack(ins)
        \/ Compute(ins) \/ Compare(ins) \/ Load(ins) \/ Store(ins)
        \/ Call(ins) \/ SystemCall(ins) \/ Unmodelled(ins) \/ Return(ins)

-----------------------------------------------------------------------------
(* The gates. *)

Proceed(next) == gate' = next /\ UNCHANGED <<input, body, machine, seen>>

lower_instructions ==
    /\ gate = "lowering"
    /\ lowered' = [i \in DOMAIN body |-> lower(abi, body[i])]
    /\ IF Unsupported \in Range(lowered') THEN Proceed("failed:lowering") ELSE Proceed("abi")
    /\ UNCHANGED readOnly

check_x86_abi_capability ==
    /\ gate = "abi" /\ abi \in X86
    /\ LET sysv == Sysv!analyze(lowered)
           clean == IF abi = "SysVAmd64" THEN Sysv!is_clean(sysv)
                    ELSE Win!is_clean(Win!analyze(lowered))
           syscall == IF abi = "SysVAmd64" THEN sysv.has_syscall
                      ELSE \E i \in DOMAIN lowered : lowered[i].mn = "syscall"
       IN  IF ~clean THEN Proceed("failed:abi")
           ELSE IF syscall THEN Proceed("failed:capability") ELSE Proceed("memory")
    /\ UNCHANGED <<readOnly, lowered>>

check_aarch64_abi_capability ==
    /\ gate = "abi" /\ abi = "Aapcs64"
    /\ IF ~Arm!is_clean(Arm!analyze(lowered)) THEN Proceed("failed:abi")
       ELSE IF \E i \in DOMAIN lowered : lowered[i].mn \in {"svc", "hvc", "smc"}
       THEN Proceed("failed:capability") ELSE Proceed("memory")
    /\ UNCHANGED <<readOnly, lowered>>

check_riscv_abi_capability ==
    /\ gate = "abi" /\ abi = "Riscv"
    /\ IF ~Rv!is_clean(Rv!analyze(lowered)) THEN Proceed("failed:abi")
       ELSE IF \E i \in DOMAIN lowered : lowered[i].mn \in {"ecall", "ebreak", "csrr", "csrw"}
       THEN Proceed("failed:capability") ELSE Proceed("memory")
    /\ UNCHANGED <<readOnly, lowered>>

\* A memory destination, but for spills to the frame; pop is not in the list.
is_x86_explicit_memory_write(ins) ==
    /\ ins.ops # <<>> /\ ins.ops[1].t = "mem"
    /\ ~(ins.ops[1].base = "rbp" /\ ins.ops[1].index = NoReg)
    /\ ins.mn \in {"mov", "movabs", "xchg", "add", "sub", "adc", "sbb", "and", "or", "xor", "inc",
                   "dec", "not", "neg", "shl", "shr", "sal", "sar", "rol", "ror"}

\* Mutant: the memory operand is looked for in the x86 position.
MutFirstOperand(ins) ==
    ins.kind = "Store" /\ ins.ops[1].t = "mem" /\ ins.ops[1].base # "sp"

is_aarch64_explicit_memory_write(ins) ==
    /\ ins.kind = "Store"
    /\ \E m \in MemOperands(ins) : m.base # "sp" /\ ~(m.base = "fp" /\ m.index = NoReg)

is_riscv_explicit_memory_write(ins) ==
    /\ ins.kind = "Store"
    /\ \E m \in MemOperands(ins) : ~(m.base \in {"sp", "s0"} /\ m.index = NoReg)

Writes(ins) == CASE abi \in X86 -> is_x86_explicit_memory_write(ins)
                 [] abi = "Aapcs64" -> is_aarch64_explicit_memory_write(ins)
                 [] abi = "Riscv" -> is_riscv_explicit_memory_write(ins)

check_read_only_buffer_leaf ==
    /\ gate = "memory"
    /\ readOnly' \in BOOLEAN
    /\ IF readOnly' /\ \E i \in DOMAIN lowered : Writes(lowered[i])
       THEN Proceed("failed:memory") ELSE Proceed("accepted")
    /\ UNCHANGED lowered

Verdict == gate # "run" /\ gate \notin {"lowering", "abi", "memory"} /\ UNCHANGED vars

Next ==
    \/ Execute
    \/ lower_instructions
    \/ check_x86_abi_capability \/ check_aarch64_abi_capability \/ check_riscv_abi_capability
    \/ check_read_only_buffer_leaf
    \/ Verdict

Spec == Init /\ [][Next]_vars

-----------------------------------------------------------------------------

Accepted == gate = "accepted"

DeltaOf(b) == CASE abi = "SysVAmd64" -> Sysv!DeltaBefore(b)
                [] abi = "WindowsX64" -> Win!DeltaBefore(b)
                [] abi = "Aapcs64" -> Arm!DeltaBefore(b)
                [] abi = "Riscv" -> Rv!DeltaBefore(b)

\* The stack depth the walk has computed at the end of a straight-line body is
\* where the stack pointer really is, on every ABI, unless the body has one of
\* the instructions the walk reads wrongly: it takes every write of the stack
\* pointer other than push, pop and an added immediate for none (sub rsp, rax,
\* lea, and, pop rsp counts eight bytes), mov rsp, rbp for the depth after push
\* rbp, AArch64 write-back for none, RISC-V displacements off SP for changes of
\* it, and ret n for ret (analyze, step).
DepthIsExact ==
    gate \in {"abi", "memory", "accepted"} /\ seen.exact =>
        DeltaOf(lowered)[Len(lowered) + 1] = sp

\* An accepted body returned with the stack pointer where it found it, made
\* every call on an aligned stack (with the shadow store on Windows) and made
\* no system call; for the stack pointer and the calls, unless it has one of
\* the instructions listed at DepthIsExact: sub rsp, rax; ret is accepted.
AcceptedIsBalanced ==
    Accepted => ~seen.syscall /\ (seen.exact => sp = 0 /\ seen.aligned)

\* An accepted body left every nonvolatile register as it found it, provided
\* its restores read their registers' own save slots: the syntactic scans for
\* writes, saves and restores miss nothing but an addition (or the like) after
\* the restore and the write-back of an access through the register.
AcceptedPreservesRegisters ==
    Accepted /\ seen.lifo =>
        \A r \in Nonvolatile : reg[r] = EntryValue(r) \/ r \in seen.adjusted

\* A body accepted for a read-only leaf wrote nothing outside the stack, when
\* the frame pointer it stored through did point to the stack, no store off it
\* or off SP had an index register and it did not pop into memory.
AcceptedReadOnlyStoresNothing ==
    Accepted /\ readOnly /\ seen.framed /\ ~seen.popped => ~seen.stored

\* is_x86_explicit_memory_write is "True when the first operand is memory and
\* the mnemonic writes that destination", so a body accepted for a read-only
\* leaf writes through no pointer but the frame pointer.
ReadOnlyMeansReadOnly ==
    Accepted /\ readOnly /\ seen.framed => ~seen.stored

\* "the net change to `RSP` across the body must return to zero": the
\* stack-balance check, so an accepted body returns with sp where it was.
BalanceMeansBalanced == Accepted => sp = 0

===============================================================================
