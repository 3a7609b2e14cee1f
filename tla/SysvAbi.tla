-------------------------------- MODULE SysvAbi --------------------------------
(***************************************************************************)
(* The System V AMD64 conformance analysis                                 *)
(* (crates/semasm-x86/src/abi.rs): one pass over the text of a function    *)
(* that tracks RSP, and three syntactic checks.  Findings are a set; the   *)
(* order in which they are discovered is left out.                         *)
(***************************************************************************)
EXTENDS X86Lower

RED_ZONE_BYTES == 128
STACK_ALIGN == 16
ENTRY_RSP_MOD == 8
NONVOLATILE_GP == {"rbx", "rbp", "r12", "r13", "r14", "r15", "rsp"}
Returns == {"ret", "retn", "retf"}

is_clean(report) == \A f \in report.findings : f.code \in Warnings

is_mov_rsp_from_rbp(ins) ==
    ins.mn \in {"mov", "movabs"} /\ Is(ins, 1, Reg("rsp")) /\ Is(ins, 2, Reg("rbp"))

\* Displacements of accesses to the red zone.
red_zone_displacement(ins) ==
    {m.disp : m \in {o \in MemOperands(ins) :
                        o.base = "rsp" /\ o.index = NoReg /\ o.disp \in -RED_ZONE_BYTES..0}}

\* Mutant: only moves count as writes.
MutMovesOnly(body) ==
    {r \in NONVOLATILE_GP \ {"rsp"} : \E i \in DOMAIN body :
        body[i].mn = "mov" /\ Is(body[i], 1, Reg(r)) /\ ~IsImm(body[i], 2)}

\* Nonvolatile registers that are an operand of anything but push and pop.
written_nonvolatile(body) ==
    {r \in NONVOLATILE_GP \ {"rsp"} : \E i \in DOMAIN body :
        body[i].mn \notin {"push", "pop"} /\ r \in Registers(body[i])}

\* Registers pushed before the first instruction that ends the prologue.
prologue_saved(body) ==
    LET ends == {i \in DOMAIN body : IF body[i].mn \in {"sub", "add"} THEN Is(body[i], 1, Reg("rsp"))
                                     ELSE body[i].mn # "push"}
    IN  UNION {Registers(body[i]) : i \in {j \in Before(body, ends) : body[j].mn = "push"}}

\* Registers popped after the last instruction that is no part of an epilogue;
\* every add and sub passes for one, whatever it adds to.
epilogue_restored(body) ==
    LET ends == {i \in DOMAIN body : IF body[i].mn = "pop" THEN Is(body[i], 1, Reg("rsp"))
                                     ELSE body[i].mn \notin Returns \cup {"add", "sub"}}
    IN  UNION {Registers(body[i]) : i \in {j \in After(body, ends) : body[j].mn = "pop"}}

step(ins) ==
    [rsp_change |->
        CASE ins.mn = "push" -> 8
          [] ins.mn = "pop" -> -8
          [] ins.mn = "sub" /\ Is(ins, 1, Reg("rsp")) /\ IsImm(ins, 2) -> ins.ops[2].n
          [] ins.mn = "add" /\ Is(ins, 1, Reg("rsp")) /\ IsImm(ins, 2) -> -ins.ops[2].n
          [] OTHER -> 0,
     is_call |-> ins.mn = "call",
     is_ret |-> ins.mn \in Returns,
     is_syscall |-> ins.mn = "syscall",
     red_zone_disp |-> IF ins.kind \in {"Store", "Load"} THEN red_zone_displacement(ins) ELSE {}]

check_rip_index(body) ==
    {Finding("RIP_INDEX", i) : i \in {j \in DOMAIN body :
        \E m \in MemOperands(body[j]) : m.base = "rip" /\ m.index # NoReg}}

-----------------------------------------------------------------------------
(* Volatile registers read after a call. *)

CALLER_SAVED_WATCH == {"rdi", "rsi", "rdx", "rcx", "r8", "r9"}

\* The first register operand counts as the destination, in any position.
collect_reg_ops(ins) ==
    LET regs == {i \in DOMAIN ins.ops : ins.ops[i].t = "reg"}
        first == IF regs = {} THEN {} ELSE {ins.ops[Smallest(regs)].r}
        bases == UNION {{m.base, m.index} : m \in MemOperands(ins)}
    IN  CASE ins.mn \in {"push", "cmp", "test", "call", "jmp", "ret", "retn"} ->
                [writes |-> {}, reads |-> Registers(ins) \cup bases]
          [] ins.mn = "pop" -> [writes |-> first, reads |-> {}]
          [] ins.mn \in {"inc", "dec", "neg", "not"} -> [writes |-> first, reads |-> first]
          [] OTHER -> [writes |-> first,
                       reads |-> bases \cup {ins.ops[i].r : i \in regs \ {Smallest(regs)}}]

\* live, poisoned: the two sets of the walk before each instruction.
check_caller_saved(body) ==
    LET clobbers(i) == body[i].mn \in {"call", "syscall"}
        walk[i \in 1..(Len(body) + 1)] ==
            IF i = 1 THEN [live |-> CALLER_SAVED_WATCH, poisoned |-> {}]
            ELSE LET w == walk[i - 1]
                     o == collect_reg_ops(body[i - 1])
                     defined == o.writes \cap CALLER_SAVED_WATCH
                 IN  IF clobbers(i - 1)
                     THEN [live |-> {}, poisoned |-> w.poisoned \cup w.live]
                     ELSE [live |-> w.live \cup defined,
                           poisoned |-> w.poisoned \ (o.reads \cup defined)]
    IN  {Finding("CALLER_SAVED", i) : i \in {j \in DOMAIN body :
            ~clobbers(j) /\ collect_reg_ops(body[j]).reads \cap walk[j].poisoned # {}}}

check_callee_saved(body) ==
    (IF written_nonvolatile(body) \subseteq prologue_saved(body) THEN {}
     ELSE {Finding("CALLEE_SAVED_NOT_PRESERVED", Nowhere)})
    \cup (IF written_nonvolatile(body) \subseteq epilogue_restored(body) THEN {}
          ELSE {Finding("CALLEE_SAVED_NOT_RESTORED", Nowhere)})

\* Mutant: mov rsp, rbp is an ordinary move.
MutNoFrameReset(body) ==
    LET delta[i \in 1..(Len(body) + 1)] ==
            IF i = 1 THEN 0 ELSE delta[i - 1] + step(body[i - 1]).rsp_change
    IN  delta

\* RSP below its value at entry, before each instruction: mov rsp, rbp is taken
\* to restore the depth after push rbp.
DeltaBefore(body) ==
    LET delta[i \in 1..(Len(body) + 1)] ==
            IF i = 1 THEN 0
            ELSE IF is_mov_rsp_from_rbp(body[i - 1]) THEN 8
            ELSE delta[i - 1] + step(body[i - 1]).rsp_change
    IN  delta

Aligned(delta) == (ENTRY_RSP_MOD + delta) % STACK_ALIGN = 0

analyze(body) ==
    LET delta == DeltaBefore(body)
        calls == {i \in DOMAIN body : step(body[i]).is_call}
        disps == UNION {step(body[i]).red_zone_disp : i \in DOMAIN body}
    IN  [findings |->
            {Finding("STACK_ALIGN_CALL", i) : i \in {j \in calls : ~Aligned(delta[j])}}
            \cup {Finding("STACK_BALANCE_RET", i) :
                     i \in {j \in DOMAIN body : step(body[j]).is_ret /\ delta[j] # 0}}
            \cup check_callee_saved(body) \cup check_rip_index(body)
            \cup check_caller_saved(body)
            \cup (IF calls # {} /\ \E d \in disps : d < 0
                  THEN {Finding("RED_ZONE_NON_LEAF", Nowhere)} ELSE {}),
         is_leaf |-> calls = {},
         has_syscall |-> \E i \in DOMAIN body : step(body[i]).is_syscall]

===============================================================================
