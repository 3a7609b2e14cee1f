-------------------------------- MODULE Win64Abi --------------------------------
(* The Microsoft x64 conformance analysis (crates/semasm-x86/src/abi_win64.rs). *)
EXTENDS X86Lower

SHADOW_BYTES == 32
STACK_ALIGN == 16
ENTRY_RSP_MOD == 8
NONVOLATILE_WIN64 == {"rbx", "rbp", "rdi", "rsi", "r12", "r13", "r14", "r15"}
Returns == {"ret", "retn", "retf"}

is_clean(report) == report.findings = {}

is_mov_rsp_from_rbp(ins) ==
    ins.mn \in {"mov", "movabs"} /\ Is(ins, 1, Reg("rsp")) /\ Is(ins, 2, Reg("rbp"))

below_rsp_displacement(ins) ==
    {m.disp : m \in {o \in MemOperands(ins) : o.base = "rsp" /\ o.index = NoReg /\ o.disp < 0}}

written_nonvolatile(body) ==
    {r \in NONVOLATILE_WIN64 : \E i \in DOMAIN body :
        body[i].mn \notin {"push", "pop"} /\ r \in Registers(body[i])}

prologue_saved(body) ==
    LET ends == {i \in DOMAIN body : IF body[i].mn \in {"sub", "add"} THEN Is(body[i], 1, Reg("rsp"))
                                     ELSE body[i].mn # "push"}
    IN  UNION {Registers(body[i]) : i \in {j \in Before(body, ends) : body[j].mn = "push"}}

epilogue_restored(body) ==
    LET ends == {i \in DOMAIN body : IF body[i].mn = "pop" THEN Is(body[i], 1, Reg("rsp"))
                                     ELSE body[i].mn \notin Returns \cup {"add", "sub"}}
    IN  UNION {Registers(body[i]) : i \in {j \in After(body, ends) : body[j].mn = "pop"}}

step(ins) ==
    [rsp_change |->
        CASE ins.mn = "push" -> 8
          [] ins.mn = "pop" -> -8
          [] ins.mn = "sub" /\ Is(ins, 1, Reg("rsp")) /\ IsImm(ins, 2) -> ins.ops[2].n
          [] ins.mn = "add" /\ Is(ins, 1, Reg("rsp")) /\ IsImm(ins, 2) -> -ins.ops[2].n
          [] OTHER -> 0,
     is_call |-> ins.mn = "call",
     is_ret |-> ins.mn \in Returns,
     below_rsp_disp |-> IF ins.kind \in {"Store", "Load"} THEN below_rsp_displacement(ins) ELSE {}]

check_callee_saved(body) ==
    (IF written_nonvolatile(body) \subseteq prologue_saved(body) THEN {}
     ELSE {Finding("CALLEE_SAVED_NOT_PRESERVED", Nowhere)})
    \cup (IF written_nonvolatile(body) \subseteq epilogue_restored(body) THEN {}
          ELSE {Finding("CALLEE_SAVED_NOT_RESTORED", Nowhere)})

DeltaBefore(body) ==
    LET delta[i \in 1..(Len(body) + 1)] ==
            IF i = 1 THEN 0
            ELSE IF is_mov_rsp_from_rbp(body[i - 1]) THEN 8
            ELSE delta[i - 1] + step(body[i - 1]).rsp_change
    IN  delta

Aligned(delta) == (ENTRY_RSP_MOD + delta) % STACK_ALIGN = 0

\* Mutant: the shadow store is not checked.
MutNoShadow(body) ==
    LET delta == DeltaBefore(body) IN
    [findings |->
        {Finding("STACK_ALIGN_CALL", i) : i \in {j \in DOMAIN body :
            step(body[j]).is_call /\ ~Aligned(delta[j])}}
        \cup {Finding("STACK_BALANCE_RET", i) :
                 i \in {j \in DOMAIN body : step(body[j]).is_ret /\ delta[j] # 0}}
        \cup check_callee_saved(body)]

analyze(body) ==
    LET delta == DeltaBefore(body)
        calls == {i \in DOMAIN body : step(body[i]).is_call}
        disps == UNION {step(body[i]).below_rsp_disp : i \in DOMAIN body}
    IN  [findings |->
            {Finding("STACK_ALIGN_CALL", i) : i \in {j \in calls : ~Aligned(delta[j])}}
            \cup {Finding("SHADOW_SPACE_MISSING", i) : i \in {j \in calls : delta[j] < SHADOW_BYTES}}
            \cup {Finding("STACK_BALANCE_RET", i) :
                     i \in {j \in DOMAIN body : step(body[j]).is_ret /\ delta[j] # 0}}
            \cup check_callee_saved(body)
            \cup {Finding("RIP_INDEX", i) : i \in {j \in DOMAIN body :
                     \E m \in MemOperands(body[j]) : m.base = "rip" /\ m.index # NoReg}}
            \cup (IF disps # {} THEN {Finding("RED_ZONE_NOT_ALLOWED", Nowhere)} ELSE {})]

===============================================================================
