----------------------------- MODULE MCStaticGates -----------------------------
(* Alphabets for StaticGates, one per theme, so that bodies long enough for *)
(* a prologue, a call and an epilogue stay few.                             *)
EXTENDS StaticGates

I1(mn, a) == Decoded(mn, <<a>>)
I2(mn, a, b) == Decoded(mn, <<a, b>>)
I0(mn) == Decoded(mn, <<>>)
At(base, disp) == Indexed(base, disp, "none")

X86Frame == {I1("push", Reg("rbp")), I2("mov", Reg("rbp"), Reg("rsp")), I2("sub", Reg("rsp"), Imm(32)),
             I1("call", Imm(0)), I2("mov", Reg("rsp"), Reg("rbp")), I1("pop", Reg("rbp")), I0("ret")}
X86Save == {I1("push", Reg("rbx")), I1("push", Reg("r12")), I2("xor", Reg("rbx"), Reg("rbx")),
            I2("mov", Reg("rdi"), Imm(1)), I2("add", Reg("rbx"), Imm(1)), I1("pop", Reg("r12")),
            I1("pop", Reg("rbx")), I0("ret")}
X86Memory == {I2("mov", At("rdi", 0), Reg("rax")), I2("mov", At("rbp", -8), Reg("rax")),
              I2("mov", At("rsp", -8), Reg("rdi")), I2("mov", Reg("rbp"), Reg("rsp")),
              I1("push", Reg("rbp")), I1("pop", Reg("rbp")), I1("pop", At("rdi", 0)), I0("syscall"),
              I0("leave"), I1("call", Imm(0)), I0("ret")}
X86Rip == {I2("lea", Reg("rdi"), [Indexed("rip", 0, "none") EXCEPT !.index = "rcx"]),
           I2("sub", Reg("rsp"), Imm(40)), I2("add", Reg("rsp"), Imm(40)), I1("call", Imm(0)),
           I2("cmp", Reg("rdi"), Imm(1)), I2("mov", Reg("rdi"), Imm(1)), I0("ret")}

ArmSave == {I2("str", Reg("x19"), At("sp", 8)), I2("ldr", Reg("x19"), At("sp", 8)),
            I2("str", Reg("lr"), At("sp", 0)), I2("ldr", Reg("lr"), At("sp", 0)),
            I2("mov", Reg("x19"), Imm(1)), Decoded("add", <<Reg("x19"), Reg("x19"), Imm(1)>>),
            Decoded("sub", <<Reg("sp"), Reg("sp"), Imm(16)>>),
            Decoded("add", <<Reg("sp"), Reg("sp"), Imm(16)>>), I1("bl", Imm(0)), I0("ret")}
ArmMemory == {I2("str", Reg("x0"), Indexed("sp", -16, "pre")), I2("ldr", Reg("x0"), Indexed("sp", 16, "post")),
              I2("strb", Reg("x1"), At("x0", 0)), I2("strb", Reg("x1"), At("fp", 0)),
              I2("mov", Reg("fp"), Reg("sp")), I2("str", Reg("fp"), At("sp", 0)),
              I2("ldr", Reg("fp"), At("sp", 0)), I1("svc", Imm(0)), I2("stp", Reg("x19"), Reg("x20")),
              I0("ret")}
RvSave == {I2("sd", Reg("s1"), At("sp", 0)), I2("ld", Reg("s1"), At("sp", 0)),
           I2("sd", Reg("ra"), At("sp", 8)), I2("ld", Reg("ra"), At("sp", 8)), I2("li", Reg("s1"), Imm(1)),
           Decoded("addi", <<Reg("s1"), Reg("s1"), Imm(1)>>),
           Decoded("addi", <<Reg("sp"), Reg("sp"), Imm(-16)>>),
           Decoded("addi", <<Reg("sp"), Reg("sp"), Imm(16)>>),
           I2("jal", Reg("ra"), Imm(0)), I1("jal", Imm(0)), I0("ret")}
RvMemory == {I2("sb", Reg("a1"), At("a0", 0)), I2("sb", Reg("a1"), At("s0", 0)), I0("ecall"),
             I0("amoadd"), I2("sd", Reg("s0"), At("sp", 0)), I2("ld", Reg("s0"), At("sp", 0)), I0("ret")}

\* Writes of the stack pointer that step() does not count, and other readings
\* of it that are not the machine's.
X86Moves == {I2("sub", Reg("rsp"), Reg("rax")), I2("lea", Reg("rsp"), At("rbp", -8)),
             I2("and", Reg("rsp"), Imm(-16)), I1("pop", Reg("rsp")), I1("push", Reg("rbp")),
             I2("lea", Reg("rbp"), At("rsp", 8)), I2("mov", Reg("rsp"), Reg("rbp")), I1("pop", Reg("rbp")),
             I1("inc", Reg("rbx")), I1("ret", Imm(8)), I0("ret")}
ArmMoves == {Decoded("sub", <<Reg("sp"), Reg("sp"), Reg("x0")>>),
             Decoded("sub", <<Reg("sp"), Reg("sp"), Imm(1), Imm(12)>>),
             Decoded("add", <<Reg("fp"), Reg("sp"), Imm(16)>>), I2("mov", Reg("sp"), Reg("fp")),
             I2("ldr", Reg("x0"), Indexed("x19", 8, "post")), I2("ldrb", Reg("x19"), At("sp", 0)),
             I2("str", Reg("x1"), [At("sp", 0) EXCEPT !.index = "x2"]), I2("str", Reg("x19"), At("sp", 0)),
             I2("ldr", Reg("x19"), At("sp", 0)), I1("svc", Imm(0)), I0("ret")}
RvMoves == {Decoded("add", <<Reg("sp"), Reg("sp"), Reg("a0")>>), I2("ld", Reg("sp"), At("a0", 0)),
            I2("mv", Reg("s0"), Reg("sp")), I2("mv", Reg("sp"), Reg("s0")), I2("sd", Reg("s0"), At("sp", 0)),
            I2("ld", Reg("s0"), At("sp", 0)), I2("sd", Reg("a1"), At("sp", 8)), I2("jal", Reg("s0"), Imm(0)),
            Decoded("slt", <<Reg("s0"), Reg("a0"), Reg("a1")>>), I0("ebreak"), I0("ret")}

MCAlphabets == {<<"Aapcs64", ArmSave, 6>>, <<"Aapcs64", ArmMemory, 5>>, <<"Aapcs64", ArmMoves, 4>>,
                <<"Riscv", RvSave, 5>>, <<"Riscv", RvMemory, 5>>, <<"Riscv", RvMoves, 4>>}
               \cup {"SysVAmd64", "WindowsX64"} \X {X86Frame, X86Save} \X {6}
               \cup {"SysVAmd64", "WindowsX64"} \X {X86Memory, X86Rip} \X {5}
               \cup {"SysVAmd64", "WindowsX64"} \X {X86Moves} \X {4}

MCStrides == {-8, 0, 16}

===============================================================================
