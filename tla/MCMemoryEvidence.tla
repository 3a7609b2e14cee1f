--------------------------- MODULE MCMemoryEvidence ---------------------------
(* Contracts and candidates for MemoryEvidence: every pair of small regions *)
(* and every relation between them; straight-line code, guards and loops    *)
(* with something else in their gaps.                                       *)
EXTENDS MemoryEvidence

I(mn, ops) == Instr(mn, ops, 0)
J(mn, to) == Instr(mn, <<>>, to)
At(base, disp, width) == Cell(base, NoReg, 1, disp, width)
By(base, index, scale) == Cell(base, index, scale, 0, 1)
Ret == I("ret", <<>>)

Ptr(name) == [name |-> name, ptr |-> TRUE]
Int_(name) == [name |-> name, ptr |-> FALSE]
Region(name, base, offset, length, access) ==
    [name |-> name, base_param |-> base, offset |-> offset, length |-> length, access |-> access]
Memory(regions, relations) == [regions |-> regions, relations |-> relations]
Contract(params_, memory_) == [params |-> params_, memory |-> memory_]
Program(isa, contract, body) == [isa |-> isa, contract |-> contract, code |-> body]

OneRegion(access) == Memory(<<Region("A", "buf", 0, Literal(2), access)>>, <<>>)
SplitRegions == Memory(<<Region("A", "buf", 0, Literal(1), "read"), Region("B", "buf", 1, Literal(1), "read_write")>>, <<>>)
GapRegions == Memory(<<Region("A", "buf", 0, Literal(1), "read"), Region("B", "buf", 2, Literal(1), "read")>>, <<>>)
TwoBuffers == Memory(<<Region("D", "dst", 0, Param("n"), "write"), Region("B", "buf", 0, Literal(2), "read")>>, <<>>)

\* (buf, dst, n), so that n is the third argument.
Signature == <<Ptr("buf"), Ptr("dst"), Int_("n")>>
Contracts == {Contract(Signature, m) : m \in {OneRegion("read"), OneRegion("read_write"), SplitRegions,
                                              GapRegions, TwoBuffers}}

\* x86, System V: buf in rdi, dst in rsi, n in rdx.
n == "rdx"
Noise == {I("test", <<Reg("rax"), Reg("rax")>>), I("mov", <<Reg("rsi"), Reg("rdi")>>),
          I("mov", <<Reg("rdi"), Reg("rsi")>>), I("mov", <<At("rbp", -8, 8), Reg("rdi")>>),
          I("mov", <<Reg("rdi"), At("rbp", -8, 8)>>), I("mov", <<Reg(n), Imm(1)>>),
          I("xor", <<Reg(n), Reg(n)>>), I("inc", <<Reg(n)>>), I("add", <<Reg("rdi"), Imm(1)>>),
          I("lea", <<Reg("rsi"), At("rdi", 1, 8)>>), I("and", <<Reg(n), Imm(1)>>),
          I("cmove", <<Reg("rdi"), Reg("rsi")>>), I("mov", <<Reg("rax"), Reg(n)>>)}
Accesses == {I("mov", <<Reg("rax"), At("rdi", 0, 1)>>), I("mov", <<Reg("rax"), At("rdi", 1, 1)>>),
             I("movzx", <<Reg("rax"), At("rdi", 0, 2)>>), I("mov", <<At("rsi", 0, 1), Reg("rax")>>),
             I("mov", <<Reg("rax"), By("rdi", n, 1)>>), I("mov", <<By("rdi", "rax", 1), Reg(n)>>),
             I("mov", <<Reg("rax"), At("rbp", 0, 1)>>)}
IndexedAccesses == {I("mov", <<Reg("rax"), By("rdi", n, 1)>>), I("mov", <<By("rdi", n, 2), Reg("rax")>>)}
Quiet == {I("test", <<Reg("rax"), Reg("rax")>>), I("inc", <<Reg(n)>>), I("cmp", <<Reg("rax"), Imm(0)>>)}

Straight == {<<x, y, z, Ret>> : x \in Noise, y \in Noise, z \in Accesses}
Guarded == {<<x, I("cmp", <<Reg(n), Imm(b)>>), J(j, 6), y, z, Ret>> :
               x \in {I("xor", <<Reg(n), Reg(n)>>), I("test", <<Reg("rax"), Reg("rax")>>)},
               b \in {1, 2, 3}, j \in {"jae", "jge", "jb", "je"}, y \in Noise, z \in IndexedAccesses}
Zeroes == {I("xor", <<Reg(n), Reg(n)>>), I("mov", <<Reg(n), Imm(0)>>), I("mov", <<Reg(n), Imm(1)>>)}
PostTest == {<<x, z, y, I("inc", <<Reg(n)>>), I("cmp", <<Reg(n), Imm(b)>>), J(j, 2), Ret>> :
               x \in Zeroes, z \in IndexedAccesses, y \in Quiet, b \in {1, 2, 3}, j \in {"jb", "jl", "jne"}}
PreTest == {<<x, I("cmp", <<Reg(n), Imm(b)>>), J("jae", 8), y, z, w, J("jmp", 2), Ret>> :
               x \in Zeroes, b \in {1, 2, 3}, y \in Quiet, z \in IndexedAccesses, w \in Quiet}
Countdown == {<<I("mov", <<Reg(n), Imm(b)>>), I("dec", <<Reg(n)>>), z, y, J(j, 2), Ret>> :
               b \in {1, 2, 3}, z \in IndexedAccesses, j \in {"jnz", "jne"},
               y \in {I("mov", <<Reg("rcx"), Reg("rcx")>>), I("cmp", <<Reg("rax"), Imm(0)>>)}}

Gas(add, ld, st, mv, li, a, b, t) ==
    {<<x, y, z, Ret>> :
        x \in {I(mv, <<Reg(t), Reg(a)>>), I(mv, <<Reg(a), Reg(b)>>), I(add, <<Reg(t), Reg(a), Imm(1)>>)},
        y \in {I(li, <<Reg(a), Imm(1)>>), I(add, <<Reg(t), Reg(b), Imm(0)>>), I(mv, <<Reg(b), Reg(t)>>),
               I(ld, <<Reg(t), At(a, 0, 1)>>)},
        z \in {I(ld, <<Reg(t), At(a, 0, 1)>>), I(ld, <<Reg(t), At(t, 1, 1)>>), I(st, <<Reg(t), At(b, 0, 1)>>)}}

LengthSpecs == {Literal(k) : k \in {0, 1, 2, 3}} \cup {Param("n")}
RelationMemories ==
    {Memory(<<Region("A", "buf", i, l, "read"), Region("B", base, j, m, "read")>>,
            <<[left |-> "A", right |-> "B", require |-> q, basis |-> basis]>>) :
        i \in {0, 1}, l \in LengthSpecs, base \in {"buf", "dst"}, j \in {0, 1, 2, MaxOffset - 1},
        m \in LengthSpecs, q \in {"disjoint", "equal", "contains"}, basis \in {"none", "precondition"}}

MCPrograms ==
    {Program("SysV", c, b) : c \in Contracts, b \in Straight \cup Guarded}
    \cup {Program("SysV", c, b) : c \in Contracts, b \in PostTest \cup PreTest \cup Countdown}
    \cup {Program("aarch64", c, b) : c \in Contracts,
                b \in Gas("add", "ldrb", "strb", "mov", "movz", "x0", "x1", "x3")}
    \cup {Program("riscv", c, b) : c \in Contracts,
                b \in Gas("addi", "lb", "sb", "mv", "li", "a0", "a1", "t0")}
    \cup {Program("Win64", Contract(Signature, m), <<Ret>>) : m \in RelationMemories}
    \cup {Program("Win64", Contract(Signature, OneRegion("read")),
                  <<I("mov", <<Reg("rax"), At("rcx", k, 1)>>), Ret>>) : k \in {0, 2}}

MCPreTest == {Program("SysV", Contract(Signature, OneRegion("read_write")), b) : b \in PreTest}
MCScalars == {-1, 0, 1, 2, 3}
===============================================================================
