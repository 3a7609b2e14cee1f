----------------------------- MODULE MemoryEffects -----------------------------
(***************************************************************************)
(* Which memory accesses the x86 collector sees in a lowered candidate     *)
(* (crates/semasm-cli/src/memory_effects.rs).  An instruction is a         *)
(* mnemonic, operands and, for a branch, the position of its target.  The  *)
(* collector goes through the text once, whatever the branches do; loops   *)
(* are recognized before that by their shape.  Registers are whole: the    *)
(* code identifies every view of a register with the register.             *)
(* Mnemonics that lowering rejects are left out.                           *)
(***************************************************************************)
EXTENDS RegionEvidence, Instructions, FiniteSetsExt

Cell(base, index, scale, disp, width) ==
    [t |-> "mem", base |-> base, index |-> index, scale |-> scale, disp |-> disp, width |-> width]
Instr(mn, ops, to) == [mn |-> mn, ops |-> ops, to |-> to]

Writers == {"mov", "movabs", "movzx", "lea", "pop", "xor", "and", "or", "add", "sub", "inc", "dec",
            "shl", "shr"}
writes_gp(ins, gp) == ins.mn \in Writers /\ Is(ins, 1, Reg(gp))

IndexedBy(ins, gp) == \E m \in MemOperands(ins) : m.index = gp
IndexRegisters(ins) == {m.index : m \in MemOperands(ins)} \ {NoReg}
\* Positions with the index registers of their accesses.
Indexes(code) == UNION {IndexRegisters(code[i]) : i \in DOMAIN code}
Sites(code) == {p \in (DOMAIN code) \X Indexes(code) : IndexedBy(code[p[1]], p[2])}
Steps(ins, gp) == Is(ins, 1, Reg(gp)) /\ (ins.mn = "inc" \/ (ins.mn = "add" /\ Is(ins, 2, Imm(1))))
BoundedBy(ins, gp) == ins.mn = "cmp" /\ Is(ins, 1, Reg(gp)) /\ IsImm(ins, 2) /\ ins.ops[2].n > 0
Below == {"jb", "jl"}
NotBelow == {"jae", "jge"}

\* The last write before a position, if any, sets the register to zero; an xor
\* with anything but a register is overlooked.
index_was_zero_initialized(code, before, gp) ==
    LET writes == {i \in 1..(before - 1) : /\ writes_gp(code[i], gp)
                                           /\ code[i].mn = "xor" => IsReg(code[i], 2)}
        zeroes(ins) == \/ ins.mn = "xor" /\ Is(ins, 2, Reg(gp))
                       \/ ins.mn \in {"mov", "movabs"} /\ Is(ins, 2, Imm(0))
    IN  writes # {} /\ zeroes(code[Max(writes)])

\* After an access: one increment, then the bound, then a branch back; the
\* first comparison after the increment decides.
post_test_bound_after(code, from, gp) ==
    LET rest == from..Len(code)
        compares == {i \in rest : code[i].mn = "cmp" /\ \E j \in from..i : Steps(code[j], gp)}
        at == Min(compares)
        writes == {i \in from..at : writes_gp(code[i], gp) /\ code[i].mn \notin {"shl", "shr"}}
    IN  IF /\ compares # {} /\ BoundedBy(code[at], gp)
           /\ Cardinality(writes) = 1 /\ \A i \in writes : Steps(code[i], gp)
           /\ at < Len(code) /\ code[at + 1].mn \in Below
        THEN code[at].ops[2].n ELSE Unset

\* Inductions map a position to the index register and its exclusive bound.
discover_post_test_inductions(code) ==
    {<<p[1], p[2], post_test_bound_after(code, p[1] + 1, p[2])>> :
        p \in {x \in Sites(code) : /\ index_was_zero_initialized(code, x[1], x[2])
                                   /\ post_test_bound_after(code, x[1] + 1, x[2]) # Unset}}

\* mov gp, N ... dec gp, shortly before the access, and a later jnz or jne with
\* nothing in between that ends the search; comparisons do not.
countdown_bound_for_access(code, at, gp) ==
    LET writes(limit) == {i \in 1..limit : writes_gp(code[i], gp)}
        dec == Max(writes(at - 1))
        set == Max(writes(dec - 1))
        stops == {i \in (at + 1)..Len(code) :
                     \/ code[i].mn \in {"jnz", "jne", "jmp", "ret", "jae", "jge", "je", "call",
                                        "ja", "jb", "jg", "jl", "jle", "jbe"}
                     \/ writes_gp(code[i], gp)}
    IN  IF /\ writes(at - 1) # {} /\ code[dec].mn = "dec" /\ at - dec <= 5
           /\ stops # {} /\ code[Min(stops)].mn \in {"jnz", "jne"}
           /\ writes(dec - 1) # {} /\ code[set].mn \in {"mov", "movabs"}
           /\ IsImm(code[set], 2) /\ code[set].ops[2].n > 0
        THEN code[set].ops[2].n ELSE Unset

discover_countdown_inductions(code) ==
    {<<p[1], p[2], countdown_bound_for_access(code, p[1], p[2])>> :
        p \in {x \in Sites(code) : countdown_bound_for_access(code, x[1], x[2]) # Unset}}

branch_target_index(ins) == ins.to

\* header: cmp gp, N; jae exit; body with one increment; jmp header; exit:
\* every access of the body counts, before or after the increment.
discover_cfg_pre_test_inductions(code) ==
    LET exit(h) == branch_target_index(code[h + 1])
        body(h) == (h + 2)..(exit(h) - 2)
        writes(h, gp) == {i \in body(h) : writes_gp(code[i], gp)}
        header(h, gp) ==
            /\ BoundedBy(code[h], gp) /\ index_was_zero_initialized(code, h, gp)
            /\ code[h + 1].mn \in NotBelow /\ exit(h) \in (h + 3)..Len(code)
            /\ code[exit(h) - 1].mn = "jmp" /\ branch_target_index(code[exit(h) - 1]) = h
            /\ \E i \in writes(h, gp) : writes(h, gp) = {i} /\ code[i].mn = "inc"
        headers(gp) == {h \in 1..(Len(code) - 2) : header(h, gp)}
    IN  UNION {{<<p[1], p[2], code[h].ops[2].n>> : h \in {x \in headers(p[2]) : p[1] \in body(x)}} :
               p \in Sites(code)}

\* access; inc gp, at most five later; cmp gp, N; jb to the access.
discover_cfg_post_test_inductions(code) ==
    LET step(i, gp) == Min({j \in (i + 1)..Len(code) : writes_gp(code[j], gp)} \cup {i + 5})
        loop(i, gp) ==
            LET s == step(i, gp) IN
            /\ index_was_zero_initialized(code, i, gp)
            /\ s + 2 <= Len(code) /\ Steps(code[s], gp) /\ BoundedBy(code[s + 1], gp)
            /\ code[s + 2].mn \in Below /\ branch_target_index(code[s + 2]) = i
    IN  {<<p[1], p[2], code[step(p[1], p[2]) + 1].ops[2].n>> :
            p \in {x \in Sites(code) : loop(x[1], x[2])}}

\* The first recognizer that knows a position is believed.
Inductions(code) ==
    LET found == <<discover_post_test_inductions(code), discover_countdown_inductions(code),
                   discover_cfg_pre_test_inductions(code), discover_cfg_post_test_inductions(code)>>
        at(k) == {x[1] : x \in found[k]}
        new(k) == {x \in found[k] : \A j \in 1..(k - 1) : x[1] \notin at(j)}
    IN  UNION {new(k) : k \in DOMAIN found}

-----------------------------------------------------------------------------
(* The walk.  A state of it is what is known about registers and slots.    *)

Put(f, k, v) == [x \in DOMAIN f \cup {k} |-> IF x = k THEN v ELSE f[x]]
Drop(f, k) == [x \in DOMAIN f \ {k} |-> f[x]]
Copy(f, k, g, j) == IF j \in DOMAIN g THEN Put(f, k, g[j]) ELSE Drop(f, k)
Get(f, k) == IF k \in DOMAIN f THEN f[k] ELSE Unset

NoCompare == <<>>
Knowledge(affinity) ==
    [affinity |-> affinity, slots |-> <<>>, consts |-> <<>>, uppers |-> <<>>, pending |-> NoCompare]

ArgumentRegisters(abi) ==
    CASE abi = "SysV" -> <<"rdi", "rsi", "rdx", "rcx", "r8", "r9">>
      [] abi = "Win64" -> <<"rcx", "rdx", "r8", "r9">>

\* Pointer parameters that are passed in registers.
seed_param_affinity(params, regs) ==
    LET slots == {i \in DOMAIN params : i <= Len(regs) /\ params[i].ptr}
    IN  [r \in {regs[i] : i \in slots} |-> params[CHOOSE i \in slots : regs[i] = r].name]

is_stack_frame(mem) == mem.base \in {"rsp", "rbp"} /\ mem.index = NoReg
frame_slot(mem) == <<mem.base, mem.disp>>

access_mode(ins, i) ==
    CASE ins.mn = "lea" -> "none"
      [] ins.mn \in {"mov", "movabs", "movzx", "add", "sub", "and", "or", "xor", "inc", "dec", "shl", "shr"} ->
            IF i = 1 THEN "store" ELSE "load"
      [] ins.mn = "push" -> "store"
      [] OTHER -> "load"

classify_addr(mem, k, induction) ==
    LET bound == {x \in induction : x[2] = mem.index}
        const == IF bound = {} THEN Get(k.consts, mem.index) ELSE Unset
        upper == IF bound = {} THEN Get(k.uppers, mem.index) ELSE (CHOOSE x \in bound : TRUE)[3]
    IN  CASE is_stack_frame(mem) -> StackFrame
          [] ~is_stack_frame(mem) /\ mem.base \notin DOMAIN k.affinity -> UnknownAddr
          [] OTHER -> IF mem.index = NoReg THEN Affine(k.affinity[mem.base], mem.disp)
                      ELSE IndexedAddr(k.affinity[mem.base], mem.scale, mem.disp, const,
                                       IF const = Unset THEN upper ELSE Unset)

\* No x86 instruction of the subset has two memory operands.
record_accesses(ins, at, k, inductions) ==
    LET here == {x \in inductions : x[1] = at}
        ops == {i \in DOMAIN ins.ops : ins.ops[i].t = "mem" /\ access_mode(ins, i) # "none"}
        row(i) == [mode |-> access_mode(ins, i), width |-> ins.ops[i].width, at |-> at,
                   addr |-> classify_addr(ins.ops[i], k, here)]
    IN  IF ops = {} THEN <<>> ELSE <<row(Min(ops))>>

Forget(k, r) == [k EXCEPT !.affinity = Drop(@, r), !.consts = Drop(@, r), !.uppers = Drop(@, r)]

update_cmp(k, ins) ==
    [k EXCEPT !.pending = IF IsReg(ins, 1) /\ IsImm(ins, 2) /\ ins.ops[2].n >= 0
                          THEN <<ins.ops[1].r, ins.ops[2].n>> ELSE NoCompare]

\* The branch not taken: the register is below the bound.
update_guard(k, ins) ==
    IF k.pending = NoCompare THEN k
    ELSE [k EXCEPT !.uppers = Put(@, k.pending[1], k.pending[2]), !.pending = NoCompare]

\* mov: spill, copy, constant, reload.
update_mov(k, ins) ==
    LET dst == ins.ops[1]
        src == ins.ops[2]
    IN  CASE dst.t = "mem" /\ src.t = "reg" /\ is_stack_frame(dst) ->
                [k EXCEPT !.slots = Copy(@, frame_slot(dst), k.affinity, src.r)]
          [] dst.t = "reg" /\ src.t = "reg" ->
                [k EXCEPT !.affinity = Copy(@, dst.r, @, src.r), !.consts = Copy(@, dst.r, @, src.r),
                          !.uppers = Copy(@, dst.r, @, src.r)]
          [] dst.t = "reg" /\ src.t = "imm" ->
                [Forget(k, dst.r) EXCEPT !.consts = IF src.n >= 0 THEN Put(@, dst.r, src.n) ELSE @]
          [] dst.t = "reg" /\ src.t = "mem" ->
                [Forget(k, dst.r) EXCEPT !.affinity =
                    IF is_stack_frame(src) THEN Copy(@, dst.r, k.slots, frame_slot(src)) ELSE @]
          [] OTHER -> k

\* The displacement of an affine address is not kept.
update_lea(k, ins) ==
    LET r == ins.ops[1].r
        a == classify_addr(ins.ops[2], [k EXCEPT !.consts = Drop(@, r), !.uppers = Drop(@, r)], {})
    IN  IF a.t = "affine" THEN [Forget(k, r) EXCEPT !.affinity = Put(@, r, a.base_param)]
        ELSE Forget(k, r)

update_xor(k, ins) ==
    LET r == ins.ops[1].r IN
    IF ~IsReg(ins, 1) THEN k
    ELSE IF Is(ins, 2, ins.ops[1]) THEN [Forget(k, r) EXCEPT !.consts = Put(@, r, 0)]
    ELSE Forget(k, r)

update_clear(k, ins) == IF IsReg(ins, 1) THEN Forget(k, ins.ops[1].r) ELSE k

\* Mutant: a range survives the increment.
MutKeepRange(k, ins) ==
    IF IsReg(ins, 1) THEN [k EXCEPT !.consts = Drop(@, ins.ops[1].r)] ELSE k

\* Arithmetic keeps the affinity and loses constants and ranges.
update_arithmetic(k, ins) ==
    IF IsReg(ins, 1)
    THEN [k EXCEPT !.consts = Drop(@, ins.ops[1].r), !.uppers = Drop(@, ins.ops[1].r)] ELSE k

update_affinity(k, ins) ==
    LET settled == [k EXCEPT !.pending = NoCompare] IN
    CASE ins.mn = "cmp" -> update_cmp(k, ins)
      [] ins.mn \in NotBelow -> update_guard(k, ins)
      [] ins.mn \in {"mov", "movabs"} -> update_mov(settled, ins)
      [] ins.mn = "lea" -> update_lea(settled, ins)
      [] ins.mn = "xor" -> update_xor(settled, ins)
      [] ins.mn \in {"pop", "movzx", "and", "or"} -> update_clear(settled, ins)
      [] ins.mn \in {"inc", "dec", "add", "sub", "shl", "shr"} -> update_arithmetic(settled, ins)
      [] OTHER -> settled

===============================================================================
