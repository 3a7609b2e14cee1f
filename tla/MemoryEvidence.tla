---------------------------- MODULE MemoryEvidence ----------------------------
(***************************************************************************)
(* The memory evidence of agent verify                                     *)
(* (evaluate_x86_memory_evidence and its AArch64 and RISC-V siblings in    *)
(* crates/semasm-cli/src/commands.rs): the collector walks a candidate,    *)
(* the accesses it saw are judged against the regions of the contract.     *)
(* Then the candidate runs, on a machine of registers and stack slots      *)
(* (external), so that what the reports say can be compared with what the  *)
(* candidate does.                                                         *)
(***************************************************************************)
EXTENDS GasEffects

CONSTANTS
    Programs,   \* an ISA, a contract and the instructions of a candidate
    Scalars,    \* values of integer parameters
    MaxSteps    \* bound: steps of the machine

ASSUME EvidenceAssumption == Scalars \subseteq Int /\ MaxSteps \in Nat

\* What validate_document leaves in a contract it accepts: regions with names of
\* their own, an i64 offset and a length that is a literal or an integer
\* parameter, relations between them.
Validated(contract) ==
    LET regions == contract.memory.regions
        scalars == {i \in DOMAIN contract.params : ~contract.params[i].ptr}
    IN
    /\ DOMAIN regions = 1..Len(regions)
    /\ \A i \in DOMAIN regions :
          /\ regions[i].offset \in -MaxOffset..MaxOffset
          /\ \/ regions[i].length.n \in Nat /\ regions[i].length = Literal(regions[i].length.n)
             \/ \E p \in scalars : regions[i].length = Param(contract.params[p].name)
    /\ \A i, j \in DOMAIN regions : regions[i].name = regions[j].name => i = j
    /\ \A k \in DOMAIN contract.memory.relations :
          LET rel == contract.memory.relations[k] IN
          /\ \E i \in DOMAIN regions : regions[i].name = rel.left
          /\ \E i \in DOMAIN regions : regions[i].name = rel.right
          /\ rel.require \in {"disjoint", "equal", "contains"}

ASSUME ProgramsAssumption == \A p \in Programs : Validated(p.contract)

VARIABLES
    program,
    phase,      \* "collect", "evaluate", "start", "run", "done"
    at,         \* position of the collector
    known,      \* what it knows about registers and slots
    accesses,   \* ObservedMemoryAccess, in the order of the text
    alias, region,  \* the reports
    pc, reg, frame, flags,  \* the machine
    history,    \* steps; a branch was taken; registers stepped since compared
    touch       \* the access of the step just made

vars == <<program, phase, at, known, accesses, alias, region, pc, reg, frame, flags, history, touch>>
analysis == <<at, known, accesses, alias, region>>
machine == <<pc, reg, frame, flags, history, touch>>

code == program.code
memory == program.contract.memory
params == program.contract.params

Value(p, n) == [p |-> p, n |-> n]
Number(n) == Value("int", n)
Junk == Value("junk", 0)
NoTouch == [at |-> 0]
NoReport == [status |-> "none"]

Arguments == CASE program.isa \in {"SysV", "Win64"} -> ArgumentRegisters(program.isa)
               [] program.isa = "aarch64" -> aarch64_arguments
               [] program.isa = "riscv" -> riscv_arguments
FrameRegisters == CASE program.isa \in {"SysV", "Win64"} -> {"rsp", "rbp"}
                    [] program.isa = "aarch64" -> {"sp", "fp"}
                    [] program.isa = "riscv" -> {"sp", "s0"}

Init ==
    /\ program \in Programs
    /\ phase = "collect" /\ at = 1 /\ accesses = <<>>
    /\ known = Knowledge(seed_param_affinity(params, Arguments))
    /\ alias = NoReport /\ region = NoReport
    /\ pc = 1 /\ reg = <<>> /\ frame = <<>> /\ flags = <<Junk, Junk>>
    /\ history = [steps |-> 0, diverted |-> FALSE, stepped |-> {}] /\ touch = NoTouch

-----------------------------------------------------------------------------
(* The analysis. *)

CollectX86 ==
    /\ phase = "collect" /\ at <= Len(code) /\ program.isa \in {"SysV", "Win64"}
    /\ accesses' = accesses \o record_accesses(code[at], at, known, Inductions(code))
    /\ known' = update_affinity(known, code[at])
    /\ at' = at + 1 /\ UNCHANGED <<program, phase, alias, region, machine>>

CollectAArch64 ==
    /\ phase = "collect" /\ at <= Len(code) /\ program.isa = "aarch64"
    /\ accesses' = accesses \o aarch64_record_accesses(code[at], at, known.affinity)
    /\ known' = [known EXCEPT !.affinity = aarch64_update_affinity(@, code[at])]
    /\ at' = at + 1 /\ UNCHANGED <<program, phase, alias, region, machine>>

CollectRiscv ==
    /\ phase = "collect" /\ at <= Len(code) /\ program.isa = "riscv"
    /\ accesses' = accesses \o riscv_record_accesses(code[at], at, known.affinity)
    /\ known' = [known EXCEPT !.affinity = riscv_update_affinity(@, code[at])]
    /\ at' = at + 1 /\ UNCHANGED <<program, phase, alias, region, machine>>

Evaluate ==
    /\ phase = "collect" /\ at > Len(code)
    /\ alias' = evaluate_alias(memory, accesses)
    /\ region' = evaluate_region_access(memory, accesses)
    /\ phase' = "start" /\ UNCHANGED <<program, at, known, accesses, machine>>

-----------------------------------------------------------------------------
(* The machine. *)

\* A caller passes the parameters; every other register holds anything.
Start ==
    /\ phase = "start" /\ phase' = "run"
    /\ \E scalar \in [{i \in DOMAIN params : ~params[i].ptr} -> Scalars] :
         reg' = [r \in {Arguments[i] : i \in DOMAIN params} |->
                    LET i == CHOOSE j \in DOMAIN params : Arguments[j] = r IN
                    IF params[i].ptr THEN Value(params[i].name, 0) ELSE Number(scalar[i])]
    /\ UNCHANGED <<program, analysis, pc, frame, flags, history, touch>>

Read(r) == IF r \in DOMAIN reg THEN reg[r]
           ELSE IF r \in FrameRegisters THEN Value("frame", 0) ELSE Junk
ValueOf(op) == IF op.t = "imm" THEN Number(op.n) ELSE Read(op.r)

Plus(v, w, sign) ==
    CASE v.p # "junk" /\ w.p = "int" -> Value(v.p, v.n + sign * w.n)
      [] v.p = "int" /\ w.p \notin {"int", "junk"} /\ sign = 1 -> Value(w.p, v.n + w.n)
      [] OTHER -> Junk

Address(mem) ==
    LET base == Plus(Read(mem.base), Number(mem.disp), 1)
        index == Read(mem.index)
    IN  IF mem.index = NoReg THEN base
        ELSE IF index.p # "int" THEN Junk ELSE Plus(base, Number(index.n * mem.scale), 1)

Branches == {"jmp", "je", "jne", "jz", "jnz", "jae", "jb", "jge", "jl"}
Moves == {"mov", "movabs", "mv", "li", "movz"}
Additions == {"add", "addi", "sub", "inc", "dec"}
Stores == {"mov", "str", "strb", "sb", "sd"}

Result(ins) ==
    LET first == ValueOf(ins.ops[1])
        left == IF Len(ins.ops) = 3 THEN ValueOf(ins.ops[2]) ELSE first
        right == IF Len(ins.ops) = 1 THEN Number(1) ELSE ValueOf(ins.ops[Len(ins.ops)])
    IN  CASE ins.mn \in Moves -> ValueOf(ins.ops[2])
          [] ins.mn = "movn" -> Number(-ins.ops[2].n - 1)
          [] ins.mn = "lea" -> Address(ins.ops[2])
          [] ins.mn = "xor" /\ Is(ins, 2, ins.ops[1]) -> Number(0)
          [] ins.mn \in Additions -> Plus(left, right, IF ins.mn \in {"sub", "dec"} THEN -1 ELSE 1)
          [] OTHER -> Junk

Step(next) ==
    /\ phase = "run" /\ history.steps < MaxSteps
    /\ pc' = next /\ UNCHANGED <<program, phase, analysis>>
Counted(h) == [h EXCEPT !.steps = @ + 1]
Touches(mode, mem) ==
    [at |-> pc, mode |-> mode, width |-> mem.width, address |-> Address(mem), base |-> mem.base,
     baseValue |-> Read(mem.base), index |-> mem.index, indexValue |-> Read(mem.index)]

\* Arithmetic sets the flags of its result, a plain move none.
Compute ==
    LET ins == code[pc] IN
    /\ Step(pc + 1)
    /\ ins.mn = "lea" \/ (ins.mn \in Writers \cup Moves \cup Additions \cup {"movn"} /\ MemOperands(ins) = {})
    /\ reg' = Put(reg, ins.ops[1].r, Result(ins))
    /\ flags' = IF ins.mn \in Moves \cup {"lea", "movn"} THEN flags ELSE <<Result(ins), Number(0)>>
    /\ history' = Counted([history EXCEPT !.stepped = IF ins.mn = "inc" THEN @ \cup {ins.ops[1].r}
                                                      ELSE @ \ {ins.ops[1].r}])
    /\ touch' = NoTouch /\ UNCHANGED frame

Load ==
    LET ins == code[pc]
        mem == ins.ops[2]
        slot == Address(mem).n
    IN
    /\ Step(pc + 1)
    /\ ins.mn # "lea" /\ Len(ins.ops) = 2 /\ IsReg(ins, 1) /\ mem.t = "mem"
    /\ ins.mn \in Stores => ins.mn = "mov"
    /\ reg' = Put(reg, ins.ops[1].r,
                  IF Address(mem).p = "frame" /\ slot \in DOMAIN frame THEN frame[slot] ELSE Junk)
    /\ touch' = Touches("load", mem)
    /\ history' = Counted(history) /\ UNCHANGED <<frame, flags>>

Store ==
    LET ins == code[pc]
        mem == ins.ops[IF ins.mn = "mov" THEN 1 ELSE 2]
        src == ins.ops[IF ins.mn = "mov" THEN 2 ELSE 1]
    IN
    /\ Step(pc + 1)
    /\ ins.mn \in Stores /\ Len(ins.ops) = 2 /\ mem.t = "mem"
    /\ frame' = IF Address(mem).p = "frame" THEN Put(frame, Address(mem).n, ValueOf(src)) ELSE frame
    /\ touch' = Touches("store", mem)
    /\ history' = Counted(history) /\ UNCHANGED <<reg, flags>>

Compare ==
    LET ins == code[pc] IN
    /\ Step(pc + 1) /\ ins.mn \in {"cmp", "test"}
    /\ flags' = IF ins.mn = "cmp" THEN <<ValueOf(ins.ops[1]), ValueOf(ins.ops[2])>>
                ELSE <<ValueOf(ins.ops[1]), Number(0)>>
    /\ history' = Counted([history EXCEPT !.stepped = @ \ {ins.ops[1].r}])
    /\ touch' = NoTouch /\ UNCHANGED <<reg, frame>>

UnsignedLess(a, b) == IF (a < 0) = (b < 0) THEN a < b ELSE b < 0
Verdicts(mn) ==
    LET a == flags[1].n
        b == flags[2].n
    IN  CASE mn = "jmp" -> {TRUE}
          [] mn # "jmp" /\ ({flags[1].p, flags[2].p} # {"int"}) -> BOOLEAN
          [] mn \in {"je", "jz"} -> {a = b}
          [] mn \in {"jne", "jnz"} -> {a # b}
          [] mn = "jae" -> {~UnsignedLess(a, b)}
          [] mn = "jb" -> {UnsignedLess(a, b)}
          [] mn = "jge" -> {a >= b}
          [] mn = "jl" -> {a < b}

Branch ==
    LET ins == code[pc] IN
    /\ phase = "run" /\ ins.mn \in Branches
    /\ \E taken \in Verdicts(ins.mn) :
         /\ Step(IF taken THEN ins.to ELSE pc + 1)
         /\ history' = Counted([history EXCEPT !.diverted = @ \/ taken])
    /\ touch' = NoTouch /\ UNCHANGED <<reg, frame, flags>>

\* A conditional move that moves is a path the text does not show.
Select ==
    LET ins == code[pc] IN
    /\ Step(pc + 1) /\ ins.mn = "cmove"
    /\ \E taken \in Verdicts("je") :
         /\ reg' = Put(reg, ins.ops[1].r, IF taken THEN ValueOf(ins.ops[2]) ELSE ValueOf(ins.ops[1]))
         /\ history' = Counted([history EXCEPT !.diverted = @ \/ taken])
    /\ touch' = NoTouch /\ UNCHANGED <<frame, flags>>

Return ==
    /\ phase = "run" /\ (code[pc].mn = "ret" \/ history.steps = MaxSteps) /\ phase' = "done"
    /\ touch' = NoTouch /\ UNCHANGED <<program, analysis, pc, reg, frame, flags, history>>

Done == phase = "done" /\ UNCHANGED vars

Next ==
    \/ CollectX86 \/ CollectAArch64 \/ CollectRiscv \/ Evaluate \/ Start
    \/ Compute \/ Load \/ Store \/ Compare \/ Branch \/ Select \/ Return \/ Done

Spec == Init /\ [][Next]_vars

-----------------------------------------------------------------------------
(* What an access touches, and what the reports may rely on. *)

Bytes(r) == r.offset..(r.offset + r.length.n - 1)

\* The touched bytes belong to one region of their parameter that allows it.
Confined(t) ==
    \E r \in Range(memory.regions) :
        /\ r.base_param = t.address.p /\ access_allowed(r.access, t.mode) /\ r.length.t = "literal"
        /\ t.address.n..(t.address.n + t.width - 1) \subseteq Bytes(r)

RowOf(t) == CHOOSE i \in DOMAIN accesses : accesses[i].at = t.at

\* What the evidence does not account for: arithmetic on a pointer (add, inc,
\* lea), a signed or clobbered loop condition that lets an index go below zero,
\* the frame itself (and a frame register used as a pointer, which looks the
\* same), a displacement the AArch64 decoder loses,
PointerMoved(t) == t.baseValue.n # 0
IndexNegative(t) == t.index # NoReg /\ t.indexValue.n < 0
FrameAsPointer(t) == t.base \in FrameRegisters
DisplacementLost(t) == program.isa = "aarch64" /\ t.address # t.baseValue

\* facts of the text on a path that is not the text, unless a loop was
\* recognized there; an access after the increment of a pre-test loop,
Induced(t) == \E x \in Inductions(code) : x[1] = t.at /\ x[2] = t.index
PathDiverted(t) == history.diverted /\ ~Induced(t)
IndexStepped(t) == /\ t.index \in history.stepped
                   /\ \E x \in discover_cfg_pre_test_inductions(code) : x[1] = t.at

\* and a range whose ends lie in different regions.
RangeSpansRegions(t) ==
    LET a == accesses[RowOf(t)].addr IN
    /\ a.t = "indexed" /\ a.index_const = Unset /\ a.index_max_exclusive # Unset
    /\ \A r \in Range(memory.regions) :
          \E i \in {0, a.index_max_exclusive - 1} : a.displacement + i * a.scale \notin Bytes(r)

Excused(t) == \/ PointerMoved(t) \/ IndexNegative(t) \/ FrameAsPointer(t) \/ DisplacementLost(t)
              \/ PathDiverted(t) \/ IndexStepped(t) \/ RangeSpansRegions(t)

\* A candidate whose region access evidence is "passed" (and which can be
\* "verified" without preconditions) touches, of the memory behind its pointer
\* parameters, only bytes of regions that allow it, whatever it is called with;
\* copies, spills, constants, guards and recognized loops included.  The
\* exceptions of Excused are what the evidence is known not to account for.
PassedIsConfined ==
    region.status = "passed" /\ touch # NoTouch /\ ~Excused(touch) => Confined(touch)

\* The same of one access, without the exceptions: "proven_inside" is an
\* "access fully inside a matched region" (BoundsStatus::ProvenInside).
ProvenInsideIsInside ==
    touch # NoTouch /\ touch.address.p # "frame" /\ ~FrameAsPointer(touch)
        /\ ProvenAllowed(region.rows[RowOf(touch)]) => Confined(touch)

Lengths(from) ==
    [{params[i].name : i \in {j \in DOMAIN params : ~params[j].ptr}} -> {x \in Scalars : x >= from}]
Span(r, len) == r.offset..(r.offset + (IF r.length.t = "literal" THEN r.length.n ELSE len[r.length.name]) - 1)
Holds(rel, len) ==
    LET l == RegionNamed(memory, rel.left)
        r == RegionNamed(memory, rel.right)
    IN  CASE rel.require = "disjoint" -> Span(l, len) \cap Span(r, len) = {}
          [] rel.require = "equal" -> Span(l, len) = Span(r, len)
          [] rel.require = "contains" -> Span(r, len) \subseteq Span(l, len)
Saturates == \E r \in Range(memory.regions) : r.offset + r.length.n > MaxOffset
HasEmpty == \E r \in Range(memory.regions) : r.length = Literal(0)

\* Alias evidence that passed without preconditions is a proof: every required
\* relation holds of the bytes, for every length the caller may pass; evidence
\* that failed is a refutation, unless an empty region is involved.  Regions
\* past the largest offset are excepted: their ends saturate.
RelationEvidenceIsSound ==
    phase = "start" /\ ~Saturates =>
        /\ alias.status = "passed" =>
              \A i \in DOMAIN memory.relations : \A len \in Lengths(0) : Holds(memory.relations[i], len)
        /\ alias.status = "failed" /\ ~HasEmpty =>
              \E i \in DOMAIN memory.relations : \A len \in Lengths(1) : ~Holds(memory.relations[i], len)

===============================================================================
