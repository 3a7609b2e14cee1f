--------------------------------- MODULE Cfg ---------------------------------
(***************************************************************************)
(* Control-flow graphs (crates/semasm-cfg/src/lib.rs) and their two uses:  *)
(* `inspect cfg` reports the blocks that cannot be reached, the control    *)
(* gate of agent verify (check_cfg_leaf in commands.rs) accepts or rejects *)
(* a candidate.  build() is a walk over the instructions in address order, *)
(* one action per instruction, followed by the resolution of the edges.    *)
(* An Option is a set of at most one element.                              *)
(***************************************************************************)
EXTENDS Naturals, Sequences, FiniteSets

CONSTANTS
    Layouts,   \* addresses of the instructions build() may be given, in their order
    Shapes     \* the instructions without their addresses

Groups == {"ret", "call", "jump", "int"}

\* What classify() tells mnemonics apart by: "jmp" stands for jmp, b and j;
\* "br" for br and jr; "cond" for those of is_conditional_branch_mnemonic.
Mnemonics == {"ret", "jmp", "br", "blr", "cond", "other"}

\* PhysicalInstruction without its address; imm is the operand parse_target finds.
Instructions == [groups : SUBSET Groups, mnemonic : Mnemonics, imm : SUBSET Nat]

ASSUME CfgAssumption ==
    /\ Shapes \subseteq Instructions
    /\ \A a \in Layouts : a \in Seq(Nat)

\* What the decoder returns for one piece of code.
Ascending(a) == \A i, j \in DOMAIN a : i < j => a[i] < a[j]

VARIABLES
    caller,     \* "inspect" or "leaf"
    address,    \* the addresses of the instructions, in the order they were given
    prog,       \* the instructions
    phase,      \* what is being done
    pos,        \* position in address order of the next instruction
    blocks,     \* the blocks so far
    open,       \* whether the last of them is `current`
    frontier,   \* the queue of unreachable_blocks
    reached,    \* the blocks it has reached
    verdict     \* of the control gate, or of build()

vars == <<caller, address, prog, phase, pos, blocks, open, frontier, reached, verdict>>

Phases == {"scan", "walk", "resolve", "search", "policy", "done"}

\* `inspect` decodes one file from one base address.  The gate is given the code
\* sections of an object one behind the other, each from its own address, 0 in a
\* relocatable object: its list may be in any order and repeat addresses.
Init ==
    /\ caller \in {"inspect", "leaf"}
    /\ address \in Layouts
    /\ caller = "inspect" => Ascending(address)
    /\ prog \in [DOMAIN address -> Shapes]
    /\ phase = IF caller = "leaf" THEN "scan" ELSE "walk"
    /\ pos = 1
    /\ blocks = <<>>
    /\ open = FALSE
    /\ frontier = {}
    /\ reached = {}
    /\ verdict = "none"

------------------------------------------------------------------------------
(* Classification.                                                         *)

End(kind, target) == [kind |-> kind, target |-> target]

\* classify().  Its arm for BlockEnd::Unknown is guarded by `if false`.  A
\* conditional branch without a numeric target gets the address 0.
Classify(ins) ==
    CASE "ret" \in ins.groups \/ ins.mnemonic = "ret" -> End("Return", {})
      [] "call" \in ins.groups /\ "ret" \notin ins.groups /\ ins.mnemonic # "ret" ->
            End("Call", ins.imm)
      [] ins.groups \cap {"ret", "call", "jump"} = {"jump"} /\ ins.mnemonic # "ret" ->
            IF ins.mnemonic \in {"jmp", "br"}
            THEN End(IF ins.imm = {} THEN "Indirect" ELSE "UnconditionalBranch", ins.imm)
            ELSE IF ins.imm # {} THEN End("ConditionalBranch", ins.imm)
            ELSE IF ins.mnemonic = "cond" THEN End("ConditionalBranch", {0})
            ELSE End("Indirect", {})
      [] OTHER -> CASE ins.mnemonic = "br" -> End("Indirect", {})
                    [] ins.mnemonic = "blr" -> End("Call", {})
                    [] OTHER -> End("Fallthrough", {})

EndAt(i) == Classify(prog[i])

\* What ends a block.  A call does not: the block grows past it.
Terminators == {"UnconditionalBranch", "ConditionalBranch", "Return", "Indirect", "Unknown"}

Directs == {"UnconditionalBranch", "ConditionalBranch"}

------------------------------------------------------------------------------
(* build().                                                                *)

\* order: the instructions sorted by address, those of one address as they were given.
Below(i) == {j \in DOMAIN address : \/ address[j] < address[i]
                                   \/ (address[j] = address[i] /\ j < i)}
Order(n) == CHOOSE i \in DOMAIN address : Cardinality(Below(i)) = n - 1

\* addr_to_instr, for the addresses of a set: of one address, the last instruction.
InstrAt(A) == {i \in DOMAIN address :
                  /\ address[i] \in A
                  /\ \A j \in DOMAIN address : address[j] = address[i] => j <= i}

Edge(kind, to) == [kind |-> kind, to |-> to]

\* Mutant of EdgesOf: a conditional branch has only its taken edge.
EdgesOfTaken(n) ==
    LET end == EndAt(Order(n))
        to == InstrAt(end.target)
    IN CASE end.kind = "UnconditionalBranch" -> {Edge("Jump", to)}
         [] end.kind = "ConditionalBranch" -> {Edge("ConditionalTaken", to)}
         [] end.kind = "Call" /\ end.target # {} -> {Edge("Call", to)}
         [] OTHER -> {}

\* The edges of the n-th instruction, to instructions: an unresolved target is {}.
EdgesOf(n) ==
    LET end == EndAt(Order(n))
        to == InstrAt(end.target)
        next == IF n < Len(address)
                THEN {Edge("Fallthrough", InstrAt({address[Order(n + 1)]}))} ELSE {}
    IN CASE end.kind = "UnconditionalBranch" -> {Edge("Jump", to)}
         [] end.kind = "ConditionalBranch" -> {Edge("ConditionalTaken", to)} \cup next
         [] end.kind = "Call" /\ end.target # {} -> {Edge("Call", to)}
         [] OTHER -> {}

\* BlockBuilder::new.
NewBlock(i) == [start |-> i, end |-> i + 1, start_address |-> address[i],
                end_address |-> address[i], last |-> End("Fallthrough", {}), edges |-> {}]

EmptyInput ==
    /\ phase = "walk" /\ address = <<>>
    /\ phase' = "done" /\ verdict' = "error"
    /\ UNCHANGED <<caller, address, prog, pos, blocks, open, frontier, reached>>

\* Mutant of Walk: a block is closed by branches only.
WalkPastReturn ==
    /\ phase = "walk" /\ pos <= Len(address)
    /\ LET i == Order(pos)
           b == IF open THEN blocks[Len(blocks)] ELSE NewBlock(i)
           grown == [b EXCEPT !.end = i + 1, !.end_address = address[i],
                              !.last = EndAt(i), !.edges = @ \cup EdgesOf(pos)]
       IN /\ blocks' = IF open THEN [blocks EXCEPT ![Len(blocks)] = grown]
                               ELSE Append(blocks, grown)
          /\ open' = (EndAt(i).kind \notin Directs)
    /\ pos' = pos + 1
    /\ UNCHANGED <<caller, address, prog, phase, frontier, reached, verdict>>

\* One turn of the first pass: the instruction joins the current block, or opens
\* one, and closes it if it is a terminator.
Walk ==
    /\ phase = "walk" /\ pos <= Len(address)
    /\ LET i == Order(pos)
           b == IF open THEN blocks[Len(blocks)] ELSE NewBlock(i)
           grown == [b EXCEPT !.end = i + 1, !.end_address = address[i],
                              !.last = EndAt(i), !.edges = @ \cup EdgesOf(pos)]
       IN /\ blocks' = IF open THEN [blocks EXCEPT ![Len(blocks)] = grown]
                               ELSE Append(blocks, grown)
          /\ open' = (EndAt(i).kind \notin Terminators)
    /\ pos' = pos + 1
    /\ UNCHANGED <<caller, address, prog, phase, frontier, reached, verdict>>

WalkEnds ==
    /\ phase = "walk" /\ address # <<>> /\ pos > Len(address)
    /\ phase' = "resolve"
    /\ UNCHANGED <<caller, address, prog, pos, blocks, open, frontier, reached, verdict>>

\* instr_to_block: every index of start..end, which is the block only if the list
\* was in address order; later blocks overwrite.
BlockOf(i) ==
    LET holders == {k \in DOMAIN blocks : blocks[k].start <= i /\ i < blocks[k].end}
    IN {k \in holders : \A l \in holders : l <= k}

\* The block with the lowest start address, the first of them.
EntryBlock == CHOOSE k \in DOMAIN blocks :
                 \A l \in DOMAIN blocks :
                    \/ blocks[k].start_address < blocks[l].start_address
                    \/ (blocks[k].start_address = blocks[l].start_address /\ k <= l)

\* Edges to instructions become edges to the blocks that hold them.
Resolve ==
    /\ phase = "resolve"
    /\ blocks' = [k \in DOMAIN blocks |->
                    [blocks[k] EXCEPT !.edges =
                        {Edge(e.kind, UNION {BlockOf(i) : i \in e.to}) : e \in @}]]
    /\ \/ /\ caller = "inspect" /\ phase' = "search"
          /\ frontier' = {EntryBlock} /\ reached' = {EntryBlock}
       \/ /\ caller = "leaf" /\ phase' = "policy"
          /\ UNCHANGED <<frontier, reached>>
    /\ UNCHANGED <<caller, address, prog, pos, open, verdict>>

------------------------------------------------------------------------------
(* unreachable_blocks() and check_cfg_leaf().                              *)

\* One turn of the search; the order of the queue does not matter.
Search(k) ==
    /\ phase = "search" /\ k \in frontier
    /\ LET new == (UNION {e.to : e \in blocks[k].edges}) \ reached
       IN /\ reached' = reached \cup new
          /\ frontier' = (frontier \ {k}) \cup new
    /\ UNCHANGED <<caller, address, prog, phase, pos, blocks, open, verdict>>

SearchEnds ==
    /\ phase = "search" /\ frontier = {}
    /\ phase' = "done"
    /\ UNCHANGED <<caller, address, prog, pos, blocks, open, frontier, reached, verdict>>

\* Every instruction is classified before the graph is built.
Scan ==
    /\ phase = "scan"
    /\ IF \E i \in DOMAIN address :
             EndAt(i).kind \in {"Indirect", "Unknown"} \/ EndAt(i) = End("Call", {})
       THEN phase' = "done" /\ verdict' = "rejected"
       ELSE phase' = "walk" /\ UNCHANGED verdict
    /\ UNCHANGED <<caller, address, prog, pos, blocks, open, frontier, reached>>

\* The target in BlockEnd: that of the last edge of the block's own kind.
Unresolved(b) ==
    LET kind == IF b.last.kind = "UnconditionalBranch" THEN "Jump" ELSE "ConditionalTaken"
    IN /\ b.last.kind \in Directs
       /\ \A e \in b.edges : e.kind = kind => e.to = {}

\* Mutant of Incomplete: conditional branches may be unresolved.
IncompleteJump(b) ==
    \/ b.last.kind = "UnconditionalBranch" /\ Unresolved(b) /\ 0 \notin b.last.target
    \/ b.last.kind \in {"Indirect", "Unknown"}

\* A block whose branch leaves the decoded code; 0 stands for a relocation.
Incomplete(b) ==
    \/ Unresolved(b) /\ 0 \notin b.last.target
    \/ b.last.kind \in {"Indirect", "Unknown"}

Policy ==
    /\ phase = "policy"
    /\ phase' = "done"
    /\ verdict' = IF \E k \in DOMAIN blocks : Incomplete(blocks[k])
                  THEN "rejected" ELSE "accepted"
    /\ UNCHANGED <<caller, address, prog, pos, blocks, open, frontier, reached>>

Finished == phase = "done" /\ UNCHANGED vars

Next == \/ Scan \/ EmptyInput \/ Walk \/ WalkEnds \/ Resolve
        \/ (\E k \in frontier : Search(k)) \/ SearchEnds \/ Policy \/ Finished

Spec == Init /\ [][Next]_vars

------------------------------------------------------------------------------
(* Properties.                                                             *)

\* The reference: where control may go from an instruction, from the instruction
\* itself and the addresses of the others.
Following(i) ==
    {j \in DOMAIN address :
        /\ address[i] < address[j]
        /\ \A k \in DOMAIN address : address[i] < address[k] => address[j] <= address[k]}

Flow(i) ==
    (IF EndAt(i).kind \in {"Fallthrough", "Call", "ConditionalBranch"}
     THEN Following(i) ELSE {})
    \cup InstrAt(EndAt(i).target)

\* The place of an instruction in `order`.
Place(i) == Cardinality(Below(i)) + 1

\* The instructions of a block are those `order` has between its first and its last.
Holds(k, i) == Place(i) \in Place(blocks[k].start) .. Place(blocks[k].end - 1)

\* The addresses a block is shown with enclose an instruction.
Encloses(k, i) == address[i] \in blocks[k].start_address .. blocks[k].end_address

\* Instruction i is in a block that is not reported as unreachable.
Shown(i) == \E k \in reached : Encloses(k, i)

\* unreachable_blocks() reports dead code only: the blocks it does not report
\* hold the entry and are closed under every way control can go, loops into the
\* middle of a block and falls out of a conditional branch included.  So no
\* instruction that can be executed is in a block reported as unreachable.
UnreachableIsDead ==
    phase = "done" /\ caller = "inspect" /\ address # <<>> =>
        /\ \A i \in DOMAIN address : Below(i) = {} => Shown(i)
        /\ \A i \in DOMAIN address : Shown(i) => \A j \in Flow(i) : Shown(j)

\* The blocks tile the code, also code that repeats addresses: every instruction
\* walked is in exactly one block, and within a block control can only be transferred
\* by the last instruction.  The addresses a block is shown with enclose its own
\* instructions and no others only where they ascend, which they do for `inspect`.
BlocksTile ==
    \A n \in 1 .. pos - 1 :
        LET i == Order(n) IN
        \E k \in DOMAIN blocks :
            /\ \A l \in DOMAIN blocks : Holds(l, i) <=> l = k
            /\ Ascending(address) => \A l \in DOMAIN blocks : Encloses(l, i) <=> l = k
            /\ EndAt(i).kind \in Terminators => blocks[k].end = i + 1

\* What the control gate accepts has no branch to an address that was not decoded: no
\* indirect transfer is left, and every direct branch, also one that is not at
\* the end of the list, has as its target the address of a decoded instruction or is
\* a relocation (0).  Of several sections it may be the address of another section's.
AcceptedStaysInside ==
    verdict = "accepted" =>
        \A i \in DOMAIN address :
            /\ EndAt(i).kind # "Indirect"
            /\ EndAt(i).kind = "Call" => EndAt(i).target # {}
            /\ EndAt(i).kind \in Directs /\ 0 \notin EndAt(i).target =>
                  \E j \in DOMAIN address : address[j] \in EndAt(i).target

==============================================================================
