-------------------------------- MODULE Harness --------------------------------
(***************************************************************************)
(* The behavioural layer of agent verify: vectors are synthesised for a    *)
(* contract, external cases appended, the shape resolved, a harness        *)
(* generated for the target's ABI and run against the candidate, and what  *)
(* it printed is evaluated (harness.rs, driven by verify_core of           *)
(* crates/semasm-cli/src/commands.rs).                                     *)
(*                                                                         *)
(* The candidate is external: it does what the oracle claims, or returns   *)
(* another value, skips its stores, stores where it must not or stops the  *)
(* process.  pipeline.run reports a process that was killed or crashed as  *)
(* Ok, so whatever reached stdout is evaluated.                            *)
(***************************************************************************)
EXTENDS HarnessPrograms

CONSTANTS
    Contracts,      \* checked contracts
    ExternalCases,  \* inputs of the cases of an external document
    MaxMisdeeds     \* bound: deviations of the candidate before its output is cut

\* What the parsers of contracts and of JSON leave; a fixture's length is a word.
ASSUME HarnessAssumption ==
    /\ \A c \in Contracts :
          /\ c.params \in Seq(STRING)
          /\ c.requires \in Seq([param : Nat, ident : {"left", "right"},
                                op : {"==", "<=", "<", ">=", ">"}, n : Int])
    /\ ExternalCases \subseteq Seq(Values)
    /\ MaxMisdeeds \in Nat
    /\ FixtureCap < Words2

VARIABLES
    pc,
    contract, abi,  \* the input
    vectors,        \* builtin vectors, then external ones
    shape,          \* harness_shape
    at,             \* the vector being called, or the region being echoed
    mem,            \* the data section, per vector
    results,        \* the results array
    stdout,         \* bytes captured from the process
    misdeeds,       \* history: how often the candidate deviated
    report          \* per vector: passed

vars == <<pc, contract, abi, vectors, shape, at, mem, results, stdout, misdeeds, report>>

oracle == recognize_behavior_oracle(contract)
ProgramOf(i) == generate_harness(abi, shape, vectors[i])
WriteShapes == {"ReplaceByte", "Memset", "Memcpy"}

-----------------------------------------------------------------------------
(* A routine that does what the oracle claims, given its arguments.  An    *)
(* argument is a number or the address of a cell of a region.              *)

Number(n) == [region |-> "", n |-> n]
Address(region, offset) == [region |-> region, n |-> offset]
Garbage == [region |-> "unset", n |-> 0]

\* len cells can be read through p.
Readable(m, p, len) ==
    \/ len = 0
    \/ p.region \in DOMAIN m /\ p.n + len <= Len(m[p.region].cells)
Cells(m, p, len) ==
    IF len = 0 THEN <<>> ELSE SubSeq(m[p.region].cells, p.n + 1, p.n + len)
Stored(m, p, cells) ==
    IF cells = <<>> THEN m
    ELSE [m EXCEPT ![p.region].cells =
             [k \in DOMAIN @ |-> IF k - p.n \in DOMAIN cells THEN cells[k - p.n] ELSE @[k]]]

Positions(cells, byte) == {i \in DOMAIN cells : cells[i] = byte}
Greatest(S) == CHOOSE x \in S : \A y \in S : x >= y
Sum(cells) ==
    LET total[k \in 0..Len(cells)] == IF k = 0 THEN 0 ELSE Wrap(total[k - 1] + cells[k])
    IN  total[Len(cells)]
Signed(n) == Wrap(n)

\* Which arguments are pointers, and which one is the length of all of them.
PointerArgs(op) ==
    CASE op \in {"Count", "FindFirst", "FindLast", "ReplaceByte", "Memset", "Sum"} -> {1}
      [] op \in {"MemCmp", "Memcpy"} -> {1, 2}
      [] op \in {"CellLoad", "CellStore"} -> {1}
      [] OTHER -> {}
LengthOf(op, x) ==
    CASE op \in {"CellLoad", "CellStore"} -> 1
      [] op \in {"MemCmp", "Memcpy"} -> x[3].n
      [] OTHER -> x[2].n

\* The argument registers hold what the parameters' types promise.
Callable(op, m, x) ==
    /\ \A k \in DOMAIN x \ PointerArgs(op) : x[k].region = ""
    /\ \A k \in PointerArgs(op) : Readable(m, x[k], LengthOf(op, x))

Claimed(op, signed, m, x) ==
    LET len == LengthOf(op, x)
        cells(k) == Cells(m, x[k], len)
        value(k) == IF signed THEN Signed(x[k].n) ELSE x[k].n
        pure(result) == [result |-> Bits(result), mem |-> m]
        hits == Positions(cells(1), x[3].n)
        differ == {i \in 1..len : cells(1)[i] # cells(2)[i]}
    IN  CASE op = "Count" -> pure(Cardinality(hits))
          [] op = "FindFirst" -> pure(IF hits = {} THEN len ELSE Least(hits) - 1)
          [] op = "FindLast" -> pure(IF hits = {} THEN len ELSE Greatest(hits) - 1)
          [] op = "ReplaceByte" ->
                [result |-> Bits(Cardinality(hits)),
                 mem |-> Stored(m, x[1], [i \in 1..len |-> IF i \in hits THEN x[4].n
                                                          ELSE cells(1)[i]])]
          [] op = "Memset" -> [result |-> 0, mem |-> Stored(m, x[1], Copies(x[3].n, len))]
          [] op = "Memcpy" -> [result |-> 0, mem |-> Stored(m, x[1], cells(2))]
          [] op = "MemCmp" -> pure(IF differ = {} THEN 0
                                   ELSE IF cells(1)[Least(differ)] < cells(2)[Least(differ)]
                                        THEN -1 ELSE 1)
          [] op = "Sum" -> pure(Sum(cells(1)))
          [] op = "Min" -> pure(CHOOSE v \in {value(1), value(2)} : v <= value(1) /\ v <= value(2))
          [] op = "Max" -> pure(CHOOSE v \in {value(1), value(2)} : v >= value(1) /\ v >= value(2))
          [] op = "Add" -> pure(x[1].n + x[2].n)
          [] op = "Sub" -> pure(x[1].n - x[2].n)
          [] op = "AddThenDouble" -> pure(Bits(x[1].n + x[2].n) * 2)
          [] op \in {"Identity", "Countdown"} -> pure(x[1].n)
          [] op = "Abs" -> pure(IF value(1) < 0 THEN -value(1) ELSE value(1))
          [] op = "SumRange" -> pure(Sum([i \in 1..value(1) |-> i]))
          [] op = "Double" -> pure(2 * x[1].n)
          [] op = "Inc" -> pure(x[1].n + 1)
          [] op = "AddBase100" -> pure(x[1].n + 100)
          [] op = "CellLoad" -> pure(cells(1)[1])
          [] op = "CellStore" -> [result |-> Bits(x[2].n), mem |-> Stored(m, x[1], <<x[2].n>>)]

Claim(m, x) == Claimed(oracle.op, oracle.family # "pure", m, x)

-----------------------------------------------------------------------------

Init ==
    /\ pc = "synthesize"
    /\ contract \in Contracts
    /\ abi \in Abis
    /\ vectors = <<>> /\ shape = "none" /\ at = 1
    /\ mem = <<>> /\ results = <<>> /\ stdout = <<>>
    /\ misdeeds = 0
    /\ report = <<>>

Synthesize ==
    /\ pc = "synthesize"
    /\ vectors' = synthesize_vectors(contract)
    /\ pc' = IF vectors' = <<>> THEN "failed" ELSE "external"
    /\ UNCHANGED <<contract, abi, shape, at, mem, results, stdout, misdeeds, report>>

\* --vectors: every case of the document is appended, or the command fails.
AppendExternal(inputs) ==
    /\ pc = "external"
    /\ LET v == derive_external_vector(contract, inputs) IN
       IF v.inputs = <<>>
       THEN pc' = "failed" /\ UNCHANGED vectors
       ELSE pc' = "resolve" /\ vectors' = Append(vectors, v)
    /\ UNCHANGED <<contract, abi, shape, at, mem, results, stdout, misdeeds, report>>

NoExternal ==
    /\ pc = "external"
    /\ pc' = "resolve"
    /\ UNCHANGED <<contract, abi, vectors, shape, at, mem, results, stdout, misdeeds, report>>

Resolve ==
    /\ pc = "resolve"
    /\ shape' = resolve_harness_shape(contract, vectors)
    /\ pc' = IF shape' = "error" THEN "failed" ELSE "generate"
    /\ UNCHANGED <<contract, abi, vectors, at, mem, results, stdout, misdeeds, report>>

Generate ==
    /\ pc = "generate"
    /\ IF Generates(abi, shape)
       THEN pc' = "call" /\ mem' = [i \in DOMAIN vectors |-> ProgramOf(i).data]
       ELSE pc' = "failed" /\ UNCHANGED mem
    /\ UNCHANGED <<contract, abi, vectors, shape, at, results, stdout, misdeeds, report>>

\* What a register load puts into its register.
Loaded(load) ==
    IF ~load.address THEN Number(mem[at][load.label].cells[1])
    ELSE IF load.nullable # 0 /\ Input(vectors[at], load.nullable).k = "null" THEN Number(0)
    ELSE Address(load.label, mem[at][load.label].base)

\* The arguments the routine finds in its ABI's parameter registers.
Arguments ==
    LET loads == ProgramOf(at).loads IN
    [k \in DOMAIN vectors[at].inputs |->
        LET reg == abi_register_map(abi).parameter_registers[k]
            into == {j \in DOMAIN loads : loads[j].reg = reg}
        IN  IF into = {} THEN Garbage ELSE Loaded(loads[Greatest(into)])]

\* mov [results + i*8], <result register>
Return(result, m, bad) ==
    /\ results' = Append(results, IF ProgramOf(at).ret = abi_register_map(abi).return_register
                                  THEN result ELSE Words2 - 1)
    /\ mem' = [mem EXCEPT ![at] = m]
    /\ misdeeds' = misdeeds + bad
    /\ at' = IF at = Len(vectors) THEN 1 ELSE at + 1
    /\ pc' = IF at = Len(vectors) THEN "results" ELSE "call"
    /\ UNCHANGED <<contract, abi, vectors, shape, stdout, report>>

CallConforming ==
    /\ pc = "call"
    /\ Callable(oracle.op, mem[at], Arguments)
    /\ LET c == Claim(mem[at], Arguments) IN Return(c.result, c.mem, 0)

\* The candidate returns another value, or returns without storing.
CallWrong ==
    /\ pc = "call" /\ misdeeds < MaxMisdeeds
    /\ Callable(oracle.op, mem[at], Arguments)
    /\ LET c == Claim(mem[at], Arguments) IN
       \/ Return(Bits(c.result + 1), c.mem, 1)
       \/ c.mem # mem[at] /\ Return(c.result, mem[at], 1)

\* A store outside the region: some cell of the fixtures changes.
StrayStore ==
    /\ pc = "call" /\ misdeeds < MaxMisdeeds
    /\ \E i \in DOMAIN mem : \E l \in DOMAIN mem[i] \cap {"buf", "a", "b"} :
         \E k \in DOMAIN mem[i][l].cells :
            mem' = [mem EXCEPT ![i][l].cells[k] = (@ + 1) % 256]
    /\ misdeeds' = misdeeds + 1
    /\ UNCHANGED <<pc, contract, abi, vectors, shape, at, results, stdout, report>>

WriteResults ==
    /\ pc = "results"
    /\ stdout' = [b \in 1..(Len(results) * WordBytes) |->
                     ToLeBytes(results[((b - 1) \div WordBytes) + 1])[((b - 1) % WordBytes) + 1]]
    /\ pc' = IF ProgramOf(1).echo = <<>> THEN "evaluate" ELSE "echo"
    /\ UNCHANGED <<contract, abi, vectors, shape, at, mem, results, misdeeds, report>>

\* One write per guarded region, vector by vector.
WriteEcho ==
    /\ pc = "echo"
    /\ LET labels == ProgramOf(1).echo
           i == ((at - 1) \div Len(labels)) + 1
           l == labels[((at - 1) % Len(labels)) + 1]
       IN  /\ stdout' = stdout \o SubSeq(mem[i][l].cells, 1, EchoLength(shape, vectors[i]) + 2)
           /\ pc' = IF at = Len(vectors) * Len(labels) THEN "evaluate" ELSE "echo"
    /\ at' = at + 1
    /\ UNCHANGED <<contract, abi, vectors, shape, mem, results, misdeeds, report>>

\* The process stops early (timeout, fault), or capture ends at its limit.  A
\* fault on arguments that cannot be used is not the candidate's doing.
Stops ==
    LET blameless == pc = "call" /\ ~Callable(oracle.op, mem[at], Arguments) IN
    /\ \/ pc \in {"call", "results", "echo"} /\ UNCHANGED stdout
       \/ /\ pc = "evaluate"
          /\ \E n \in 0..(Len(stdout) - 1) : stdout' = SubSeq(stdout, 1, n)
    /\ misdeeds' = IF blameless THEN misdeeds ELSE misdeeds + 1
    /\ pc' = "cut"
    /\ UNCHANGED <<contract, abi, vectors, shape, at, mem, results, report>>

Evaluate ==
    /\ pc \in {"evaluate", "cut"}
    /\ report' = evaluate(stdout, vectors, shape)
    /\ pc' = "done"
    /\ UNCHANGED <<contract, abi, vectors, shape, at, mem, results, stdout, misdeeds>>

Ended == pc \in {"done", "failed"} /\ UNCHANGED vars

Next ==
    \/ Synthesize \/ NoExternal \/ Resolve \/ Generate
    \/ \E inputs \in ExternalCases : AppendExternal(inputs)
    \/ CallConforming \/ CallWrong \/ StrayStore
    \/ WriteResults \/ WriteEcho \/ Stops \/ Evaluate
    \/ Ended

Spec == Init /\ [][Next]_vars

-----------------------------------------------------------------------------
(* Properties.  The claim for a vector is computed from its inputs alone,  *)
(* in regions p1 and p2, independently of any generated program.           *)

CanonicalMemory(v) == [p1 |-> [cells |-> Items(Input(v, 1))], p2 |-> [cells |-> Items(Input(v, 2))]]
CanonicalArguments(v) ==
    [k \in DOMAIN v.inputs |->
        LET in == v.inputs[k] IN
        IF in.k = "number" THEN Number(Bits(in.v))
        ELSE IF in.k = "null" THEN Number(0)
        ELSE Address(IF k = 1 THEN "p1" ELSE "p2", 0)]
ClaimFor(v) == Claim(CanonicalMemory(v), CanonicalArguments(v))

AllPassed == \A i \in DOMAIN report : report[i]

\* Every vector, external ones included, has the layout the chosen harness
\* shape loads (detect_harness_shape looks at the first one only) and expects
\* the result the oracle's claim gives for its inputs.
VectorsMatchOracle ==
    pc \in {"generate", "call", "evaluate"} =>
        \A i \in DOMAIN vectors :
            /\ Compatible(shape, LayoutOf(vectors[i]))
            /\ expected_bits(vectors[i]) = ClaimFor(vectors[i]).result

\* A candidate that does what the oracle claims passes, on every ABI: the
\* generated program hands each argument over in the register the ABI assigns
\* to it, takes the result from the return register, and the echoes line up.
ConformingRoutinePasses == pc = "done" /\ misdeeds = 0 => AllPassed

\* A report without failures means every vector was called and returned what
\* the claim says and, for the shapes that write, that the process ended with
\* the claimed bytes between intact guards (memcpy: source included).  No
\* truncated output and no misaligned echo is taken for a pass.
PassedMeansConforming ==
    pc = "done" /\ AllPassed =>
        \A i \in DOMAIN vectors :
            /\ i <= Len(results)
            /\ results[i] = ClaimFor(vectors[i]).result
            /\ shape \in WriteShapes =>
                 LET echo == ProgramOf(i).echo IN
                 \A j \in DOMAIN echo :
                    mem[i][echo[j]].cells =
                        guarded_region(ClaimFor(vectors[i]).mem[IF j = 1 THEN "p1" ELSE "p2"].cells)

\* The claim of builtin.buffer.store_byte0, "stores value at buffer[0] (fixed
\* 1-byte cell) and returns the zero-extended value": a passing report means
\* the cell holds the value.
StoreIsObserved ==
    pc = "done" /\ AllPassed /\ shape = "CellStore" =>
        \A i \in DOMAIN vectors :
            mem[i].buf.cells = ClaimFor(vectors[i]).mem.p1.cells

==============================================================================
