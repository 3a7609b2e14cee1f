--------------------------- MODULE HarnessPrograms ---------------------------
(***************************************************************************)
(* The assembler programs generate_harness writes                          *)
(* (crates/semasm-agent/src/harness.rs), as what they do: for every vector *)
(* the data emitted for it, the registers loaded before the call, the      *)
(* register the result is taken from and the guarded regions written back  *)
(* to stdout after the results.  The calling conventions are the register  *)
(* maps of crates/semasm-target/src/abi.rs.                                *)
(***************************************************************************)
EXTENDS HarnessVectors

-----------------------------------------------------------------------------
(* ABIRegisterMap, per Abi. *)

Numbered(prefix, from, to) == [i \in 1..(to - from + 1) |-> <<prefix, from + i - 1>>]
Named(names) == [i \in DOMAIN names |-> <<names[i], 0>>]

sysv_amd64 == [parameter_registers |-> Named(<<"rdi", "rsi", "rdx", "rcx", "r8", "r9">>),
               return_register |-> <<"rax", 0>>]
win64 == [parameter_registers |-> Named(<<"rcx", "rdx", "r8", "r9">>),
          return_register |-> <<"rax", 0>>]
aapcs64 == [parameter_registers |-> Numbered("x", 0, 7), return_register |-> <<"x", 0>>]
riscv_lp64 == [parameter_registers |-> Numbered("a", 0, 7), return_register |-> <<"a", 0>>]

Abis == {"SysVAmd64", "WindowsX64", "Aapcs64", "Riscv"}

abi_register_map(abi) ==
    CASE abi = "SysVAmd64" -> sysv_amd64
      [] abi = "WindowsX64" -> win64
      [] abi = "Aapcs64" -> aapcs64
      [] abi = "Riscv" -> riscv_lp64

-----------------------------------------------------------------------------
(* Inputs of a vector, by position. *)

Input(v, i) == IF i <= Len(v.inputs) THEN v.inputs[i] ELSE Null
AsU64(x) == IF IsNumber(x) /\ x.v >= 0 THEN x.v ELSE 0
Items(x) == IF x.k = "array" THEN x.items ELSE <<>>

vector_length(v) == AsU64(Input(v, 2))
vector_needle(v) == AsU64(Input(v, 3)) % 256
vector_replacement(v) == AsU64(Input(v, 4)) % 256
vector_memcmp_length(v) == AsU64(Input(v, 3))
vector_int_input(v, i) == IF IsNumber(Input(v, i)) THEN Bits(Input(v, i).v) ELSE 0
vector_memcmp_buffer_bytes(v, i) ==
    [j \in DOMAIN Items(Input(v, i)) |-> Lesser(Items(Input(v, i))[j], 255)]
vector_buffer_bytes(v) == vector_memcmp_buffer_bytes(v, 1)
vector_i64_words(v) == Items(Input(v, 1))

-----------------------------------------------------------------------------
(* Data sections: a region is its cells and where its label points.  Empty *)
(* unguarded arrays get one zero cell; guarded ones lie between canaries.  *)

WriteGuardPre == 165
WriteGuardPost == 90

guarded_region(payload) == <<WriteGuardPre>> \o payload \o <<WriteGuardPost>>
Guarded(payload) == [cells |-> guarded_region(payload), base |-> 1]
Plain(cells) == [cells |-> IF cells = <<>> THEN <<0>> ELSE cells, base |-> 0]
Cell(n) == [cells |-> <<n>>, base |-> 0]

emit_vector_data(v) == [len |-> Cell(vector_length(v)), needle |-> Cell(vector_needle(v)),
                        buf |-> Plain(vector_buffer_bytes(v))]
emit_replace_byte_vector_data(v) ==
    [len |-> Cell(vector_length(v)), needle |-> Cell(vector_needle(v)),
     replacement |-> Cell(vector_replacement(v)), buf |-> Guarded(vector_buffer_bytes(v))]
emit_memset_vector_data(v) ==
    [len |-> Cell(vector_length(v)), needle |-> Cell(vector_needle(v)),
     buf |-> Guarded(vector_buffer_bytes(v))]
emit_memcmp_vector_data(v) ==
    [len |-> Cell(vector_memcmp_length(v)), a |-> Plain(vector_memcmp_buffer_bytes(v, 1)),
     b |-> Plain(vector_memcmp_buffer_bytes(v, 2))]
emit_memcpy_vector_data(v) ==
    [len |-> Cell(vector_memcmp_length(v)), a |-> Guarded(vector_memcmp_buffer_bytes(v, 1)),
     b |-> Guarded(vector_memcmp_buffer_bytes(v, 2))]
emit_pure_int_vector_data(v) == [a |-> Cell(vector_int_input(v, 1)),
                                 b |-> Cell(vector_int_input(v, 2))]
emit_pure_int_unary_vector_data(v) == [a |-> Cell(vector_int_input(v, 1))]
emit_i64_sum_vector_data(v) == [len |-> Cell(vector_length(v)),
                                buf |-> Plain(vector_i64_words(v))]
emit_cell_load_vector_data(v) == [buf |-> Plain(vector_buffer_bytes(v))]
emit_cell_store_vector_data(v) == [buf |-> Plain(vector_buffer_bytes(v)),
                                   value |-> Cell(AsU64(Input(v, 2)) % 256)]

\* GNU as spellings of the same data.
emit_gas_vector_data(v) == emit_vector_data(v)
emit_gas_replace_byte_vector_data(v) == emit_replace_byte_vector_data(v)
emit_gas_memset_vector_data(v) == emit_memset_vector_data(v)
emit_gas_memcmp_vector_data(v) == emit_memcmp_vector_data(v)
emit_gas_memcpy_vector_data(v) == emit_memcpy_vector_data(v)
emit_gas_pure_int_vector_data(v) == emit_pure_int_vector_data(v)
emit_gas_pure_int_unary_vector_data(v) == emit_pure_int_unary_vector_data(v)
emit_gas_i64_sum_vector_data(v) == emit_i64_sum_vector_data(v)

-----------------------------------------------------------------------------
(* Register loads: the address of a label, the same unless the input is    *)
(* null, or the value stored at a label.                                   *)

Lea(reg, label) == [reg |-> reg, label |-> label, address |-> TRUE, nullable |-> 0]
LeaOrNull(reg, label, input) ==
    [reg |-> reg, label |-> label, address |-> TRUE, nullable |-> input]
Mov(reg, label) == [reg |-> reg, label |-> label, address |-> FALSE, nullable |-> 0]

\* A program: its data, one load per argument, the result register, and the
\* regions written after the results, payload length + 2 cells each.
Program(data, loads, ret, echo) ==
    [data |-> data, loads |-> loads, ret |-> ret, echo |-> echo]

X(n) == <<"x", n>>
A(n) == <<"a", n>>
N(name) == <<name, 0>>

generate_sysv_buffer_harness(v) ==
    Program(emit_vector_data(v),
            <<Lea(N("rdi"), "buf"), Mov(N("rsi"), "len"), Mov(N("rdx"), "needle")>>, N("rax"), <<>>)
generate_sysv_replace_byte_harness(v) ==
    Program(emit_replace_byte_vector_data(v),
            <<LeaOrNull(N("rdi"), "buf", 1), Mov(N("rsi"), "len"), Mov(N("rdx"), "needle"),
              Mov(N("rcx"), "replacement")>>, N("rax"), <<"buf">>)
generate_sysv_memset_harness(v) ==
    Program(emit_memset_vector_data(v),
            <<LeaOrNull(N("rdi"), "buf", 1), Mov(N("rsi"), "len"), Mov(N("rdx"), "needle")>>,
            N("rax"), <<"buf">>)
generate_sysv_memcmp_harness(v) ==
    Program(emit_memcmp_vector_data(v),
            <<LeaOrNull(N("rdi"), "a", 1), LeaOrNull(N("rsi"), "b", 2), Mov(N("rdx"), "len")>>,
            N("rax"), <<>>)
generate_sysv_memcpy_harness(v) ==
    Program(emit_memcpy_vector_data(v),
            <<LeaOrNull(N("rdi"), "a", 1), LeaOrNull(N("rsi"), "b", 2), Mov(N("rdx"), "len")>>,
            N("rax"), <<"a", "b">>)
generate_sysv_i64_sum_harness(v) ==
    Program(emit_i64_sum_vector_data(v), <<Lea(N("rdi"), "buf"), Mov(N("rsi"), "len")>>, N("rax"), <<>>)
generate_sysv_pure_int_harness(v) ==
    Program(emit_pure_int_vector_data(v), <<Mov(N("rdi"), "a"), Mov(N("rsi"), "b")>>, N("rax"), <<>>)
generate_sysv_pure_int_unary_harness(v) ==
    Program(emit_pure_int_unary_vector_data(v), <<Mov(N("rdi"), "a")>>, N("rax"), <<>>)
generate_sysv_cell_load_harness(v) ==
    Program(emit_cell_load_vector_data(v), <<Lea(N("rdi"), "buf")>>, N("rax"), <<>>)
generate_sysv_cell_store_harness(v) ==
    Program(emit_cell_store_vector_data(v), <<Lea(N("rdi"), "buf"), Mov(N("rsi"), "value")>>,
            N("rax"), <<>>)

generate_win64_buffer_harness(v) ==
    Program(emit_vector_data(v),
            <<Lea(N("rcx"), "buf"), Mov(N("rdx"), "len"), Mov(N("r8"), "needle")>>, N("rax"), <<>>)

\* Mutant: the fourth argument left where the System V harness puts it.
MutSysvFourth(v) ==
    Program(emit_replace_byte_vector_data(v),
            <<LeaOrNull(N("rcx"), "buf", 1), Mov(N("rdx"), "len"), Mov(N("r8"), "needle"),
              Mov(N("rcx"), "replacement")>>, N("rax"), <<"buf">>)

generate_win64_replace_byte_harness(v) ==
    Program(emit_replace_byte_vector_data(v),
            <<LeaOrNull(N("rcx"), "buf", 1), Mov(N("rdx"), "len"), Mov(N("r8"), "needle"),
              Mov(N("r9"), "replacement")>>, N("rax"), <<"buf">>)
generate_win64_memset_harness(v) ==
    Program(emit_memset_vector_data(v),
            <<LeaOrNull(N("rcx"), "buf", 1), Mov(N("rdx"), "len"), Mov(N("r8"), "needle")>>,
            N("rax"), <<"buf">>)
generate_win64_memcmp_harness(v) ==
    Program(emit_memcmp_vector_data(v),
            <<LeaOrNull(N("rcx"), "a", 1), LeaOrNull(N("rdx"), "b", 2), Mov(N("r8"), "len")>>,
            N("rax"), <<>>)
generate_win64_memcpy_harness(v) ==
    Program(emit_memcpy_vector_data(v),
            <<LeaOrNull(N("rcx"), "a", 1), LeaOrNull(N("rdx"), "b", 2), Mov(N("r8"), "len")>>,
            N("rax"), <<"a", "b">>)
generate_win64_i64_sum_harness(v) ==
    Program(emit_i64_sum_vector_data(v), <<Lea(N("rcx"), "buf"), Mov(N("rdx"), "len")>>, N("rax"), <<>>)
generate_win64_pure_int_harness(v) ==
    Program(emit_pure_int_vector_data(v), <<Mov(N("rcx"), "a"), Mov(N("rdx"), "b")>>, N("rax"), <<>>)
generate_win64_pure_int_unary_harness(v) ==
    Program(emit_pure_int_unary_vector_data(v), <<Mov(N("rcx"), "a")>>, N("rax"), <<>>)
generate_win64_cell_load_harness(v) ==
    Program(emit_cell_load_vector_data(v), <<Lea(N("rcx"), "buf")>>, N("rax"), <<>>)
generate_win64_cell_store_harness(v) ==
    Program(emit_cell_store_vector_data(v), <<Lea(N("rcx"), "buf"), Mov(N("rdx"), "value")>>,
            N("rax"), <<>>)

generate_aapcs64_buffer_harness(v) ==
    Program(emit_gas_vector_data(v), <<Lea(X(0), "buf"), Mov(X(1), "len"), Mov(X(2), "needle")>>,
            X(0), <<>>)
generate_aapcs64_replace_byte_harness(v) ==
    Program(emit_gas_replace_byte_vector_data(v),
            <<LeaOrNull(X(0), "buf", 1), Mov(X(1), "len"), Mov(X(2), "needle"),
              Mov(X(3), "replacement")>>, X(0), <<"buf">>)
generate_aapcs64_memset_harness(v) ==
    Program(emit_gas_memset_vector_data(v),
            <<LeaOrNull(X(0), "buf", 1), Mov(X(1), "len"), Mov(X(2), "needle")>>, X(0), <<"buf">>)
generate_aapcs64_memcmp_harness(v) ==
    Program(emit_gas_memcmp_vector_data(v),
            <<LeaOrNull(X(0), "a", 1), LeaOrNull(X(1), "b", 2), Mov(X(2), "len")>>, X(0), <<>>)
generate_aapcs64_memcpy_harness(v) ==
    Program(emit_gas_memcpy_vector_data(v),
            <<LeaOrNull(X(0), "a", 1), LeaOrNull(X(1), "b", 2), Mov(X(2), "len")>>, X(0), <<"a", "b">>)
generate_aapcs64_i64_sum_harness(v) ==
    Program(emit_gas_i64_sum_vector_data(v), <<Lea(X(0), "buf"), Mov(X(1), "len")>>, X(0), <<>>)
generate_aapcs64_pure_int_harness(v) ==
    Program(emit_gas_pure_int_vector_data(v), <<Mov(X(0), "a"), Mov(X(1), "b")>>, X(0), <<>>)
generate_aapcs64_pure_int_unary_harness(v) ==
    Program(emit_gas_pure_int_unary_vector_data(v), <<Mov(X(0), "a")>>, X(0), <<>>)

generate_riscv_buffer_harness(v) ==
    Program(emit_gas_vector_data(v), <<Lea(A(0), "buf"), Mov(A(1), "len"), Mov(A(2), "needle")>>,
            A(0), <<>>)
generate_riscv_replace_byte_harness(v) ==
    Program(emit_gas_replace_byte_vector_data(v),
            <<LeaOrNull(A(0), "buf", 1), Mov(A(1), "len"), Mov(A(2), "needle"),
              Mov(A(3), "replacement")>>, A(0), <<"buf">>)
generate_riscv_memset_harness(v) ==
    Program(emit_gas_memset_vector_data(v),
            <<LeaOrNull(A(0), "buf", 1), Mov(A(1), "len"), Mov(A(2), "needle")>>, A(0), <<"buf">>)
generate_riscv_memcmp_harness(v) ==
    Program(emit_gas_memcmp_vector_data(v),
            <<LeaOrNull(A(0), "a", 1), LeaOrNull(A(1), "b", 2), Mov(A(2), "len")>>, A(0), <<>>)
generate_riscv_memcpy_harness(v) ==
    Program(emit_gas_memcpy_vector_data(v),
            <<LeaOrNull(A(0), "a", 1), LeaOrNull(A(1), "b", 2), Mov(A(2), "len")>>, A(0), <<"a", "b">>)
generate_riscv_i64_sum_harness(v) ==
    Program(emit_gas_i64_sum_vector_data(v), <<Lea(A(0), "buf"), Mov(A(1), "len")>>, A(0), <<>>)
generate_riscv_pure_int_harness(v) ==
    Program(emit_gas_pure_int_vector_data(v), <<Mov(A(0), "a"), Mov(A(1), "b")>>, A(0), <<>>)
generate_riscv_pure_int_unary_harness(v) ==
    Program(emit_gas_pure_int_unary_vector_data(v), <<Mov(A(0), "a")>>, A(0), <<>>)

\* Cells exist for the x86 ABIs only.
Generates(abi, shape) ==
    shape \in {"CellLoad", "CellStore"} => abi \in {"SysVAmd64", "WindowsX64"}

\* What the generated program does with one vector.
generate_harness(abi, shape, v) ==
    CASE abi = "SysVAmd64" /\ shape = "BufferScan" -> generate_sysv_buffer_harness(v)
      [] abi = "SysVAmd64" /\ shape = "ReplaceByte" -> generate_sysv_replace_byte_harness(v)
      [] abi = "SysVAmd64" /\ shape = "Memset" -> generate_sysv_memset_harness(v)
      [] abi = "SysVAmd64" /\ shape = "MemCmp" -> generate_sysv_memcmp_harness(v)
      [] abi = "SysVAmd64" /\ shape = "Memcpy" -> generate_sysv_memcpy_harness(v)
      [] abi = "SysVAmd64" /\ shape = "I64Sum" -> generate_sysv_i64_sum_harness(v)
      [] abi = "SysVAmd64" /\ shape = "PureInt" -> generate_sysv_pure_int_harness(v)
      [] abi = "SysVAmd64" /\ shape = "PureIntUnary" -> generate_sysv_pure_int_unary_harness(v)
      [] abi = "SysVAmd64" /\ shape = "CellLoad" -> generate_sysv_cell_load_harness(v)
      [] abi = "SysVAmd64" /\ shape = "CellStore" -> generate_sysv_cell_store_harness(v)
      [] abi = "WindowsX64" /\ shape = "BufferScan" -> generate_win64_buffer_harness(v)
      [] abi = "WindowsX64" /\ shape = "ReplaceByte" -> generate_win64_replace_byte_harness(v)
      [] abi = "WindowsX64" /\ shape = "Memset" -> generate_win64_memset_harness(v)
      [] abi = "WindowsX64" /\ shape = "MemCmp" -> generate_win64_memcmp_harness(v)
      [] abi = "WindowsX64" /\ shape = "Memcpy" -> generate_win64_memcpy_harness(v)
      [] abi = "WindowsX64" /\ shape = "I64Sum" -> generate_win64_i64_sum_harness(v)
      [] abi = "WindowsX64" /\ shape = "PureInt" -> generate_win64_pure_int_harness(v)
      [] abi = "WindowsX64" /\ shape = "PureIntUnary" -> generate_win64_pure_int_unary_harness(v)
      [] abi = "WindowsX64" /\ shape = "CellLoad" -> generate_win64_cell_load_harness(v)
      [] abi = "WindowsX64" /\ shape = "CellStore" -> generate_win64_cell_store_harness(v)
      [] abi = "Aapcs64" /\ shape = "BufferScan" -> generate_aapcs64_buffer_harness(v)
      [] abi = "Aapcs64" /\ shape = "ReplaceByte" -> generate_aapcs64_replace_byte_harness(v)
      [] abi = "Aapcs64" /\ shape = "Memset" -> generate_aapcs64_memset_harness(v)
      [] abi = "Aapcs64" /\ shape = "MemCmp" -> generate_aapcs64_memcmp_harness(v)
      [] abi = "Aapcs64" /\ shape = "Memcpy" -> generate_aapcs64_memcpy_harness(v)
      [] abi = "Aapcs64" /\ shape = "I64Sum" -> generate_aapcs64_i64_sum_harness(v)
      [] abi = "Aapcs64" /\ shape = "PureInt" -> generate_aapcs64_pure_int_harness(v)
      [] abi = "Aapcs64" /\ shape = "PureIntUnary" -> generate_aapcs64_pure_int_unary_harness(v)
      [] abi = "Riscv" /\ shape = "BufferScan" -> generate_riscv_buffer_harness(v)
      [] abi = "Riscv" /\ shape = "ReplaceByte" -> generate_riscv_replace_byte_harness(v)
      [] abi = "Riscv" /\ shape = "Memset" -> generate_riscv_memset_harness(v)
      [] abi = "Riscv" /\ shape = "MemCmp" -> generate_riscv_memcmp_harness(v)
      [] abi = "Riscv" /\ shape = "Memcpy" -> generate_riscv_memcpy_harness(v)
      [] abi = "Riscv" /\ shape = "I64Sum" -> generate_riscv_i64_sum_harness(v)
      [] abi = "Riscv" /\ shape = "PureInt" -> generate_riscv_pure_int_harness(v)
      [] abi = "Riscv" /\ shape = "PureIntUnary" -> generate_riscv_pure_int_unary_harness(v)

\* The payload length the echo is sized from.
EchoLength(shape, v) == IF shape = "Memcpy" THEN vector_memcmp_length(v) ELSE vector_length(v)

-----------------------------------------------------------------------------
(* Evaluation of the bytes a run printed. *)

expected_bits(v) == Bits(v.expected)

expected_replace_byte_buffer(v) ==
    [i \in DOMAIN vector_buffer_bytes(v) |->
        LET b == vector_buffer_bytes(v)[i] % 256 IN
        IF b = vector_needle(v) THEN vector_replacement(v) ELSE b]
expected_memset_buffer(v) == Copies(vector_needle(v), vector_length(v))
expected_memcpy_buffer(v) == [i \in DOMAIN Items(Input(v, 2)) |-> Items(Input(v, 2))[i] % 256]

expected_replace_byte_echo(v) == guarded_region(expected_replace_byte_buffer(v))
expected_memset_echo(v) == guarded_region(expected_memset_buffer(v))
expected_memcpy_echo(v) ==
    guarded_region(expected_memcpy_buffer(v)) \o guarded_region(vector_memcmp_buffer_bytes(v, 2))

ExpectedEcho(shape, v) ==
    CASE shape = "ReplaceByte" -> expected_replace_byte_echo(v)
      [] shape = "Memset" -> expected_memset_echo(v)
      [] shape = "Memcpy" -> expected_memcpy_echo(v)

\* Little-endian bytes of a word, and back.
ToLeBytes(w) == [k \in 1..WordBytes |-> (w \div Power[k - 1]) % 256]

\* The word at a byte offset equals w; out of range it does not.
WordAt(stdout, offset, w) ==
    /\ Len(stdout) >= offset + WordBytes
    /\ SubSeq(stdout, offset + 1, offset + WordBytes) = ToLeBytes(w)

evaluate_words_only(stdout, vectors) ==
    [i \in DOMAIN vectors |-> WordAt(stdout, (i - 1) * WordBytes, expected_bits(vectors[i]))]

\* Mutant: an echo that never arrived is not compared.
MutMissingEchoPasses(stdout, vectors, shape) ==
    LET echo(i) == ExpectedEcho(shape, vectors[i])
        offset[i \in 1..(Len(vectors) + 1)] ==
            IF i = 1 THEN Len(vectors) * WordBytes ELSE offset[i - 1] + Len(echo(i - 1))
    IN  [i \in DOMAIN vectors |->
            /\ WordAt(stdout, (i - 1) * WordBytes, expected_bits(vectors[i]))
            /\ Len(stdout) >= offset[i] + Len(echo(i)) =>
                 SubSeq(stdout, offset[i] + 1, offset[i] + Len(echo(i))) = echo(i)]

\* The offset only advances over an echo that is there: once one is missing
\* the following ones are compared at the same place.
evaluate_count_and_buffer(stdout, vectors, shape) ==
    LET words == IF Len(stdout) >= Len(vectors) * WordBytes THEN Len(vectors) * WordBytes
                 ELSE (Len(stdout) \div WordBytes) * WordBytes
        echo(i) == ExpectedEcho(shape, vectors[i])
        \* offset[i]: where the echo of vector i starts
        offset[i \in 1..(Len(vectors) + 1)] ==
            IF i = 1 THEN words
            ELSE offset[i - 1]
                 + IF Len(stdout) >= offset[i - 1] + Len(echo(i - 1)) THEN Len(echo(i - 1)) ELSE 0
    IN  [i \in DOMAIN vectors |->
            /\ WordAt(stdout, (i - 1) * WordBytes, expected_bits(vectors[i]))
            /\ Len(stdout) >= offset[i] + Len(echo(i))
            /\ SubSeq(stdout, offset[i] + 1, offset[i] + Len(echo(i))) = echo(i)]

evaluate(stdout, vectors, shape) ==
    IF shape \in {"ReplaceByte", "Memset", "Memcpy"}
    THEN evaluate_count_and_buffer(stdout, vectors, shape)
    ELSE evaluate_words_only(stdout, vectors)

==============================================================================
