------------------------------- MODULE MCHarness -------------------------------
(* Instances of Harness for TLC: one contract per family and operation, with *)
(* the optional parts of a contract that change the vectors, and contracts   *)
(* no family takes.                                                          *)
EXTENDS Harness

Contract(words, params, returns, requires, ensures, effects) ==
    [words |-> words, tokens |-> words, params |-> params, returns |-> <<returns>>,
     requires |-> requires, ensures |-> ensures, effects |-> effects]

Reads(p, l) == [kind |-> "memory_read", region |-> <<p, l>>]
Writes(p, l) == [kind |-> "memory_write", region |-> <<p, l>>]
Bound(p, op, n) == [param |-> p, ident |-> "left", op |-> op, n |-> n]
Above(n, op, p) == [param |-> p, ident |-> "right", op |-> op, n |-> n]

Scan(word, requires) ==
    Contract({word}, <<"const_ptr_u8", "usize", "u8">>, "usize", requires, {}, {Reads(1, 2)})
Pure(words, types, ensures) ==
    Contract(words, types, types[1], <<>>, ensures, {})

MCPure ==
    {Pure({w}, <<"i64">>, {}) : w \in {"abs", "sum_range", "countdown", "double", "inc",
                                        "add_base", "identity", "mystery"}}
    \cup {Pure({w}, <<"i64", "i64">>, {}) : w \in {"add", "sub", "min", "max", "then_double"}}
    \cup {Pure({"f"}, <<"usize", "usize">>, e) :
             e \in {{"result<=a", "result<=b"}, {"result>=a", "result>=b"}, {"result<=a"}}}
    \cup {Pure({"min"}, <<"usize", "usize">>, {"result>=a", "result>=b"}),
          Contract({"load_byte0"}, <<"const_ptr_u8">>, "usize", <<>>, {}, {Reads(1, 0)}),
          Contract({"store_byte0"}, <<"ptr_u8", "u8">>, "usize", <<>>, {}, {Writes(1, 0)}),
          Contract({"sum"}, <<"const_ptr_i64", "usize">>, "i64", <<Bound(2, "<", 5)>>, {}, {Reads(1, 2)}),
          Contract({"sum", "store_byte0"}, <<"const_ptr_i64", "usize">>, "i64", <<>>, {}, {})}

MCBuffers ==
    {Scan("count", <<Bound(2, "<=", 4), Bound(3, "==", 9)>>),
     Scan("find", <<Bound(3, "==", 300), Above(7, "==", 3), Above(6, ">", 2)>>),
     Scan("last", <<Above(4096, ">=", 2)>>),
     Contract({"memcmp"}, <<"const_ptr_u8", "const_ptr_u8", "usize">>, "isize", <<>>, {},
              {Reads(1, 3), Reads(2, 3)}),
     Contract({"memcpy"}, <<"ptr_u8", "const_ptr_u8", "usize">>, "usize", <<Bound(3, "<=", 3)>>, {},
              {Writes(1, 3), Reads(2, 3)}),
     Contract({"memset"}, <<"ptr_u8", "usize", "u8">>, "usize", <<Bound(2, "<=", 3)>>, {}, {Writes(1, 2)}),
     Contract({"replace"}, <<"ptr_u8", "usize", "u8", "u8">>, "usize",
              <<Bound(2, "<=", 4), Bound(4, "==", 65)>>, {}, {Writes(1, 2)}),
     Contract({"replace"}, <<"ptr_u8", "usize", "u8", "u8">>, "usize", <<Bound(2, "<", 3)>>, {},
              {Writes(1, 2)})}

MCContracts == MCPure \cup MCBuffers

MCExternal == {<<Num(3)>>, <<Num(-300)>>, <<Num(3), Num(-2)>>, <<Arr(<<1>>), Num(1)>>}

\* A contract that asks for zero bytes.
MCZeroNeedle == {Scan("count", <<Bound(3, "==", 0)>>)}

MCStore == {Contract({"store_byte0"}, <<"ptr_u8", "u8">>, "usize", <<>>, {}, {Writes(1, 0)})}

==============================================================================
