-------------------------------- MODULE MCCfg --------------------------------
(* Programs for TLC: every list of instructions of the shapes disassemblers  *)
(* produce, of one section or of several.                                    *)
EXTENDS Cfg

\* A branch or call target: none, 0, an instruction, or outside the code (9).
Targets == {{}, {0}, {1}, {2}, {3}, {9}}

MCShapes ==
    {[groups |-> {"jump"}, mnemonic |-> m, imm |-> t] : m \in {"jmp", "cond"}, t \in Targets}
    \cup {[groups |-> {"call"}, mnemonic |-> "other", imm |-> t] : t \in Targets}
    \cup {[groups |-> g, mnemonic |-> "other", imm |-> {}] :
             g \in {{}, {"int"}, {"ret"}, {"jump"}}}
    \cup {[groups |-> {"call"}, mnemonic |-> "ret", imm |-> {}]}
    \cup {[groups |-> {}, mnemonic |-> m, imm |-> {}] : m \in {"br", "blr"}}

\* One section, at address 1 or, as in a relocatable object, at address 0; several
\* sections, one behind the other: at one address, a shorter and a longer one at one
\* address, the second below the first.
MCLayouts == {<<>>, <<1>>, <<1, 2>>, <<1, 2, 3>>, <<0, 1, 2>>,
              <<0, 0>>, <<1, 1, 2>>, <<0, 1, 0>>, <<2, 3, 1>>}

==============================================================================
