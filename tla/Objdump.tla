------------------------------- MODULE Objdump -------------------------------
(***************************************************************************)
(* How report.rs reads what objdump prints (crates/semasm-build): parse_   *)
(* sections, parse_symbols and is_dynamic, on texts of lines of            *)
(* whitespace-separated words.  A word is its text with what the parsers   *)
(* test of it: its length, whether it is a decimal or a hexadecimal        *)
(* number, and whether "DYNAMIC" or "dynamic" is a substring of it.  What  *)
(* the two dumpers print is external; no name or path has a blank.         *)
(***************************************************************************)
EXTENDS Sequences, SequencesExt, FiniteSetsExt, Integers

Word(s, len) == [s |-> s, len |-> len, digits |-> FALSE, hex |-> FALSE, n |-> 0,
                 dynamic |-> s = "DYNAMIC"]
\* A name that reads as a hexadecimal number.
HexName(s, len, n) == [Word(s, len) EXCEPT !.hex = TRUE, !.n = n]
Hex(n, len) == HexName("number", len, n)
Decimal(n) == [Hex(n, 1) EXCEPT !.digits = TRUE]
\* A path, as a sequence of parts: every occurrence of the two words in it is a part.
MentionsDynamic(path) == Range(path) \cap {"DYNAMIC", "dynamic"} # {}
PathWord(path) == [Word("path", 12) EXCEPT !.dynamic = MentionsDynamic(path)]

\* u64::from_str_radix(word, 16).unwrap_or(0)
Value(word) == IF word.hex THEN word.n ELSE 0

\* Lines after the header of a table, up to the next blank line.
Body(text) ==
    {i \in DOMAIN text :
        \E h \in 1..(i - 1) : /\ text[h] # <<>> /\ text[h][1].s = "Idx"
                              /\ \A j \in h..i : text[j] # <<>>}

parse_sections(text) ==
    {[name |-> text[i][2].s, size |-> Value(text[i][3]), vma |-> Value(text[i][4]),
      flags |-> IF Len(text[i]) > 4 THEN text[i][5].s ELSE ""] :
        i \in {j \in Body(text) : Len(text[j]) >= 4 /\ text[j][1].digits}}

\* Mutant: the size is always the fifth word.
MutFifthWord(line) == {i \in {5} : i < Len(line)}

\* The first word that looks like a size and has no address before it.
SizeIndexes(line) ==
    {i \in 3..(Len(line) - 1) :
        line[i].hex /\ line[i].len >= 8 /\ ~(line[i - 1].hex /\ line[i - 1].len >= 12)}

parse_symbols(text) ==
    LET entries == {i \in DOMAIN text : /\ Len(text[i]) >= 4 /\ text[i][1].s # "SYMBOL"
                                        /\ SizeIndexes(text[i]) # {}}
        entry(line) ==
            LET k == Min(SizeIndexes(line)) IN
            [name |-> Last(line).s, address |-> Value(line[1]), size |-> Value(line[k]),
             section |-> line[k - 1].s, kind |-> IF line[2].len = 1 THEN line[2].s ELSE "?"]
    IN  {entry(text[i]) : i \in entries}

\* A substring of the whole text: the line with the file's path counts.
is_dynamic(text) == \E i \in DOMAIN text : \E j \in DOMAIN text[i] : text[i][j].dynamic

-----------------------------------------------------------------------------
(* The dumpers (external).  An image is a record of its sections, symbols  *)
(* and whether it has a dynamic section; sections and symbols are          *)
(* sequences of records whose names are words.                             *)

Banner(path) == <<<<PathWord(path), Word("file", 4), Word("format", 6), Word("elf64", 5)>>, <<>>>>
Header == <<Word("Idx", 3), Word("Name", 4), Word("Size", 4), Word("VMA", 3)>>

\* objdump has the flags of a section on a line of their own.
SectionLines(tool, sections) ==
    LET row(i, last) == <<Decimal(i), sections[i].name, Hex(sections[i].size, 8),
                          Hex(sections[i].vma, 16), last>>
        flags == <<Word("CONTENTS,", 9), Word("ALLOC,", 6), Word("LOAD,", 5), Word("CODE", 4)>>
    IN  IF tool = "objdump"
        THEN [k \in 1..(2 * Len(sections)) |->
                 IF k % 2 = 1 THEN row((k + 1) \div 2, Hex(0, 16)) ELSE flags]
        ELSE [i \in DOMAIN sections |-> row(i, Word("TEXT", 4))]

\* llvm-objdump also lists the nameless null section.
PrintSections(tool, path, image) ==
    Banner(path) \o <<<<Word("Sections:", 9)>>, Header>>
    \o (IF tool = "objdump" THEN <<>> ELSE <<<<Decimal(0), Hex(0, 8), Hex(0, 16)>>>>)
    \o SectionLines(tool, image.sections)

\* Undefined symbols have no flags; the others are global functions.
SymbolLine(sym) ==
    <<Hex(sym.address, 16)>>
    \o (IF sym.section.s = "*UND*" THEN <<>> ELSE <<Word("g", 1), Word("F", 1)>>)
    \o <<sym.section, Hex(sym.size, 16), sym.name>>

PrintSymbols(path, image) ==
    Banner(path) \o <<<<Word("SYMBOL", 6), Word("TABLE:", 6)>>>>
    \o [i \in DOMAIN image.symbols |-> SymbolLine(image.symbols[i])]

PrintHeaders(path, image) ==
    Banner(path) \o (IF image.is_dynamic THEN <<<<Word("DYNAMIC", 7)>>>> ELSE <<>>)

\* What a run of the dumper with an option prints of a file.
Printed(tool, option, path, image) ==
    CASE option = "h" -> PrintSections(tool, path, image)
      [] option = "t" -> PrintSymbols(path, image)
      [] option = "p" -> PrintHeaders(path, image)

===============================================================================
