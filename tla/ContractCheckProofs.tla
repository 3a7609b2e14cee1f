------------------------- MODULE ContractCheckProofs -------------------------
(***************************************************************************)
(* Every name in a contract that validate_document accepts resolves, and   *)
(* the evidence for its conditions is sound, for documents with any number *)
(* of items and expressions of any depth.                                  *)
(*                                                                         *)
(* The invariant speaks of the walk while it has reported nothing: what is *)
(* kept of a list is the part of it that has been seen, and what has been  *)
(* seen is in order.  The evidence is judged node by node: a judgement and *)
(* the truth of a node rest on those of its operands, which stand before   *)
(* it, so what holds of a node if it holds of its operands holds of all.   *)
(***************************************************************************)
EXTENDS ContractCheck, FiniteSetTheorems, WellFoundedInduction, TLAPS

AllLists == {"parameters", "returns", "requires", "ensures", "effects", "regions", "relations", "target_overrides"}
KeptLists == AllLists \ {"effects"}

\* The phases, in the order the walk takes them.
Rank(p) ==
    CASE p = "version" -> 0 [] p = "parameters" -> 1 [] p = "returns" -> 2 [] p = "requires" -> 3
      [] p = "ensures" -> 4 [] p = "effects" -> 5 [] p = "regions" -> 6 [] p = "relations" -> 7
      [] p = "target_overrides" -> 8 [] p = "conclude" -> 9 [] p = "alias" -> 10
      [] p = "evaluate" -> 11 [] p = "done" -> 12

\* How many items of a list have been seen.
Seen(list) == IF Rank(phase) < Rank(list) THEN 0
              ELSE IF phase = list THEN at - 1 ELSE Len(Items(list))

\* What is kept of an item.
Image(list, x) == IF list = "regions" THEN CheckedRegion(x) ELSE x
Images(list) == {Image(list, Items(list)[i]) : i \in DOMAIN Items(list)}

KeptInv ==
    \A list \in KeptLists :
        /\ checked[list] \in Seq(Images(list)) /\ Len(checked[list]) = Seen(list)
        /\ \A i \in 1..Seen(list) : checked[list][i] = Image(list, Items(list)[i])

SeenNames(list) == {Items(list)[i].name : i \in 1..Seen(list)}
NamesInv == /\ names = SeenNames("parameters") \cup SeenNames("returns")
            /\ regionNames = SeenNames("regions")

\* No two items of the list seen so far have one name.
Distinct(list) == \A i, j \in 1..Seen(list) : Items(list)[i].name = Items(list)[j].name => i = j
DistinctInv == Distinct("parameters") /\ Distinct("regions")

\* Every condition parses, and its identifiers are known.
Known(list) ==
    \A i \in 1..Seen(list) : Items(list)[i] # Unparsable /\ free_idents(Items(list)[i]) \subseteq expr_names
KnownInv == Known("requires") /\ Known("ensures")

Declared(name, type) ==
    \E i \in 1..Seen("parameters") : Items("parameters")[i].name = name /\ Items("parameters")[i].type = type
RegionInv ==
    \A i \in 1..Seen("regions") :
        LET r == Items("regions")[i] IN
        /\ Declared(r.base, "ptr") /\ (r.length.t # "number" => Declared(r.length.word, "int"))
        /\ parse_i64_literal(r.offset) /\ (r.length.t = "number" => parse_u64_literal(r.length))
RelationInv ==
    \A i \in 1..Seen("relations") : {Items("relations")[i].left, Items("relations")[i].right} \subseteq regionNames

GoodWalk == KeptInv /\ NamesInv /\ DistinctInv /\ KnownInv /\ RegionInv /\ RelationInv

Phases == AllLists \cup {"version", "conclude", "alias", "evaluate", "done"}
PlaceInv ==
    /\ doc \in Contracts /\ phase \in Phases /\ at \in Nat \ {0}
    /\ phase = "version" => at = 1
    /\ phase \in AllLists => at <= Len(Items(phase)) + 1
    /\ checked = [list \in KeptLists |-> checked[list]]

ContractInv ==
    \/ contract = None
    \/ contract = Some(checked) /\ diagnostics = {} /\ Rank(phase) > 9

WalkInv == PlaceInv /\ (diagnostics = {} => GoodWalk) /\ ContractInv

-----------------------------------------------------------------------------
(* Lists and phases. *)

\* The lists of a document are sequences.
LEMMA ListsAreSequences ==
    ASSUME doc \in Contracts, NEW list \in AllLists
    PROVE  Len(Items(list)) \in Nat /\ DOMAIN Items(list) = 1..Len(Items(list))
<1>1. CASE list \in {"regions", "relations"}
  <2>1. CASE doc.memory.some
    BY <1>1, <2>1, DocumentAssumption DEF Items
  <2>2. CASE ~doc.memory.some
    <3>1. Items(list) = <<>>
      BY <1>1, <2>2 DEF Items
    <3> QED BY <3>1
  <2> QED BY <2>1, <2>2
<1>2. CASE list \notin {"regions", "relations"}
  BY <1>2, DocumentAssumption DEF Items, AllLists
<1> QED BY <1>1, <1>2

\* A list is a list of the same document after a step.
LEMMA ItemsStay == doc' = doc => \A list : Items(list)' = Items(list)
BY DEF Items

\* Lists is the sequence of all lists, in the order of their ranks.
LEMMA ListOrder ==
    /\ Range(Lists) = AllLists
    /\ DOMAIN Lists = 1..8 /\ Len(Lists) = 8
    /\ \A i \in 1..8 : Lists[i] \in AllLists /\ Rank(Lists[i]) = i
<1>1. DOMAIN Lists = 1..8 /\ Len(Lists) = 8
  BY DEF Lists
<1>2. \A i \in 1..8 : Lists[i] \in AllLists /\ Rank(Lists[i]) = i
  <2> TAKE i \in 1..8
  <2>1. CASE i \in 1..4
    BY <2>1 DEF Lists, AllLists, Rank
  <2>2. CASE i \in 5..8
    BY <2>2 DEF Lists, AllLists, Rank
  <2> QED BY <2>1, <2>2
<1>3. \A list \in AllLists : \E i \in 1..8 : Lists[i] = list
  BY DEF Lists, AllLists
<1> QED BY <1>1, <1>2, <1>3 DEF Range

\* The ranks, one by one.
LEMMA RankValues ==
    /\ Rank("version") = 0 /\ Rank("parameters") = 1 /\ Rank("returns") = 2 /\ Rank("requires") = 3
    /\ Rank("ensures") = 4 /\ Rank("effects") = 5 /\ Rank("regions") = 6 /\ Rank("relations") = 7
    /\ Rank("target_overrides") = 8 /\ Rank("conclude") = 9 /\ Rank("alias") = 10
    /\ Rank("evaluate") = 11 /\ Rank("done") = 12
BY DEF Rank

\* Ranks are numbers, and of one list only.
LEMMA Ranks ==
    /\ \A p \in Phases : Rank(p) \in 0..12
    /\ \A p, q \in Phases : Rank(p) = Rank(q) => p = q
    /\ \A list \in AllLists : Rank(list) \in 1..8
BY RankValues DEF Phases, AllLists

\* What has been seen of a list is a part of it.
LEMMA SeenBounds ==
    ASSUME PlaceInv, NEW list \in AllLists
    PROVE  Seen(list) \in Nat /\ Seen(list) <= Len(Items(list)) /\ 1..Seen(list) \subseteq DOMAIN Items(list)
<1>1. Len(Items(list)) \in Nat /\ DOMAIN Items(list) = 1..Len(Items(list))
  BY ListsAreSequences DEF PlaceInv
<1>2. Seen(list) \in Nat /\ Seen(list) <= Len(Items(list))
  BY <1>1 DEF PlaceInv, Seen
<1> QED BY <1>1, <1>2

-----------------------------------------------------------------------------
(* A step of the walk. *)

\* It sees one more item of its list and nothing more of the others.
LEMMA WalkSees ==
    ASSUME PlaceInv, NEW list \in AllLists, Walk(list)
    PROVE  /\ at \in DOMAIN Items(list) /\ at \in Nat \ {0} /\ item = Items(list)[at]
           /\ Seen(list) = at - 1 /\ Seen(list)' = at
           /\ \A other \in AllLists \ {list} : Seen(other)' = Seen(other)
           /\ \A any : Items(any)' = Items(any)
<1>1. /\ phase = list /\ at <= Len(Items(list)) /\ at' = at + 1 /\ phase' = phase
      /\ \A any : Items(any)' = Items(any)
  BY ItemsStay DEF Walk
<1>2. Len(Items(list)) \in Nat /\ DOMAIN Items(list) = 1..Len(Items(list)) /\ at \in Nat \ {0}
  BY ListsAreSequences DEF PlaceInv
<1>3. Rank(list) \in 1..8
  BY Ranks
<1>4. Seen(list) = at - 1
  BY <1>1, <1>3 DEF Seen
<1>5. Seen(list)' = at
  BY <1>1, <1>2, <1>3 DEF Seen
<1>6. \A other \in AllLists \ {list} : Seen(other)' = Seen(other)
  BY <1>1 DEF Seen
<1> QED BY <1>1, <1>2, <1>4, <1>5, <1>6 DEF item

\* It leaves the walk in a place it may be in, and no contract yet.
LEMMA WalkPlace ==
    ASSUME WalkInv, NEW list \in AllLists, Walk(list),
           checked' = [any \in KeptLists |-> checked'[any]]
    PROVE  PlaceInv' /\ ContractInv'
<1>1. /\ phase = list /\ at <= Len(Items(list)) /\ at' = at + 1 /\ phase' = phase
      /\ doc' = doc /\ contract' = contract /\ Items(list)' = Items(list)
  BY ItemsStay DEF Walk, outcome
<1>2. Len(Items(list)) \in Nat /\ at \in Nat \ {0}
  BY ListsAreSequences DEF WalkInv, PlaceInv
<1>3. contract = None
  BY <1>1, Ranks DEF WalkInv, ContractInv
<1>4. phase' # "version"
  BY <1>1 DEF AllLists
<1>5. PlaceInv'
  <2>1. doc' \in Contracts /\ phase' \in Phases /\ at' \in Nat \ {0}
    BY <1>1, <1>2 DEF WalkInv, PlaceInv
  <2>2. at' <= Len(Items(phase))' + 1
    BY <1>1, <1>2
  <2> QED BY <1>4, <2>1, <2>2 DEF PlaceInv
<1> QED BY <1>1, <1>3, <1>5 DEF ContractInv

\* Keeping the image of its item, it keeps what it has seen.
LEMMA WalkKeeps ==
    ASSUME PlaceInv, KeptInv, NEW list \in KeptLists, Walk(list),
           checked' = [checked EXCEPT ![list] = Append(@, Image(list, item))]
    PROVE  KeptInv'
<1> DEFINE x == Image(list, Items(list)[at])
<1>1. list \in AllLists
  BY DEF KeptLists
<1>2. /\ at \in DOMAIN Items(list) /\ at \in Nat \ {0} /\ item = Items(list)[at]
      /\ Seen(list) = at - 1 /\ Seen(list)' = at
      /\ \A other \in AllLists \ {list} : Seen(other)' = Seen(other)
      /\ \A any : Items(any)' = Items(any)
  BY <1>1, WalkSees
<1>3. checked' = [checked EXCEPT ![list] = Append(checked[list], x)]
  BY <1>2
<1>4. checked'[list] = Append(checked[list], x) /\ \A other \in KeptLists \ {list} : checked'[other] = checked[other]
  <2>1. checked = [any \in KeptLists |-> checked[any]]
    BY DEF PlaceInv
  <2> QED BY <1>3, <2>1
<1>5. x \in Images(list)
  BY <1>2 DEF Images
<1>6. checked[list] \in Seq(Images(list)) /\ Len(checked[list]) = at - 1
  BY <1>2 DEF KeptInv
<1>7. \A any \in KeptLists : Images(any)' = Images(any)
  BY <1>2 DEF Images, Image, CheckedRegion
<1>8. \A any \in KeptLists : \A y : Image(any, y)' = Image(any, y)
  BY DEF Image, CheckedRegion
<1> HIDE DEF x
<1>9. /\ checked'[list] \in Seq(Images(list)) /\ Len(checked'[list]) = at
      /\ checked'[list][at] = x
      /\ \A i \in 1..(at - 1) : checked'[list][i] = checked[list][i]
  BY <1>2, <1>4, <1>5, <1>6
<1>10. \A i \in 1..at : checked'[list][i] = Image(list, Items(list)[i])
  <2>1. ASSUME NEW i \in 1..(at - 1) PROVE checked'[list][i] = Image(list, Items(list)[i])
    BY <1>2, <1>9 DEF KeptInv
  <2>2. checked'[list][at] = Image(list, Items(list)[at])
    BY <1>9 DEF x
  <2>3. \A i \in 1..at : i = at \/ i \in 1..(at - 1)
    BY <1>2
  <2> QED BY <2>1, <2>2, <2>3
<1>11. ASSUME NEW any \in KeptLists
       PROVE  /\ checked'[any] \in Seq(Images(any)') /\ Len(checked'[any]) = Seen(any)'
              /\ \A i \in 1..Seen(any)' : checked'[any][i] = Image(any, Items(any)'[i])
  <2>1. CASE any = list
    BY <1>2, <1>7, <1>9, <1>10, <2>1
  <2>2. CASE any # list
    <3>1. Seen(any)' = Seen(any) /\ checked'[any] = checked[any]
      BY <1>2, <1>4, <2>2 DEF KeptLists
    <3> QED BY <1>2, <1>7, <3>1 DEF KeptInv
  <2> QED BY <2>1, <2>2
<1> QED BY <1>8, <1>11 DEF KeptInv

-----------------------------------------------------------------------------
(* What a step adds to what has been seen. *)

\* The names of a list that is not walked stay, and so does what is known of it.
LEMMA OthersStay ==
    ASSUME NEW list, Seen(list)' = Seen(list), \A any : Items(any)' = Items(any)
    PROVE  SeenNames(list)' = SeenNames(list) /\ (Distinct(list) => Distinct(list)')
BY DEF SeenNames, Distinct

\* The list that is walked gains a name.
LEMMA NameIsSeen ==
    ASSUME NEW list, at \in Nat \ {0}, Seen(list) = at - 1, Seen(list)' = at,
           \A any : Items(any)' = Items(any)
    PROVE  /\ SeenNames(list)' = SeenNames(list) \cup {Items(list)[at].name}
           /\ Distinct(list) /\ Items(list)[at].name \notin SeenNames(list) => Distinct(list)'
<1>1. \A i : i \in 1..at <=> i = at \/ i \in 1..(at - 1)
  OBVIOUS
<1>2. SeenNames(list)' = {Items(list)[i].name : i \in 1..at}
  BY DEF SeenNames
<1>3. SeenNames(list) = {Items(list)[i].name : i \in 1..(at - 1)}
  BY DEF SeenNames
<1>4. ASSUME Distinct(list), Items(list)[at].name \notin SeenNames(list) PROVE Distinct(list)'
  <2>1. \A i, j \in 1..(at - 1) : Items(list)[i].name = Items(list)[j].name => i = j
    BY <1>4 DEF Distinct
  <2>2. \A i \in 1..(at - 1) : Items(list)[i].name # Items(list)[at].name
    BY <1>3, <1>4
  <2>3. \A i, j \in 1..at : Items(list)[i].name = Items(list)[j].name => i = j
    BY <1>1, <2>1, <2>2
  <2> QED BY <2>3 DEF Distinct
<1> QED BY <1>1, <1>2, <1>3, <1>4

\* Nothing was reported by a step that leaves the diagnostics empty.
LEMMA NothingReported ==
    ASSUME NEW codes, Report(codes), diagnostics' = {}
    PROVE  diagnostics = {} /\ codes = {}
BY DEF Report

\* A code is reported when its condition holds.
LEMMA NotReported == \A b, code : If(b, code) = {} => ~b
BY DEF If

\* The identifiers conditions may use only grow.
LEMMA KnownStays ==
    ASSUME NEW list, Known(list), Seen(list)' = Seen(list), names \subseteq names',
           \A any : Items(any)' = Items(any)
    PROVE  Known(list)'
<1>1. expr_names \subseteq expr_names'
  BY DEF expr_names
<1>2. \A i \in 1..Seen(list) : free_idents(Items(list)[i]) \subseteq expr_names'
  BY <1>1 DEF Known
<1> QED BY <1>2 DEF Known

\* The regions and relations seen stay in order while neither list is walked.
LEMMA MemoryStays ==
    ASSUME Seen("regions")' = Seen("regions"), Seen("relations")' = Seen("relations"),
           Seen("parameters")' = Seen("parameters") \/ Seen("regions") = 0,
           regionNames' = regionNames, RegionInv, RelationInv,
           \A any : Items(any)' = Items(any)
    PROVE  RegionInv' /\ RelationInv'
<1>1. RelationInv'
  BY DEF RelationInv
<1>2. CASE Seen("regions") = 0
  BY <1>1, <1>2 DEF RegionInv
<1>3. CASE Seen("parameters")' = Seen("parameters")
  <2>1. \A name, type : Declared(name, type) => Declared(name, type)'
    BY <1>3 DEF Declared
  <2> QED BY <1>1, <2>1 DEF RegionInv
<1> QED BY <1>2, <1>3

-----------------------------------------------------------------------------
(* One lemma per list. *)

\* What every step of the walk may use.
LEMMA WalkFacts ==
    ASSUME WalkInv, NEW list \in AllLists, Walk(list), NEW codes, Report(codes), diagnostics' = {}
    PROVE  /\ PlaceInv /\ GoodWalk /\ codes = {}
           /\ at \in DOMAIN Items(list) /\ at \in Nat \ {0} /\ item = Items(list)[at]
           /\ Seen(list) = at - 1 /\ Seen(list)' = at
           /\ \A other \in AllLists \ {list} : Seen(other)' = Seen(other)
           /\ \A any : Items(any)' = Items(any)
BY WalkSees, NothingReported DEF WalkInv

\* Keep changes the kept part of one list at most.
LEMMA KeepPlaces ==
    ASSUME WalkInv, NEW list \in KeptLists, Walk(list), NEW b, NEW x, Keep(list, b, x)
    PROVE  PlaceInv' /\ ContractInv'
<1>1. checked = [any \in KeptLists |-> checked[any]]
  BY DEF WalkInv, PlaceInv
<1>2. checked' = [any \in KeptLists |-> checked'[any]]
  <2>1. CASE b
    BY <1>1, <2>1 DEF Keep
  <2>2. CASE ~b
    BY <1>1, <2>2 DEF Keep
  <2> QED BY <2>1, <2>2
<1> QED BY <1>2, WalkPlace DEF KeptLists

\* A parameter: its name is new, else CTR002.
LEMMA ParameterStep ==
    ASSUME WalkInv, CheckParameter
    PROVE  WalkInv'
<1> DEFINE list == "parameters"
           codes == If(item.name \in names, "CTR002") \cup If(item.type = "bad", "CTR003")
<1>1. /\ Walk(list) /\ names' = names \cup {item.name} /\ Report(codes)
      /\ Keep(list, item.type # "bad", item) /\ regionNames' = regionNames
  BY DEF CheckParameter
<1>2. list \in KeptLists /\ list \in AllLists
  BY DEF KeptLists, AllLists
<1>3. PlaceInv' /\ ContractInv'
  BY <1>1, <1>2, KeepPlaces
<1>4. ASSUME diagnostics' = {} PROVE GoodWalk'
  <2>1. /\ PlaceInv /\ GoodWalk /\ codes = {}
        /\ at \in DOMAIN Items(list) /\ at \in Nat \ {0} /\ item = Items(list)[at]
        /\ Seen(list) = at - 1 /\ Seen(list)' = at
        /\ \A other \in AllLists \ {list} : Seen(other)' = Seen(other)
        /\ \A any : Items(any)' = Items(any)
    BY <1>1, <1>2, <1>4, WalkFacts
  <2>2. item.name \notin names /\ item.type # "bad"
    BY <2>1, NotReported
  <2>3. KeptInv'
    <3>1. checked' = [checked EXCEPT ![list] = Append(@, Image(list, item))]
      BY <1>1, <2>2 DEF Keep, Image
    <3> QED BY <1>1, <1>2, <2>1, <3>1, WalkKeeps DEF GoodWalk
  <2>4. /\ Seen("returns")' = Seen("returns") /\ Seen("regions")' = Seen("regions")
        /\ Seen("requires")' = Seen("requires") /\ Seen("ensures")' = Seen("ensures")
        /\ Seen("relations")' = Seen("relations")
    BY <2>1 DEF AllLists
  <2>5. NamesInv'
    BY <1>1, <2>1, <2>4, OthersStay, NameIsSeen DEF GoodWalk, NamesInv
  <2>6. DistinctInv'
    <3>1. Items(list)[at].name \notin SeenNames(list)
      BY <2>1, <2>2 DEF GoodWalk, NamesInv
    <3> QED BY <2>1, <2>4, <3>1, OthersStay, NameIsSeen DEF GoodWalk, DistinctInv
  <2>7. KnownInv'
    BY <1>1, <2>1, <2>4, KnownStays DEF GoodWalk, KnownInv
  <2>8. Seen("regions") = 0
    BY <1>1, RankValues DEF Seen, Walk
  <2>9. RegionInv' /\ RelationInv'
    BY <1>1, <2>1, <2>4, <2>8, MemoryStays DEF GoodWalk
  <2> QED BY <2>3, <2>5, <2>6, <2>7, <2>9 DEF GoodWalk
<1> QED BY <1>3, <1>4 DEF WalkInv

\* A return: its name may be that of a parameter.
LEMMA ReturnStep ==
    ASSUME WalkInv, CheckReturn
    PROVE  WalkInv'
<1> DEFINE list == "returns"
           codes == If(item.type = "bad", "CTR003")
<1>1. /\ Walk(list) /\ names' = names \cup {item.name} /\ Report(codes)
      /\ Keep(list, item.type # "bad", item) /\ regionNames' = regionNames
  BY DEF CheckReturn
<1>2. list \in KeptLists /\ list \in AllLists
  BY DEF KeptLists, AllLists
<1>3. PlaceInv' /\ ContractInv'
  BY <1>1, <1>2, KeepPlaces
<1>4. ASSUME diagnostics' = {} PROVE GoodWalk'
  <2>1. /\ PlaceInv /\ GoodWalk /\ codes = {}
        /\ at \in DOMAIN Items(list) /\ at \in Nat \ {0} /\ item = Items(list)[at]
        /\ Seen(list) = at - 1 /\ Seen(list)' = at
        /\ \A other \in AllLists \ {list} : Seen(other)' = Seen(other)
        /\ \A any : Items(any)' = Items(any)
    BY <1>1, <1>2, <1>4, WalkFacts
  <2>2. item.type # "bad"
    BY <2>1, NotReported
  <2>3. KeptInv'
    <3>1. checked' = [checked EXCEPT ![list] = Append(@, Image(list, item))]
      BY <1>1, <2>2 DEF Keep, Image
    <3> QED BY <1>1, <1>2, <2>1, <3>1, WalkKeeps DEF GoodWalk
  <2>4. /\ Seen("parameters")' = Seen("parameters") /\ Seen("regions")' = Seen("regions")
        /\ Seen("requires")' = Seen("requires") /\ Seen("ensures")' = Seen("ensures")
        /\ Seen("relations")' = Seen("relations")
    BY <2>1 DEF AllLists
  <2>5. NamesInv'
    BY <1>1, <2>1, <2>4, OthersStay, NameIsSeen DEF GoodWalk, NamesInv
  <2>6. DistinctInv'
    BY <2>1, <2>4, OthersStay DEF GoodWalk, DistinctInv
  <2>7. KnownInv'
    BY <1>1, <2>1, <2>4, KnownStays DEF GoodWalk, KnownInv
  <2>8. RegionInv' /\ RelationInv'
    BY <1>1, <2>1, <2>4, MemoryStays DEF GoodWalk
  <2> QED BY <2>3, <2>5, <2>6, <2>7, <2>8 DEF GoodWalk
<1> QED BY <1>3, <1>4 DEF WalkInv


\* A condition: its identifiers are known, else CTR005.  One of an accepted
\* document parses, and is kept.
LEMMA ConditionStep ==
    ASSUME WalkInv, NEW list \in {"requires", "ensures"}, Walk(list),
           Report(check_condition(item)), Keep(list, item # Unparsable, item),
           names' = names, regionNames' = regionNames
    PROVE  WalkInv'
<1> DEFINE codes == check_condition(item)
<1>1. list \in KeptLists /\ list \in AllLists
  BY DEF KeptLists, AllLists
<1>2. PlaceInv' /\ ContractInv'
  BY <1>1, KeepPlaces
<1>3. ASSUME diagnostics' = {} PROVE GoodWalk'
  <2>1. /\ PlaceInv /\ GoodWalk /\ codes = {}
        /\ at \in DOMAIN Items(list) /\ at \in Nat \ {0} /\ item = Items(list)[at]
        /\ Seen(list) = at - 1 /\ Seen(list)' = at
        /\ \A other \in AllLists \ {list} : Seen(other)' = Seen(other)
        /\ \A any : Items(any)' = Items(any)
    BY <1>1, <1>3, WalkFacts
  <2>2. item # Unparsable /\ free_idents(item) \subseteq expr_names
    <3>1. If(item = Unparsable, "CTR004") = {}
      BY <2>1 DEF check_condition
    <3>2. If(item # Unparsable /\ ~(free_idents(item) \subseteq expr_names), "CTR005") = {}
      BY <2>1 DEF check_condition
    <3> QED BY <3>1, <3>2, NotReported
  <2>3. KeptInv'
    <3>1. checked' = [checked EXCEPT ![list] = Append(@, Image(list, item))]
      BY <2>2 DEF Keep, Image
    <3> QED BY <1>1, <2>1, <3>1, WalkKeeps DEF GoodWalk
  <2>4. /\ Seen("parameters")' = Seen("parameters") /\ Seen("regions")' = Seen("regions")
        /\ Seen("returns")' = Seen("returns") /\ Seen("relations")' = Seen("relations")
    BY <2>1 DEF AllLists
  <2>5. NamesInv'
    BY <2>1, <2>4, OthersStay DEF GoodWalk, NamesInv
  <2>6. DistinctInv'
    BY <2>1, <2>4, OthersStay DEF GoodWalk, DistinctInv
  <2>7. Known(list)'
    <3>1. expr_names' = expr_names
      BY <2>1 DEF expr_names
    <3>2. \A i \in 1..(at - 1) : Items(list)[i] # Unparsable /\ free_idents(Items(list)[i]) \subseteq expr_names
      BY <2>1 DEF GoodWalk, KnownInv, Known
    <3>3. \A i \in 1..at : i = at \/ i \in 1..(at - 1)
      BY <2>1
    <3>4. \A i \in 1..at : Items(list)[i] # Unparsable /\ free_idents(Items(list)[i]) \subseteq expr_names
      BY <2>1, <2>2, <3>2, <3>3
    <3> QED BY <2>1, <3>1, <3>4 DEF Known
  <2>8. KnownInv'
    <3>1. ASSUME NEW other \in {"requires", "ensures"}, other # list PROVE Known(other)'
      <4>1. Seen(other)' = Seen(other)
        BY <2>1, <3>1 DEF AllLists
      <4>2. Known(other)
        BY <2>1 DEF GoodWalk, KnownInv
      <4> QED BY <2>1, <4>1, <4>2, KnownStays
    <3> QED BY <2>7, <3>1 DEF KnownInv
  <2>9. RegionInv' /\ RelationInv'
    BY <2>1, <2>4, MemoryStays DEF GoodWalk
  <2> QED BY <2>3, <2>5, <2>6, <2>8, <2>9 DEF GoodWalk
<1> QED BY <1>2, <1>3 DEF WalkInv

\* A step over a list of which nothing more is known: effects and overrides.
LEMMA PlainStep ==
    ASSUME PlaceInv, GoodWalk, NEW list \in {"effects", "target_overrides"}, Walk(list),
           names' = names, regionNames' = regionNames, KeptInv'
    PROVE  GoodWalk'
<1>1. list \in AllLists
  BY DEF AllLists
<1>2. /\ \A other \in AllLists \ {list} : Seen(other)' = Seen(other)
      /\ \A any : Items(any)' = Items(any)
  BY <1>1, WalkSees
<1>3. /\ Seen("parameters")' = Seen("parameters") /\ Seen("regions")' = Seen("regions")
      /\ Seen("returns")' = Seen("returns") /\ Seen("relations")' = Seen("relations")
      /\ Seen("requires")' = Seen("requires") /\ Seen("ensures")' = Seen("ensures")
  BY <1>2 DEF AllLists
<1>4. NamesInv'
  BY <1>2, <1>3, OthersStay DEF GoodWalk, NamesInv
<1>5. DistinctInv'
  BY <1>2, <1>3, OthersStay DEF GoodWalk, DistinctInv
<1>6. KnownInv'
  BY <1>2, <1>3, KnownStays DEF GoodWalk, KnownInv
<1>7. RegionInv' /\ RelationInv'
  BY <1>2, <1>3, MemoryStays DEF GoodWalk
<1> QED BY <1>4, <1>5, <1>6, <1>7 DEF GoodWalk

\* An effect: nothing of it is kept.
LEMMA EffectStep ==
    ASSUME WalkInv, CheckEffect
    PROVE  WalkInv'
<1>1. /\ Walk("effects") /\ Report(check_effects) /\ names' = names /\ regionNames' = regionNames
      /\ checked' = checked
  BY DEF CheckEffect
<1>2. "effects" \in AllLists /\ "effects" \notin KeptLists
  BY DEF AllLists, KeptLists
<1>3. PlaceInv' /\ ContractInv'
  BY <1>1, <1>2, WalkPlace DEF WalkInv, PlaceInv
<1>4. ASSUME diagnostics' = {} PROVE GoodWalk'
  <2>1. /\ PlaceInv /\ GoodWalk
        /\ \A other \in AllLists \ {"effects"} : Seen(other)' = Seen(other)
        /\ \A any : Items(any)' = Items(any)
    BY <1>1, <1>2, <1>4, WalkFacts
  <2>2. KeptInv'
    <3>1. \A list \in KeptLists : Seen(list)' = Seen(list)
      BY <2>1 DEF KeptLists
    <3>2. \A list \in KeptLists : Images(list)' = Images(list)
      BY <2>1 DEF Images, Image, CheckedRegion
    <3>3. \A list \in KeptLists : \A y : Image(list, y)' = Image(list, y)
      BY DEF Image, CheckedRegion
    <3>4. \A list \in KeptLists :
            /\ checked'[list] \in Seq(Images(list)') /\ Len(checked'[list]) = Seen(list)'
            /\ \A i \in 1..Seen(list)' : checked'[list][i] = Image(list, Items(list)'[i])
      BY <1>1, <2>1, <3>1, <3>2 DEF GoodWalk, KeptInv
    <3> QED BY <3>3, <3>4 DEF KeptInv
  <2> QED BY <1>1, <2>1, <2>2, PlainStep
<1> QED BY <1>3, <1>4 DEF WalkInv

\* A target override: its target is known, else CTR007.
LEMMA OverrideStep ==
    ASSUME WalkInv, CheckOverride
    PROVE  WalkInv'
<1> DEFINE list == "target_overrides"
           codes == If(~item.known, "CTR007")
<1>1. /\ Walk(list) /\ Report(codes) /\ Keep(list, item.known, item)
      /\ names' = names /\ regionNames' = regionNames
  BY DEF CheckOverride
<1>2. list \in KeptLists /\ list \in AllLists
  BY DEF KeptLists, AllLists
<1>3. PlaceInv' /\ ContractInv'
  BY <1>1, <1>2, KeepPlaces
<1>4. ASSUME diagnostics' = {} PROVE GoodWalk'
  <2>1. PlaceInv /\ GoodWalk /\ codes = {}
    BY <1>1, <1>2, <1>4, WalkFacts
  <2>2. item.known
    BY <2>1, NotReported
  <2>3. checked' = [checked EXCEPT ![list] = Append(@, Image(list, item))]
    BY <1>1, <2>2 DEF Keep, Image
  <2>4. KeptInv'
    BY <1>1, <1>2, <2>1, <2>3, WalkKeeps DEF GoodWalk
  <2> QED BY <1>1, <2>1, <2>4, PlainStep
<1> QED BY <1>3, <1>4 DEF WalkInv


\* TypeOf finds the one parameter of that name.
LEMMA TypeIsDeclared ==
    ASSUME PlaceInv, KeptInv, Distinct("parameters"), NEW name, TypeOf(name) # "none"
    PROVE  Declared(name, TypeOf(name))
<1> DEFINE P == checked.parameters
           named == {i \in DOMAIN P : P[i].name = name}
<1>1. "parameters" \in KeptLists /\ "parameters" \in AllLists
  BY DEF KeptLists, AllLists
<1>2. /\ P \in Seq(Images("parameters")) /\ Len(P) = Seen("parameters")
      /\ \A i \in 1..Seen("parameters") : P[i] = Image("parameters", Items("parameters")[i])
  BY <1>1 DEF KeptInv
<1>3. DOMAIN P = 1..Seen("parameters")
  BY <1>2
<1>4. \A i \in 1..Seen("parameters") : P[i] = Items("parameters")[i]
  BY <1>2 DEF Image
<1>5. named # {} /\ TypeOf(name) = P[CHOOSE i \in named : \A j \in named : i <= j].type
  BY Zenon DEF TypeOf
<1>6. PICK k \in 1..Seen("parameters") : P[k].name = name
  BY <1>3, <1>5
<1>7. k \in Int
  BY <1>6
<1>8. named = {k}
  BY <1>3, <1>4, <1>6 DEF Distinct
<1>9. (CHOOSE i \in named : \A j \in named : i <= j) = k
  <2>1. k \in named /\ \A j \in named : k <= j
    BY <1>7, <1>8
  <2>2. (CHOOSE i \in named : \A j \in named : i <= j) \in named
    BY <2>1, Zenon
  <2> QED BY <1>8, <2>2, Zenon
<1>10. TypeOf(name) = P[k].type
  BY <1>5, <1>9, Zenon
<1> QED BY <1>4, <1>6, <1>10 DEF Declared

\* A region: its name is new, its base a pointer, its length a literal or an
\* integer, else CTR008.
LEMMA RegionStep ==
    ASSUME WalkInv, CheckRegion
    PROVE  WalkInv'
<1> DEFINE list == "regions"
           codes == If(~ValidRegion, "CTR008")
<1>1. /\ Walk(list) /\ Report(codes) /\ Keep(list, ValidRegion, CheckedRegion(item))
      /\ names' = names /\ regionNames' = regionNames \cup {item.name}
  BY DEF CheckRegion
<1>2. list \in KeptLists /\ list \in AllLists
  BY DEF KeptLists, AllLists
<1>3. PlaceInv' /\ ContractInv'
  BY <1>1, <1>2, KeepPlaces
<1>4. ASSUME diagnostics' = {} PROVE GoodWalk'
  <2>1. /\ PlaceInv /\ GoodWalk /\ codes = {}
        /\ at \in DOMAIN Items(list) /\ at \in Nat \ {0} /\ item = Items(list)[at]
        /\ Seen(list) = at - 1 /\ Seen(list)' = at
        /\ \A other \in AllLists \ {list} : Seen(other)' = Seen(other)
        /\ \A any : Items(any)' = Items(any)
    BY <1>1, <1>2, <1>4, WalkFacts
  <2>2. ValidRegion
    BY <2>1, NotReported
  <2>3. KeptInv'
    <3>1. checked' = [checked EXCEPT ![list] = Append(@, Image(list, item))]
      BY <1>1, <2>2 DEF Keep, Image
    <3> QED BY <1>1, <1>2, <2>1, <3>1, WalkKeeps DEF GoodWalk
  <2>4. /\ Seen("returns")' = Seen("returns") /\ Seen("parameters")' = Seen("parameters")
        /\ Seen("requires")' = Seen("requires") /\ Seen("ensures")' = Seen("ensures")
        /\ Seen("relations")' = Seen("relations")
    BY <2>1 DEF AllLists
  <2>5. NamesInv'
    BY <1>1, <2>1, <2>4, OthersStay, NameIsSeen DEF GoodWalk, NamesInv
  <2>6. DistinctInv'
    <3>1. Items(list)[at].name \notin SeenNames(list)
      BY <2>1, <2>2 DEF GoodWalk, NamesInv, ValidRegion
    <3> QED BY <2>1, <2>4, <3>1, OthersStay, NameIsSeen DEF GoodWalk, DistinctInv
  <2>7. KnownInv'
    BY <1>1, <2>1, <2>4, KnownStays DEF GoodWalk, KnownInv
  <2>8. RegionInv'
    <3>1. \A name : TypeOf(name) # "none" => Declared(name, TypeOf(name))
      BY <2>1, TypeIsDeclared DEF GoodWalk, DistinctInv
    <3>2. Declared(item.base, "ptr")
      BY <2>2, <3>1 DEF ValidRegion
    <3>3. item.length.t # "number" => Declared(item.length.word, "int")
      BY <2>2, <3>1 DEF ValidRegion, parse_length_spec, parse_u64_literal
    <3>6. parse_i64_literal(item.offset) /\ (item.length.t = "number" => parse_u64_literal(item.length))
      BY <2>2 DEF ValidRegion, parse_length_spec
    <3>4. \A name, type : Declared(name, type)' <=> Declared(name, type)
      BY <2>1, <2>4 DEF Declared
    <3>5. ASSUME NEW i \in 1..at
          PROVE  LET r == Items(list)[i] IN
                 /\ Declared(r.base, "ptr") /\ (r.length.t # "number" => Declared(r.length.word, "int"))
                 /\ parse_i64_literal(r.offset) /\ (r.length.t = "number" => parse_u64_literal(r.length))
      <4>1. CASE i = at
        BY <2>1, <3>2, <3>3, <3>6, <4>1
      <4>2. CASE i # at
        <5>1. i \in 1..Seen(list)
          BY <2>1, <4>2
        <5> QED BY <2>1, <5>1 DEF GoodWalk, RegionInv
      <4> QED BY <4>1, <4>2
    <3> QED BY <2>1, <3>4, <3>5 DEF RegionInv
  <2>9. RelationInv'
    BY <1>1, <2>1, <2>4 DEF GoodWalk, RelationInv
  <2> QED BY <2>3, <2>5, <2>6, <2>7, <2>8, <2>9 DEF GoodWalk
<1> QED BY <1>3, <1>4 DEF WalkInv

\* A relation: both of its ends are regions, else CTR008.
LEMMA RelationStep ==
    ASSUME WalkInv, CheckRelation
    PROVE  WalkInv'
<1> DEFINE list == "relations"
           valid == /\ {item.left, item.right} \subseteq regionNames
                    /\ item.require \in {"disjoint", "equal", "contains"}
                    /\ item.basis \in {"none", "precondition"}
           codes == If(~valid, "CTR008")
<1>1. /\ Walk(list) /\ Report(codes) /\ Keep(list, valid, item)
      /\ names' = names /\ regionNames' = regionNames
  BY DEF CheckRelation
<1>2. list \in KeptLists /\ list \in AllLists
  BY DEF KeptLists, AllLists
<1>3. PlaceInv' /\ ContractInv'
  <2> HIDE DEF valid
  <2> QED BY <1>1, <1>2, KeepPlaces
<1>4. ASSUME diagnostics' = {} PROVE GoodWalk'
  <2>1. /\ PlaceInv /\ GoodWalk /\ codes = {}
        /\ at \in DOMAIN Items(list) /\ at \in Nat \ {0} /\ item = Items(list)[at]
        /\ Seen(list) = at - 1 /\ Seen(list)' = at
        /\ \A other \in AllLists \ {list} : Seen(other)' = Seen(other)
        /\ \A any : Items(any)' = Items(any)
    <3> HIDE DEF codes
    <3> QED BY <1>1, <1>2, <1>4, WalkFacts
  <2>2. valid
    <3> HIDE DEF valid
    <3> QED BY <2>1, NotReported
  <2>3. KeptInv'
    <3>1. checked' = [checked EXCEPT ![list] = Append(@, Image(list, item))]
      <4> HIDE DEF valid
      <4> QED BY <1>1, <2>2 DEF Keep, Image
    <3> QED BY <1>1, <1>2, <2>1, <3>1, WalkKeeps DEF GoodWalk
  <2>4. /\ Seen("parameters")' = Seen("parameters") /\ Seen("regions")' = Seen("regions")
        /\ Seen("returns")' = Seen("returns")
        /\ Seen("requires")' = Seen("requires") /\ Seen("ensures")' = Seen("ensures")
    BY <2>1 DEF AllLists
  <2>5. NamesInv'
    BY <1>1, <2>1, <2>4, OthersStay DEF GoodWalk, NamesInv
  <2>6. DistinctInv'
    BY <2>1, <2>4, OthersStay DEF GoodWalk, DistinctInv
  <2>7. KnownInv'
    BY <1>1, <2>1, <2>4, KnownStays DEF GoodWalk, KnownInv
  <2>8. RegionInv'
    <3>1. \A name, type : Declared(name, type)' <=> Declared(name, type)
      BY <2>1, <2>4 DEF Declared
    <3> QED BY <2>1, <2>4, <3>1 DEF GoodWalk, RegionInv
  <2>9. RelationInv'
    <3>1. ASSUME NEW i \in 1..at PROVE {Items(list)[i].left, Items(list)[i].right} \subseteq regionNames
      <4>1. CASE i = at
        BY <2>1, <2>2, <4>1
      <4>2. CASE i # at
        <5>1. i \in 1..Seen(list)
          BY <2>1, <4>2
        <5> QED BY <2>1, <5>1 DEF GoodWalk, RelationInv
      <4> QED BY <4>1, <4>2
    <3> QED BY <1>1, <2>1, <3>1 DEF RelationInv
  <2> QED BY <2>3, <2>5, <2>6, <2>7, <2>8, <2>9 DEF GoodWalk
<1> QED BY <1>3, <1>4 DEF WalkInv


-----------------------------------------------------------------------------
(* Steps that see nothing. *)

\* A step that sees no item keeps what is known of those that were seen.
LEMMA NothingSeen ==
    ASSUME doc' = doc, names' = names, regionNames' = regionNames, checked' = checked,
           \A list \in AllLists : Seen(list)' = Seen(list), GoodWalk
    PROVE  GoodWalk'
<1>1. \A any : Items(any)' = Items(any)
  BY ItemsStay
<1>2. /\ Seen("parameters")' = Seen("parameters") /\ Seen("regions")' = Seen("regions")
      /\ Seen("returns")' = Seen("returns") /\ Seen("relations")' = Seen("relations")
      /\ Seen("requires")' = Seen("requires") /\ Seen("ensures")' = Seen("ensures")
  BY DEF AllLists
<1>3. KeptInv'
  <2>1. \A list \in KeptLists : Seen(list)' = Seen(list)
    BY DEF KeptLists
  <2>2. \A list \in KeptLists : Images(list)' = Images(list)
    BY <1>1 DEF Images, Image, CheckedRegion
  <2>3. \A list \in KeptLists : \A y : Image(list, y)' = Image(list, y)
    BY DEF Image, CheckedRegion
  <2>4. \A list \in KeptLists :
          /\ checked'[list] \in Seq(Images(list)') /\ Len(checked'[list]) = Seen(list)'
          /\ \A i \in 1..Seen(list)' : checked'[list][i] = Image(list, Items(list)'[i])
    BY <1>1, <2>1, <2>2 DEF GoodWalk, KeptInv
  <2> QED BY <2>3, <2>4 DEF KeptInv
<1>4. NamesInv'
  BY <1>1, <1>2, OthersStay DEF GoodWalk, NamesInv
<1>5. DistinctInv'
  BY <1>1, <1>2, OthersStay DEF GoodWalk, DistinctInv
<1>6. KnownInv'
  BY <1>1, <1>2, KnownStays DEF GoodWalk, KnownInv
<1>7. RegionInv' /\ RelationInv'
  BY <1>1, <1>2, MemoryStays DEF GoodWalk
<1> QED BY <1>3, <1>4, <1>5, <1>6, <1>7 DEF GoodWalk

\* A document of another version is not walked at all.
LEMMA VersionStep ==
    ASSUME WalkInv, CheckVersion
    PROVE  WalkInv'
<1>1. /\ phase = "version" /\ at = 1 /\ at' = at /\ doc' = doc /\ doc \in Contracts /\ contract' = contract
      /\ names' = names /\ regionNames' = regionNames /\ checked' = checked
      /\ checked = [list \in KeptLists |-> checked[list]]
  BY DEF CheckVersion, outcome, WalkInv, PlaceInv
<1>2. contract = None
  BY <1>1, RankValues DEF WalkInv, ContractInv
<1>3. CASE phase' = "parameters" /\ diagnostics' = diagnostics
  <2>1. PlaceInv'
    <3>1. Len(Items("parameters")) \in Nat /\ Items("parameters")' = Items("parameters")
      BY <1>1, ListsAreSequences, ItemsStay DEF AllLists
    <3>2. phase' \in Phases /\ phase' # "version"
      BY <1>3 DEF Phases, AllLists
    <3>3. Len(Items(phase))' = Len(Items("parameters"))
      BY <1>3, <3>1
    <3> QED BY <1>1, <3>1, <3>2, <3>3 DEF PlaceInv
  <2>2. ASSUME NEW list \in AllLists PROVE Seen(list) = 0 /\ Seen(list)' = 0
    <3>1. Rank(list) \in 1..8 /\ (list # "parameters" => Rank(list) > 1)
      BY Ranks, RankValues DEF AllLists
    <3>2. Seen(list) = 0
      BY <1>1, <3>1, RankValues DEF Seen
    <3>3. Seen(list)' = 0
      BY <1>1, <1>3, <3>1, RankValues DEF Seen
    <3> QED BY <3>2, <3>3
  <2>3. diagnostics' = {} => GoodWalk'
    BY <1>1, <1>3, <2>2, NothingSeen DEF WalkInv
  <2> QED BY <1>1, <1>2, <2>1, <2>3 DEF WalkInv, ContractInv
<1>4. CASE phase' = "conclude" /\ diagnostics' = {"CTR001"}
  <2>1. phase' \in Phases /\ phase' # "version" /\ phase' \notin AllLists
    BY <1>4 DEF Phases, AllLists
  <2>2. PlaceInv'
    BY <1>1, <2>1 DEF PlaceInv
  <2> QED BY <1>1, <1>2, <1>4, <2>2 DEF WalkInv, ContractInv
<1> QED BY <1>3, <1>4 DEF CheckVersion

\* The end of a list: all of it has been seen, and nothing of the next.
LEMMA EndStep ==
    ASSUME WalkInv, EndOfList
    PROVE  WalkInv'
<1>1. PICK i \in DOMAIN Lists :
        /\ phase = Lists[i] /\ at > Len(Items(phase)) /\ at' = 1
        /\ phase' = IF i = Len(Lists) THEN "conclude" ELSE Lists[i + 1]
        /\ UNCHANGED <<doc, bindings, walk, outcome>>
  BY DEF EndOfList
<1>2. /\ doc' = doc /\ names' = names /\ regionNames' = regionNames /\ checked' = checked
      /\ diagnostics' = diagnostics /\ contract' = contract
  BY <1>1 DEF walk, outcome
<1>3. i \in 1..8 /\ phase \in AllLists /\ Rank(phase) = i
  BY <1>1, ListOrder
<1>4. /\ phase' \in Phases /\ phase' # "version" /\ Rank(phase') = i + 1
      /\ phase' \in AllLists => i < 8 /\ phase' = Lists[i + 1]
  <2>1. CASE i = 8
    BY <1>1, <2>1, ListOrder, RankValues DEF Phases, AllLists
  <2>2. CASE i # 8
    <3>1. phase' = Lists[i + 1] /\ i + 1 \in 1..8
      BY <1>1, <1>3, <2>2, ListOrder
    <3> QED BY <1>3, <2>2, <3>1, ListOrder DEF Phases, AllLists
  <2> QED BY <2>1, <2>2
<1>5. Len(Items(phase)) \in Nat /\ at = Len(Items(phase)) + 1
  BY <1>1, <1>3, ListsAreSequences DEF WalkInv, PlaceInv
<1>6. \A any : Items(any)' = Items(any)
  BY <1>2, ItemsStay
<1>7. PlaceInv'
  <2>1. ASSUME phase' \in AllLists PROVE Len(Items(phase))' \in Nat
    <3>1. Len(Items(Lists[i + 1])) \in Nat
      BY <1>4, <2>1, ListsAreSequences DEF WalkInv, PlaceInv
    <3>2. Len(Items(phase))' = Len(Items(Lists[i + 1]))
      BY <1>4, <1>6, <2>1
    <3> QED BY <3>1, <3>2
  <2> QED BY <1>1, <1>2, <1>4, <2>1 DEF WalkInv, PlaceInv
<1>8. ASSUME NEW list \in AllLists PROVE Seen(list)' = Seen(list)
  <2>1. Rank(list) \in 1..8 /\ (Rank(list) = i => list = phase) /\ (Rank(list) = i + 1 => list = phase')
    BY <1>3, <1>4, Ranks DEF Phases
  <2>2. list = phase => Rank(list) = i
    BY <1>3
  <2>3. list = phase' => Rank(list) = i + 1
    BY <1>4
  <2>4. CASE list = phase
    <3>1. Seen(list) = Len(Items(list))
      BY <1>3, <1>5, <2>4 DEF Seen
    <3>2. Seen(list)' = Len(Items(list))
      BY <1>3, <1>4, <1>6, <2>4 DEF Seen
    <3> QED BY <3>1, <3>2
  <2>5. CASE list = phase'
    <3>1. Seen(list) = 0
      BY <1>3, <1>4, <2>5 DEF Seen
    <3>2. Seen(list)' = 0
      BY <1>1, <1>4, <2>5 DEF Seen
    <3> QED BY <3>1, <3>2
  <2>6. CASE list # phase /\ list # phase'
    <3>1. Rank(phase) < Rank(list) <=> Rank(phase') < Rank(list)
      BY <1>3, <1>4, <2>1, <2>6
    <3> QED BY <1>6, <2>6, <3>1 DEF Seen
  <2> QED BY <2>4, <2>5, <2>6
<1>9. contract = None
  BY <1>3, Ranks DEF WalkInv, ContractInv
<1> QED BY <1>2, <1>7, <1>8, <1>9, NothingSeen DEF WalkInv, ContractInv


\* After the walk nothing that was seen changes.
LEMMA LateStep ==
    ASSUME WalkInv, phase \in {"conclude", "alias", "evaluate", "done"},
           phase' \in {"alias", "evaluate", "done"}, at' \in Nat \ {0},
           doc' = doc, names' = names, regionNames' = regionNames, checked' = checked,
           diagnostics' = diagnostics, ContractInv'
    PROVE  WalkInv'
<1>1. Rank(phase) > 8 /\ Rank(phase') > 8 /\ Rank(phase) \in Nat /\ Rank(phase') \in Nat
  BY RankValues
<1>2. phase \notin AllLists /\ phase' \notin AllLists /\ phase' # "version" /\ phase' \in Phases
  BY DEF AllLists, Phases
<1>3. PlaceInv'
  BY <1>2 DEF WalkInv, PlaceInv
<1>4. ASSUME NEW list \in AllLists PROVE Seen(list)' = Seen(list)
  <2>1. Rank(list) \in 1..8
    BY Ranks
  <2>2. Seen(list) = Len(Items(list))
    BY <1>1, <1>2, <2>1 DEF Seen
  <2>3. Items(list)' = Items(list)
    BY ItemsStay
  <2>4. phase' # list /\ ~(Rank(phase') < Rank(list))
    BY <1>1, <1>2, <2>1
  <2>5. Seen(list)' = Len(Items(list))
    BY <2>3, <2>4 DEF Seen
  <2> QED BY <2>2, <2>5
<1> QED BY <1>3, <1>4, NothingSeen DEF WalkInv

\* The invariant holds from the start and every step keeps it.
LEMMA WalkIsGood == Spec => []WalkInv
<1>1. ASSUME Init PROVE WalkInv
  <2>1. /\ phase = "version" /\ at = 1 /\ doc \in Contracts /\ names = {} /\ regionNames = {}
        /\ checked = [list \in KeptLists |-> <<>>] /\ contract = None
    BY <1>1, ListOrder DEF Init, KeptLists
  <2>2. PlaceInv
    BY <2>1 DEF PlaceInv, Phases, AllLists
  <2>3. \A list \in AllLists : Seen(list) = 0
    BY <2>1, Ranks, RankValues DEF Seen
  <2>4. /\ Seen("parameters") = 0 /\ Seen("returns") = 0 /\ Seen("requires") = 0 /\ Seen("ensures") = 0
        /\ Seen("regions") = 0 /\ Seen("relations") = 0
    BY <2>3 DEF AllLists
  <2>5. KeptInv
    BY <2>1, <2>3 DEF KeptInv, KeptLists
  <2>6. SeenNames("parameters") = {} /\ SeenNames("returns") = {} /\ SeenNames("regions") = {}
    BY <2>4 DEF SeenNames
  <2>7. NamesInv /\ DistinctInv /\ KnownInv /\ RegionInv /\ RelationInv
    BY <2>1, <2>4, <2>6 DEF NamesInv, DistinctInv, Distinct, KnownInv, Known, RegionInv, RelationInv
  <2> QED BY <2>1, <2>2, <2>5, <2>7 DEF WalkInv, GoodWalk, ContractInv
<1>2. ASSUME WalkInv, [Next]_vars PROVE WalkInv'
  <2>1. CASE CheckParameter \/ CheckReturn
    BY <1>2, <2>1, ParameterStep, ReturnStep
  <2>2. CASE CheckRequire \/ CheckEnsure
    BY <1>2, <2>2, ConditionStep DEF CheckRequire, CheckEnsure
  <2>3. CASE CheckEffect \/ CheckRegion \/ CheckRelation \/ CheckOverride
    BY <1>2, <2>3, EffectStep, RegionStep, RelationStep, OverrideStep
  <2>4. CASE CheckVersion \/ EndOfList
    BY <1>2, <2>4, VersionStep, EndStep
  <2>5. CASE Conclude
    <3>1. /\ phase = "conclude" /\ phase' \in {"alias", "done"} /\ at' = at /\ doc' = doc /\ names' = names
          /\ regionNames' = regionNames /\ checked' = checked /\ diagnostics' = diagnostics
      BY <2>5 DEF Conclude, walk
    <3>2. contract = None
      BY <1>2, <3>1, RankValues DEF WalkInv, ContractInv
    <3>3. ContractInv'
      <4>1. CASE diagnostics = {}
        <5>1. phase' = "alias" /\ contract' = Some(checked)
          BY <2>5, <4>1 DEF Conclude
        <5> QED BY <3>1, <4>1, <5>1, RankValues DEF ContractInv, Some
      <4>2. CASE diagnostics # {}
        BY <2>5, <3>2, <4>2 DEF Conclude, ContractInv
      <4> QED BY <4>1, <4>2
    <3>4. at \in Nat \ {0}
      BY <1>2 DEF WalkInv, PlaceInv
    <3> QED BY <1>2, <3>1, <3>3, <3>4, LateStep
  <2>6. CASE EvaluateAlias \/ EvaluateCondition \/ Aggregate
    <3>1. /\ phase \in {"alias", "evaluate"} /\ phase' \in {"evaluate", "done"} /\ at' \in {at, at + 1}
          /\ doc' = doc /\ names' = names /\ contract' = contract
          /\ regionNames' = regionNames /\ checked' = checked /\ diagnostics' = diagnostics
      BY <2>6 DEF EvaluateAlias, EvaluateCondition, Aggregate, walk
    <3>2. ContractInv'
      <4>1. Rank(phase') > 9
        BY <3>1, RankValues
      <4> QED BY <1>2, <3>1, <4>1 DEF WalkInv, ContractInv, Some
    <3>3. at' \in Nat \ {0}
      BY <1>2, <3>1 DEF WalkInv, PlaceInv
    <3> QED BY <1>2, <3>1, <3>2, <3>3, LateStep
  <2>7. CASE UNCHANGED vars
    <3>1. /\ phase' = phase /\ at' = at /\ doc' = doc /\ names' = names /\ regionNames' = regionNames
          /\ checked' = checked /\ diagnostics' = diagnostics /\ contract' = contract
      BY <2>7 DEF vars
    <3>2. \A any : Items(any)' = Items(any)
      BY <3>1, ItemsStay
    <3>3. \A list \in AllLists : Seen(list)' = Seen(list)
      BY <3>1, <3>2 DEF Seen
    <3>4. PlaceInv'
      <4>1. Len(Items(phase))' = Len(Items(phase))
        BY <3>1, <3>2
      <4> QED BY <1>2, <3>1, <4>1 DEF WalkInv, PlaceInv
    <3>5. ContractInv'
      BY <1>2, <3>1 DEF WalkInv, ContractInv, Some
    <3> QED BY <1>2, <3>1, <3>3, <3>4, <3>5, NothingSeen DEF WalkInv
  <2> QED BY <1>2, <2>1, <2>2, <2>3, <2>4, <2>5, <2>6, <2>7 DEF Next, Done
<1> QED BY <1>1, <1>2, PTL DEF Spec


-----------------------------------------------------------------------------
(* An accepted contract. *)

\* As many names as items: distinct names can be counted by their positions.
LEMMA NamesAreCounted ==
    ASSUME NEW s, NEW n \in Nat, Len(s) = n, DOMAIN s = 1..n,
           \A i, j \in 1..n : s[i].name = s[j].name => i = j
    PROVE  Cardinality({x.name : x \in Range(s)}) = Len(s)
<1> DEFINE S == {x.name : x \in Range(s)}
           f == [i \in 1..n |-> s[i].name]
<1>1. f \in [1..n -> S]
  BY DEF Range
<1>2. \A i, j \in 1..n : f[i] = f[j] => i = j
  OBVIOUS
<1>3. \A y \in S : \E i \in 1..n : f[i] = y
  BY DEF Range
<1>4. f \in Bijection(1..n, S)
  <2> HIDE DEF f, S
  <2> QED BY <1>1, <1>2, <1>3 DEF Bijection, Injection, Surjection, IsInjective
<1>5. ExistsBijection(1..n, S)
  BY <1>4 DEF ExistsBijection
<1> HIDE DEF S
<1>6. Cardinality(S) = n
  BY <1>5, FS_CountingElements
<1> QED BY <1>6 DEF S

\* An element of a concatenation is one of its parts'.
LEMMA ElementOfConcat ==
    ASSUME NEW U, NEW A \in Seq(U), NEW B \in Seq(U), NEW k \in DOMAIN (A \o B)
    PROVE  \/ \E i \in 1..Len(A) : (A \o B)[k] = A[i]
           \/ \E i \in 1..Len(B) : (A \o B)[k] = B[i]
<1>1. Len(A) \in Nat /\ Len(B) \in Nat /\ A \o B \in Seq(U)
  OBVIOUS
<1>2. Len(A \o B) = Len(A) + Len(B)
  OBVIOUS
<1>3. k \in 1..(Len(A) + Len(B))
  BY <1>1, <1>2
<1>4. CASE k <= Len(A)
  <2>1. k \in 1..Len(A) /\ (A \o B)[k] = A[k]
    BY <1>1, <1>3, <1>4
  <2> QED BY <2>1
<1>5. CASE ~(k <= Len(A))
  <2>1. k - Len(A) \in 1..Len(B)
    BY <1>1, <1>3, <1>5
  <2>2. (A \o B)[k] = B[k - Len(A)]
    BY <1>1, <1>3, <1>5
  <2> QED BY <2>1, <2>2
<1> QED BY <1>4, <1>5

\* The length of a checked region.
LEMMA CheckedLength ==
    \A r : CheckedRegion(r).length = IF r.length.t = "number" THEN Literal(r.length.n) ELSE Param(r.length.word)
BY DEF CheckedRegion

\* The fields of a LengthSpec.
LEMMA LengthFields ==
    /\ \A n : Literal(n).t = "literal" /\ Literal(n).n = n
    /\ \A name : Param(name).t = "param" /\ Param(name).name = name
BY DEF Literal, Param

\* A walk that reported nothing has accepted the whole document.
LEMMA AcceptedIsWhole ==
    ASSUME WalkInv, contract.some
    PROVE  AcceptedContractResolves
<1>1. contract # None
  BY DEF None
<1>2. contract = Some(checked) /\ diagnostics = {} /\ Rank(phase) > 9
  BY <1>1 DEF WalkInv, ContractInv
<1>3. contract.x = checked
  BY <1>2 DEF Some
<1>4. PlaceInv /\ GoodWalk
  BY <1>2 DEF WalkInv
<1>5. \A list \in AllLists : Seen(list) = Len(Items(list))
  <2>1. \A list \in AllLists : Rank(list) \in 1..8 /\ Rank(phase) \in 0..12
    BY <1>4, Ranks DEF PlaceInv
  <2> QED BY <1>2, <2>1 DEF Seen
<1>6. \A list \in AllLists : Len(Items(list)) \in Nat /\ DOMAIN Items(list) = 1..Len(Items(list))
  BY <1>4, ListsAreSequences DEF PlaceInv
<1>7. \A list \in KeptLists : list \in AllLists
  BY DEF KeptLists
<1>8. \A list \in KeptLists :
        /\ Len(checked[list]) = Len(Items(list)) /\ DOMAIN checked[list] = 1..Len(Items(list))
        /\ \A i \in 1..Len(Items(list)) : checked[list][i] = Image(list, Items(list)[i])
  <2> TAKE list \in KeptLists
  <2>1. /\ checked[list] \in Seq(Images(list)) /\ Len(checked[list]) = Len(Items(list))
        /\ \A i \in 1..Len(Items(list)) : checked[list][i] = Image(list, Items(list)[i])
    BY <1>4, <1>5, <1>7 DEF GoodWalk, KeptInv
  <2>2. DOMAIN checked[list] = 1..Len(checked[list])
    BY <2>1
  <2> QED BY <2>1, <2>2
<1>9. DOMAIN checked = KeptLists
  BY <1>4 DEF PlaceInv
<1>10. \A list \in DOMAIN checked : Len(contract.x[list]) = Len(Items(list))
  BY <1>3, <1>8, <1>9
<1>11. "parameters" \in KeptLists /\ "returns" \in KeptLists /\ "requires" \in KeptLists
       /\ "ensures" \in KeptLists /\ "regions" \in KeptLists /\ "relations" \in KeptLists
  BY DEF KeptLists, AllLists
<1>12. \A list \in KeptLists \ {"regions"} : \A i \in 1..Len(Items(list)) : checked[list][i] = Items(list)[i]
  BY <1>8 DEF Image
<1>13. \A i \in 1..Len(Items("regions")) :
          /\ checked.regions[i] = CheckedRegion(Items("regions")[i])
          /\ checked.regions[i].name = Items("regions")[i].name
          /\ checked.regions[i].base_param = Items("regions")[i].base
  BY <1>8, <1>11 DEF Image, CheckedRegion
<1>14. Cardinality(NamesOf("parameters")) = Len(contract.x.parameters)
  <2>1. \A i, j \in 1..Len(Items("parameters")) :
           checked.parameters[i].name = checked.parameters[j].name => i = j
    BY <1>4, <1>5, <1>7, <1>11, <1>12, SMTT(30) DEF GoodWalk, DistinctInv, Distinct
  <2> QED BY <1>3, <1>6, <1>7, <1>8, <1>11, <2>1, NamesAreCounted DEF NamesOf
<1>15. Cardinality(NamesOf("regions")) = Len(contract.x.regions)
  <2>1. \A i, j \in 1..Len(Items("regions")) :
           checked.regions[i].name = checked.regions[j].name => i = j
    BY <1>4, <1>5, <1>7, <1>11, <1>13 DEF GoodWalk, DistinctInv, Distinct
  <2> QED BY <1>3, <1>6, <1>7, <1>8, <1>11, <2>1, NamesAreCounted DEF NamesOf
<1>16. \A list \in {"parameters", "returns", "regions"} : NamesOf(list) = SeenNames(list)
  <2> TAKE list \in {"parameters", "returns", "regions"}
  <2>1. \A i \in 1..Len(Items(list)) : checked[list][i].name = Items(list)[i].name
    BY <1>11, <1>12, <1>13
  <2>2. Range(checked[list]) = {checked[list][i] : i \in 1..Len(Items(list))}
    BY <1>8, <1>11 DEF Range
  <2>3. Seen(list) = Len(Items(list))
    BY <1>5, <1>7, <1>11
  <2> QED BY <1>3, <2>1, <2>2, <2>3 DEF NamesOf, SeenNames
<1>17. \A e \in Range(conditions) :
          free_idents(e) \subseteq NamesOf("parameters") \cup NamesOf("returns") \cup NamesOf("regions") \cup {"regions"}
  <2>1. expr_names = NamesOf("parameters") \cup NamesOf("returns") \cup NamesOf("regions") \cup {"regions"}
    <3>1. names = NamesOf("parameters") \cup NamesOf("returns")
      BY <1>4, <1>16 DEF GoodWalk, NamesInv
    <3>2. {r.name : r \in Range(Items("regions"))} = SeenNames("regions")
      BY <1>5, <1>6, <1>7, <1>11 DEF Range, SeenNames
    <3> QED BY <1>16, <3>1, <3>2 DEF expr_names
  <2>2. \A list \in {"requires", "ensures"} : \A i \in 1..Len(Items(list)) :
           free_idents(checked[list][i]) \subseteq expr_names
    BY <1>4, <1>5, <1>7, <1>11, <1>12 DEF GoodWalk, KnownInv, Known
  <2>3. /\ checked.requires \in Seq(Images("requires")) /\ Len(checked.requires) = Len(Items("requires"))
        /\ checked.ensures \in Seq(Images("ensures")) /\ Len(checked.ensures) = Len(Items("ensures"))
    BY <1>4, <1>8, <1>11 DEF GoodWalk, KeptInv
  <2>4. ASSUME NEW k \in DOMAIN conditions
        PROVE  free_idents(conditions[k]) \subseteq expr_names
    <3>1. conditions = checked.requires \o checked.ensures
      BY <1>3 DEF conditions
    <3>2. \/ \E i \in 1..Len(checked.requires) : conditions[k] = checked.requires[i]
          \/ \E i \in 1..Len(checked.ensures) : conditions[k] = checked.ensures[i]
      <4>1. /\ checked.requires \in Seq(Images("requires") \cup Images("ensures"))
            /\ checked.ensures \in Seq(Images("requires") \cup Images("ensures"))
        BY <2>3
      <4> QED BY <3>1, <4>1, ElementOfConcat
    <3> QED BY <2>2, <2>3, <3>2
  <2> QED BY <2>1, <2>4 DEF Range
<1>18. \A r \in Range(contract.x.regions) :
          r.base_param \in OfType("ptr") /\ (r.length.t = "param" => r.length.name \in OfType("int"))
  <2>1. ASSUME NEW name, NEW type, Declared(name, type) PROVE name \in OfType(type)
    <3>1. PICK i \in 1..Len(Items("parameters")) :
             Items("parameters")[i].name = name /\ Items("parameters")[i].type = type
      BY <1>5, <1>7, <1>11, <2>1 DEF Declared
    <3>2. checked.parameters[i] = Items("parameters")[i] /\ checked.parameters[i] \in Range(checked.parameters)
      BY <1>8, <1>11, <1>12 DEF Range
    <3> QED BY <1>3, <3>1, <3>2 DEF OfType
  <2>2. ASSUME NEW i \in 1..Len(Items("regions"))
        PROVE  LET r == checked.regions[i] IN
               r.base_param \in OfType("ptr") /\ (r.length.t = "param" => r.length.name \in OfType("int"))
    <3> DEFINE d == Items("regions")[i]
    <3>1. Declared(d.base, "ptr") /\ (d.length.t # "number" => Declared(d.length.word, "int"))
      BY <1>4, <1>5, <1>7, <1>11 DEF GoodWalk, RegionInv
    <3>2. checked.regions[i].length = IF d.length.t = "number" THEN Literal(d.length.n) ELSE Param(d.length.word)
      BY <1>13, CheckedLength
    <3>3. checked.regions[i].length.t = "param" =>
             d.length.t # "number" /\ checked.regions[i].length.name = d.length.word
      BY <3>2, LengthFields
    <3> QED BY <1>13, <2>1, <3>1, <3>3
  <2>3. \A r \in Range(contract.x.regions) : \E i \in 1..Len(Items("regions")) : r = checked.regions[i]
    BY <1>3, <1>8, <1>11 DEF Range
  <2> QED BY <2>2, <2>3
<1>19. \A rel \in Range(contract.x.relations) : {rel.left, rel.right} \subseteq NamesOf("regions")
  <2>1. \A i \in 1..Len(Items("relations")) :
           {checked.relations[i].left, checked.relations[i].right} \subseteq NamesOf("regions")
    BY <1>4, <1>5, <1>7, <1>11, <1>12, <1>16 DEF GoodWalk, RelationInv, NamesInv
  <2>2. \A r \in Range(contract.x.relations) : \E i \in 1..Len(Items("relations")) : r = checked.relations[i]
    BY <1>3, <1>8, <1>11 DEF Range
  <2> QED BY <2>1, <2>2
<1> QED BY <1>10, <1>14, <1>15, <1>17, <1>18, <1>19 DEF AcceptedContractResolves

\* AcceptedContractResolves, for every document: validate_document accepts a
\* contract only as a whole, and then every name in it resolves.
THEOREM AcceptedResolves == Spec => []AcceptedContractResolves
<1>1. WalkInv => AcceptedContractResolves
  BY AcceptedIsWhole DEF AcceptedContractResolves
<1> QED BY <1>1, WalkIsGood, PTL

-----------------------------------------------------------------------------
(* Expressions: recursive functions over their nodes, and induction. *)

\* A set of natural numbers has a least element.
LEMMA Least ==
    ASSUME NEW T, T \subseteq Nat, T # {}
    PROVE  \E x \in T : \A y \in T : x <= y
<1> DEFINE R == OpToRel(<, Nat)
<1>1. IsWellFoundedOn(R, Nat)
  BY NatLessThanWellFounded, Zenon
<1>2. \A x, y \in Nat : y < x => <<y, x>> \in R
  BY DEF OpToRel
<1> HIDE DEF R
<1>3. PICK x \in T : \A y \in T : ~(<<y, x>> \in R)
  BY <1>1, WFMin
<1>4. ASSUME NEW y \in T PROVE x <= y
  <2>1. x \in Nat /\ y \in Nat
    OBVIOUS
  <2>2. ~(y < x)
    BY <2>1, <1>2, <1>3, Zenon
  <2> QED BY <2>1, <2>2
<1> QED BY <1>4

\* What holds of a node when it holds of the nodes before it holds of all.
LEMMA NodeInduction ==
    ASSUME NEW n \in Nat, NEW S, \A i \in 1..n : 1..(i - 1) \subseteq S => i \in S
    PROVE  1..n \subseteq S
<1> DEFINE T == {i \in 1..n : i \notin S}
<1> SUFFICES ASSUME T # {} PROVE FALSE
  OBVIOUS
<1>1. T \subseteq Nat
  OBVIOUS
<1>2. PICK x \in T : \A y \in T : x <= y
  BY <1>1, Least
<1>3. x \in 1..n /\ x \notin S
  OBVIOUS
<1>4. ASSUME NEW j \in 1..(x - 1) PROVE j \in S
  <2>1. j \in 1..n /\ ~(x <= j)
    BY <1>3
  <2> QED BY <1>2, <2>1
<1>5. 1..(x - 1) \subseteq S
  BY <1>4
<1> QED BY <1>3, <1>5

\* G[i][g] is the value at i from the values g before it.
Causal(n, V, G) ==
    /\ \A i \in 1..n : \A g \in [1..n -> V] : G[i][g] \in V
    /\ \A i \in 1..n : \A g, h \in [1..n -> V] :
          (\A j \in 1..(i - 1) : g[j] = h[j]) => G[i][g] = G[i][h]

Iterates(n, V, G, f) == f \in [1..n -> V] /\ \A i \in 1..n : f[i] = G[i][f]

\* A step that looks only at the nodes before it can be iterated.
LEMMA Iteration ==
    ASSUME NEW n \in Nat, NEW V, V # {}, NEW G, Causal(n, V, G)
    PROVE  \E f : Iterates(n, V, G, f)
<1> DEFINE Upto(m, f) == \A i \in 1..m : f[i] = G[i][f]
           T == {m \in 0..n : ~ \E f \in [1..n -> V] : Upto(m, f)}
<1>1. CASE T = {}
  <2>1. n \in 0..n
    OBVIOUS
  <2> HIDE DEF Upto
  <2>2. \E f \in [1..n -> V] : Upto(n, f)
    BY <1>1, <2>1
  <2> QED BY <2>2 DEF Upto, Iterates
<1>2. CASE T # {}
  <2>1. T \subseteq Nat
    OBVIOUS
  <2>2. PICK x \in T : \A y \in T : x <= y
    BY <1>2, <2>1, Least
  <2>3. x \in 0..n /\ ~ \E f \in [1..n -> V] : Upto(x, f)
    OBVIOUS
  <2>4. x # 0
    <3> SUFFICES ASSUME x = 0 PROVE FALSE
      OBVIOUS
    <3>1. PICK v \in V : TRUE
      OBVIOUS
    <3>2. [i \in 1..n |-> v] \in [1..n -> V] /\ Upto(0, [i \in 1..n |-> v])
      OBVIOUS
    <3> QED BY <2>3, <3>2
  <2>5. x - 1 \in 0..n /\ x \in 1..n /\ ~(x <= x - 1)
    BY <2>3, <2>4
  <2> HIDE DEF Upto
  <2>6. PICK f \in [1..n -> V] : Upto(x - 1, f)
    BY <2>2, <2>5
  <2> DEFINE h == [f EXCEPT ![x] = G[x][f]]
  <2>7. h \in [1..n -> V] /\ h[x] = G[x][f] /\ \A j \in 1..(x - 1) : h[j] = f[j]
    BY <2>5 DEF Causal
  <2> HIDE DEF h
  <2>8. ASSUME NEW i \in 1..x PROVE h[i] = G[i][h]
    <3>1. i \in 1..n /\ \A j \in 1..(i - 1) : j \in 1..(x - 1)
      BY <2>5
    <3>2. G[i][h] = G[i][f]
      BY <2>7, <3>1 DEF Causal
    <3>3. CASE i = x
      BY <2>7, <3>2, <3>3
    <3>4. CASE i # x
      <4>1. i \in 1..(x - 1)
        BY <2>5, <3>4
      <4> QED BY <2>6, <2>7, <3>2, <4>1 DEF Upto
    <3> QED BY <3>3, <3>4
  <2> QED BY <2>3, <2>7, <2>8 DEF Upto
<1> QED BY <1>1, <1>2

\* The operands of a node stand before it.
LEMMA KidsBefore ==
    ASSUME NEW e, Parsed(e), NEW i \in DOMAIN e
    PROVE  /\ Len(e) \in Nat /\ DOMAIN e = 1..Len(e) /\ i \in 1..Len(e)
           /\ Range(e[i].kids) \subseteq 1..(i - 1) /\ 1..(i - 1) \subseteq DOMAIN e
           /\ e[i].op \in {"not", "and", "or", "implies", "cmp"} =>
                 e[i].kids[1] \in Range(e[i].kids)
           /\ e[i].op \in {"and", "or", "implies", "cmp"} =>
                 e[i].kids[2] \in Range(e[i].kids) /\ Range(e[i].kids) = {e[i].kids[1], e[i].kids[2]}
<1>1. /\ Len(e) \in Nat /\ DOMAIN e = 1..Len(e) /\ e[i].kids \in Seq(1..(i - 1))
      /\ e[i].op = "not" => Len(e[i].kids) = 1
      /\ e[i].op \in {"and", "or", "implies", "cmp"} => Len(e[i].kids) = 2
  BY DEF Parsed
<1>2. DOMAIN e[i].kids = 1..Len(e[i].kids) /\ \A k \in DOMAIN e[i].kids : e[i].kids[k] \in 1..(i - 1)
  BY <1>1
<1>3. i \in 1..Len(e) /\ 1..(i - 1) \subseteq DOMAIN e
  BY <1>1
<1>4. Range(e[i].kids) \subseteq 1..(i - 1)
  BY <1>2 DEF Range
<1>5. e[i].op \in {"not", "and", "or", "implies", "cmp"} => 1 \in DOMAIN e[i].kids
  <2>1. 1 \in 1..1 /\ 1 \in 1..2
    OBVIOUS
  <2> QED BY <1>1, <1>2, <2>1, Zenon
<1>6. e[i].op \in {"and", "or", "implies", "cmp"} => DOMAIN e[i].kids = {1, 2}
  <2>1. 1..2 = {1, 2}
    OBVIOUS
  <2> QED BY <1>1, <1>2, <2>1, Zenon
<1> QED BY <1>1, <1>3, <1>4, <1>5, <1>6, Zenon DEF Range

\* contains_region_atom satisfies its recursion.
LEMMA HasAtom ==
    ASSUME NEW e, Parsed(e)
    PROVE  \A i \in DOMAIN e :
               contains_region_atom(e)[i] = \/ e[i].op \in {"atom", "regions_call"}
                                            \/ \E k \in Range(e[i].kids) : contains_region_atom(e)[k]
<1> DEFINE n == Len(e)
           V == BOOLEAN
           F(g) == [i \in DOMAIN e |-> \/ e[i].op \in {"atom", "regions_call"}
                                       \/ \E k \in Range(e[i].kids) : g[k]]
           G == [i \in 1..n |-> [g \in [1..n -> V] |-> F(g)[i]]]
<1>1. n \in Nat /\ DOMAIN e = 1..n
  BY DEF Parsed
<1>2. ASSUME NEW i \in 1..n, NEW g \in [1..n -> V] PROVE G[i][g] = F(g)[i] /\ G[i][g] \in V
  BY <1>1
<1>3. ASSUME NEW i \in 1..n, NEW g \in [1..n -> V], NEW h \in [1..n -> V],
             \A j \in 1..(i - 1) : g[j] = h[j]
      PROVE  G[i][g] = G[i][h]
  <2>1. Range(e[i].kids) \subseteq 1..(i - 1)
    BY <1>1, KidsBefore
  <2>2. F(g)[i] = F(h)[i]
    BY <1>1, <1>3, <2>1
  <2> QED BY <1>2, <2>2
<1> HIDE DEF G, n
<1>4. PICK f : Iterates(n, V, G, f)
  <2>1. Causal(n, V, G)
    BY <1>2, <1>3 DEF Causal
  <2>2. V # {}
    OBVIOUS
  <2> HIDE DEF V
  <2> QED BY <1>1, <2>1, <2>2, Iteration
<1>5. f = F(f)
  <2>1. \A i \in 1..n : f[i] = F(f)[i]
    BY <1>2, <1>4 DEF Iterates
  <2> QED BY <1>1, <1>4, <2>1 DEF Iterates
<1>6. contains_region_atom(e) = CHOOSE g : g = F(g)
  BY Zenon DEF contains_region_atom
<1>7. PICK g : contains_region_atom(e) = g /\ g = F(g)
  BY <1>5, <1>6, Zenon
<1>8. ASSUME NEW i \in DOMAIN e PROVE g[i] = F(g)[i]
  BY <1>7, Zenon
<1> QED BY <1>7, <1>8, Zenon

\* Below satisfies its recursion.
LEMMA BelowNode ==
    ASSUME NEW e, Parsed(e)
    PROVE  \A i \in DOMAIN e : \A j :
               j \in Below(e)[i] <=> j = i \/ \E k \in Range(e[i].kids) : j \in Below(e)[k]
<1> DEFINE n == Len(e)
           V == SUBSET (1..Len(e))
           F(g) == [i \in DOMAIN e |-> {i} \cup UNION {g[k] : k \in Range(e[i].kids)}]
           G == [i \in 1..n |-> [g \in [1..n -> V] |-> F(g)[i]]]
<1>1. n \in Nat /\ DOMAIN e = 1..n
  BY DEF Parsed
<1>2. ASSUME NEW i \in 1..n, NEW g \in [1..n -> V] PROVE G[i][g] = F(g)[i] /\ G[i][g] \in V
  <2>1. Range(e[i].kids) \subseteq 1..n
    BY <1>1, KidsBefore, Zenon
  <2>2. \A k \in Range(e[i].kids) : g[k] \subseteq 1..n
    BY <2>1
  <2>3. F(g)[i] \subseteq 1..n
    BY <1>1, <2>2
  <2> QED BY <2>3
<1>3. ASSUME NEW i \in 1..n, NEW g \in [1..n -> V], NEW h \in [1..n -> V],
             \A j \in 1..(i - 1) : g[j] = h[j]
      PROVE  G[i][g] = G[i][h]
  <2>1. Range(e[i].kids) \subseteq 1..(i - 1)
    BY <1>1, KidsBefore
  <2>2. {g[k] : k \in Range(e[i].kids)} = {h[k] : k \in Range(e[i].kids)}
    BY <1>3, <2>1
  <2>3. F(g)[i] = F(h)[i]
    BY <1>1, <2>2, Zenon
  <2> QED BY <1>2, <2>3
<1> HIDE DEF G, n
<1>4. PICK f : Iterates(n, V, G, f)
  <2>1. Causal(n, V, G)
    BY <1>2, <1>3 DEF Causal
  <2>2. V # {}
    OBVIOUS
  <2> HIDE DEF V
  <2> QED BY <1>1, <2>1, <2>2, Iteration
<1>5. f = F(f)
  <2>1. \A i \in 1..n : f[i] = F(f)[i]
    BY <1>2, <1>4 DEF Iterates
  <2> QED BY <1>1, <1>4, <2>1 DEF Iterates
<1>6. Below(e) = CHOOSE g : g = F(g)
  BY Zenon DEF Below
<1>7. PICK g : Below(e) = g /\ g = F(g)
  BY <1>5, <1>6, Zenon
<1>8. ASSUME NEW i \in DOMAIN e PROVE g[i] = {i} \cup UNION {g[k] : k \in Range(e[i].kids)}
  BY <1>7
<1>9. ASSUME NEW i \in DOMAIN e, NEW j
      PROVE  j \in g[i] <=> j = i \/ \E k \in Range(e[i].kids) : j \in g[k]
  BY <1>8
<1> QED BY <1>7, <1>9

\* The nodes below a node include it and the nodes below its operands.
LEMMA BelowFacts ==
    ASSUME NEW e, Parsed(e), NEW i \in DOMAIN e
    PROVE  i \in Below(e)[i] /\ \A k \in Range(e[i].kids) : Below(e)[k] \subseteq Below(e)[i]
BY BelowNode

Judgement == {"proven_true", "true_under_precondition", "proven_false", "incomplete", "not_evaluated"}

\* Every node gets a judgement, if its operands have one.
LEMMA NodeJudgement ==
    ASSUME NEW e, Parsed(e), NEW i \in DOMAIN e, NEW force \in BOOLEAN, NEW rels, NEW al, NEW bs,
           NEW ev \in [DOMAIN e -> [BOOLEAN -> Judgement]]
    PROVE  eval_node(e, rels, al, bs, ev, i, force) \in Judgement
<1> DEFINE some == force \/ contains_region_atom(e)[i]
           l == ev[e[i].kids[1]]
           r == ev[e[i].kids[2]]
           v == eval_node(e, rels, al, bs, ev, i, force)
<1>1. /\ e[i].op \in {"not", "and", "or", "implies"} => l \in [BOOLEAN -> Judgement]
      /\ e[i].op \in {"and", "or", "implies"} => r \in [BOOLEAN -> Judgement]
  <2>1. /\ e[i].op \in {"not", "and", "or", "implies"} => e[i].kids[1] \in DOMAIN e
        /\ e[i].op \in {"and", "or", "implies"} => e[i].kids[2] \in DOMAIN e
    BY KidsBefore
  <2> QED BY <2>1
<1>2. some \in BOOLEAN
  OBVIOUS
<1> HIDE DEF l, r, some, v
<1>3. /\ \A b : Proven(b) \in Judgement
      /\ \A b : skip_or_incomplete(b) \in Judgement
      /\ \A a, b, c, d : eval_cmp(a, b, c, d) \in Judgement
  BY DEF Proven, skip_or_incomplete, eval_cmp, Judgement
<1>4. \A a, b, c : eval_call(a, b, c) \in Judgement
  <2>1. \A a, b, c, d : judge_require(a, b, c, d) \in Judgement
    BY DEF judge_require, Judgement
  <2> QED BY <2>1, Zenon DEF eval_call, Judgement
<1>5. CASE e[i].op = "not"
  <2>1. v = eval_not(l[force])
    BY <1>5 DEF eval_node, v, l
  <2>2. l[force] \in Judgement
    BY <1>1, <1>5
  <2> QED BY <2>1, <2>2 DEF eval_not, Judgement, v
<1>6. CASE e[i].op = "and"
  <2>1. v = eval_and(l[some], r[some], some)
    BY <1>6 DEF eval_node, v, l, r, some
  <2>2. l[some] \in Judgement /\ r[some] \in Judgement
    BY <1>1, <1>2, <1>6
  <2> QED BY <2>1, <2>2 DEF eval_and, After, True, Judgement, v
<1>7. CASE e[i].op = "or"
  <2>1. v = eval_or(l[some], r[some], some)
    BY <1>7 DEF eval_node, v, l, r, some
  <2>2. l[some] \in Judgement /\ r[some] \in Judgement
    BY <1>1, <1>2, <1>7
  <2> QED BY <2>1, <2>2 DEF eval_or, True, Judgement, v
<1>8. CASE e[i].op = "implies"
  <2>1. v = eval_implies(l[force], r[TRUE], some)
    BY <1>8 DEF eval_node, v, l, r, some
  <2>2. l[force] \in Judgement /\ r[TRUE] \in Judgement
    BY <1>1, <1>8
  <2> QED BY <2>1, <2>2 DEF eval_implies, After, True, Judgement, v
<1>9. CASE e[i].op \notin {"not", "and", "or", "implies"}
  <2>1. e[i].op \in {"bool", "int", "ident", "cmp", "neg", "arith", "atom", "regions_call", "call", "construct"}
    BY <1>9 DEF Parsed
  <2>2. "incomplete" \in Judgement
    BY DEF Judgement
  <2> QED BY <1>3, <1>4, <2>1, <2>2 DEF eval_node, v
<1> QED BY <1>5, <1>6, <1>7, <1>8, <1>9 DEF v

\* A judgement rests on those of the operands only.
LEMMA NodeIsLocal ==
    ASSUME NEW e, Parsed(e), NEW i \in DOMAIN e, NEW force \in BOOLEAN, NEW rels, NEW al, NEW bs, NEW ev, NEW ew,
           \A k \in Range(e[i].kids) : ev[k] = ew[k]
    PROVE  eval_node(e, rels, al, bs, ev, i, force) = eval_node(e, rels, al, bs, ew, i, force)
<1> DEFINE l == e[i].kids[1]
           r == e[i].kids[2]
<1>1. /\ e[i].op \in {"not", "and", "or", "implies"} => ev[l] = ew[l]
      /\ e[i].op \in {"and", "or", "implies"} => ev[r] = ew[r]
  BY KidsBefore
<1>2. e[i].op \in {"bool", "int", "ident", "not", "and", "or", "implies", "cmp", "neg", "arith", "atom",
                  "regions_call", "call", "construct"}
  BY DEF Parsed
<1> QED BY <1>1, <1>2 DEF eval_node

\* Judgements satisfies its recursion, and its values are judgements.
LEMMA EveryJudgement ==
    ASSUME NEW e, Parsed(e), NEW rels, NEW al, NEW bs
    PROVE  /\ Judgements(e, rels, al, bs) \in [DOMAIN e -> [BOOLEAN -> Judgement]]
           /\ \A i \in DOMAIN e : \A force \in BOOLEAN :
                 Judgements(e, rels, al, bs)[i][force] =
                     eval_node(e, rels, al, bs, Judgements(e, rels, al, bs), i, force)
<1> DEFINE n == Len(e)
           V == [BOOLEAN -> Judgement]
           N(g, i, force) == eval_node(e, rels, al, bs, g, i, force)
           F(g) == [i \in DOMAIN e |-> [force \in BOOLEAN |-> N(g, i, force)]]
           G == [i \in 1..n |-> [g \in [1..n -> V] |-> F(g)[i]]]
<1>1. n \in Nat /\ DOMAIN e = 1..n
  BY DEF Parsed
<1>2. ASSUME NEW i \in 1..n, NEW g \in [1..n -> V] PROVE G[i][g] = F(g)[i] /\ G[i][g] \in V
  <2>1. \A force \in BOOLEAN : N(g, i, force) \in Judgement
    BY <1>1, NodeJudgement
  <2> HIDE DEF N
  <2>2. F(g)[i] \in V
    BY <1>1, <2>1
  <2> QED BY <2>2
<1>3. ASSUME NEW i \in 1..n, NEW g \in [1..n -> V], NEW h \in [1..n -> V],
             \A j \in 1..(i - 1) : g[j] = h[j]
      PROVE  G[i][g] = G[i][h]
  <2>1. \A k \in Range(e[i].kids) : g[k] = h[k]
    BY <1>1, <1>3, KidsBefore
  <2>2. \A force \in BOOLEAN : N(g, i, force) = N(h, i, force)
    <3>1. i \in DOMAIN e
      BY <1>1
    <3> QED BY <2>1, <3>1, NodeIsLocal
  <2> HIDE DEF N
  <2>3. F(g)[i] = F(h)[i]
    BY <1>1, <2>2
  <2> QED BY <1>2, <2>3
<1> HIDE DEF G, n, N
<1>4. PICK f : Iterates(n, V, G, f)
  <2>1. Causal(n, V, G)
    BY <1>2, <1>3 DEF Causal
  <2>2. V # {}
    <3>1. "incomplete" \in Judgement
      BY DEF Judgement
    <3>2. [b \in BOOLEAN |-> "incomplete"] \in V
      BY <3>1
    <3> QED BY <3>2
  <2> HIDE DEF V
  <2> QED BY <1>1, <2>1, <2>2, Iteration
<1>5. f = F(f)
  <2>1. \A i \in 1..n : f[i] = F(f)[i]
    BY <1>2, <1>4 DEF Iterates
  <2> QED BY <1>1, <1>4, <2>1 DEF Iterates
<1>6. Judgements(e, rels, al, bs) = CHOOSE g : g = F(g)
  BY Zenon DEF Judgements, N
<1>7. PICK g : Judgements(e, rels, al, bs) = g /\ g = F(g)
  BY <1>5, <1>6, Zenon
<1>8. ASSUME NEW i \in DOMAIN e PROVE g[i] = [force \in BOOLEAN |-> N(g, i, force)]
  BY <1>7
<1>9. g \in [DOMAIN e -> V]
  <2> DEFINE S == {i \in DOMAIN e : g[i] \in V}
  <2>1. ASSUME NEW i \in 1..n, 1..(i - 1) \subseteq S PROVE i \in S
    \* The nodes from i on may have any value: they are not looked at.
    <3> DEFINE v0 == [b \in BOOLEAN |-> "incomplete"]
               h == [j \in DOMAIN e |-> IF j \in 1..(i - 1) THEN g[j] ELSE v0]
    <3>1. h \in [DOMAIN e -> V]
      <4>1. v0 \in V
        BY DEF Judgement
      <4> HIDE DEF v0
      <4> QED BY <2>1, <4>1
    <3>2. \A j \in 1..(i - 1) : h[j] = g[j]
      BY <1>1
    <3>3. i \in DOMAIN e
      BY <1>1
    <3> HIDE DEF h
    <3>4. \A k \in Range(e[i].kids) : g[k] = h[k]
      BY <3>2, <3>3, KidsBefore
    <3>5. \A force \in BOOLEAN : N(h, i, force) \in Judgement
      BY <3>1, <3>3, NodeJudgement DEF N
    <3>6. \A force \in BOOLEAN : N(g, i, force) = N(h, i, force)
      BY <3>3, <3>4, NodeIsLocal DEF N
    <3> QED BY <1>8, <3>3, <3>5, <3>6
  <2> HIDE DEF S
  <2>2. 1..n \subseteq S
    BY <1>1, <2>1, NodeInduction
  <2> QED BY <1>1, <1>7, <2>2 DEF S
<1> QED BY <1>7, <1>8, <1>9 DEF N

\* The integers of a call are integers.
LEMMA IntTyped ==
    ASSUME NEW e, Parsed(e), NEW call \in Calls(e), NEW i \in DOMAIN e, IntOf(call, e[i]) # <<>>
    PROVE  IntOf(call, e[i])[1] \in Int
<1>1. call.int \in [OfType("int") \cup DOMAIN bindings.ints -> Scalars]
  BY DEF Calls
<1>2. CASE e[i].op = "int"
  <2>1. e[i].n \in Int
    BY <1>2 DEF Parsed
  <2> QED BY <1>2, <2>1 DEF IntOf
<1>3. CASE e[i].op = "ident" /\ e[i].name \in DOMAIN call.int
  <2>1. call.int[e[i].name] \in Int
    BY <1>1, <1>3, ContractAssumption
  <2> QED BY <1>3, <2>1 DEF IntOf
<1>4. CASE e[i].op # "int" /\ ~(e[i].op = "ident" /\ e[i].name \in DOMAIN call.int)
  BY <1>4, Zenon DEF IntOf
<1> QED BY <1>2, <1>3, <1>4, Zenon

\* A node is true or false.
LEMMA TruthTyped ==
    ASSUME NEW e, Parsed(e), bindings \in BindingSets, NEW call \in Calls(e), NEW holds, NEW i \in DOMAIN e
    PROVE  TruthOf(call, e, holds, i) \in BOOLEAN
<1> DEFINE l == e[i].kids[1]
           r == e[i].kids[2]
           v == TruthOf(call, e, holds, i)
<1>1. CASE e[i].op = "bool"
  <2>1. e[i].v \in BOOLEAN
    BY <1>1 DEF Parsed
  <2> QED BY <1>1, <2>1 DEF TruthOf
<1>2. CASE e[i].op = "ident" /\ e[i].name \in DOMAIN bindings.bools
  <2>1. bindings.bools[e[i].name] \in BOOLEAN
    BY <1>2, BindingAssumption
  <2>2. v = bindings.bools[e[i].name]
    BY <1>2 DEF TruthOf
  <2> QED BY <2>1, <2>2, Zenon
<1>3. CASE e[i].op \in {"int", "not", "and", "or", "implies"}
  BY <1>3 DEF TruthOf
<1>4. CASE e[i].op = "cmp" /\ IntOf(call, e[l]) # <<>> /\ IntOf(call, e[r]) # <<>>
  <2>1. v = Compare(e[i].rel, IntOf(call, e[l])[1], IntOf(call, e[r])[1])
    BY <1>4 DEF TruthOf
  <2>2. e[i].rel \in {"==", "!=", "<", "<=", ">", ">="}
    BY <1>4 DEF Parsed
  <2>3. Compare(e[i].rel, IntOf(call, e[l])[1], IntOf(call, e[r])[1]) \in BOOLEAN
    <3>1. ASSUME NEW a \in Int, NEW b \in Int, NEW rel \in {"==", "!=", "<", "<=", ">", ">="}
          PROVE  Compare(rel, a, b) \in BOOLEAN
      <4>1. CASE rel = "=="
        BY <4>1 DEF Compare
      <4>2. CASE rel = "!="
        BY <4>2 DEF Compare
      <4>3. CASE rel = "<"
        BY <4>3 DEF Compare
      <4>4. CASE rel = "<="
        BY <4>4 DEF Compare
      <4>5. CASE rel = ">"
        BY <4>5 DEF Compare
      <4>6. CASE rel = ">="
        BY <4>6 DEF Compare
      <4> QED BY <4>1, <4>2, <4>3, <4>4, <4>5, <4>6
    <3>2. l \in DOMAIN e /\ r \in DOMAIN e
      BY <1>4, KidsBefore
    <3>3. IntOf(call, e[l])[1] \in Int /\ IntOf(call, e[r])[1] \in Int
      BY <1>4, <3>2, IntTyped
    <3> QED BY <2>2, <3>1, <3>3, Zenon
  <2> QED BY <2>1, <2>3, Zenon
<1>5. CASE e[i].op = "atom" /\ {e[i].left, e[i].right} \subseteq NamesOf("regions")
  <2>1. v = Related(call, e[i].pred, e[i].left, e[i].right)
    BY <1>5 DEF TruthOf
  <2>2. e[i].pred \in {"disjoint", "equal", "contains"}
    BY <1>5 DEF Parsed
  <2>3. Related(call, e[i].pred, e[i].left, e[i].right) \in BOOLEAN
    BY <2>2, Zenon DEF Related
  <2> QED BY <2>1, <2>3, Zenon
<1>6. CASE /\ e[i].op \notin {"bool", "int", "not", "and", "or", "implies"}
           /\ ~(e[i].op = "ident" /\ e[i].name \in DOMAIN bindings.bools)
           /\ ~(e[i].op = "cmp" /\ IntOf(call, e[l]) # <<>> /\ IntOf(call, e[r]) # <<>>)
           /\ ~(e[i].op = "atom" /\ {e[i].left, e[i].right} \subseteq NamesOf("regions"))
  <2>1. v = call.other[i]
    BY <1>6, Zenon DEF TruthOf
  <2>2. i \in {k \in DOMAIN e : e[k].op \notin {"bool", "int", "not", "and", "or", "implies"}}
    BY <1>6
  <2>3. call.other \in [{k \in DOMAIN e : e[k].op \notin {"bool", "int", "not", "and", "or", "implies"}} -> BOOLEAN]
    BY DEF Calls
  <2>4. call.other[i] \in BOOLEAN
    BY <2>2, <2>3
  <2> QED BY <2>1, <2>4, Zenon
<1> QED BY <1>1, <1>2, <1>3, <1>4, <1>5, <1>6, Zenon

\* The truth of a node rests on that of its operands only.
LEMMA TruthIsLocal ==
    ASSUME NEW e, Parsed(e), NEW call, NEW i \in DOMAIN e, NEW g, NEW h,
           \A k \in Range(e[i].kids) : g[k] = h[k]
    PROVE  TruthOf(call, e, g, i) = TruthOf(call, e, h, i)
<1> DEFINE l == e[i].kids[1]
           r == e[i].kids[2]
<1>1. /\ e[i].op \in {"not", "and", "or", "implies"} => g[l] = h[l]
      /\ e[i].op \in {"and", "or", "implies"} => g[r] = h[r]
  BY KidsBefore
<1>2. CASE e[i].op \in {"not", "and", "or", "implies"}
  BY <1>1, <1>2 DEF TruthOf
<1>3. CASE e[i].op \notin {"not", "and", "or", "implies"}
  BY <1>3 DEF TruthOf
<1> QED BY <1>2, <1>3

\* Truth satisfies its recursion, and every node is true or false.
LEMMA EveryTruth ==
    ASSUME NEW e, Parsed(e), bindings \in BindingSets, NEW call \in Calls(e)
    PROVE  /\ Truth(call, e) \in [DOMAIN e -> BOOLEAN]
           /\ \A i \in DOMAIN e : Truth(call, e)[i] = TruthOf(call, e, Truth(call, e), i)
<1> DEFINE n == Len(e)
           V == BOOLEAN
           N(g, i) == TruthOf(call, e, g, i)
           F(g) == [i \in DOMAIN e |-> N(g, i)]
           G == [i \in 1..n |-> [g \in [1..n -> V] |-> F(g)[i]]]
<1>1. n \in Nat /\ DOMAIN e = 1..n
  BY DEF Parsed
<1>0. ASSUME NEW i \in DOMAIN e, NEW g PROVE N(g, i) \in V
  BY TruthTyped
<1>2. ASSUME NEW i \in 1..n, NEW g \in [1..n -> V] PROVE G[i][g] = F(g)[i] /\ G[i][g] \in V
  <2>1. N(g, i) \in V
    BY <1>0, <1>1
  <2> HIDE DEF N, V
  <2> QED BY <1>1, <2>1
<1>3. ASSUME NEW i \in 1..n, NEW g \in [1..n -> V], NEW h \in [1..n -> V],
             \A j \in 1..(i - 1) : g[j] = h[j]
      PROVE  G[i][g] = G[i][h]
  <2>1. \A k \in Range(e[i].kids) : g[k] = h[k]
    BY <1>1, <1>3, KidsBefore
  <2>2. N(g, i) = N(h, i)
    BY <1>1, <2>1, TruthIsLocal
  <2> HIDE DEF N, V
  <2>3. F(g)[i] = F(h)[i]
    BY <1>1, <2>2
  <2> QED BY <1>2, <2>3
<1> HIDE DEF G, n, N
<1>4. PICK f : Iterates(n, V, G, f)
  <2>1. Causal(n, V, G)
    BY <1>2, <1>3 DEF Causal
  <2>2. V # {}
    OBVIOUS
  <2> HIDE DEF V
  <2> QED BY <1>1, <2>1, <2>2, Iteration
<1>5. f = F(f)
  <2>1. \A i \in 1..n : f[i] = F(f)[i]
    BY <1>2, <1>4 DEF Iterates
  <2> QED BY <1>1, <1>4, <2>1 DEF Iterates
<1>6. Truth(call, e) = CHOOSE g : g = F(g)
  BY Zenon DEF Truth, N
<1>7. PICK g : Truth(call, e) = g /\ g = F(g)
  BY <1>5, <1>6, Zenon
<1> HIDE DEF V
<1>8. ASSUME NEW i \in DOMAIN e PROVE g[i] = N(g, i)
  BY <1>7
<1>9. g \in [DOMAIN e -> V]
  BY <1>0, <1>7, <1>8
<1> QED BY <1>7, <1>8, <1>9 DEF N, V

-----------------------------------------------------------------------------
(* Regions as spans of bytes. *)

\* A region of a checked contract whose end does not saturate.
Exact(r) ==
    /\ r.offset \in Int /\ r.offset >= -MaxOffset
    /\ r.length.n \in Nat /\ r.offset + r.length.n <= MaxOffset
    /\ r.length.t \in {"literal", "param"}

\* The lists of an accepted contract are those of the document.
LEMMA AcceptedLists ==
    ASSUME WalkInv, contract.some, NEW list \in KeptLists
    PROVE  /\ contract.x = checked /\ Len(Items(list)) \in Nat /\ Len(contract.x[list]) = Len(Items(list))
           /\ contract.x[list] \in Seq(Images(list)) /\ DOMAIN contract.x[list] = 1..Len(Items(list))
           /\ \A i \in 1..Len(Items(list)) : contract.x[list][i] = Image(list, Items(list)[i])
           /\ GoodWalk /\ Seen(list) = Len(Items(list))
<1>1. contract # None
  BY DEF None
<1>2. contract.x = checked /\ diagnostics = {} /\ Rank(phase) > 9
  BY <1>1 DEF WalkInv, ContractInv, Some
<1>3. PlaceInv /\ GoodWalk
  BY <1>2 DEF WalkInv
<1>4. list \in AllLists
  BY DEF KeptLists
<1>5. Seen(list) = Len(Items(list))
  <2>1. Rank(list) \in 1..8 /\ Rank(phase) \in 0..12
    BY <1>3, <1>4, Ranks DEF PlaceInv
  <2> QED BY <1>2, <2>1 DEF Seen
<1>6. Len(Items(list)) \in Nat
  BY <1>3, <1>4, ListsAreSequences DEF PlaceInv
<1>7. /\ checked[list] \in Seq(Images(list)) /\ Len(checked[list]) = Len(Items(list))
      /\ \A i \in 1..Len(Items(list)) : checked[list][i] = Image(list, Items(list)[i])
  BY <1>3, <1>5 DEF GoodWalk, KeptInv
<1>8. DOMAIN checked[list] = 1..Len(Items(list))
  BY <1>7
<1> QED BY <1>2, <1>3, <1>5, <1>6, <1>7, <1>8

\* The regions of an accepted contract are exact, and each has a name of its own.
LEMMA AcceptedRegions ==
    ASSUME WalkInv, contract.some, ~Saturates
    PROVE  /\ Len(contract.x.regions) \in Nat /\ DOMAIN contract.x.regions = 1..Len(contract.x.regions)
           /\ \A i, j \in DOMAIN contract.x.regions :
                 contract.x.regions[i].name = contract.x.regions[j].name => i = j
           /\ \A i \in DOMAIN contract.x.regions : Exact(contract.x.regions[i])
<1> DEFINE R == contract.x.regions
           D == Items("regions")
<1>1. "regions" \in KeptLists
  BY DEF KeptLists, AllLists
<1>2. \A d : CheckedRegion(d).name = d.name /\ CheckedRegion(d).offset = d.offset.n
  BY DEF CheckedRegion
<1>3. /\ Len(D) \in Nat /\ Len(R) = Len(D) /\ DOMAIN R = 1..Len(D)
      /\ \A i \in 1..Len(D) : R[i] = CheckedRegion(D[i])
      /\ GoodWalk /\ Seen("regions") = Len(D)
  BY <1>1, AcceptedLists DEF Image
<1>4. ASSUME NEW i \in DOMAIN R, NEW j \in DOMAIN R, R[i].name = R[j].name PROVE i = j
  <2>1. D[i].name = D[j].name
    BY <1>2, <1>3, <1>4
  <2> QED BY <1>3, <2>1 DEF GoodWalk, DistinctInv, Distinct
<1>5. ASSUME NEW i \in DOMAIN R PROVE Exact(R[i])
  <2>1. parse_i64_literal(D[i].offset) /\ (D[i].length.t = "number" => parse_u64_literal(D[i].length))
    BY <1>3 DEF GoodWalk, RegionInv
  <2>2. R[i].offset = D[i].offset.n
    BY <1>2, <1>3
  <2>3. R[i].length = IF D[i].length.t = "number" THEN Literal(D[i].length.n) ELSE Param(D[i].length.word)
    BY <1>3, CheckedLength
  <2>4. R[i].length.n \in Nat /\ R[i].length.t \in {"literal", "param"}
    <3>1. CASE D[i].length.t = "number"
      <4>1. D[i].length.n \in Nat
        BY <2>1, <3>1, MaxOffsetAssumption DEF parse_u64_literal
      <4> QED BY <2>3, <3>1, <4>1, LengthFields
    <3>2. CASE D[i].length.t # "number"
      <4>1. \A w : Param(w).n = 0 /\ Param(w).t = "param"
        BY DEF Param
      <4>2. R[i].length = Param(D[i].length.word)
        BY <2>3, <3>2
      <4> QED BY <4>1, <4>2
    <3> QED BY <3>1, <3>2
  <2>5. R[i].offset \in Int /\ R[i].offset >= -MaxOffset
    BY <2>1, <2>2, MaxOffsetAssumption DEF parse_i64_literal
  <2>6. R[i] \in Range(contract.x.regions)
    BY DEF Range
  <2>7. R[i].offset + R[i].length.n <= MaxOffset
    BY <2>4, <2>5, <2>6, MaxOffsetAssumption DEF Saturates
  <2> QED BY <2>4, <2>5, <2>7 DEF Exact
<1> QED BY <1>3, <1>4, <1>5

\* How many bytes a region has in a call.
Size(call, r) == IF r.length.t = "literal" THEN r.length.n ELSE call.int[r.length.name]

\* A region of a call: where it starts and how long it is.
LEMMA RegionOfCall ==
    ASSUME WalkInv, contract.some, ~Saturates, NEW e, NEW call \in Calls(e),
           NEW name \in NamesOf("regions")
    PROVE  LET r == RegionNamed(contract.x, name)
               from == call.ptr[r.base_param] + r.offset
           IN  /\ Exact(r) /\ call.ptr[r.base_param] \in Nat /\ Size(call, r) \in Int
               /\ Span(call, name) = from..((from + Size(call, r)) - 1)
<1> DEFINE R == contract.x.regions
           named == {i \in DOMAIN R : R[i].name = name}
<1>1. PICK k \in DOMAIN R : R[k].name = name
  BY DEF NamesOf, Range
<1>2. /\ Len(R) \in Nat /\ DOMAIN R = 1..Len(R)
      /\ \A i, j \in DOMAIN R : R[i].name = R[j].name => i = j
      /\ \A i \in DOMAIN R : Exact(R[i])
  BY AcceptedRegions
<1>3. k \in Int
  BY <1>2
<1>4. named = {k}
  BY <1>1, <1>2
<1>5. (CHOOSE i \in named : \A j \in named : i <= j) = k
  <2>1. k \in named /\ \A j \in named : k <= j
    BY <1>3, <1>4
  <2>2. (CHOOSE i \in named : \A j \in named : i <= j) \in named
    BY <2>1, Zenon
  <2> QED BY <1>4, <2>2, Zenon
<1>6. RegionNamed(contract.x, name) = R[k]
  BY <1>5, Zenon DEF RegionNamed
<1>7. R[k].base_param \in OfType("ptr") /\ (R[k].length.t = "param" => R[k].length.name \in OfType("int"))
  BY AcceptedIsWhole DEF AcceptedContractResolves, Range
<1>8. /\ call.ptr \in [OfType("ptr") -> Addresses]
      /\ call.int \in [OfType("int") \cup DOMAIN bindings.ints -> Scalars]
  BY DEF Calls
<1>9. call.ptr[R[k].base_param] \in Nat
  BY <1>7, <1>8, ContractAssumption
<1>10. Exact(R[k])
  BY <1>2
<1>11. Size(call, R[k]) \in Int
  <2>1. CASE R[k].length.t = "literal"
    BY <1>10, <2>1 DEF Size, Exact
  <2>2. CASE R[k].length.t # "literal"
    <3>1. R[k].length.name \in OfType("int")
      BY <1>7, <1>10, <2>2 DEF Exact
    <3>2. call.int[R[k].length.name] \in Int
      BY <1>8, <3>1, ContractAssumption
    <3> QED BY <2>2, <3>2 DEF Size
  <2> QED BY <2>1, <2>2
<1>12. Span(call, name) = (call.ptr[R[k].base_param] + R[k].offset)
                          ..((call.ptr[R[k].base_param] + R[k].offset + Size(call, R[k])) - 1)
  <2> DEFINE r == RegionNamed(contract.x, name)
  <2>1. Span(call, name) = (call.ptr[r.base_param] + r.offset)
                           ..(call.ptr[r.base_param] + r.offset + (Size(call, r) - 1))
    BY DEF Span, Size
  <2>2. R[k].offset \in Int
    BY <1>10 DEF Exact
  <2>3. call.ptr[R[k].base_param] + R[k].offset + (Size(call, R[k]) - 1)
        = (call.ptr[R[k].base_param] + R[k].offset + Size(call, R[k])) - 1
    BY <1>9, <1>11, <2>2
  <2> QED BY <1>6, <2>1, <2>3
<1> QED BY <1>6, <1>9, <1>10, <1>11, <1>12

\* What an observation says of the bounds of two regions.
Bounds(o, le, re, l0, r0) ==
    /\ o = "proven_equal" => l0 = r0 /\ le = re
    /\ o = "proven_contains" => l0 <= r0 /\ re <= le /\ ~(l0 = r0 /\ le = re)
    /\ o = "proven_disjoint" => (le <= r0 \/ re <= l0) /\ ~(l0 <= r0 /\ re <= le)
    /\ o = "proven_partial_overlap" =>
          /\ ~(l0 <= r0 /\ re <= le)
          /\ (r0 <= l0 /\ le <= re) \/ ~(le <= r0 \/ re <= l0)

\* The observation of a pair of regions, of which one parameter is the base of
\* both, gives these bounds in every call.
LEMMA ObservedBounds ==
    ASSUME NEW l, NEW r, NEW call, Exact(l), Exact(r), Size(call, l) \in Int, Size(call, r) \in Int,
           observe_pair(l, r) # "may_overlap"
    PROVE  /\ l.base_param = r.base_param
           /\ observe_pair(l, r) \in {"proven_equal", "proven_contains", "proven_disjoint", "proven_partial_overlap"}
           /\ Bounds(observe_pair(l, r), l.offset + Size(call, l), r.offset + Size(call, r), l.offset, r.offset)
<1>1. /\ saturating_add(l.offset, l.length.n) = l.offset + l.length.n
      /\ saturating_add(r.offset, r.length.n) = r.offset + r.length.n
  BY MaxOffsetAssumption DEF Exact, saturating_add, Clamp
<1>2. /\ l.offset \in Int /\ l.length.n \in Int
      /\ r.offset \in Int /\ r.length.n \in Int
  BY DEF Exact
<1> HIDE DEF saturating_add
<1>3. CASE l.length.t = "literal" /\ r.length.t = "literal"
  <2>1. Size(call, l) = l.length.n /\ Size(call, r) = r.length.n
    BY <1>3 DEF Size
  <2> QED BY <1>1, <1>2, <1>3, <2>1 DEF observe_pair, Bounds
<1>4. CASE ~(l.length.t = "literal" /\ r.length.t = "literal")
  <2>1. /\ l.base_param = r.base_param /\ l.offset = r.offset /\ l.length = r.length
        /\ observe_pair(l, r) = "proven_equal"
    BY <1>4 DEF observe_pair
  <2>2. Size(call, l) = Size(call, r)
    BY <2>1 DEF Size
  <2> QED BY <2>1, <2>2 DEF Bounds
<1> QED BY <1>3, <1>4

\* A required relation, of two sets of bytes.
Bytes(q, L, R) ==
    CASE q = "disjoint" -> L \cap R = {}
      [] q = "equal" -> L = R
      [] q = "contains" -> R \subseteq L

Observations == {"proven_equal", "proven_contains", "proven_disjoint", "proven_partial_overlap"}
Predicates == {"disjoint", "equal", "contains"}

\* A relation that the observed bounds satisfy holds of the bytes.
LEMMA SatisfiedBytes ==
    ASSUME NEW l0 \in Int, NEW le \in Int, NEW r0 \in Int, NEW re \in Int, NEW o \in Observations,
           NEW q \in Predicates, Bounds(o, le, re, l0, r0), relation_satisfies(q, o)
    PROVE  Bytes(q, l0..(le - 1), r0..(re - 1))
<1>1. CASE q = "disjoint"
  <2>1. le <= r0 \/ re <= l0
    BY <1>1 DEF relation_satisfies, Bounds
  <2>2. (l0..(le - 1)) \cap (r0..(re - 1)) = {}
    BY <2>1
  <2> QED BY <1>1, <2>2 DEF Bytes
<1>2. CASE q = "equal"
  <2>1. l0 = r0 /\ le = re
    BY <1>2 DEF relation_satisfies, Bounds
  <2> QED BY <1>2, <2>1 DEF Bytes
<1>3. CASE q = "contains"
  <2>1. l0 <= r0 /\ re <= le
    BY <1>3 DEF relation_satisfies, Bounds
  <2>2. r0..(re - 1) \subseteq l0..(le - 1)
    BY <2>1
  <2> QED BY <1>3, <2>2 DEF Bytes
<1> QED BY <1>1, <1>2, <1>3 DEF Predicates

\* One that they do not satisfy does not hold of the bytes, if there are any;
\* but for equal regions, which contain each other.
LEMMA RefutedBytes ==
    ASSUME NEW l0 \in Int, NEW le \in Int, NEW r0 \in Int, NEW re \in Int, NEW o \in Observations,
           NEW q \in Predicates, Bounds(o, le, re, l0, r0), ~relation_satisfies(q, o),
           ~(q = "contains" /\ o = "proven_equal"), l0 < le, r0 < re
    PROVE  ~Bytes(q, l0..(le - 1), r0..(re - 1))
<1> DEFINE L == l0..(le - 1)
           R == r0..(re - 1)
<1>1. l0 \in L /\ le - 1 \in L /\ r0 \in R /\ re - 1 \in R
  OBVIOUS
<1>2. /\ \A x : x \in L <=> x \in Int /\ l0 <= x /\ x < le
      /\ \A x : x \in R <=> x \in Int /\ r0 <= x /\ x < re
  OBVIOUS
<1> HIDE DEF L, R
<1>3. ASSUME ~(le <= r0 \/ re <= l0) PROVE L \cap R # {}
  <2>1. CASE l0 <= r0
    <3>1. r0 \in L /\ r0 \in R
      BY <1>2, <1>3, <2>1
    <3> QED BY <3>1
  <2>2. CASE ~(l0 <= r0)
    <3>1. l0 \in L /\ l0 \in R
      BY <1>2, <1>3, <2>2
    <3> QED BY <3>1
  <2> QED BY <2>1, <2>2
<1>4. ASSUME ~(l0 <= r0 /\ re <= le) PROVE ~(R \subseteq L)
  <2>1. r0 \notin L \/ re - 1 \notin L
    BY <1>2, <1>4
  <2> QED BY <1>1, <2>1
<1>5. ASSUME ~(l0 = r0 /\ le = re) PROVE L # R
  <2>1. CASE l0 # r0
    <3>1. l0 \notin R \/ r0 \notin L
      BY <1>2, <2>1
    <3> QED BY <1>1, <3>1
  <2>2. CASE l0 = r0 /\ le # re
    <3>1. le - 1 \notin R \/ re - 1 \notin L
      BY <1>2, <2>2
    <3> QED BY <1>1, <3>1
  <2> QED BY <1>5, <2>1, <2>2
<1>6. CASE q = "disjoint"
  <2>1. ~(le <= r0 \/ re <= l0)
    <3>1. CASE o = "proven_equal"
      BY <3>1 DEF Bounds
    <3>2. CASE o = "proven_contains"
      BY <3>2 DEF Bounds
    <3>3. CASE o = "proven_partial_overlap"
      BY <3>3 DEF Bounds
    <3>4. o # "proven_disjoint"
      BY <1>6 DEF relation_satisfies
    <3> QED BY <3>1, <3>2, <3>3, <3>4 DEF Observations
  <2> QED BY <1>3, <1>6, <2>1 DEF Bytes, L, R
<1>7. CASE q = "equal"
  <2>1. ~(l0 = r0 /\ le = re)
    <3>1. o # "proven_equal"
      BY <1>7 DEF relation_satisfies
    <3> QED BY <3>1 DEF Bounds, Observations
  <2> QED BY <1>5, <1>7, <2>1 DEF Bytes, L, R
<1>8. CASE q = "contains"
  <2>1. ~(l0 <= r0 /\ re <= le)
    <3>1. o \notin {"proven_equal", "proven_contains"}
      BY <1>8 DEF relation_satisfies
    <3> QED BY <3>1 DEF Bounds, Observations
  <2> QED BY <1>4, <1>8, <2>1 DEF Bytes, L, R
<1> QED BY <1>6, <1>7, <1>8 DEF Predicates

\* What evaluate_alias observes of two regions decides their relation in a call.
LEMMA PairDecides ==
    ASSUME WalkInv, contract.some, ~Saturates, NEW e, NEW call \in Calls(e), NonEmpty(call),
           NEW a \in NamesOf("regions"), NEW b \in NamesOf("regions"), NEW q \in Predicates, NEW o,
           o = observe_pair(RegionNamed(contract.x, a), RegionNamed(contract.x, b)), o # "may_overlap"
    PROVE  /\ relation_satisfies(q, o) => Related(call, q, a, b)
           /\ ~relation_satisfies(q, o) /\ ~(q = "contains" /\ o = "proven_equal") => ~Related(call, q, a, b)
<1> DEFINE l == RegionNamed(contract.x, a)
           r == RegionNamed(contract.x, b)
           p == call.ptr[l.base_param]
           pr == call.ptr[r.base_param]
           sl == Size(call, l)
           sr == Size(call, r)
<1>1. /\ Exact(l) /\ p \in Nat /\ sl \in Int
      /\ Span(call, a) = (p + l.offset)..((p + l.offset + sl) - 1)
  BY RegionOfCall
<1>2. /\ Exact(r) /\ pr \in Nat /\ sr \in Int
      /\ Span(call, b) = (pr + r.offset)..((pr + r.offset + sr) - 1)
  BY RegionOfCall
<1>3. l.offset \in Int /\ r.offset \in Int
  BY <1>1, <1>2 DEF Exact
<1>4. Span(call, a) # {} /\ Span(call, b) # {}
  BY DEF NonEmpty
<1> DEFINE l0 == p + l.offset
           r0 == p + r.offset
           le == p + l.offset + sl
           re == p + r.offset + sr
<1>5. l.base_param = r.base_param /\ o \in Observations /\ Bounds(o, l.offset + sl, r.offset + sr, l.offset, r.offset)
  BY <1>1, <1>2, ObservedBounds DEF Observations
<1>6. Span(call, a) = l0..(le - 1) /\ Span(call, b) = r0..(re - 1)
  BY <1>1, <1>2, <1>5
<1> HIDE DEF l, r, p, pr, sl, sr
<1>7. l0 \in Int /\ r0 \in Int /\ le \in Int /\ re \in Int
  BY <1>1, <1>2, <1>3, SMTT(30)
<1>8. Bounds(o, le, re, l0, r0)
  <2>1. ASSUME NEW x \in Int, NEW y \in Int, NEW s \in Int, NEW t \in Int, NEW z \in Int,
               Bounds(o, x + s, y + t, x, y)
        PROVE  Bounds(o, z + x + s, z + y + t, z + x, z + y)
    BY <2>1 DEF Bounds
  <2>2. p \in Int
    BY <1>1
  <2> QED BY <1>1, <1>2, <1>3, <1>5, <2>1, <2>2, Zenon
<1> HIDE DEF l0, r0, le, re
<1>9. l0 < le /\ r0 < re
  BY <1>4, <1>6, <1>7
<1>10. Related(call, q, a, b) = Bytes(q, l0..(le - 1), r0..(re - 1))
  BY <1>6 DEF Related, Bytes
<1> QED BY <1>5, <1>7, <1>8, <1>9, <1>10, SatisfiedBytes, RefutedBytes

\* The lookup of (left, right) finds relation k.
Finds(rels, al, left, right, k) ==
    /\ {rels[k].left, rels[k].right} = {left, right}
    /\ lookup_relation_row(rels, al, left, right) =
          <<[at |-> k, observed |-> IF rels[k].left # left /\ al.observed[k] = "proven_contains"
                                    THEN "may_overlap" ELSE al.observed[k]]>>

\* The row that lookup_relation_row finds is a relation between the two names.
LEMMA LookupRow ==
    ASSUME NEW rels, DOMAIN rels \subseteq Nat, NEW al, NEW left, NEW right,
           lookup_relation_row(rels, al, left, right) # <<>>
    PROVE  \E k \in DOMAIN rels : Finds(rels, al, left, right, k)
<1> DEFINE T == {i \in DOMAIN rels : {rels[i].left, rels[i].right} = {left, right}}
           k == CHOOSE j \in T : \A m \in T : j <= m
<1>1. T # {}
  BY Zenon DEF lookup_relation_row
<1>2. T \subseteq Nat
  OBVIOUS
<1>3. \E x \in T : \A y \in T : x <= y
  <2> HIDE DEF T
  <2> QED BY <1>1, <1>2, Least
<1>4. k \in T
  BY <1>3, Zenon
<1>5. lookup_relation_row(rels, al, left, right) =
                    <<[at |-> k, observed |-> IF rels[k].left # left /\ al.observed[k] = "proven_contains"
                                              THEN "may_overlap" ELSE al.observed[k]]>>
  BY <1>1, Zenon DEF lookup_relation_row
<1> QED BY <1>4, <1>5, Zenon DEF Finds

\* Every condition of an accepted contract is a tree of nodes.
LEMMA AcceptedConditions ==
    ASSUME WalkInv, contract.some
    PROVE  /\ Len(contract.x.requires) \in Nat /\ DOMAIN contract.x.requires = 1..Len(contract.x.requires)
           /\ Len(conditions) \in Nat /\ DOMAIN conditions = 1..Len(conditions)
           /\ \A i \in 1..Len(contract.x.requires) : i \in DOMAIN conditions /\ conditions[i] = contract.x.requires[i]
           /\ \A i \in DOMAIN conditions : Parsed(conditions[i])
<1> DEFINE A == contract.x.requires
           B == contract.x.ensures
           U == Images("requires") \cup Images("ensures")
<1>1. "requires" \in KeptLists /\ "ensures" \in KeptLists
  BY DEF KeptLists, AllLists
<1>2. /\ A \in Seq(Images("requires")) /\ DOMAIN A = 1..Len(Items("requires"))
      /\ B \in Seq(Images("ensures")) /\ DOMAIN B = 1..Len(Items("ensures"))
      /\ Len(A) = Len(Items("requires")) /\ Len(B) = Len(Items("ensures"))
      /\ Len(A) \in Nat /\ Len(B) \in Nat
      /\ \A i \in 1..Len(A) : A[i] = Items("requires")[i]
      /\ \A i \in 1..Len(B) : B[i] = Items("ensures")[i]
      /\ Seen("requires") = Len(A) /\ Seen("ensures") = Len(B) /\ GoodWalk
  BY <1>1, AcceptedLists DEF Image
<1>3. A \in Seq(U) /\ B \in Seq(U)
  BY <1>2
<1>4. conditions = A \o B
  BY DEF conditions
<1>5. \A list \in {"requires", "ensures"} : \A i \in 1..Seen(list) : Parsed(Items(list)[i])
  <2> TAKE list \in {"requires", "ensures"}
  <2> TAKE i \in 1..Seen(list)
  <2>1. Items(list)[i] # <<>>
    BY <1>2 DEF GoodWalk, KnownInv, Known, Unparsable
  <2>2. Items(list) = doc[list] /\ doc \in Contracts
    BY DEF Items, WalkInv, PlaceInv
  <2>3. i \in DOMAIN doc[list]
    BY <1>2, <2>2, DocumentAssumption
  <2> QED BY <2>1, <2>2, <2>3, DocumentAssumption
<1>6. /\ \A i \in 1..Len(A) : Parsed(A[i])
      /\ \A i \in 1..Len(B) : Parsed(B[i])
  BY <1>2, <1>5
<1> HIDE DEF A, B, U
<1>7. /\ Len(conditions) \in Nat /\ DOMAIN conditions = 1..Len(conditions)
      /\ \A i \in 1..Len(A) : i \in DOMAIN conditions /\ conditions[i] = A[i]
  BY <1>2, <1>3, <1>4
<1>8. \A i \in DOMAIN conditions : Parsed(conditions[i])
  BY <1>3, <1>4, <1>6, ElementOfConcat
<1> QED BY <1>2, <1>7, <1>8 DEF A

\* What the evaluation of an accepted contract starts from.
Settled ==
    /\ WalkInv /\ contract.some /\ ~Saturates /\ bindings \in BindingSets
    /\ alias = NoAlias \/ alias = evaluate_alias(contract.x, <<>>)

\* A relation that is no containment is the same both ways.
LEMMA RelatedBothWays ==
    ASSUME NEW call, NEW q \in {"disjoint", "equal"}, NEW a, NEW b
    PROVE  Related(call, q, a, b) <=> Related(call, q, b, a)
<1> DEFINE A == Span(call, a)
           B == Span(call, b)
<1>1. A \cap B = {} <=> B \cap A = {}
  OBVIOUS
<1>2. A = B <=> B = A
  OBVIOUS
<1> HIDE DEF A, B
<1> QED BY <1>1, <1>2 DEF Related, A, B

\* The judgement of a region atom is a fact about its regions.
LEMMA AtomSound ==
    ASSUME Settled, NEW e, Parsed(e), ~MisreadContains(e), NEW call \in Calls(e), NonEmpty(call),
           NEW i \in DOMAIN e, e[i].op = "atom", NEW j, j = eval_call(contract.x.relations, alias, e[i]),
           NEW h, h = Truth(call, e)
    PROVE  /\ j = "not_evaluated" => alias = NoAlias
           /\ j = "proven_true" => h[i]
           /\ j = "true_under_precondition" => (Promised(call) => h[i])
           /\ j = "proven_false" => ~h[i]
<1> DEFINE rels == contract.x.relations
           q == e[i].pred
           a == e[i].left
           b == e[i].right
           found == lookup_relation_row(rels, alias, a, b)
<1>1. CASE alias = NoAlias
  <2>1. j = "not_evaluated"
    BY <1>1, Zenon DEF eval_call
  <2> QED BY <1>1, <2>1
<1>2. CASE alias # NoAlias /\ found = <<>>
  <2>1. j = "incomplete"
    BY <1>2, Zenon DEF eval_call
  <2> QED BY <2>1
<1>3. CASE alias # NoAlias /\ found # <<>>
  <2>1. DOMAIN rels \subseteq Nat
    <3>1. "relations" \in KeptLists
      BY DEF KeptLists, AllLists
    <3>2. DOMAIN rels = 1..Len(Items("relations")) /\ Len(Items("relations")) \in Nat
      BY <3>1, AcceptedLists DEF Settled
    <3> QED BY <3>2
  <2>2. PICK k \in DOMAIN rels : Finds(rels, alias, a, b, k)
    BY <1>3, <2>1, LookupRow
  <2> DEFINE rl == rels[k].left
             rr == rels[k].right
             o == observe_pair(RegionNamed(contract.x, rl), RegionNamed(contract.x, rr))
             seen == IF rl # a /\ o = "proven_contains" THEN "may_overlap" ELSE o
  <2>3. alias.observed[k] = o
    <3>1. alias = evaluate_alias(contract.x, <<>>)
      BY <1>3 DEF Settled
    <3> QED BY <3>1, Zenon DEF evaluate_alias
  <2>4. found[1].at = k /\ found[1].observed = seen
    <3>1. found = <<[at |-> k, observed |-> IF rels[k].left # a /\ alias.observed[k] = "proven_contains"
                                            THEN "may_overlap" ELSE alias.observed[k]]>>
      BY <2>2, Zenon DEF Finds
    <3> HIDE DEF o, found, rels
    <3> QED BY <2>3, <3>1
  <2>5. {rl, rr} \subseteq NamesOf("regions")
    BY AcceptedIsWhole DEF Settled, AcceptedContractResolves, Range
  <2>6. {a, b} \subseteq NamesOf("regions")
    BY <2>2, <2>5 DEF Finds
  <2>7. q \in Predicates
    BY DEF Parsed, Predicates
  <2>8. (h[i] <=> Related(call, q, a, b)) /\ h[i] \in BOOLEAN
    <3>1. h[i] = TruthOf(call, e, h, i) /\ h[i] \in BOOLEAN
      BY EveryTruth DEF Settled
    <3>2. TruthOf(call, e, h, i) = Related(call, q, a, b)
      BY <2>6 DEF TruthOf
    <3> QED BY <3>1, <3>2, Zenon
  <2>9. j = judge_require(q, rels[k].require, k \in alias.unresolved_obligations, seen)
    BY <1>3, <2>4, Zenon DEF eval_call
  <2>10. ~(q = "contains" /\ (rl # a \/ seen = "proven_equal"))
    <3>1. ~(/\ e[i].op = "atom" /\ e[i].pred = "contains" /\ alias # NoAlias
            /\ found # <<>> /\ (rels[found[1].at].left # e[i].left \/ found[1].observed = "proven_equal"))
      BY Zenon DEF MisreadContains
    <3> QED BY <1>3, <2>4, <3>1, Zenon
  <2>11. /\ rl = a => rr = b
         /\ rl # a => rl = b /\ rr = a
    <3>1. {rl, rr} = {a, b}
      BY <2>2, Zenon DEF Finds
    <3> QED BY <3>1
  <2>12. ASSUME NEW p \in Predicates, rl # a => p # "contains"
         PROVE  Related(call, p, rl, rr) <=> Related(call, p, a, b)
    <3>1. CASE rl = a
      BY <2>11, <3>1
    <3>2. CASE rl # a
      <4>1. p \in {"disjoint", "equal"} /\ rl = b /\ rr = a
        BY <2>11, <2>12, <3>2 DEF Predicates
      <4> QED BY <4>1, RelatedBothWays
    <3> QED BY <3>1, <3>2
  <2>13. ASSUME seen # "may_overlap"
         PROVE  /\ relation_satisfies(q, seen) => h[i]
                /\ ~relation_satisfies(q, seen) => ~h[i]
    <3>1. seen = o /\ o # "may_overlap"
      BY <2>13
    <3> HIDE DEF o, seen
    <3>2. /\ relation_satisfies(q, o) => Related(call, q, rl, rr)
          /\ ~relation_satisfies(q, o) /\ ~(q = "contains" /\ o = "proven_equal") => ~Related(call, q, rl, rr)
      BY <2>5, <2>7, <3>1, PairDecides DEF Settled, o
    <3> QED BY <2>7, <2>8, <2>10, <2>12, <3>1, <3>2
  <2>14. ~relation_satisfies(q, "may_overlap")
    BY <2>7 DEF relation_satisfies, Predicates
  <2> HIDE DEF seen, o
  <2>15. CASE relation_satisfies(q, seen)
    <3>1. j = "proven_true"
      BY <2>9, <2>15 DEF judge_require
    <3> QED BY <2>13, <2>14, <2>15, <3>1
  <2>16. CASE ~relation_satisfies(q, seen) /\ k \in alias.unresolved_obligations /\ rels[k].require = q
    <3>1. j = "true_under_precondition"
      BY <2>9, <2>16 DEF judge_require
    <3>2. Promised(call) => Related(call, rels[k].require, rl, rr)
      BY <1>3, <2>16, Zenon DEF Promised
    <3>3. Promised(call) => Related(call, q, a, b)
      BY <2>7, <2>10, <2>12, <2>16, <3>2
    <3> QED BY <2>8, <3>1, <3>3
  <2>17. CASE ~relation_satisfies(q, seen) /\ ~(k \in alias.unresolved_obligations /\ rels[k].require = q)
    <3>1. j = IF seen = "may_overlap" THEN "incomplete" ELSE "proven_false"
      BY <2>9, <2>17 DEF judge_require
    <3> QED BY <2>13, <2>17, <3>1
  <2> QED BY <2>15, <2>16, <2>17
<1> QED BY <1>1, <1>2, <1>3

-----------------------------------------------------------------------------
(* A judgement is a fact about every call. *)

\* Something below the node has no value, or is an implication of a promise.
OpenBelow(e, i) == \E m \in Below(e)[i] : Open(e, m)
Shaky(e, i) == \E m \in Below(e)[i] : e[m].op = "implies" /\ contains_region_atom(e)[e[m].kids[1]]

\* What judgement j of node i claims, holds being its truth in a call and
\* promised whether the call keeps the promises.  A promise is made by an atom
\* only; a refutation rests on one only through an implication.
Claim(e, i, j, promised, holds) ==
    /\ j = "not_evaluated" => OpenBelow(e, i)
    /\ j = "true_under_precondition" => contains_region_atom(e)[i] /\ (promised => holds)
    /\ j = "proven_true" => holds
    /\ j = "proven_false" => (promised => ~holds) /\ (~Shaky(e, i) => ~holds)

Claims(e, call, i) ==
    \A force \in BOOLEAN :
        Claim(e, i, Judgements(e, contract.x.relations, alias, bindings)[i][force], Promised(call), Truth(call, e)[i])

\* What is below an operand is below its node.
LEMMA FromBelow ==
    ASSUME NEW e, Parsed(e), NEW i \in DOMAIN e, NEW k \in Range(e[i].kids)
    PROVE  /\ OpenBelow(e, k) => OpenBelow(e, i)
           /\ Shaky(e, k) => Shaky(e, i)
           /\ contains_region_atom(e)[k] => contains_region_atom(e)[i]
<1>1. Below(e)[k] \subseteq Below(e)[i]
  BY BelowFacts
<1>2. (OpenBelow(e, k) => OpenBelow(e, i)) /\ (Shaky(e, k) => Shaky(e, i))
  BY <1>1, Zenon DEF OpenBelow, Shaky
<1>3. contains_region_atom(e)[k] => contains_region_atom(e)[i]
  BY HasAtom, Zenon
<1> QED BY <1>2, <1>3

\* The integers the evaluator knows are those of the call.
LEMMA KnownInteger ==
    ASSUME NEW e, NEW call \in Calls(e), NEW node, int_value(node, bindings) # <<>>
    PROVE  IntOf(call, node) = int_value(node, bindings)
<1>1. /\ call.int \in [OfType("int") \cup DOMAIN bindings.ints -> Scalars]
      /\ \A x \in DOMAIN bindings.ints : call.int[x] = bindings.ints[x]
  BY DEF Calls
<1>2. CASE node.op = "int"
  BY <1>2 DEF IntOf, int_value
<1>3. CASE node.op = "ident" /\ node.name \in DOMAIN bindings.ints
  <2>1. node.name \in DOMAIN call.int
    BY <1>1, <1>3
  <2> QED BY <1>1, <1>3, <2>1 DEF IntOf, int_value
<1>4. CASE node.op # "int" /\ ~(node.op = "ident" /\ node.name \in DOMAIN bindings.ints)
  BY <1>4, Zenon DEF int_value
<1> QED BY <1>2, <1>3, <1>4, Zenon

\* A leaf: a literal, a bound name, a comparison, an atom, or nothing known.
LEMMA LeafClaims ==
    ASSUME Settled, NEW e, Parsed(e), ~Overclaims(e), NEW call \in Calls(e), NonEmpty(call),
           NEW i \in DOMAIN e, e[i].op \notin {"not", "and", "or", "implies"}
    PROVE  Claims(e, call, i)
<1> DEFINE ev == Judgements(e, contract.x.relations, alias, bindings)
           h == Truth(call, e)
<1> SUFFICES ASSUME NEW force \in BOOLEAN PROVE Claim(e, i, ev[i][force], Promised(call), h[i])
  BY DEF Claims
<1> DEFINE j == ev[i][force]
           some == force \/ contains_region_atom(e)[i]
<1>1. j = eval_node(e, contract.x.relations, alias, bindings, ev, i, force)
  BY EveryJudgement
<1>2. h[i] = TruthOf(call, e, h, i) /\ h[i] \in BOOLEAN
  BY EveryTruth DEF Settled
<1>3. Open(e, i) => OpenBelow(e, i)
  BY BelowFacts, Zenon DEF OpenBelow
<1> HIDE DEF ev, h
<1>4. ASSUME NEW b \in BOOLEAN, h[i] = b, j = Proven(b) PROVE Claim(e, i, j, Promised(call), h[i])
  BY <1>4 DEF Claim, Proven
<1>5. ASSUME j = "incomplete" \/ (j = "not_evaluated" /\ Open(e, i)) PROVE Claim(e, i, j, Promised(call), h[i])
  BY <1>3, <1>5 DEF Claim
<1>6. CASE e[i].op = "bool"
  <2>1. e[i].v \in BOOLEAN /\ h[i] = e[i].v /\ j = Proven(e[i].v)
    BY <1>1, <1>2, <1>6 DEF Parsed, TruthOf, eval_node
  <2> QED BY <1>4, <2>1
<1>7. CASE e[i].op \in {"int", "regions_call"}
  <2>1. j = "incomplete"
    BY <1>1, <1>7 DEF eval_node
  <2> QED BY <1>5, <2>1
<1>8. CASE e[i].op = "ident"
  <2>1. CASE e[i].name \in DOMAIN bindings.bools
    <3>1. bindings.bools[e[i].name] \in BOOLEAN
      BY <2>1, BindingAssumption DEF Settled
    <3>2. h[i] = bindings.bools[e[i].name]
      BY <1>2, <1>8, <2>1 DEF TruthOf
    <3>3. j = Proven(bindings.bools[e[i].name])
      BY <1>1, <1>8, <2>1 DEF eval_node
    <3> QED BY <1>4, <3>1, <3>2, <3>3
  <2>2. CASE e[i].name \notin DOMAIN bindings.bools
    <3>1. j = skip_or_incomplete(force)
      BY <1>1, <1>8, <2>2 DEF eval_node
    <3>2. Open(e, i)
      BY <1>8, <2>2, Zenon DEF Open
    <3> QED BY <1>5, <3>1, <3>2 DEF skip_or_incomplete
  <2> QED BY <2>1, <2>2
<1>9. CASE e[i].op \in {"neg", "arith", "call", "construct"}
  <2>1. j = "incomplete" \/ j = "not_evaluated"
    BY <1>1, <1>9 DEF eval_node, skip_or_incomplete
  <2>2. Open(e, i)
    BY <1>9 DEF Open
  <2> QED BY <1>5, <2>1, <2>2
<1>10. CASE e[i].op = "atom"
  <2>1. j = eval_call(contract.x.relations, alias, e[i])
    BY <1>1, <1>10 DEF eval_node
  <2>2. /\ j = "not_evaluated" => alias = NoAlias
        /\ j = "proven_true" => h[i]
        /\ j = "true_under_precondition" => (Promised(call) => h[i])
        /\ j = "proven_false" => ~h[i]
    BY <1>10, <2>1, AtomSound DEF Overclaims, h
  <2>3. contains_region_atom(e)[i]
    BY <1>10, HasAtom
  <2>4. alias = NoAlias => Open(e, i)
    BY <1>10, Zenon DEF Open
  <2> QED BY <1>3, <2>2, <2>3, <2>4 DEF Claim
<1>11. CASE e[i].op = "cmp"
  <2> DEFINE l == e[i].kids[1]
             r == e[i].kids[2]
             vl == int_value(e[l], bindings)
             vr == int_value(e[r], bindings)
  <2>1. j = eval_cmp(e[i], vl, vr, some)
    BY <1>1, <1>11 DEF eval_node
  <2>2. l \in Range(e[i].kids) /\ r \in Range(e[i].kids) /\ l \in DOMAIN e /\ r \in DOMAIN e
    BY <1>11, KidsBefore
  <2>3. CASE vl = <<>> \/ vr = <<>>
    <3>1. Open(e, i)
      BY <1>11, <2>2, <2>3, Zenon DEF Open
    <3>2. j = skip_or_incomplete(some)
      BY <2>1, <2>3, Zenon DEF eval_cmp
    <3> QED BY <1>5, <3>1, <3>2 DEF skip_or_incomplete
  <2>4. CASE vl # <<>> /\ vr # <<>>
    <3>1. IntOf(call, e[l]) = vl /\ IntOf(call, e[r]) = vr
      BY <2>4, KnownInteger
    <3>2. h[i] = Compare(e[i].rel, vl[1], vr[1])
      <4>1. IntOf(call, e[l]) # <<>> /\ IntOf(call, e[r]) # <<>>
        BY <2>4, <3>1
      <4>2. TruthOf(call, e, h, i) = Compare(e[i].rel, IntOf(call, e[l])[1], IntOf(call, e[r])[1])
        BY <1>11, <4>1 DEF TruthOf
      <4> QED BY <1>2, <3>1, <4>2, Zenon
    <3>3. j = Proven(Compare(e[i].rel, vl[1], vr[1]))
      BY <2>1, <2>4, Zenon DEF eval_cmp
    <3>4. j = Proven(h[i])
      BY <3>2, <3>3, Zenon
    <3> QED BY <1>2, <1>4, <3>4
  <2> QED BY <2>3, <2>4
<1> QED BY <1>6, <1>7, <1>8, <1>9, <1>10, <1>11 DEF Parsed

\* What the claims of the operands give the claim of a connective.
LEMMA ConnectiveFacts ==
    ASSUME Settled, NEW e, Parsed(e), NEW call \in Calls(e), NEW i \in DOMAIN e,
           NEW k \in Range(e[i].kids), Claims(e, call, k), NEW force \in BOOLEAN, NEW j,
           j = Judgements(e, contract.x.relations, alias, bindings)[k][force]
    PROVE  /\ j \in Judgement /\ Truth(call, e)[k] \in BOOLEAN
           /\ Claim(e, k, j, Promised(call), Truth(call, e)[k])
           /\ OpenBelow(e, k) => OpenBelow(e, i)
           /\ Shaky(e, k) => Shaky(e, i)
           /\ contains_region_atom(e)[k] => contains_region_atom(e)[i]
<1>1. k \in DOMAIN e
  BY KidsBefore
<1>2. j \in Judgement
  BY <1>1, EveryJudgement
<1>3. Truth(call, e)[k] \in BOOLEAN
  BY <1>1, EveryTruth DEF Settled
<1> QED BY <1>2, <1>3, FromBelow DEF Claims

\* not, and, or, implies.
LEMMA ConnectiveClaims ==
    ASSUME Settled, NEW e, Parsed(e), ~Overclaims(e), NEW call \in Calls(e),
           NEW i \in DOMAIN e, e[i].op \in {"not", "and", "or", "implies"},
           \A k \in Range(e[i].kids) : Claims(e, call, k)
    PROVE  Claims(e, call, i)
<1> DEFINE ev == Judgements(e, contract.x.relations, alias, bindings)
           h == Truth(call, e)
           has == contains_region_atom(e)
           P == Promised(call)
<1> SUFFICES ASSUME NEW force \in BOOLEAN PROVE Claim(e, i, ev[i][force], P, h[i])
  BY DEF Claims
<1> DEFINE j == ev[i][force]
           some == force \/ has[i]
           l == e[i].kids[1]
           r == e[i].kids[2]
<1>1. j = eval_node(e, contract.x.relations, alias, bindings, ev, i, force)
  BY EveryJudgement
<1>2. h[i] = TruthOf(call, e, h, i) /\ h[i] \in BOOLEAN
  BY EveryTruth DEF Settled
<1>3. l \in Range(e[i].kids) /\ (e[i].op # "not" => r \in Range(e[i].kids))
  BY KidsBefore
<1>4. some \in BOOLEAN
  OBVIOUS
<1>5. ASSUME NEW k \in Range(e[i].kids), NEW f \in BOOLEAN
      PROVE  /\ ev[k][f] \in Judgement /\ h[k] \in BOOLEAN
             /\ Claim(e, k, ev[k][f], P, h[k])
             /\ OpenBelow(e, k) => OpenBelow(e, i)
             /\ Shaky(e, k) => Shaky(e, i)
             /\ has[k] => has[i]
  BY ConnectiveFacts
<1>6. LeftIsOpen(e, i) <=> OpenBelow(e, l)
  BY Zenon DEF LeftIsOpen, OpenBelow
<1>7. e[i].op \in {"not", "implies"} => ~Shaky(e, l)
  BY Zenon DEF Overclaims, PromotedPromise, Shaky
<1>8. e[i].op \in {"and", "or"} => (OpenBelow(e, l) => has[i])
  BY <1>6, Zenon DEF Overclaims, RightOnly
<1>9. e[i].op = "implies" => ~OpenBelow(e, l)
  BY <1>6, Zenon DEF Overclaims, PartialImplication
<1>10. e[i].op = "implies" /\ has[l] => Shaky(e, i)
  BY BelowFacts, Zenon DEF Shaky
<1> HIDE DEF ev, h, has, P
<1>11. CASE e[i].op = "not"
  <2>1. j = eval_not(ev[l][force]) /\ h[i] = ~h[l]
    BY <1>1, <1>2, <1>11 DEF eval_node, TruthOf
  <2>2. /\ ev[l][force] \in Judgement /\ h[l] \in BOOLEAN
        /\ Claim(e, l, ev[l][force], P, h[l])
        /\ OpenBelow(e, l) => OpenBelow(e, i)
    BY <1>3, <1>5
  <2> DEFINE jl == ev[l][force]
  <2>3. ~Shaky(e, l)
    BY <1>7, <1>11
  <2> HIDE DEF jl
  <2> QED BY <2>1, <2>2, <2>3 DEF Claim, eval_not, Judgement, jl
<1>12. CASE e[i].op = "and"
  <2> DEFINE jl == ev[l][some]
             jr == ev[r][some]
  <2>1. j = eval_and(jl, jr, some) /\ h[i] = (h[l] /\ h[r])
    BY <1>1, <1>2, <1>12 DEF eval_node, TruthOf, has
  <2>2. /\ jl \in Judgement /\ h[l] \in BOOLEAN /\ Claim(e, l, jl, P, h[l])
        /\ OpenBelow(e, l) => OpenBelow(e, i)
        /\ Shaky(e, l) => Shaky(e, i)
        /\ has[l] => has[i]
    BY <1>3, <1>4, <1>5
  <2>3. /\ jr \in Judgement /\ h[r] \in BOOLEAN /\ Claim(e, r, jr, P, h[r])
        /\ OpenBelow(e, r) => OpenBelow(e, i)
        /\ Shaky(e, r) => Shaky(e, i)
        /\ has[r] => has[i]
    BY <1>3, <1>4, <1>5, <1>12
  <2>4. jl = "not_evaluated" => some
    BY <1>8, <1>12, <2>2 DEF Claim
  <2> HIDE DEF jl, jr, some
  <2> QED BY <2>1, <2>2, <2>3, <2>4 DEF Claim, eval_and, After, True, Judgement, has
<1>13. CASE e[i].op = "or"
  <2> DEFINE jl == ev[l][some]
             jr == ev[r][some]
  <2>1. j = eval_or(jl, jr, some) /\ h[i] = (h[l] \/ h[r])
    BY <1>1, <1>2, <1>13 DEF eval_node, TruthOf, has
  <2>2. /\ jl \in Judgement /\ h[l] \in BOOLEAN /\ Claim(e, l, jl, P, h[l])
        /\ OpenBelow(e, l) => OpenBelow(e, i)
        /\ Shaky(e, l) => Shaky(e, i)
        /\ has[l] => has[i]
    BY <1>3, <1>4, <1>5
  <2>3. /\ jr \in Judgement /\ h[r] \in BOOLEAN /\ Claim(e, r, jr, P, h[r])
        /\ OpenBelow(e, r) => OpenBelow(e, i)
        /\ Shaky(e, r) => Shaky(e, i)
        /\ has[r] => has[i]
    BY <1>3, <1>4, <1>5, <1>13
  <2>4. jl = "not_evaluated" => some
    BY <1>8, <1>13, <2>2 DEF Claim
  <2> HIDE DEF jl, jr, some
  <2> QED BY <2>1, <2>2, <2>3, <2>4 DEF Claim, eval_or, True, Judgement, has
<1>14. CASE e[i].op = "implies"
  <2> DEFINE jl == ev[l][force]
             jr == ev[r][TRUE]
  <2>1. j = eval_implies(jl, jr, some) /\ h[i] = (h[l] => h[r])
    BY <1>1, <1>2, <1>14 DEF eval_node, TruthOf, has
  <2>2. /\ jl \in Judgement /\ h[l] \in BOOLEAN /\ Claim(e, l, jl, P, h[l])
        /\ Shaky(e, l) => Shaky(e, i)
        /\ has[l] => has[i]
    BY <1>3, <1>5
  <2>3. /\ jr \in Judgement /\ h[r] \in BOOLEAN /\ Claim(e, r, jr, P, h[r])
        /\ OpenBelow(e, r) => OpenBelow(e, i)
        /\ Shaky(e, r) => Shaky(e, i)
        /\ has[r] => has[i]
    BY <1>3, <1>5, <1>14
  <2>4. jl # "not_evaluated" /\ ~Shaky(e, l) /\ (has[l] => Shaky(e, i))
    BY <1>7, <1>9, <1>10, <1>14, <2>2 DEF Claim
  <2> HIDE DEF jl, jr, some
  <2> QED BY <2>1, <2>2, <2>3, <2>4 DEF Claim, eval_implies, After, True, Judgement, has
<1> QED BY <1>11, <1>12, <1>13, <1>14

\* Every node of a condition that the evaluator does not overclaim.
LEMMA EveryClaim ==
    ASSUME Settled, NEW e, Parsed(e), ~Overclaims(e), NEW call \in Calls(e), NonEmpty(call),
           NEW i \in DOMAIN e
    PROVE  Claims(e, call, i)
<1> DEFINE S == {k \in DOMAIN e : Claims(e, call, k)}
           n == Len(e)
<1>1. n \in Nat /\ DOMAIN e = 1..n
  BY DEF Parsed
<1>2. ASSUME NEW m \in 1..n, 1..(m - 1) \subseteq S PROVE m \in S
  <2>1. m \in DOMAIN e
    BY <1>1
  <2>2. \A k \in Range(e[m].kids) : k \in S
    BY <1>2, <2>1, KidsBefore
  <2>3. \A k \in Range(e[m].kids) : Claims(e, call, k)
    BY <2>2
  <2>4. Claims(e, call, m)
    BY <2>1, <2>3, LeafClaims, ConnectiveClaims
  <2> QED BY <2>1, <2>4
<1> HIDE DEF S
<1>3. 1..n \subseteq S
  BY <1>1, <1>2, NodeInduction
<1> QED BY <1>1, <1>3 DEF S

-----------------------------------------------------------------------------
(* The rows of the evidence. *)

\* The row of a condition.
Row(i) == eval_condition(IF i <= Len(contract.x.requires) THEN "requires" ELSE "ensures", conditions[i],
                         contract.x.relations, alias, bindings, integer_param_names)

\* What the evaluation has done so far: rows are the judgements of the first
\* conditions, all of them under one alias report.
EvidenceInv ==
    /\ bindings \in BindingSets /\ rows \in Seq(Judgement)
    /\ alias = NoAlias \/ alias = evaluate_alias(contract.x, <<>>)
    /\ phase \in {"version", "conclude", "alias"} => at = 1
    /\ phase \in {"alias", "evaluate"} => contract.some
    /\ phase \notin {"evaluate", "done"} => rows = <<>> /\ alias = NoAlias
    /\ phase = "evaluate" => Len(rows) = at - 1
    /\ \A i \in DOMAIN rows : i \in DOMAIN conditions /\ rows[i] = Row(i)

\* A row is a judgement.
LEMMA RowIsJudgement ==
    ASSUME WalkInv, contract.some, NEW i \in DOMAIN conditions
    PROVE  Row(i) \in Judgement
<1> DEFINE e == conditions[i]
<1>1. Parsed(e)
  BY AcceptedConditions
<1>2. Len(e) \in DOMAIN e
  BY <1>1 DEF Parsed
<1>3. eval_expr(e, contract.x.relations, alias, bindings) \in Judgement
  <2>1. Judgements(e, contract.x.relations, alias, bindings)[Len(e)][FALSE] \in Judgement
    <3> HIDE DEF e
    <3>1. Judgements(e, contract.x.relations, alias, bindings) \in [DOMAIN e -> [BOOLEAN -> Judgement]]
      BY <1>1, EveryJudgement
    <3> QED BY <1>2, <3>1
  <2> QED BY <2>1 DEF eval_expr
<1> QED BY <1>3, Zenon DEF Row, eval_condition, Judgement

\* Every step keeps it.
LEMMA EvidenceIsKept == Spec => []EvidenceInv
<1>1. ASSUME Init PROVE EvidenceInv
  <2>1. phase = "version" /\ at = 1 /\ rows = <<>> /\ alias = NoAlias /\ bindings \in BindingSets
    BY <1>1 DEF Init
  <2> QED BY <2>1 DEF EvidenceInv
<1>2. ASSUME WalkInv, EvidenceInv, [Next]_vars PROVE EvidenceInv'
  <2>1. ASSUME contract' = contract, alias' = alias, bindings' = bindings
        PROVE  /\ conditions' = conditions
               /\ \A i : Row(i)' = Row(i)
    BY <2>1 DEF conditions, Row, integer_param_names
  <2>2. ASSUME NEW p, phase = p, p \notin {"conclude", "alias", "evaluate", "done"}, phase' = p \/ at' = 1 \/ at' = at,
               phase' \notin {"alias", "evaluate", "done"}, phase' \in {"version", "conclude"} => at' = 1,
               contract' = contract, alias' = alias, bindings' = bindings, rows' = rows
        PROVE  EvidenceInv'
    <3>1. rows = <<>> /\ alias = NoAlias
      BY <1>2, <2>2 DEF EvidenceInv
    <3> QED BY <1>2, <2>2, <3>1 DEF EvidenceInv
  <2>3. CASE \E list \in AllLists : Walk(list)
    <3>1. PICK list \in AllLists : Walk(list)
      BY <2>3
    <3>2. /\ phase = list /\ phase' = phase /\ contract' = contract /\ alias' = alias
          /\ bindings' = bindings /\ rows' = rows
      BY <3>1 DEF Walk, outcome
    <3>3. list \notin {"version", "conclude", "alias", "evaluate", "done"}
      BY DEF AllLists
    <3> QED BY <2>2, <3>2, <3>3
  <2>4. CASE CheckVersion
    <3>1. /\ phase = "version" /\ phase' \in {"parameters", "conclude"} /\ at' = at /\ contract' = contract
          /\ alias' = alias /\ bindings' = bindings /\ rows' = rows
      BY <2>4 DEF CheckVersion, outcome
    <3>2. at = 1
      BY <1>2, <3>1 DEF EvidenceInv
    <3> QED BY <2>2, <3>1, <3>2
  <2>5. CASE EndOfList
    <3>1. PICK i \in DOMAIN Lists :
             /\ phase = Lists[i] /\ at' = 1
             /\ phase' = IF i = Len(Lists) THEN "conclude" ELSE Lists[i + 1]
             /\ UNCHANGED <<doc, bindings, walk, outcome>>
      BY <2>5 DEF EndOfList
    <3>2. i \in 1..8 /\ Lists[i] \in AllLists
      BY ListOrder
    <3>3. phase' \in AllLists \cup {"conclude"}
      <4>1. CASE i = Len(Lists)
        BY <3>1, <4>1
      <4>2. CASE i # Len(Lists)
        <5>1. i + 1 \in 1..8
          BY <3>2, <4>2, ListOrder
        <5> QED BY <3>1, <4>2, <5>1, ListOrder
      <4> QED BY <4>1, <4>2
    <3>4. at' = 1 /\ contract' = contract /\ alias' = alias /\ bindings' = bindings /\ rows' = rows
      BY <3>1 DEF outcome
    <3>5. \A list \in AllLists : list \notin {"version", "conclude", "alias", "evaluate", "done"}
      BY DEF AllLists
    <3> QED BY <2>2, <3>1, <3>2, <3>3, <3>4, <3>5
  <2>6. CASE Conclude
    <3>1. /\ phase = "conclude" /\ at' = at /\ alias' = alias /\ bindings' = bindings /\ rows' = rows
          /\ phase' = "done" \/ (phase' = "alias" /\ contract' = Some(checked))
      BY <2>6 DEF Conclude
    <3>2. at = 1 /\ rows = <<>> /\ alias = NoAlias
      BY <1>2, <3>1 DEF EvidenceInv
    <3>3. phase' = "alias" => contract'.some
      BY <3>1 DEF Some
    <3> QED BY <1>2, <3>1, <3>2, <3>3 DEF EvidenceInv
  <2>7. CASE EvaluateAlias
    <3>1. /\ phase = "alias" /\ phase' = "evaluate" /\ at' = at /\ contract' = contract
          /\ bindings' = bindings /\ rows' = rows
          /\ alias' = NoAlias \/ alias' = evaluate_alias(contract.x, <<>>)
      BY <2>7 DEF EvaluateAlias
    <3>2. at = 1 /\ rows = <<>> /\ contract.some
      BY <1>2, <3>1 DEF EvidenceInv
    <3>3. alias' = NoAlias \/ alias' = evaluate_alias(contract'.x, <<>>)
      BY <3>1
    <3>4. Len(rows') = at' - 1
      BY <3>1, <3>2
    <3> QED BY <1>2, <3>1, <3>2, <3>3, <3>4 DEF EvidenceInv
  <2>8. CASE EvaluateCondition
    <3>1. /\ phase = "evaluate" /\ at <= Len(conditions) /\ at' = at + 1 /\ rows' = Append(rows, Row(at))
          /\ phase' = phase /\ contract' = contract /\ alias' = alias /\ bindings' = bindings
      BY <2>8 DEF EvaluateCondition, Row
    <3>2. contract.some /\ Len(rows) = at - 1 /\ rows \in Seq(Judgement)
      BY <1>2, <3>1 DEF EvidenceInv
    <3>3. at \in Nat \ {0}
      BY <1>2 DEF WalkInv, PlaceInv
    <3>4. at \in DOMAIN conditions
      BY <1>2, <3>1, <3>2, <3>3, AcceptedConditions
    <3>5. Row(at) \in Judgement
      BY <1>2, <3>2, <3>4, RowIsJudgement
    <3>6. /\ rows' \in Seq(Judgement) /\ Len(rows') = at /\ DOMAIN rows' = 1..at
          /\ rows'[at] = Row(at) /\ DOMAIN rows = 1..(at - 1)
          /\ \A i \in 1..(at - 1) : rows'[i] = rows[i]
      <4> DEFINE row == Row(at)
      <4> HIDE DEF row
      <4> QED BY <3>1, <3>2, <3>3, <3>5 DEF row
    <3>7. ASSUME NEW i \in DOMAIN rows' PROVE i \in DOMAIN conditions /\ rows'[i] = Row(i)
      <4>1. CASE i = at
        BY <3>4, <3>6, <4>1
      <4>2. CASE i # at
        <5>1. i \in DOMAIN rows
          BY <3>3, <3>6, <4>2
        <5> QED BY <1>2, <3>6, <5>1 DEF EvidenceInv
      <4> QED BY <4>1, <4>2
    <3>8. at = at' - 1
      BY <3>1, <3>3
    <3> QED BY <1>2, <2>1, <3>1, <3>2, <3>6, <3>7, <3>8 DEF EvidenceInv
  <2>9. CASE Aggregate
    <3>1. /\ phase = "evaluate" /\ phase' = "done" /\ rows' = rows
          /\ contract' = contract /\ alias' = alias /\ bindings' = bindings
      BY <2>9 DEF Aggregate
    <3> QED BY <1>2, <2>1, <3>1 DEF EvidenceInv
  <2>10. CASE UNCHANGED vars
    <3>1. /\ phase' = phase /\ at' = at /\ rows' = rows
          /\ contract' = contract /\ alias' = alias /\ bindings' = bindings
      BY <2>10 DEF vars
    <3> QED BY <1>2, <2>1, <3>1 DEF EvidenceInv
  <2>11. ASSUME CheckParameter \/ CheckReturn \/ CheckRequire \/ CheckEnsure \/ CheckEffect
                \/ CheckRegion \/ CheckRelation \/ CheckOverride
         PROVE  \E list \in AllLists : Walk(list)
    BY <2>11 DEF CheckParameter, CheckReturn, CheckRequire, CheckEnsure, CheckEffect, CheckRegion,
                 CheckRelation, CheckOverride, AllLists
  <2> QED BY <1>2, <2>3, <2>4, <2>5, <2>6, <2>7, <2>8, <2>9, <2>10, <2>11 DEF Next, Done
<1> QED BY <1>1, <1>2, WalkIsGood, PTL DEF Spec

\* ExprEvidenceIsSound, for every contract, expressions of any depth, every
\* binding and every call: what eval.rs says of a condition is true of it.
THEOREM EvidenceIsSound == Spec => []ExprEvidenceIsSound
<1>1. ASSUME WalkInv, EvidenceInv PROVE ExprEvidenceIsSound
  <2> SUFFICES ASSUME phase = "done", contract.some, ~Saturates, NEW i \in DOMAIN rows,
                      rows[i] \in Decided, ~Overclaims(conditions[i]),
                      NEW call \in Calls(conditions[i]), NonEmpty(call)
               PROVE  /\ rows[i] = "proven_true" => Meaning(call, conditions[i])
                      /\ rows[i] = "true_under_precondition" => (Promised(call) => Meaning(call, conditions[i]))
                      /\ rows[i] = "proven_false" => (Promised(call) => ~Meaning(call, conditions[i]))
    BY DEF ExprEvidenceIsSound, Decided
  <2> DEFINE e == conditions[i]
             role == IF i <= Len(contract.x.requires) THEN "requires" ELSE "ensures"
             bound == try_caller_bound_obligation(e, bindings, integer_param_names)
  <2>1. i \in DOMAIN conditions /\ rows[i] = Row(i)
    BY <1>1 DEF EvidenceInv
  <2>2. Parsed(e) /\ Len(e) \in DOMAIN e
    BY <1>1, <2>1, AcceptedConditions DEF Parsed
  <2>3. Settled
    BY <1>1 DEF Settled, EvidenceInv
  <2>4. CASE role = "requires" /\ bound
    <3>1. rows[i] = "true_under_precondition"
      BY <2>1, <2>4 DEF Row, eval_condition
    <3>2. e \in Range(contract.x.requires)
      <4>1. i <= Len(contract.x.requires)
        BY <2>4
      <4>2. i \in 1..Len(contract.x.requires)
        BY <1>1, <2>1, <4>1, AcceptedConditions
      <4> QED BY <1>1, <4>2, AcceptedConditions DEF Range
    <3>3. Promised(call) => Meaning(call, e)
      BY <2>4, <3>2, Zenon DEF Promised
    <3> QED BY <3>1, <3>3
  <2>5. CASE ~(role = "requires" /\ bound)
    <3>1. rows[i] = Judgements(e, contract.x.relations, alias, bindings)[Len(e)][FALSE]
      BY <2>1, <2>5 DEF Row, eval_condition, eval_expr
    <3>2. Claims(e, call, Len(e))
      BY <2>2, <2>3, EveryClaim
    <3>3. Claim(e, Len(e), rows[i], Promised(call), Meaning(call, e))
      BY <3>1, <3>2 DEF Claims, Meaning
    <3> QED BY <3>3 DEF Claim
  <2> QED BY <2>4, <2>5
<1> QED BY <1>1, WalkIsGood, EvidenceIsKept, PTL

==============================================================================
