------------------------------ MODULE MCLookup ------------------------------
(***************************************************************************)
(* LookupSession on small lexicons and sentences, against what a lookup    *)
(* should find, stated over the lexicon, char.def and the constraints.     *)
(***************************************************************************)
EXTENDS LookupSession, WordLattice

Space == 1
A == 2
B == 3
MCNul == 0
MCCategories == <<[invoke |-> FALSE, group |-> TRUE, length |-> 0],
                  [invoke |-> FALSE, group |-> TRUE, length |-> 0],
                  [invoke |-> TRUE, group |-> TRUE, length |-> 2],
                  [invoke |-> FALSE, group |-> FALSE, length |-> 2]>>

CharRange(low, high, cats) == [low |-> low, high |-> high, cats |-> cats]
MCCharDefs == {
  <<CharRange(Space, Space, <<1>>), CharRange(A, B, <<2>>)>>,
  <<CharRange(A, B, <<2, 3>>), CharRange(Space, Space, <<1>>), CharRange(B, B, <<0>>)>>,
  <<CharRange(Space, Space, <<1>>), CharRange(A, B, <<3, 0>>)>>,
  <<CharRange(Space, Space, <<1>>), CharRange(A, A, <<2, 2>>)>>}

Entry(surface, token) == [surface |-> surface, token |-> token]
Copies(n, surface) == [i \in 1..n |-> Entry(surface, "t1")]
WordLexicons == {
  <<Entry(<<A, B>>, "t2"), Entry(<<A>>, "t1"), Entry(<<B, A>>, "t1"), Entry(<< >>, "t2"),
    Entry(<<A>>, "t2"), Entry(<<B, Space>>, "t3"), Entry(<<A, B, B>>, "t3")>>,
  <<Entry(<<B>>, "t3"), Entry(<<A, A>>, "t2"), Entry(<<B, B>>, "t1"), Entry(<<A, A, B>>, "t1")>>,
  <<Entry(<<A, 40>>, "t1"), Entry(<<B>>, "t2"), Entry(<<A, B>>, "t1"), Entry(<<40, A>>, "t2"),
    Entry(<<B, 41, A>>, "t3"), Entry(<<Space, B>>, "t1"), Entry(<<B, 90>>, "t2")>>}
ManyLexicons == {
  Copies(200, <<A>>) \o Copies(55, <<B>>) \o <<Entry(<<A, B>>, "t2"), Entry(<<B, A>>, "t2")>>,
  Copies(256, <<B>>)}
MCLexicons == WordLexicons \cup ManyLexicons

MCUnkTokens == [c \in 0..3 |-> IF c = 2 THEN <<"u1", "u2">> ELSE <<"u1">>]
MCFeature(t) == CASE t = "t1" -> <<"N", "x">> [] t = "t2" -> <<"V", "x">>
                  [] t = "t3" -> <<"N", "y">> [] t = "u1" -> <<"N", "u">>
                  [] OTHER -> <<"S", "u">>

Texts(n) == [1..n -> {Space, A, B}]
Whole(t) == [memory |-> t, lsize |-> Len(t)]
MCSentences ==    \* the last ones end before their memory does
  {Whole(t) : t \in UNION {Texts(n) : n \in 1..3}}
  \cup {Whole(t) : t \in {<<A, B, Space, A>>, <<A, A, B, B>>, <<Space, Space, A, B>>,
                         <<B, A, A, A>>, <<A, B, A, Space>>, <<B, B, B, B>>}}
  \cup [memory : {<<A, Space, B>>, <<A, Space, B, A>>, <<Space, A, B>>, <<A, B, B>>},
         lsize : {2}]
MCNoFeature == << >>
MCFeatures == {<<"N">>, <<"*", "x">>}
MCPartialTexts ==
  LET line == [surface : {<<Space>>, <<A>>, <<A, B>>, <<B, Space>>},
               feature : {MCNoFeature, <<"N", "*">>}]
  IN UNION {[1..n -> line] : n \in 1..2}

-----------------------------------------------------------------------------
(***************************************************************************)
(* What Dictionary::compile() writes is the lexicon: for every text, the   *)
(* search finds the surfaces that the text begins with, shortest first,    *)
(* and for each the tokens of its entries in the order they were read.     *)
(* build() never meets keys that are not sorted.  It refuses a lexicon     *)
(* only if a value exceeds the integers; no value wraps round to another.  *)
(* A surface with 256 entries or more does not fit the 8 bits of its count *)
(* and is left out.                                                        *)
(***************************************************************************)
EntriesOf(surface) == {i \in 1..Len(entries) : entries[i].surface = surface}
TokensFor(surface) ==
  LET es == Select(entries, EntriesOf(surface))
  IN [i \in 1..Len(es) |-> es[i].token]
Surfaces == {entries[i].surface : i \in DOMAIN entries} \ {<< >>}
CountsFit == \A s \in Surfaces : Cardinality(EntriesOf(s)) < 256

FoundIn(t) ==
  LET results == CommonPrefixSearch(t)
      lengths == {n \in 1..Len(t) : SubSeq(t, 1, n) \in Surfaces}
      exact == ExactMatchSearch(t)
  IN
  /\ [k \in 1..Len(results) |-> results[k].length] = Ascending(lengths)
  /\ \A k \in 1..Len(results) :
       TokensOf(results[k].value) = TokensFor(SubSeq(t, 1, results[k].length))
  /\ IF t \in Surfaces THEN TokensOf(exact) = TokensFor(t) ELSE exact = -1

WordsFound ==
  /\ phase = "sentence" /\ CountsFit =>
       \A t \in Surfaces \cup UNION {Texts(n) : n \in 1..4} : FoundIn(t)
  /\ phase = "build" /\ Building => InOrder(Head(todo))
  /\ phase = "refused" => Len(entries) * 256 > MaxInt

-----------------------------------------------------------------------------
(***************************************************************************)
(* Two characters are of one kind exactly if char.def puts them into a     *)
(* category both belong to, its last range for a character counting.  A    *)
(* range that names a category twice is left out: the types are added up.  *)
(***************************************************************************)
CategoriesOf(t) ==
  LET rs == Select(ranges, {i \in 1..Len(ranges) : ranges[i].low <= t /\ t <= ranges[i].high})
  IN IF rs = << >> THEN <<DefaultCategory>> ELSE rs[Len(rs)].cats
KindsAsDefined ==
  phase = "build" =>
    \A c, d \in {t \in MCNul..B : IsInjective(CategoriesOf(t))} :
      IsKindOf(Table(c), Table(d)) <=>
        ToSet(CategoriesOf(c)) \cap ToSet(CategoriesOf(d)) # {}

-----------------------------------------------------------------------------
(* Where the white space before a word that is looked up at p ends. *)
AfterSpace(p) == SeekToOtherType(memory, p, EndOf(p), Table(SpaceChar)).pos
OnlySpaceLeft(p) == AfterSpace(p) = EndOf(p)

(* Where the string ends that the memory holds from the end of the text on. *)
StringEnd == Min({p \in lsize..Len(memory) : CharAt(memory, p) = Nul})

(***************************************************************************)
(* What the lookups of a sentence deliver is a lexicon that the search can *)
(* work with, the one that Viterbi starts from: no position that is        *)
(* reached is without a word, no word is empty, and each counts as ending  *)
(* one place behind the sentence if it ends behind the sentence at all.  A *)
(* word does so only where nothing but white space was left.  It ends      *)
(* further behind only if it is a known one that is part of the string in  *)
(* memory (a text given by its length need not end there), or under        *)
(* constraints.                                                            *)
(***************************************************************************)
DeliversLexicon ==
  phase = "done" =>
    /\ PossibleLexicon({<<f.begin, Min({f.node.end, lsize + 1})>> : f \in found}, lsize)
    /\ \A f \in found : f.node.end > lsize => OnlySpaceLeft(f.begin)
    /\ \A f \in found : f.node.end > lsize + 1 =>
         IF f.node.stat = "NOR" THEN f.node.end <= StringEnd ELSE partial

(***************************************************************************)
(* Constraints are kept: a word crosses no position that was made a token  *)
(* boundary and ends at none that was declared to be inside a token, and   *)
(* where a feature was asked for, the word has it and ends at a boundary.  *)
(* Not so in white space that a boundary cuts off from the word behind it: *)
(* there the search looks beyond the boundary.                             *)
(***************************************************************************)
ConstraintsKept ==
  partial =>
    \A f \in found :
      LET n == f.node IN
      OnlySpaceLeft(f.begin) \/
        /\ \A q \in (f.begin + 1)..(n.end - 1) : boundary[q] # TOKEN
        /\ boundary[n.end] # INSIDE
        /\ feature[f.begin] # NoFeature =>
             /\ boundary[n.end] = TOKEN
             /\ n.feature = feature[f.begin] \/ PartialMatch(feature[f.begin], n.feature)

(***************************************************************************)
(* The assertion at the end of a lookup (CHECK_DIE in tokenizer.cpp:368)   *)
(* fails, and with it the process, in one case only: white space without a *)
(* feature reaches up to a boundary, and the character behind that one is  *)
(* the first of a token of two characters or more.                         *)
(***************************************************************************)
DiesOnlyBeforeToken ==
  phase = "died" =>
    /\ OnlySpaceLeft(pos) /\ feature[pos] = NoFeature
    /\ Boundary(EndOf(pos) + 1) = INSIDE
=============================================================================
