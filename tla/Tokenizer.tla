----------------------------- MODULE Tokenizer ------------------------------
(***************************************************************************)
(* MeCab::Tokenizer (mecab-0.996/src/tokenizer.cpp): the nodes that can    *)
(* begin at a position of a sentence, words of the dictionary and unknown  *)
(* words of one category of characters, as far as the lattice's            *)
(* constraints allow them.  Positions count characters of one byte, so     *)
(* that mblen is 1.  One dictionary stands for the loop over dic_, and the *)
(* sentence is shorter than 65535.                                         *)
(***************************************************************************)
EXTENDS Dictionary, CharProperty

CONSTANTS
  SpaceChar,        \* 0x20
  UnkTokens,        \* unk_tokens_: the tokens of unk.def for each category
  Feature(_),       \* the feature of a token, a sequence of columns
  UnkFeature,       \* unk_feature_, or NoFeature
  NoFeature,
  MaxGroupingSize

(* open() fails if unk.def has nothing for a category. *)
ASSUME TokenizerAssumption ==
  /\ DOMAIN UnkTokens = CategoryIds
  /\ \A c \in CategoryIds : Len(UnkTokens[c]) \in Nat \ {0}
  /\ MaxGroupingSize \in Nat \ {0}

VARIABLES
  memory,       \* the sentence and what lies behind it in memory
  lsize,        \* lattice->size()
  partial,      \* lattice->has_constraint()
  boundary,     \* boundary_constraint_
  feature       \* feature_constraint_

latticeVars == <<memory, lsize, partial, boundary, feature>>

ANY == "ANY_BOUNDARY"
TOKEN == "TOKEN_BOUNDARY"
INSIDE == "INSIDE_TOKEN"

Boundary(p) == IF partial THEN boundary[p] ELSE ANY

-----------------------------------------------------------------------------
(* is_valid_node() *)

PartialMatch(f1, f2) ==
  \/ f1 = <<"*">>
  \/ \A i \in 1..Min({Len(f1), Len(f2)}) : f1[i] \in {"*", f2[i]}

IsValidNoInside(begin, node) ==    \* mutant: an end inside a token is let through
  LET f == feature[begin] IN
  \/ f = NoFeature
  \/ Boundary(begin) = TOKEN /\ Boundary(node.end) = TOKEN /\ PartialMatch(f, node.feature)
IsValidNode(begin, node) ==
  LET f == feature[begin] IN
  /\ Boundary(node.end) # INSIDE
  /\ \/ f = NoFeature
     \/ /\ Boundary(begin) = TOKEN /\ Boundary(node.end) = TOKEN
        /\ PartialMatch(f, node.feature)

Valid(begin, nodes) ==
  Select(nodes, {k \in 1..Len(nodes) : ~partial \/ IsValidNode(begin, nodes[k])})

-----------------------------------------------------------------------------
(* lookup(), in the order of its stages *)

(* end: the first token boundary behind the position, if there is one. *)
EndOf(begin) ==
  Min({lsize} \cup {n \in (begin + 1)..(lsize - 1) : Boundary(n) = TOKEN})

(* commonPrefixSearch() takes length 0 to mean: as far as the string goes. *)
SearchText(begin2, end) ==
  LET stop == IF end > begin2 THEN end
              ELSE Min({p \in begin2..Len(memory) : CharAt(memory, p) = Nul})
  IN SubSeq(memory, begin2 + 1, stop)

KnownNodes(begin2, end) ==
  LET results == CommonPrefixSearch(SearchText(begin2, end))
      nodesOf(r) == [j \in 1..TokenSize(r.value) |->
        [stat |-> "NOR", token |-> TokensOf(r.value)[j], surface |-> begin2,
         end |-> begin2 + r.length, feature |-> Feature(TokensOf(r.value)[j])]]
  IN FlattenSeq([k \in 1..Len(results) |-> nodesOf(results[k])])

(* ADDUNKNWON *)
UnknownNodes(info, begin2, begin3) ==
  [k \in 1..Len(UnkTokens[info.defaultType]) |->
     LET token == UnkTokens[info.defaultType][k] IN
     [stat |-> "UNK", token |-> token, surface |-> begin2, end |-> begin3,
      feature |-> IF UnkFeature # NoFeature THEN UnkFeature ELSE Feature(token)]]

(* The ends of the unknown words of 1, 2, .. characters of one kind, but   *)
(* not that of the whole group, if it was grouped.                         *)
LengthEndsBeyond(info, begin3, end, groupBegin3) ==    \* mutant: goes on behind end
  LET reaches(b) == \A q \in begin3..(b - 1) :
                      q # groupBegin3 /\ IsKindOf(info, InfoAt(memory, q))
  IN {b \in begin3..(end + 1) :
        b < begin3 + Length(info) /\ reaches(b) /\ b # groupBegin3}
LengthEnds(info, begin3, end, groupBegin3) ==
  LET reaches(b) == \A q \in begin3..(b - 1) :
                      q # groupBegin3 /\ IsKindOf(info, InfoAt(memory, q))
  IN {b \in begin3..end : b < begin3 + Length(info) /\ reaches(b) /\ b # groupBegin3}

(* The end of the shortest word that does not end inside a token. *)
ShortestEndOne(begin2, end) == begin2 + 1    \* mutant: always one character
ShortestEnd(begin2, end) ==
  Min({b \in (begin2 + 1)..(end + 1) : b > end \/ Boundary(b) # INSIDE})

NoNodes == << >>
Dies == <<[stat |-> "DIES"]>>    \* CHECK_DIE(new_node->feature)

LastResort(begin, begin2, end) ==
  LET begin3 == ShortestEnd(begin2, end)
      info == InfoAt(memory, begin3 - 1)
      unknown == Valid(begin, UnknownNodes(info, begin2, begin3))
  IN IF unknown # NoNodes THEN unknown
     ELSE IF feature[begin] = NoFeature THEN Dies
     ELSE <<[stat |-> "UNK", token |-> "none", surface |-> begin2, end |-> begin3,
             feature |-> feature[begin]]>>

UnknownStages(begin, begin2, end, info, known) ==
  LET begin3 == begin2 + 1
      unknown(b) == Valid(begin, UnknownNodes(info, begin2, b))
      group == SeekToOtherType(memory, begin3, end, info)
      grouped == IF Group(info) /\ group.clen <= MaxGroupingSize
                 THEN unknown(group.pos) ELSE NoNodes
      lengths == Ascending(
                   LengthEnds(info, begin3, end, IF Group(info) THEN group.pos ELSE -1))
      single == FlattenSeq([k \in 1..Len(lengths) |-> unknown(lengths[k])])
      found == known \o grouped \o single
      \* where the loop over the lengths left begin3
      last == lengths[Len(lengths)]
      stopped == IF lengths = << >> THEN begin3
                 ELSE IF IsKindOf(info, InfoAt(memory, last)) THEN last + 1 ELSE last
  IN IF begin3 > end /\ known \o unknown(begin3) # NoNodes
     THEN known \o unknown(begin3)
     ELSE IF found # NoNodes THEN found
     ELSE IF unknown(stopped) # NoNodes THEN unknown(stopped)
     ELSE IF partial THEN LastResort(begin, begin2, end)
     ELSE NoNodes

Lookup(begin) ==
  LET end == EndOf(begin)
      seek == SeekToOtherType(memory, begin, end, Table(SpaceChar))
      known == Valid(begin, KnownNodes(seek.pos, end))
  IN IF known # NoNodes /\ ~Invoke(seek.fail) THEN known
     ELSE UnknownStages(begin, seek.pos, end, seek.fail, known)
=============================================================================
