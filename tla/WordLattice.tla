---------------------------- MODULE WordLattice -----------------------------
(***************************************************************************)
(* What the lookups of a sentence (Tokenizer) owe to the search for the    *)
(* best path (Viterbi).                                                    *)
(***************************************************************************)
EXTENDS Naturals

(***************************************************************************)
(* A lookup always finds a word, an unknown one if need be, so that there  *)
(* is no dead end, and it is asked for words only where one ends.  No word *)
(* is empty.  Where only white space is left, the unknown word ends one    *)
(* place behind the sentence (tokenizer.cpp:307, begin3 > end), for which  *)
(* the node lists still have room, and none ends further on: a word that   *)
(* the lookup lets end further behind (see DeliversLexicon) counts as      *)
(* ending there.  places are the words' <<begin, end>>, size is the length *)
(* of the sentence.                                                        *)
(***************************************************************************)
PossibleLexicon(places, size) ==
  LET reached == {0} \cup {w[2] : w \in places} IN
  /\ \A p \in reached \cap (0..(size - 1)) : \E w \in places : w[1] = p
  /\ \A w \in places : w[1] \in reached
  /\ \A w \in places : w[1] < w[2] /\ w[2] <= size + 1
=============================================================================
