----------------------------- MODULE Dictionary -----------------------------
(***************************************************************************)
(* MeCab::Dictionary (mecab-0.996/src/dictionary.cpp, dictionary.h): the   *)
(* entries of a lexicon are sorted by surface, the entries of one surface  *)
(* are counted, and their count and place are packed into the value that   *)
(* the double array has for the surface.  Reading the csv files and        *)
(* choosing ids and costs is left out: an entry is a surface, a string of  *)
(* bytes, and a token.                                                     *)
(***************************************************************************)
EXTENDS DoubleArray

CONSTANTS
  MaxInt     \* the largest value of a double array, 2^31 - 1 in the code

(* Wide enough for the values of surfaces whose counts fit 8 bits to come *)
(* out negative before they come round to 0 again.                        *)
ASSUME DictionaryAssumption == MaxInt \in Nat /\ MaxInt >= 65535

VARIABLES
  entries,   \* dic: the lexicon, in the order it was read
  tokens     \* token_: the token array of the compiled dictionary

dictionaryVars == <<entries, tokens, arrayVars>>

-----------------------------------------------------------------------------
(* compile() *)

SurfaceLess(s, t) ==
  \E i \in 1..Len(t) :
    /\ \A j \in 1..(i - 1) : j <= Len(s) /\ s[j] = t[j]
    /\ i > Len(s) \/ s[i] < t[i]

(* Every line of the lexicon with an empty surface is left out. *)
Lines(lexicon) == {i \in 1..Len(lexicon) : lexicon[i].surface # << >>}

(* stable_sort: equal surfaces stay in the order they were read. *)
Before(dic, i, j) ==
  \/ SurfaceLess(dic[i].surface, dic[j].surface)
  \/ dic[i].surface = dic[j].surface /\ i < j

(* The line with k - 1 others before it comes to place k. *)
Sorted(lexicon) ==
  LET lines == Lines(lexicon)
      ranks == {<<Cardinality({j \in lines : Before(lexicon, j, i)}), i>> : i \in lines}
  IN [k \in 1..Cardinality(lines) |-> lexicon[(CHOOSE r \in ranks : r[1] = k - 1)[2]]]

(* Where a surface begins, counted from 0. *)
Starts(dic) == {i \in 1..Len(dic) : i = 1 \/ dic[i].surface # dic[i - 1].surface}

ToInt(n) == ((n + MaxInt + 1) % (2 * (MaxInt + 1))) - (MaxInt + 1)
Pack(bsize, idx) == ToInt(bsize + idx * 256)

(* Compiling hands the surfaces, each once and in order, to build(). *)
Compile(lexicon) ==
  LET dic == Sorted(lexicon)
      at == Ascending(Starts(dic))
      bsize(k) == (IF k = Len(at) THEN Len(dic) + 1 ELSE at[k + 1]) - at[k]
  IN
  /\ entries' = lexicon
  /\ tokens' = [i \in 1..Len(dic) |-> dic[i].token]
  /\ StartBuild([k \in 1..Len(at) |-> dic[at[k]].surface],
                [k \in 1..Len(at) |-> Pack(bsize(k), at[k] - 1)])

Compiled == ~Building /\ error = 0    \* else CHECK_DIE

-----------------------------------------------------------------------------
(* token() and token_size() *)

TokenSize(v) == v % 256
TokenIndex(v) == v \div 256
TokensOf(v) == [j \in 1..TokenSize(v) |-> tokens[TokenIndex(v) + j]]
=============================================================================
