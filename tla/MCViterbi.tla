----------------------------- MODULE MCViterbi ------------------------------
(***************************************************************************)
(* Viterbi on small sentences, against the set of all ways to cut the      *)
(* sentence into words of the lexicon.                                     *)
(***************************************************************************)
EXTENDS Viterbi

(* Places of the words in a sentence of 3 characters; "o" and "g" are the  *)
(* unknown words a lookup finds in white space that goes on to the end;    *)
(* the words of the lexicon may reach into it.                             *)
MCBegin == [a |-> 0, c |-> 0, d |-> 1, e |-> 1, f |-> 2, o |-> 1, g |-> 0]
MCEnd   == [a |-> 1, c |-> 2, d |-> 2, e |-> 3, f |-> 3, o |-> 4, g |-> 4]
MCCosts == {-1, 2}
MCWeight(c) == 3 - c

-----------------------------------------------------------------------------
HasOvershoot == \E w \in lexicon : End[w] > Size
(* Behind the last place inside the sentence where a word ends is nothing *)
(* but white space.                                                       *)
TextEnd == Max({0} \cup {End[w] : w \in {v \in lexicon : End[v] <= Size}})

(* All sequences of words of the lexicon that cover the text from p on. *)
Cuts ==
  LET f[p \in 0..Size] ==
        IF p = TextEnd THEN {<<EOS>>}
        ELSE UNION {{<<w>> \o rest : rest \in f[End[w]]} :
                    w \in {v \in lexicon : Begin[v] = p /\ End[v] <= TextEnd}}
  IN {<<BOS>> \o s : s \in f[0]}

CostUpTo(s) ==
  LET f[i \in 1..Len(s)] ==
        IF i = 1 THEN 0 ELSE f[i - 1] + pathCost[<<s[i - 1], s[i]>>]
  IN f
Cost(s) == CostUpTo(s)[Len(s)]

WeightUpTo(s) ==
  LET f[i \in 1..Len(s)] ==
        IF i = 1 THEN 1 ELSE f[i - 1] * Weight(pathCost[<<s[i - 1], s[i]>>])
  IN f
WeightOf(s) == WeightUpTo(s)[Len(s)]
TotalWeight(cuts) == SumFunction([s \in cuts |-> WeightOf(s)])
Passes(s, n) == \E i \in 1..Len(s) : s[i] = n
Takes(s, p) == \E i \in 1..(Len(s) - 1) : <<s[i], s[i + 1]>> = p

(* The path that following next from BOS gives. *)
Chain ==
  LET f[k \in 0..(Cardinality(Words) + 1)] ==
        IF k = 0 THEN <<BOS>>
        ELSE LET c == f[k - 1] IN
             IF Last(c) \in {EOS, NoNode} THEN c ELSE Append(c, next[Last(c)])
  IN f[Cardinality(Words) + 1]
LinkedBack(s) == \A i \in 1..(Len(s) - 1) : prev[s[i + 1]] = s[i]

-----------------------------------------------------------------------------
(***************************************************************************)
(* The path that is linked after buildBestLattice() is a way to cut the    *)
(* whole text into words, no other is cheaper, EOS knows its cost, and     *)
(* isbest marks its nodes.                                                 *)
(***************************************************************************)
BestIsCheapest ==
  phase = "all" =>
    LET cuts == Cuts  chain == Chain IN
    /\ chain \in cuts /\ LinkedBack(chain)
    /\ \A s \in cuts : nodeCost[EOS] <= Cost(s)
    /\ nodeCost[EOS] = Cost(chain)
    /\ isbest = ToSet(chain)

(***************************************************************************)
(* A sentence is refused only if some node cannot be reached for less than *)
(* the largest cost there is, and then it is refused.                      *)
(***************************************************************************)
RefusedOnOverflow ==
  ~HasOvershoot /\ phase \in {"failed", "best"} =>
    LET cuts == Cuts
        outOfReach(w) == \A s \in cuts : \A i \in 1..Len(s) :
                           s[i] = w => CostUpTo(s)[i] >= MaxCost
    IN phase = "failed" <=> \E w \in lexicon \cup {EOS} : outOfReach(w)

(***************************************************************************)
(* If no word ends behind the text, the marginal probability of a node,    *)
(* alpha * beta / Z, is the share of the weight of all cuts that pass      *)
(* through it; the same for a path.                                        *)
(***************************************************************************)
MarginalsAreShares ==
  ~HasOvershoot /\ phase = "best" /\ "MARGINAL_PROB" \in requestType =>
    LET cuts == Cuts IN
    /\ Z = TotalWeight(cuts)
    /\ \A n \in lexicon : alpha[n] * beta[n] = TotalWeight({s \in cuts : Passes(s, n)})
    /\ \A p \in paths :
         alpha[p[1]] * Weight(pathCost[p]) * beta[p[2]] = TotalWeight({s \in cuts : Takes(s, p)})

(***************************************************************************)
(* With ALL_MORPHS the list from BOS visits every node of the lattice once *)
(* in the order of their beginnings and ends in EOS (mecab.h:295), and it  *)
(* still does after any number of calls of next().                         *)
(***************************************************************************)
AllMorphsListed ==
  phase \in {"nbest", "done"} /\ "ALL_MORPHS" \in requestType =>
    LET chain == Chain IN
    /\ ToSet(chain) = lexicon \cup {BOS, EOS}
    /\ Len(chain) = Cardinality(lexicon) + 2
    /\ LinkedBack(chain)
    /\ \A i \in 2..(Len(chain) - 2) : Begin[chain[i]] <= Begin[chain[i + 1]]

(***************************************************************************)
(* N-best enumeration returns cuts, each once, the best one first, and     *)
(* when it reports that there are no more it has returned all of them.     *)
(***************************************************************************)
EnumeratesEveryCut ==
  phase = "done" /\ "NBEST" \in requestType /\ ~searching =>
    LET cuts == Cuts IN
    /\ \A i \in 1..Len(found) :
         /\ found[i].path \in cuts
         /\ found[i].gx = Cost(found[i].path)
         /\ \A j \in 1..Len(found) : found[i].path = found[j].path => i = j
    /\ found # << >> => found[1].gx = nodeCost[EOS]
    /\ agenda = {} => {found[i].path : i \in 1..Len(found)} = cuts

(***************************************************************************)
(* After each next() the nodes' links are the path that was returned,      *)
(* unless ALL_MORPHS asks for all nodes.                                   *)
(***************************************************************************)
LinksFollowFound ==
  phase = "done" /\ found # << >> /\ "ALL_MORPHS" \notin requestType =>
    /\ Chain = found[Len(found)].path
    /\ LinkedBack(Chain)

(***************************************************************************)
(* mecab.h:202: prob is a probability.                                     *)
(***************************************************************************)
ProbAtMostOne ==
  phase = "best" => \A n \in lexicon : alpha[n] * beta[n] <= Z

(***************************************************************************)
(* Every call of next() returns, with a path or with none.                 *)
(***************************************************************************)
NextReturns == searching ~> ~searching /\ phase = "done"
=============================================================================
