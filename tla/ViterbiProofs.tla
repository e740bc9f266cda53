--------------------------- MODULE ViterbiProofs ----------------------------
(***************************************************************************)
(* For every sentence, lexicon and table of costs.                         *)
(*                                                                         *)
(* I.   NBestGenerator returns the paths of any lattice with best node     *)
(*      costs in the order of their costs.                                 *)
(* II.  The lattice that viterbi() and buildAllLattice() leave: which      *)
(*      nodes and Path objects there are (LatticeInv), that a node's cost  *)
(*      is that of the cheapest way to it (NodeCosts), and that the links  *)
(*      of the best path lead there (LinkInv).                             *)
(* III. A way to cut the sentence (Cuts) is a route along Path objects and *)
(*      the other way round, and the cost of the one is that of the other; *)
(*      so the best path is the cheapest cut, and the generator returns    *)
(*      each of them, none twice.                                          *)
(* IV.  The list of all nodes that buildAllLattice() links.                *)
(* V.   The forward and backward sums, and what share of all cuts a node   *)
(*      or a Path object has.                                              *)
(*                                                                         *)
(* Cuts, costs of paths and chains of links are recursive functions.  They *)
(* are unfolded with RecursiveFunctionExists, and induction over positions *)
(* and lengths is done on the set of the numbers that have the property    *)
(* (NatSetInduction, IntervalInduction).                                   *)
(***************************************************************************)
EXTENDS NBestGenerator, MCViterbi, InductionLemmas, SequenceTheorems, TLAPS

-----------------------------------------------------------------------------
(* I. The generator, on any lattice whose node costs are best costs. *)

Paths == Seq(Nodes) \ {<< >>}
Elements == [path : Paths, fx : Int, gx : Int]

(***************************************************************************)
(* Types, with what the search never changes (the lattice) and what it     *)
(* maintains of the paths it builds.                                       *)
(***************************************************************************)
GeneratorTypes ==
  /\ CostsAreBest
  /\ agenda \subseteq Elements
  /\ found \in Seq(Elements)
  /\ \A e \in agenda : Linked(e.path)

GeneratorInvariant ==
  GeneratorTypes /\ AgendaBound /\ FoundInOrder /\ FoundAreLinked

-----------------------------------------------------------------------------
LEMMA NodesDiffer == BOS \in Nodes /\ EOS \in Nodes /\ BOS # EOS
BY NodeAssumption DEF Nodes

LEMMA InitialElementType == InitialElement \in Elements /\ Linked(InitialElement.path)
<1>1. <<EOS>> \in Seq(Nodes) /\ <<EOS>> # << >> /\ Len(<<EOS>>) = 1
  BY NodesDiffer
<1>2. InitialElement \in Elements
  BY <1>1 DEF InitialElement, Element, Elements, Paths
<1>3. Linked(InitialElement.path)
  BY <1>1 DEF InitialElement, Element, Linked
<1> QED
  BY <1>2, <1>3

(* Putting a left node in front of a path. *)
LEMMA PrependPath ==
  ASSUME NEW path \in Paths, NEW l \in Nodes
  PROVE  /\ <<l>> \o path \in Paths
         /\ Head(<<l>> \o path) = l
         /\ Len(<<l>> \o path) = Len(path) + 1
         /\ (<<l>> \o path)[1] = l
         /\ \A i \in 1..Len(path) : (<<l>> \o path)[i + 1] = path[i]
<1> DEFINE q == <<l>> \o path
<1>1. path \in Seq(Nodes) /\ path # << >> /\ <<l>> \in Seq(Nodes) /\ Len(<<l>>) = 1
  BY DEF Paths
<1>2. /\ q \in Seq(Nodes)
      /\ Len(q) = 1 + Len(path)
      /\ \A i \in 1..(1 + Len(path)) :
           q[i] = IF i <= 1 THEN <<l>>[i] ELSE path[i - 1]
  BY <1>1, ConcatProperties
<1>3. Len(path) \in Nat
  BY <1>1, LenProperties
<1>4. q[1] = l
  BY <1>2, <1>3
<1>5. q # << >>
  BY <1>2, <1>3, EmptySeq
<1>6. Head(q) = l
  BY <1>4, <1>5, <1>2
<1>7. \A i \in 1..Len(path) : q[i + 1] = path[i]
  BY <1>2, <1>3
<1> QED
  BY <1>2, <1>3, <1>4, <1>5, <1>6, <1>7 DEF Paths

LEMMA PathFacts ==
  ASSUME NEW path \in Paths
  PROVE  Len(path) \in Nat \ {0} /\ Head(path) = path[1] /\ Head(path) \in Nodes
BY EmptySeq, HeadTailProperties DEF Paths

-----------------------------------------------------------------------------
(***************************************************************************)
(* The heart of the argument: a left path of an element is linked, its fx  *)
(* is exact, and it is not below the element's cost, for no path leads to  *)
(* a node for less than the node's cost.                                   *)
(***************************************************************************)
LEMMA PredecessorFacts ==
  ASSUME CostsAreBest, NEW e \in Elements, Linked(e.path),
         NEW c \in Predecessors(e)
  PROVE  /\ c \in Elements
         /\ Linked(c.path)
         /\ c.fx = nodeCost[Head(c.path)] + c.gx
         /\ c.fx >= nodeCost[Head(e.path)] + e.gx
<1>1. PICK p \in paths :
        /\ p[2] = Head(e.path)
        /\ c = Element(<<p[1]>> \o e.path,
                       nodeCost[p[1]] + pathCost[p] + e.gx,
                       pathCost[p] + e.gx)
  BY DEF Predecessors
<1>2. /\ p = <<p[1], p[2]>> /\ p[1] \in Nodes /\ p[2] \in Nodes
      /\ pathCost[p] \in Int
      /\ nodeCost[p[1]] \in Int /\ nodeCost[p[2]] \in Int
      /\ nodeCost[p[2]] <= nodeCost[p[1]] + pathCost[p]
  BY DEF CostsAreBest
<1>3. e.path \in Paths /\ e.gx \in Int
  BY DEF Elements
<1> DEFINE q == <<p[1]>> \o e.path
<1>4. /\ q \in Paths /\ Head(q) = p[1] /\ Len(q) = Len(e.path) + 1 /\ q[1] = p[1]
      /\ \A i \in 1..Len(e.path) : q[i + 1] = e.path[i]
  BY <1>2, <1>3, PrependPath
<1>5. Len(e.path) \in Nat \ {0} /\ Head(e.path) = e.path[1]
  BY <1>3, PathFacts
<1>6. c.path = q /\ c.gx = pathCost[p] + e.gx
      /\ c.fx = nodeCost[p[1]] + pathCost[p] + e.gx
  BY <1>1 DEF Element
<1>7. c \in Elements
  <2>1. c = [path |-> q, fx |-> nodeCost[p[1]] + pathCost[p] + e.gx,
             gx |-> pathCost[p] + e.gx]
    BY <1>1 DEF Element
  <2>2. pathCost[p] + e.gx \in Int
    BY <1>2, <1>3
  <2>3. nodeCost[p[1]] + pathCost[p] + e.gx \in Int
    BY <1>2, <1>3
  <2>4. q \in Paths
    BY <1>4
  <2> HIDE DEF q
  <2> QED
    BY <2>1, <2>2, <2>3, <2>4 DEF Elements
<1>8. Linked(q)
  <2>1. q[Len(q)] = EOS
    BY <1>4, <1>5 DEF Linked
  <2>2. ASSUME NEW i \in 1..(Len(q) - 1)
        PROVE  <<q[i], q[i + 1]>> \in paths
    <3>1. CASE i = 1
      BY <3>1, <1>1, <1>2, <1>4, <1>5
    <3>2. CASE i # 1
      <4>1. i - 1 \in 1..(Len(e.path) - 1) /\ i \in 1..Len(e.path)
            /\ i - 1 \in 1..Len(e.path) /\ (i - 1) + 1 = i
        BY <3>2, <1>4, <1>5
      <4>2. q[i] = e.path[i - 1] /\ q[i + 1] = e.path[i]
        BY <4>1, <1>4
      <4>3. <<e.path[i - 1], e.path[(i - 1) + 1]>> \in paths
        BY <4>1 DEF Linked
      <4> QED
        BY <4>1, <4>2, <4>3
    <3> QED
      BY <3>1, <3>2
  <2> QED
    BY <2>1, <2>2 DEF Linked
<1>9. c.fx = nodeCost[Head(c.path)] + c.gx
  BY <1>2, <1>3, <1>4, <1>6
<1>10. c.fx >= nodeCost[Head(e.path)] + e.gx
  BY <1>1, <1>2, <1>3, <1>6
<1> QED
  BY <1>6, <1>7, <1>8, <1>9, <1>10

-----------------------------------------------------------------------------
LEMMA GeneratorInitially == GeneratorInit => GeneratorInvariant
<1> SUFFICES ASSUME GeneratorInit PROVE GeneratorInvariant
  OBVIOUS
<1>1. found = << >> /\ found \in Seq(Elements) /\ Len(found) = 0
  BY EmptySeq DEF GeneratorInit
<1>2. GeneratorTypes
  BY <1>1, InitialElementType DEF GeneratorInit, GeneratorTypes
<1>3. AgendaBound /\ FoundInOrder /\ FoundAreLinked
  BY <1>1 DEF GeneratorInit, AgendaBound, FoundInOrder, FoundAreLinked
<1> QED
  BY <1>2, <1>3 DEF GeneratorInvariant

(* What a step that leaves the lattice and `found` alone leaves alone. *)
LEMMA SameFound ==
  ASSUME GeneratorInvariant, UNCHANGED <<latticeVars, found>>
  PROVE  /\ CostsAreBest' /\ found' \in Seq(Elements)
         /\ FoundInOrder' /\ FoundAreLinked'
         /\ \A path : Linked(path)' <=> Linked(path)
BY DEF GeneratorInvariant, GeneratorTypes, latticeVars, CostsAreBest, FoundInOrder,
       FoundAreLinked, Linked

LEMMA ExpandKeepsInvariant ==
  ASSUME GeneratorInvariant, NEW e \in agenda, Expand(e)
  PROVE  GeneratorInvariant'
<1>1. UNCHANGED <<latticeVars, found>> /\ IsTop(e)
      /\ agenda' = (agenda \ {e}) \cup Predecessors(e)
  BY DEF Expand
<1>2. e \in Elements /\ Linked(e.path) /\ CostsAreBest
  BY DEF GeneratorInvariant, GeneratorTypes
<1>3. GeneratorTypes'
  <2>1. \A c \in agenda' : c \in Elements /\ Linked(c.path)
    BY <1>1, <1>2, PredecessorFacts DEF GeneratorInvariant, GeneratorTypes
  <2> QED
    BY <1>1, <2>1, SameFound DEF GeneratorTypes
<1>4. AgendaBound'
  <2>1. nodeCost' = nodeCost /\ found' = found
    BY <1>1 DEF latticeVars
  <2>2. CASE agenda = {InitialElement} /\ found = << >>
    <3>1. \A c \in agenda' : c \in Predecessors(e)
      BY <1>1, <2>2
    <3> QED
      BY <1>2, <2>1, <2>2, <3>1, PredecessorFacts DEF AgendaBound
  <2>3. CASE \A f \in agenda :
               /\ f.fx = nodeCost[Head(f.path)] + f.gx
               /\ \A i \in 1..Len(found) : found[i].gx <= f.fx
    <3>1. ASSUME NEW c \in Predecessors(e), NEW i \in 1..Len(found)
          PROVE  found[i].gx <= c.fx
      <4>1. c.fx >= e.fx /\ found[i].gx <= e.fx
        BY <1>2, <2>3, PredecessorFacts
      <4>2. c.fx \in Int /\ e.fx \in Int /\ found[i].gx \in Int
        <5>1. c \in Elements
          BY <1>2, PredecessorFacts
        <5>2. found[i] \in Elements
          BY ElementOfSeq DEF GeneratorInvariant, GeneratorTypes
        <5> QED
          BY <1>2, <5>1, <5>2 DEF Elements
      <4> QED
        BY <4>1, <4>2
    <3>2. \A c \in Predecessors(e) : c.fx = nodeCost[Head(c.path)] + c.gx
      BY <1>2, PredecessorFacts
    <3> QED
      BY <1>1, <2>1, <2>3, <3>1, <3>2 DEF AgendaBound
  <2> QED
    BY <2>2, <2>3 DEF GeneratorInvariant, AgendaBound
<1> QED
  BY <1>1, <1>3, <1>4, SameFound DEF GeneratorInvariant

LEMMA ReturnPathKeepsInvariant ==
  ASSUME GeneratorInvariant, NEW e \in agenda, ReturnPath(e)
  PROVE  GeneratorInvariant'
<1>1. /\ UNCHANGED latticeVars /\ IsTop(e) /\ Head(e.path) = BOS
      /\ agenda' = agenda \ {e} /\ found' = Append(found, e)
  BY DEF ReturnPath
<1>2. /\ agenda \subseteq Elements /\ e \in Elements /\ Linked(e.path)
      /\ found \in Seq(Elements) /\ CostsAreBest
  BY DEF GeneratorInvariant, GeneratorTypes
<1>3. /\ found' \in Seq(Elements) /\ Len(found) \in Nat
      /\ Len(found') = Len(found) + 1
      /\ found'[Len(found) + 1] = e
      /\ \A i \in 1..Len(found) : found'[i] = found[i]
  BY <1>1, <1>2
<1>4. agenda # {InitialElement}
  BY <1>1, NodesDiffer DEF InitialElement, Element
<1>5. \A f \in agenda :
        /\ f.fx = nodeCost[Head(f.path)] + f.gx
        /\ \A i \in 1..Len(found) : found[i].gx <= f.fx
  BY <1>4 DEF GeneratorInvariant, AgendaBound
<1>6. e.fx = e.gx
  BY <1>1, <1>2, <1>5 DEF CostsAreBest, Elements
<1>7. \A path : Linked(path)' <=> Linked(path)
  BY <1>1 DEF latticeVars, Linked
<1>8. GeneratorTypes'
  <2>1. CostsAreBest'
    BY <1>1, <1>2 DEF latticeVars, CostsAreBest
  <2> QED
    BY <1>1, <1>2, <1>3, <1>7, <2>1 DEF GeneratorInvariant, GeneratorTypes
<1>9. AgendaBound'
  <2>1. \A f \in agenda : e.gx <= f.fx
    BY <1>1, <1>6 DEF IsTop
  <2>2. \A f \in agenda' : \A i \in 1..Len(found') : found'[i].gx <= f.fx
    BY <1>1, <1>3, <1>5, <2>1
  <2>3. \A f \in agenda' : f.fx = nodeCost'[Head(f.path)] + f.gx
    BY <1>1, <1>5 DEF latticeVars
  <2> QED
    BY <2>2, <2>3 DEF AgendaBound
<1>10. FoundInOrder'
  <2>1. \A i \in 1..Len(found) : found[i].gx <= e.gx
    BY <1>5, <1>6
  <2>2. e.gx \in Int
    BY <1>2 DEF Elements
  <2> SUFFICES ASSUME NEW i \in 1..Len(found'), NEW j \in 1..Len(found'), i <= j
               PROVE  found'[i].gx <= found'[j].gx
    BY DEF FoundInOrder
  <2>3. CASE j = Len(found) + 1
    BY <1>3, <2>1, <2>2, <2>3
  <2>4. CASE j # Len(found) + 1
    <3>1. i \in 1..Len(found) /\ j \in 1..Len(found)
      BY <1>3, <2>4
    <3> QED
      BY <1>3, <3>1 DEF GeneratorInvariant, FoundInOrder
  <2> QED
    BY <2>3, <2>4
<1>11. FoundAreLinked'
  <2> SUFFICES ASSUME NEW i \in 1..Len(found')
               PROVE  Head(found'[i].path) = BOS /\ Linked(found'[i].path)
    BY <1>7 DEF FoundAreLinked
  <2>1. CASE i = Len(found) + 1
    BY <1>1, <1>2, <1>3, <2>1
  <2>2. CASE i # Len(found) + 1
    BY <1>3, <2>2 DEF GeneratorInvariant, FoundAreLinked
  <2> QED
    BY <2>1, <2>2
<1> QED
  BY <1>8, <1>9, <1>10, <1>11 DEF GeneratorInvariant

LEMMA StepKeepsInvariant ==
  GeneratorInvariant /\ [NextPath]_<<latticeVars, generatorVars>> => GeneratorInvariant'
<1> SUFFICES ASSUME GeneratorInvariant, [NextPath]_<<latticeVars, generatorVars>>
             PROVE  GeneratorInvariant'
  OBVIOUS
<1>1. ASSUME UNCHANGED <<latticeVars, agenda, found>>
      PROVE  GeneratorInvariant'
  <2>1. GeneratorTypes'
    BY <1>1, SameFound DEF GeneratorInvariant, GeneratorTypes
  <2>2. AgendaBound'
    BY <1>1 DEF GeneratorInvariant, AgendaBound, latticeVars
  <2> QED
    BY <1>1, <2>1, <2>2, SameFound DEF GeneratorInvariant
<1>2. CASE CallNext
  BY <1>1, <1>2 DEF CallNext
<1>3. CASE ReturnNone
  BY <1>1, <1>3 DEF ReturnNone
<1>4. ASSUME NEW e \in agenda, Expand(e)
      PROVE  GeneratorInvariant'
  BY <1>4, ExpandKeepsInvariant
<1>5. ASSUME NEW e \in agenda, ReturnPath(e)
      PROVE  GeneratorInvariant'
  BY <1>5, ReturnPathKeepsInvariant
<1>6. CASE UNCHANGED <<latticeVars, generatorVars>>
  BY <1>1, <1>6 DEF generatorVars
<1> QED
  BY <1>2, <1>3, <1>4, <1>5, <1>6 DEF NextPath, SearchStep

THEOREM Invariance == GeneratorSpec => []GeneratorInvariant
BY GeneratorInitially, StepKeepsInvariant, PTL DEF GeneratorSpec

(***************************************************************************)
(* Whatever the lattice, next() returns paths in the order of their costs. *)
(***************************************************************************)
THEOREM InOrder == GeneratorSpec => []FoundInOrder
<1>1. GeneratorInvariant => FoundInOrder
  BY DEF GeneratorInvariant
<1> QED
  BY <1>1, Invariance, PTL

(***************************************************************************)
(* Nothing that is still on the agenda can become cheaper than a path that *)
(* next() has returned.                                                    *)
(***************************************************************************)
THEOREM Bound == GeneratorSpec => []AgendaBound
<1>1. GeneratorInvariant => AgendaBound
  BY DEF GeneratorInvariant
<1> QED
  BY <1>1, Invariance, PTL

(***************************************************************************)
(* What next() returns is a path from BOS to EOS along path objects.       *)
(***************************************************************************)
THEOREM FromBosToEos == GeneratorSpec => []FoundAreLinked
<1>1. GeneratorInvariant => FoundAreLinked
  BY DEF GeneratorInvariant
<1> QED
  BY <1>1, Invariance, PTL

-----------------------------------------------------------------------------
(* II. The lattice. *)
(***************************************************************************)
(* The invariant of analyze().  Right are the nodes connect() has given a  *)
(* best left node: the words that begin before pos and, after the lookups, *)
(* EOS.                                                                    *)
(***************************************************************************)
Right == {w \in lexicon : Begin[w] < pos}
           \cup (IF phase \in {"lookup", "failed"} THEN {} ELSE {EOS})

InputOK ==
  /\ lexicon \subseteq Words
  /\ PossibleLexicon({<<Begin[w], End[w]>> : w \in lexicon}, Size)
  /\ pathCost \in [Pairs(lexicon) -> Costs]

PhaseOK ==
  /\ pos \in 0..Size
  /\ phase \in {"lookup", "failed", "forwardbackward", "best", "all", "nbest",
                "done", "result"}
  /\ phase \notin {"lookup", "failed"} => pos = Size

(* The end lists hold the nodes that are known, each where it ends. *)
NodeLists ==
  phase = "lookup" =>
    /\ DOMAIN endNodes = 0..(Size + 1)
    /\ \A p \in 0..(Size + 1) : endNodes[p] = {n \in Right \cup {BOS} : Ends(n) = p}

(* Every pair that leads to a known node has a path object, if any has. *)
PathObjects ==
  paths = IF AllPath THEN {p \in Pairs(lexicon) : p[2] \in Right} ELSE {}

(* A known node costs what the cheapest of the pairs that lead to it does. *)
NodeCosts ==
  /\ nodeCost \in [Nodes -> Int]
  /\ nodeCost[BOS] = 0
  /\ \A p \in Pairs(lexicon) : p[2] \in Right => nodeCost[p[2]] <= CostVia(p[1], p[2])
  /\ \A r \in Right :
       /\ \E l \in Nodes : <<l, r>> \in Pairs(lexicon) /\ nodeCost[r] = CostVia(l, r)
       /\ nodeCost[r] < MaxCost

(* A refused sentence has a node that is too expensive from all its lefts. *)
Refusal ==
  phase = "failed" =>
    \E r \in lexicon \cup {EOS} : \A l \in lexicon \cup {BOS} :
      <<l, r>> \in Pairs(lexicon) =>
        l \in Right \cup {BOS} /\ CostVia(l, r) >= MaxCost

LatticeInv ==
  InputOK /\ PhaseOK /\ NodeLists /\ PathObjects /\ NodeCosts /\ Refusal

-----------------------------------------------------------------------------
LEMMA ConstantFacts ==
  /\ Size \in Nat /\ Size > 0
  /\ \A w \in Words : /\ Begin[w] \in Nat /\ End[w] \in Nat
                      /\ Begin[w] < End[w] /\ Begin[w] < Size
  /\ BOS \notin Words /\ EOS \notin Words /\ BOS # EOS
  /\ Costs \subseteq Int /\ MaxCost \in Int
BY ViterbiAssumption, NodeAssumption

(* What it means for two nodes to be connected. *)
LEMMA PairFacts ==
  ASSUME NEW lex, NEW p \in Pairs(lex)
  PROVE  /\ p = <<p[1], p[2]>>
         /\ p[1] \in lex \cup {BOS} /\ p[2] \in lex \cup {EOS}
         /\ Ends(p[1]) = IF p[2] = EOS THEN EndOfText(lex) ELSE Begin[p[2]]
BY DEF Pairs

LEMMA IsPair ==
  ASSUME NEW lex, NEW l \in lex \cup {BOS}, NEW r \in lex \cup {EOS},
         Ends(l) = IF r = EOS THEN EndOfText(lex) ELSE Begin[r]
  PROVE  <<l, r>> \in Pairs(lex)
BY DEF Pairs

(* What the lookups owe to the search, word by word. *)
LEMMA LexiconFacts ==
  ASSUME InputOK
  PROVE  /\ \A w \in lexicon : Begin[w] = 0 \/ \E v \in lexicon : End[v] = Begin[w]
         /\ \A p \in 0..(Size - 1) :
              (p = 0 \/ \E v \in lexicon : End[v] = p) => \E w \in lexicon : Begin[w] = p
<1> DEFINE places == {<<Begin[w], End[w]>> : w \in lexicon}
           reached == {0} \cup {w[2] : w \in places}
<1>1. /\ \A p \in reached \cap (0..(Size - 1)) : \E w \in places : w[1] = p
      /\ \A w \in places : w[1] \in reached
  BY DEF InputOK, PossibleLexicon
<1>2. \A w \in lexicon : <<Begin[w], End[w]>> \in places
  OBVIOUS
<1>3. \A x \in places : \E w \in lexicon : x = <<Begin[w], End[w]>>
  OBVIOUS
<1>4. \A p : p \in reached <=> p = 0 \/ \E v \in lexicon : End[v] = p
  <2> SUFFICES ASSUME NEW p
               PROVE  (\E x \in places : p = x[2]) <=> (\E v \in lexicon : End[v] = p)
    OBVIOUS
  <2>1. ASSUME NEW v \in lexicon, End[v] = p PROVE \E x \in places : p = x[2]
    <3>1. <<Begin[v], End[v]>> \in places /\ p = <<Begin[v], End[v]>>[2]
      BY <2>1
    <3> HIDE DEF places
    <3> QED
      BY <3>1
  <2>2. ASSUME NEW x \in places, p = x[2] PROVE \E v \in lexicon : End[v] = p
    <3>1. PICK v \in lexicon : x = <<Begin[v], End[v]>>
      BY <1>3
    <3> QED
      BY <2>2, <3>1
  <2> QED
    BY <2>1, <2>2
<1>5. \A w \in lexicon : Begin[w] \in reached
  <2> HIDE DEF places, reached
  <2> QED
    BY <1>1, <1>2
<1>6. \A p \in 0..(Size - 1) : p \in reached => \E w \in lexicon : Begin[w] = p
  <2> HIDE DEF places, reached
  <2> QED
    BY <1>1, <1>3
<1> QED
  BY <1>4, <1>5, <1>6

(* Where the text ends, the white space behind the last word left aside. *)
LEMMA EndOfTextFacts ==
  ASSUME lexicon \subseteq Words
  PROVE  /\ EndOfText(lexicon) \in 0..Size
         /\ \E n \in lexicon \cup {BOS} : Ends(n) = EndOfText(lexicon)
         /\ \A n \in lexicon \cup {BOS} : Ends(n) <= Size => Ends(n) <= EndOfText(lexicon)
<1> DEFINE all == {Ends(n) : n \in {m \in lexicon \cup {BOS} : Ends(m) <= Size}}
<1>1. \A n \in lexicon \cup {BOS} : Ends(n) \in Nat
  BY ConstantFacts DEF Ends
<1>2. all \subseteq Nat /\ \A x \in all : x <= Size
  BY <1>1
<1>3. Ends(BOS) = 0 /\ 0 \in all
  BY ConstantFacts DEF Ends
<1>4. Max(all) \in all /\ \A x \in all : x <= Max(all)
  <2> HIDE DEF all
  <2> QED
    BY <1>2, <1>3, ConstantFacts, MaxOfBounded
<1>5. EndOfText(lexicon) = Max(all)
  BY DEF EndOfText
<1> QED
  BY <1>1, <1>2, <1>4, <1>5, ConstantFacts

(* A left node of a known node is known. *)
LEMMA LeftIsKnown ==
  ASSUME InputOK, PhaseOK, NEW p \in Pairs(lexicon), p[2] \in Right
  PROVE  p[1] \in Right \cup {BOS} /\ p[1] # EOS
<1>1. p[1] \in lexicon \cup {BOS} /\ lexicon \subseteq Words
  BY PairFacts DEF InputOK
<1>2. CASE p[1] # BOS
  <2>1. p[1] \in lexicon /\ Begin[p[1]] < Size /\ Begin[p[1]] < Ends(p[1])
        /\ Begin[p[1]] \in Nat /\ Ends(p[1]) \in Nat
    BY <1>1, <1>2, ConstantFacts DEF Ends
  <2>2. CASE p[2] = EOS
    <3>1. pos = Size
      BY <2>2, <1>1, ConstantFacts DEF Right, PhaseOK
    <3> QED
      BY <2>1, <3>1, <1>1, ConstantFacts DEF Right
  <2>3. CASE p[2] # EOS
    <3>1. Begin[p[2]] < pos /\ Ends(p[1]) = Begin[p[2]]
      BY <2>3, PairFacts DEF Right
    <3> QED
      BY <2>1, <3>1, <1>1, ConstantFacts DEF Right, PhaseOK
  <2> QED
    BY <2>2, <2>3
<1> QED
  BY <1>1, <1>2, ConstantFacts

-----------------------------------------------------------------------------
(***************************************************************************)
(* connect(), for right nodes rs that all have the same left nodes ls.     *)
(***************************************************************************)
LEMMA ConnectKeepsCosts ==
  ASSUME InputOK, PhaseOK, PathObjects, NodeCosts,
         NEW ls, NEW rs,
         ls \subseteq Right \cup {BOS}, EOS \notin ls, rs \cap Right = {},
         rs \subseteq lexicon \cup {EOS},
         \A l, r : r \in rs => (<<l, r>> \in Pairs(lexicon) <=> l \in ls),
         ~TooLong(ls, rs), Connect(ls, rs),
         Right' = Right \cup rs, UNCHANGED inputVars
  PROVE  /\ PathObjects' /\ NodeCosts'
         /\ \E best \in [rs -> ls] :
              /\ prev' = [n \in Nodes |-> IF n \in rs THEN best[n] ELSE prev[n]]
              /\ \A r \in rs : nodeCost'[r] = nodeCost'[best[r]] + pathCost[<<best[r], r>>]
         /\ \A n \in Nodes \ rs : nodeCost'[n] = nodeCost[n]
<1>1. PICK best \in [rs -> ls] :
        /\ \A r \in rs : \A l \in ls : CostVia(best[r], r) <= CostVia(l, r)
        /\ prev' = [n \in Nodes |-> IF n \in rs THEN best[n] ELSE prev[n]]
        /\ nodeCost' = [n \in Nodes |-> IF n \in rs THEN CostVia(best[n], n) ELSE nodeCost[n]]
        /\ paths' = paths \cup (IF AllPath THEN ls \X rs ELSE {})
  BY DEF Connect
<1>2. lexicon' = lexicon /\ requestType' = requestType /\ pathCost' = pathCost
  BY DEF inputVars
<1>3. /\ lexicon \subseteq Words /\ Right \subseteq Nodes /\ rs \subseteq Nodes
      /\ ls \subseteq Nodes /\ ls \cap rs = {} /\ BOS \notin rs /\ BOS \in Nodes
  <2>1. BOS \notin rs
    BY ConstantFacts DEF InputOK
  <2>2. BOS \notin Right
    BY ConstantFacts DEF InputOK, Right
  <2> QED
    BY <2>1, <2>2 DEF InputOK, Right, Nodes
<1>4. \A p \in Pairs(lexicon) : pathCost[p] \in Int
  BY ConstantFacts DEF InputOK
<1>5. \A r \in rs : \A l \in ls : <<l, r>> \in Pairs(lexicon) /\ CostVia(l, r) \in Int
  <2> SUFFICES ASSUME NEW r \in rs, NEW l \in ls
               PROVE  <<l, r>> \in Pairs(lexicon) /\ CostVia(l, r) \in Int
    OBVIOUS
  <2>1. <<l, r>> \in Pairs(lexicon)
    OBVIOUS
  <2>2. nodeCost[l] \in Int /\ pathCost[<<l, r>>] \in Int
    BY <2>1, <1>3, <1>4 DEF NodeCosts
  <2> QED
    BY <2>1, <2>2 DEF CostVia
<1>6. /\ \A r \in rs : nodeCost'[r] = CostVia(best[r], r)
      /\ \A n \in Nodes \ rs : nodeCost'[n] = nodeCost[n]
      /\ nodeCost' \in [Nodes -> Int]
  BY <1>1, <1>3, <1>5 DEF NodeCosts
<1>7. \A l \in ls : nodeCost'[l] = nodeCost[l]
  BY <1>3, <1>6
<1>8. \A l \in ls : \A r \in rs : CostVia(l, r)' = CostVia(l, r)
  BY <1>2, <1>7 DEF CostVia
<1>9. NodeCosts'
  <2>1. nodeCost'[BOS] = 0
    BY <1>3, <1>6 DEF NodeCosts
  <2>2. ASSUME NEW p \in Pairs(lexicon), p[2] \in Right'
        PROVE  nodeCost'[p[2]] <= CostVia(p[1], p[2])'
    <3>1. p = <<p[1], p[2]>>
      BY PairFacts
    <3>2. CASE p[2] \in rs
      <4>1. p[1] \in ls
        BY <3>1, <3>2
      <4> QED
        BY <1>1, <1>6, <1>8, <3>2, <4>1
    <3>3. CASE p[2] \in Right
      <4>1. p[1] \in Right \cup {BOS}
        BY <3>3, LeftIsKnown
      <4>2. p[1] \in Nodes \ rs /\ p[2] \in Nodes \ rs
        BY <1>3, <3>3, <4>1
      <4> QED
        BY <1>2, <1>6, <3>3, <4>2 DEF NodeCosts, CostVia
    <3> QED
      BY <2>2, <3>2, <3>3
  <2>3. ASSUME NEW r \in Right'
        PROVE  /\ \E l \in Nodes : <<l, r>> \in Pairs(lexicon)
                                   /\ nodeCost'[r] = CostVia(l, r)'
               /\ nodeCost'[r] < MaxCost
    <3>1. CASE r \in rs
      <4>1. best[r] \in ls
        BY <3>1
      <4>2. PICK l \in ls : ~(CostVia(l, r) >= MaxCost)
        BY <3>1 DEF TooLong
      <4>3. nodeCost'[r] <= CostVia(l, r) /\ nodeCost'[r] \in Int
        BY <1>1, <1>3, <1>6, <3>1
      <4>4. nodeCost'[r] < MaxCost
        <5>1. CostVia(l, r) \in Int
          BY <1>5, <3>1
        <5> QED
          BY <4>2, <4>3, <5>1, ConstantFacts
      <4> QED
        BY <4>1, <4>4, <1>3, <1>5, <1>6, <1>8, <3>1
    <3>2. CASE r \in Right
      <4>1. PICK l \in Nodes : <<l, r>> \in Pairs(lexicon) /\ nodeCost[r] = CostVia(l, r)
        BY <3>2 DEF NodeCosts
      <4>2. l \in Right \cup {BOS}
        BY <3>2, <4>1, LeftIsKnown
      <4>3. l \in Nodes \ rs /\ r \in Nodes \ rs
        BY <1>3, <3>2, <4>2
      <4> QED
        BY <1>2, <1>6, <3>2, <4>1, <4>3 DEF NodeCosts, CostVia
    <3> QED
      BY <2>3, <3>1, <3>2
  <2> QED
    <3>1. Pairs(lexicon)' = Pairs(lexicon)
      BY <1>2 DEF Pairs
    <3> QED
      BY <1>6, <2>1, <2>2, <2>3, <3>1 DEF NodeCosts
<1>10. PathObjects'
  <2>1. AllPath' = AllPath
    BY <1>2 DEF AllPath
  <2>2. CASE AllPath
    <3>1. ls \X rs = {p \in Pairs(lexicon) : p[2] \in rs}
      <4>1. ASSUME NEW p \in Pairs(lexicon), p[2] \in rs PROVE p \in ls \X rs
        <5>1. p = <<p[1], p[2]>>
          BY PairFacts
        <5>2. p[1] \in ls
          BY <4>1, <5>1
        <5> QED
          BY <4>1, <5>1, <5>2
      <4>2. ASSUME NEW p \in ls \X rs PROVE p \in Pairs(lexicon) /\ p[2] \in rs
        BY <1>5
      <4> QED
        BY <4>1, <4>2
    <3> QED
      BY <1>1, <1>2, <2>1, <2>2, <3>1 DEF PathObjects, Pairs
  <2>3. CASE ~AllPath
    BY <1>1, <2>1, <2>3 DEF PathObjects
  <2> QED
    BY <2>2, <2>3
<1>11. \A r \in rs : nodeCost'[r] = nodeCost'[best[r]] + pathCost[<<best[r], r>>]
  BY <1>6, <1>7 DEF CostVia
<1> QED
  BY <1>1, <1>6, <1>9, <1>10, <1>11

-----------------------------------------------------------------------------
(***************************************************************************)
(* What the two calls of connect() are given: right nodes that are not     *)
(* known yet, with all the nodes they are connected with on the left.      *)
(***************************************************************************)
Sides(ls, rs) ==
  /\ ls \subseteq Right \cup {BOS} /\ EOS \notin ls
  /\ rs \subseteq lexicon \cup {EOS} /\ rs \cap Right = {}
  /\ \A l, r : r \in rs => (<<l, r>> \in Pairs(lexicon) <=> l \in ls)

LEMMA KnownInLookup ==
  ASSUME InputOK, phase = "lookup"
  PROVE  /\ Right = {w \in lexicon : Begin[w] < pos}
         /\ lexicon \subseteq Words /\ EOS \notin Right \cup {BOS}
BY ConstantFacts DEF InputOK, Right

LEMMA LookupSides ==
  ASSUME LatticeInv, phase = "lookup", pos < Size
  PROVE  Sides(endNodes[pos], Starting(pos))
<1>1. InputOK /\ pos \in Nat /\ pos <= Size
  BY ConstantFacts DEF LatticeInv, PhaseOK
<1>2. endNodes[pos] = {n \in Right \cup {BOS} : Ends(n) = pos}
  BY <1>1, ConstantFacts DEF LatticeInv, NodeLists
<1>3. Starting(pos) \cap Right = {} /\ EOS \notin Starting(pos)
  BY <1>1, KnownInLookup, ConstantFacts DEF Starting
<1>4. ASSUME NEW l, NEW r \in Starting(pos)
      PROVE  <<l, r>> \in Pairs(lexicon) <=> l \in endNodes[pos]
  <2>1. r \in lexicon /\ r # EOS /\ Begin[r] = pos
    BY <1>3 DEF Starting
  <2>2. ASSUME <<l, r>> \in Pairs(lexicon) PROVE l \in endNodes[pos]
    <3>1. l \in lexicon \cup {BOS} /\ Ends(l) = pos
      BY <2>1, <2>2, PairFacts
    <3>2. l # BOS => Begin[l] < pos
      BY <1>1, <3>1, KnownInLookup, ConstantFacts DEF Ends
    <3> QED
      BY <1>1, <1>2, <3>1, <3>2, KnownInLookup
  <2>3. ASSUME l \in endNodes[pos] PROVE <<l, r>> \in Pairs(lexicon)
    BY <1>1, <1>2, <2>1, <2>3, KnownInLookup, IsPair
  <2> QED
    BY <2>2, <2>3
<1> QED
  BY <1>1, <1>2, <1>3, <1>4, KnownInLookup DEF Sides, Starting

(* At the end of the sentence all words are known. *)
LEMMA AllWordsKnown ==
  ASSUME InputOK, PhaseOK, pos = Size
  PROVE  {w \in lexicon : Begin[w] < pos} = lexicon
BY ConstantFacts DEF InputOK

LEMMA LastEndIsEndOfText ==
  ASSUME LatticeInv, phase = "lookup", pos = Size
  PROVE  LastEnd = EndOfText(lexicon)
<1>1. InputOK /\ Right = lexicon
  BY KnownInLookup, AllWordsKnown DEF LatticeInv
<1>2. \A p \in 0..Size : endNodes[p] = {n \in lexicon \cup {BOS} : Ends(n) = p}
  BY <1>1, ConstantFacts DEF LatticeInv, NodeLists
<1>3. \A n \in lexicon \cup {BOS} : Ends(n) \in Nat
  BY <1>1, ConstantFacts DEF Ends, InputOK
<1>4. {p \in 0..Size : endNodes[p] # {}}
        = {Ends(n) : n \in {m \in lexicon \cup {BOS} : Ends(m) <= Size}}
  <2>1. ASSUME NEW p \in 0..Size, endNodes[p] # {}
        PROVE  \E n \in {m \in lexicon \cup {BOS} : Ends(m) <= Size} : p = Ends(n)
    BY <1>2, <2>1, ConstantFacts
  <2>2. ASSUME NEW n \in lexicon \cup {BOS}, Ends(n) <= Size
        PROVE  Ends(n) \in 0..Size /\ endNodes[Ends(n)] # {}
    BY <1>2, <1>3, <2>2, ConstantFacts
  <2> QED
    BY <2>1, <2>2
<1> QED
  BY <1>4 DEF LastEnd, EndOfText

LEMMA EosSides ==
  ASSUME LatticeInv, phase = "lookup", pos = Size
  PROVE  Sides(endNodes[LastEnd], {EOS})
<1>1. InputOK /\ Right = lexicon /\ lexicon \subseteq Words
  BY KnownInLookup, AllWordsKnown DEF LatticeInv
<1>2. LastEnd = EndOfText(lexicon) /\ EndOfText(lexicon) \in 0..Size
  BY <1>1, LastEndIsEndOfText, EndOfTextFacts
<1>3. endNodes[LastEnd] = {n \in lexicon \cup {BOS} : Ends(n) = EndOfText(lexicon)}
  BY <1>1, <1>2, ConstantFacts DEF LatticeInv, NodeLists
<1>4. ASSUME NEW l PROVE <<l, EOS>> \in Pairs(lexicon) <=> l \in endNodes[LastEnd]
  BY <1>3, PairFacts, IsPair
<1> QED
  BY <1>1, <1>3, <1>4, ConstantFacts DEF Sides

-----------------------------------------------------------------------------
(***************************************************************************)
(* The links of the best path, as long as next() has not changed them.     *)
(***************************************************************************)
NoLinks == [n \in Nodes |-> NoNode]

LinkInv ==
  phase \in {"lookup", "failed", "forwardbackward", "best", "all"} =>
    /\ prev \in [Nodes -> Nodes \cup {NoNode}]
    /\ \A n \in Nodes \ Right : prev[n] = NoNode
    /\ \A r \in Right : /\ <<prev[r], r>> \in Pairs(lexicon)
                        /\ nodeCost[r] = CostVia(prev[r], r)
    /\ next = IF phase = "all" THEN RelinkForward(BestPathTo[EOS], NoLinks)
              ELSE NoLinks
    /\ isbest = {BOS, EOS} \cup
                  (IF phase = "all" THEN ToSet(BestPathTo[EOS]) ELSE {})

LEMMA RightFacts ==
  ASSUME InputOK
  PROVE  Right \subseteq Nodes /\ BOS \notin Right /\ lexicon \subseteq Nodes
BY ConstantFacts DEF InputOK, Right, Nodes

(* A successful call of connect() in the lookup phase. *)
LEMMA ConnectStep ==
  ASSUME LatticeInv, LinkInv, phase = "lookup", phase' \in {"lookup", "forwardbackward"},
         NEW ls, NEW rs, Sides(ls, rs),
         ~TooLong(ls, rs), Connect(ls, rs),
         Right' = Right \cup rs, UNCHANGED <<inputVars, next, isbest>>
  PROVE  InputOK' /\ PathObjects' /\ NodeCosts' /\ Refusal' /\ LinkInv'
<1>1. InputOK /\ PhaseOK /\ PathObjects /\ NodeCosts
  BY DEF LatticeInv
<1>2. lexicon' = lexicon /\ pathCost' = pathCost /\ Pairs(lexicon)' = Pairs(lexicon)
  BY DEF inputVars, Pairs
<1>3. InputOK'
  BY <1>1, <1>2 DEF InputOK
<1>4. Refusal'
  BY DEF Refusal
<1>5. /\ PathObjects' /\ NodeCosts'
      /\ \E best \in [rs -> ls] :
           /\ prev' = [n \in Nodes |-> IF n \in rs THEN best[n] ELSE prev[n]]
           /\ \A r \in rs : nodeCost'[r] = nodeCost'[best[r]] + pathCost[<<best[r], r>>]
      /\ \A n \in Nodes \ rs : nodeCost'[n] = nodeCost[n]
  BY <1>1, ConnectKeepsCosts DEF Sides
<1>6. PICK best \in [rs -> ls] :
        /\ prev' = [n \in Nodes |-> IF n \in rs THEN best[n] ELSE prev[n]]
        /\ \A r \in rs : nodeCost'[r] = nodeCost'[best[r]] + pathCost[<<best[r], r>>]
  BY <1>5
<1>7. rs \subseteq Nodes /\ ls \subseteq Nodes /\ BOS \notin rs
  <2>1. EOS \in Nodes /\ BOS \in Nodes /\ BOS \notin lexicon /\ BOS # EOS
    BY <1>1, ConstantFacts DEF Nodes, InputOK
  <2>2. /\ ls \subseteq Right \cup {BOS} /\ rs \subseteq lexicon \cup {EOS}
        /\ Right \subseteq Nodes /\ lexicon \subseteq Nodes
    BY <1>1, RightFacts DEF Sides
  <2> QED
    BY <2>1, <2>2
<1>8. prev' \in [Nodes -> Nodes \cup {NoNode}]
  BY <1>6, <1>7 DEF LinkInv
<1>9. \A n \in Nodes \ Right' : prev'[n] = NoNode
  BY <1>6 DEF LinkInv
<1>10. ASSUME NEW r \in Right'
       PROVE  <<prev'[r], r>> \in Pairs(lexicon) /\ nodeCost'[r] = CostVia(prev[r], r)'
  <2>1. CASE r \in rs
    BY <1>2, <1>6, <1>7, <2>1 DEF Sides, CostVia
  <2>2. CASE r \in Right
    <3>1. prev'[r] = prev[r]
      BY <1>1, <1>6, <2>2, RightFacts DEF Sides
    <3>2. <<prev[r], r>> \in Pairs(lexicon) /\ nodeCost[r] = CostVia(prev[r], r)
      BY <2>2 DEF LinkInv
    <3>3. prev[r] \in Right \cup {BOS}
      BY <1>1, <2>2, <3>2, LeftIsKnown
    <3>4. nodeCost'[r] = nodeCost[r] /\ nodeCost'[prev[r]] = nodeCost[prev[r]]
      BY <1>1, <1>5, <1>7, <2>2, <3>3, RightFacts, ConstantFacts DEF Sides, Nodes
    <3> QED
      BY <1>2, <3>1, <3>2, <3>4 DEF CostVia
  <2> QED
    BY <1>10, <2>1, <2>2
<1>11. LinkInv'
  BY <1>2, <1>8, <1>9, <1>10 DEF LinkInv, NoLinks
<1> QED
  BY <1>3, <1>4, <1>5, <1>11

LEMMA FailStep ==
  ASSUME LatticeInv, LinkInv, phase = "lookup",
         NEW ls, NEW rs, Sides(ls, rs), TooLong(ls, rs), Fail
  PROVE  LatticeInv' /\ LinkInv'
<1>1. /\ UNCHANGED <<inputVars, pos, endNodes, paths, nodeCost, next, prev, isbest>>
      /\ lexicon' = lexicon /\ pathCost' = pathCost /\ requestType' = requestType
      /\ phase' = "failed"
  BY DEF Fail, inputVars, generatorVars
<1>2. Right' = Right
  BY <1>1 DEF Right
<1>3. InputOK' /\ PhaseOK'
  BY <1>1 DEF LatticeInv, InputOK, PhaseOK, Pairs
<1>4. NodeLists' /\ PathObjects' /\ NodeCosts'
  BY <1>1, <1>2 DEF LatticeInv, NodeLists, PathObjects, NodeCosts, Pairs, AllPath, CostVia
<1>5. Refusal'
  <2>1. PICK r \in rs : \A l \in ls : CostVia(l, r) >= MaxCost
    BY DEF TooLong
  <2>2. \A l : <<l, r>> \in Pairs(lexicon) =>
                 l \in Right \cup {BOS} /\ CostVia(l, r) >= MaxCost
    BY <2>1 DEF Sides
  <2>3. r \in lexicon \cup {EOS}
    BY DEF Sides
  <2> QED
    BY <1>1, <1>2, <2>2, <2>3 DEF Refusal, Pairs, CostVia
<1>6. LinkInv'
  BY <1>1, <1>2 DEF LinkInv, Pairs, CostVia, NoLinks
<1> QED
  BY <1>3, <1>4, <1>5, <1>6 DEF LatticeInv

LEMMA LookupAtStep ==
  ASSUME LatticeInv, LinkInv, LookupAt
  PROVE  LatticeInv' /\ LinkInv'
<1> DEFINE ls == endNodes[pos]
           rs == Starting(pos)
<1>1. phase = "lookup" /\ pos < Size /\ Sides(ls, rs)
  BY LookupSides DEF LookupAt
<1>2. CASE TooLong(ls, rs)
  <2>1. Fail
    BY <1>2 DEF LookupAt
  <2> HIDE DEF ls, rs
  <2> QED
    BY <1>1, <1>2, <2>1, FailStep
<1>3. CASE ~TooLong(ls, rs)
  <2>1. /\ Connect(ls, rs) /\ pos' = pos + 1 /\ phase' = "lookup"
        /\ endNodes' = [p \in DOMAIN endNodes |->
                          endNodes[p] \cup {w \in Starting(pos) : End[w] = p}]
        /\ UNCHANGED <<inputVars, next, isbest>> /\ lexicon' = lexicon
    BY <1>1, <1>3 DEF LookupAt, inputVars
  <2>2. InputOK /\ PhaseOK /\ NodeLists /\ pos \in Nat
    BY DEF LatticeInv, PhaseOK
  <2>3. Right = {w \in lexicon : Begin[w] < pos} /\ lexicon \subseteq Words
    BY <1>1, <2>2, KnownInLookup
  <2>4. Right' = Right \cup rs
    <3>1. Right' = {w \in lexicon : Begin[w] < pos + 1}
      BY <2>1 DEF Right
    <3>2. ASSUME NEW w \in lexicon
          PROVE  Begin[w] < pos + 1 <=> Begin[w] < pos \/ Begin[w] = pos
      <4>1. Begin[w] \in Nat
        BY <2>3, ConstantFacts
      <4> QED
        BY <2>2, <4>1
    <3> QED
      BY <2>3, <3>1, <3>2 DEF Starting
  <2>5. InputOK' /\ PathObjects' /\ NodeCosts' /\ Refusal' /\ LinkInv'
    <3> HIDE DEF ls, rs
    <3> QED
      BY <1>1, <1>3, <2>1, <2>4, ConnectStep
  <2>6. PhaseOK'
    BY <1>1, <2>1, <2>2, ConstantFacts DEF PhaseOK
  <2>7. NodeLists'
    <3>1. DOMAIN endNodes' = 0..(Size + 1)
      BY <1>1, <2>1, <2>2 DEF NodeLists
    <3>2. ASSUME NEW p \in 0..(Size + 1)
          PROVE  endNodes'[p] = {n \in Right' \cup {BOS} : Ends(n) = p}
      <4>1. endNodes'[p] = endNodes[p] \cup {w \in Starting(pos) : End[w] = p}
        BY <1>1, <2>1, <2>2 DEF NodeLists
      <4>2. endNodes[p] = {n \in Right \cup {BOS} : Ends(n) = p}
        BY <1>1, <2>2 DEF NodeLists
      <4>3. \A w \in Starting(pos) : Ends(w) = End[w]
        BY <2>3, ConstantFacts DEF Ends, Starting
      <4> QED
        BY <2>4, <4>1, <4>2, <4>3
    <3> QED
      BY <3>1, <3>2 DEF NodeLists
  <2> QED
    BY <2>5, <2>6, <2>7 DEF LatticeInv
<1> QED
  BY <1>2, <1>3

(* Where no node ends no word begins. *)
LEMMA NothingBegins ==
  ASSUME LatticeInv, phase = "lookup", pos < Size, endNodes[pos] = {}
  PROVE  \A w \in lexicon : Begin[w] # pos
<1>1. InputOK /\ pos \in 0..Size /\ pos \in Nat /\ NodeLists
  BY ConstantFacts DEF LatticeInv, PhaseOK
<1>2. Right = {w \in lexicon : Begin[w] < pos} /\ lexicon \subseteq Words
  BY <1>1, KnownInLookup
<1>3. {n \in Right \cup {BOS} : Ends(n) = pos} = {}
  BY <1>1, ConstantFacts DEF NodeLists
<1> SUFFICES ASSUME NEW w \in lexicon, Begin[w] = pos PROVE FALSE
  OBVIOUS
<1>4. pos = 0 \/ \E v \in lexicon : End[v] = pos
  BY <1>1, LexiconFacts
<1>5. CASE pos = 0
  BY <1>3, <1>5 DEF Ends
<1>6. ASSUME NEW v \in lexicon, End[v] = pos PROVE FALSE
  <2>1. v \in Right /\ Ends(v) = pos
    BY <1>1, <1>2, <1>6, ConstantFacts DEF Ends
  <2> QED
    BY <1>3, <2>1
<1> QED
  BY <1>4, <1>5, <1>6

LEMMA SkipStep ==
  ASSUME LatticeInv, LinkInv, SkipPosition
  PROVE  LatticeInv' /\ LinkInv'
<1>1. /\ phase = "lookup" /\ pos < Size /\ endNodes[pos] = {}
      /\ pos' = pos + 1 /\ UNCHANGED <<phase, endNodes, paths, nodeCost, isbest, next, prev>>
      /\ lexicon' = lexicon /\ pathCost' = pathCost /\ requestType' = requestType
  BY DEF SkipPosition, inputVars, generatorVars
<1>2. InputOK /\ pos \in 0..Size /\ pos \in Nat /\ NodeLists
  BY ConstantFacts DEF LatticeInv, PhaseOK
<1>3. Right = {w \in lexicon : Begin[w] < pos} /\ lexicon \subseteq Words
  BY <1>1, <1>2, KnownInLookup
<1>5. \A w \in lexicon : Begin[w] # pos
  BY <1>1, NothingBegins
<1>6. Right' = Right
  <2>1. Right' = {w \in lexicon : Begin[w] < pos + 1}
    BY <1>1 DEF Right
  <2>2. ASSUME NEW w \in lexicon
        PROVE  Begin[w] < pos + 1 <=> Begin[w] < pos
    <3>1. Begin[w] \in Nat /\ Begin[w] # pos
      BY <1>3, <1>5, ConstantFacts
    <3> QED
      BY <1>2, <3>1
  <2> QED
    BY <1>3, <2>1, <2>2
<1>7. InputOK' /\ PhaseOK' /\ Refusal'
  BY <1>1, <1>2, ConstantFacts DEF LatticeInv, InputOK, PhaseOK, Pairs, Refusal
<1>8. NodeLists' /\ PathObjects' /\ NodeCosts'
  BY <1>1, <1>6 DEF LatticeInv, NodeLists, PathObjects, NodeCosts, Pairs, AllPath, CostVia
<1>9. LinkInv'
  BY <1>1, <1>6 DEF LinkInv, Pairs, CostVia, NoLinks
<1> QED
  BY <1>7, <1>8, <1>9 DEF LatticeInv

LEMMA ConnectEosStep ==
  ASSUME LatticeInv, LinkInv, ConnectEos
  PROVE  LatticeInv' /\ LinkInv'
<1>1. phase = "lookup" /\ pos = Size /\ Sides(endNodes[LastEnd], {EOS})
  BY EosSides DEF ConnectEos
<1>2. CASE TooLong(endNodes[LastEnd], {EOS})
  <2>1. Fail
    BY <1>2 DEF ConnectEos
  <2> QED
    BY <1>1, <1>2, <2>1, FailStep
<1>3. CASE ~TooLong(endNodes[LastEnd], {EOS})
  <2>1. /\ Connect(endNodes[LastEnd], {EOS}) /\ phase' = "forwardbackward"
        /\ UNCHANGED <<inputVars, pos, next, isbest>> /\ lexicon' = lexicon
    BY <1>1, <1>3 DEF ConnectEos, inputVars
  <2>2. Right' = Right \cup {EOS}
    BY <1>1, <2>1 DEF Right
  <2>3. InputOK' /\ PathObjects' /\ NodeCosts' /\ Refusal' /\ LinkInv'
    BY <1>1, <1>3, <2>1, <2>2, ConnectStep
  <2>4. PhaseOK' /\ NodeLists'
    BY <1>1, <2>1 DEF LatticeInv, PhaseOK, NodeLists
  <2> QED
    BY <2>3, <2>4 DEF LatticeInv
<1> QED
  BY <1>2, <1>3

-----------------------------------------------------------------------------
(***************************************************************************)
(* The invariant of the whole: the lattice, the links, and the generator   *)
(* on this lattice, which is idle until analyze() has started it.          *)
(***************************************************************************)
Idle == agenda = {} /\ found = << >>

GeneratorPhase ==
  /\ GeneratorInvariant
  /\ phase \notin {"done", "result"} => Idle /\ ~searching
  /\ "NBEST" \notin requestType => Idle
  /\ phase = "result" => ~searching

ViterbiInv == LatticeInv /\ LinkInv /\ GeneratorPhase

LEMMA CostsHold == LatticeInv => CostsAreBest
<1> SUFFICES ASSUME InputOK, PathObjects, NodeCosts PROVE CostsAreBest
  BY DEF LatticeInv
<1>1. Pairs(lexicon) \subseteq Nodes \X Nodes
  <2> SUFFICES ASSUME NEW p \in Pairs(lexicon) PROVE p \in Nodes \X Nodes
    OBVIOUS
  <2>1. p = <<p[1], p[2]>> /\ p[1] \in Nodes /\ p[2] \in Nodes
    BY PairFacts DEF InputOK, Nodes
  <2> QED
    BY <2>1
<1>2. \A p \in paths : p \in Pairs(lexicon) /\ p[2] \in Right
  BY DEF PathObjects
<1>3. ASSUME NEW p \in paths
      PROVE  pathCost[p] \in Int /\ nodeCost[p[2]] <= nodeCost[p[1]] + pathCost[p]
  <2>1. pathCost[p] \in Int
    BY <1>2, ConstantFacts DEF InputOK
  <2>2. p = <<p[1], p[2]>> /\ nodeCost[p[2]] <= CostVia(p[1], p[2])
    BY <1>2, PairFacts DEF NodeCosts
  <2> QED
    BY <2>1, <2>2 DEF CostVia
<1> QED
  BY <1>1, <1>2, <1>3 DEF CostsAreBest, NodeCosts

LEMMA IdleGenerator == LatticeInv /\ Idle => GeneratorInvariant
<1> SUFFICES ASSUME CostsAreBest, Idle PROVE GeneratorInvariant
  BY CostsHold
<1>1. found \in Seq(Elements) /\ Len(found) = 0
  BY EmptySeq DEF Idle
<1> QED
  BY <1>1 DEF Idle, GeneratorInvariant, GeneratorTypes, AgendaBound, FoundInOrder,
              FoundAreLinked

LEMMA CostsHoldNext == LatticeInv' => CostsAreBest'
BY CostsHold, PTL

LEMMA IdleGeneratorNext == LatticeInv' /\ Idle' => GeneratorInvariant'
BY IdleGenerator, PTL

LEMMA ViterbiInitially == Init => ViterbiInv
<1> SUFFICES ASSUME Init PROVE ViterbiInv
  OBVIOUS
<1>1. InputOK /\ PhaseOK
  BY ConstantFacts DEF Init, InputOK, PhaseOK
<1>2. phase = "lookup" /\ pos = 0 /\ Right = {}
  <2>1. phase = "lookup" /\ pos = 0
    BY DEF Init
  <2>2. ASSUME NEW w \in lexicon PROVE ~(Begin[w] < 0)
    <3>1. Begin[w] \in Nat
      BY <1>1, ConstantFacts DEF InputOK
    <3> QED
      BY <3>1
  <2> QED
    BY <2>1, <2>2 DEF Right
<1>3. NodeLists
  BY <1>2 DEF Init, NodeLists, Ends
<1>4. PathObjects /\ NodeCosts /\ Refusal
  BY <1>2, ConstantFacts DEF Init, PathObjects, NodeCosts, Refusal, Nodes
<1>5. LinkInv
  BY <1>2 DEF Init, LinkInv, NoLinks
<1>6. GeneratorPhase
  BY <1>1, <1>3, <1>4, IdleGenerator DEF Init, GeneratorPhase, Idle, LatticeInv
<1> QED
  BY <1>1, <1>3, <1>4, <1>5, <1>6 DEF ViterbiInv, LatticeInv

(* What every step after the lookups leaves alone. *)
LEMMA LatticeIsKept ==
  ASSUME LatticeInv, phase \notin {"lookup", "failed"},
         phase' \in {"best", "all", "nbest", "done", "result"},
         UNCHANGED <<inputVars, pos, paths, nodeCost>>
  PROVE  LatticeInv' /\ Right' = Right /\ Pairs(lexicon)' = Pairs(lexicon)
<1>1. lexicon' = lexicon /\ pathCost' = pathCost /\ requestType' = requestType
  BY DEF inputVars
<1>2. Right' = Right
  BY <1>1 DEF Right
<1>3. Pairs(lexicon)' = Pairs(lexicon)
  BY <1>1 DEF Pairs
<1>4. InputOK' /\ PhaseOK' /\ NodeLists' /\ Refusal'
  BY <1>1, <1>3 DEF LatticeInv, InputOK, PhaseOK, NodeLists, Refusal
<1>5. PathObjects' /\ NodeCosts'
  BY <1>1, <1>2, <1>3 DEF LatticeInv, PathObjects, NodeCosts, AllPath, CostVia
<1> QED
  BY <1>2, <1>3, <1>4, <1>5 DEF LatticeInv

LEMMA IdleIsKept ==
  ASSUME LatticeInv', GeneratorPhase, phase \notin {"done", "result"}, phase' # "result",
         UNCHANGED <<agenda, found, searching>>
  PROVE  GeneratorPhase'
<1>1. Idle' /\ ~searching'
  BY DEF GeneratorPhase, Idle
<1>2. GeneratorInvariant'
  BY <1>1, IdleGeneratorNext
<1> QED
  BY <1>1, <1>2 DEF GeneratorPhase

LEMMA ForwardBackwardStep ==
  ASSUME ViterbiInv, ForwardBackward
  PROVE  ViterbiInv'
<1>1. /\ phase = "forwardbackward" /\ phase' = "best"
      /\ UNCHANGED <<inputVars, pos, paths, nodeCost, isbest, agenda, found, searching,
                     next, prev>>
  BY DEF ForwardBackward, generatorVars
<1>2. LatticeInv' /\ Right' = Right /\ Pairs(lexicon)' = Pairs(lexicon)
  BY <1>1, LatticeIsKept DEF ViterbiInv
<1>3. LinkInv'
  BY <1>1, <1>2 DEF ViterbiInv, LinkInv, NoLinks, CostVia, inputVars
<1>4. GeneratorPhase'
  BY <1>1, <1>2, IdleIsKept DEF ViterbiInv
<1> QED
  BY <1>2, <1>3, <1>4 DEF ViterbiInv

LEMMA BuildBestLatticeStep ==
  ASSUME ViterbiInv, BuildBestLattice
  PROVE  ViterbiInv'
<1>1. /\ phase = "best" /\ phase' = "all"
      /\ next' = RelinkForward(BestPathTo[EOS], next)
      /\ isbest' = isbest \cup ToSet(BestPathTo[EOS])
      /\ UNCHANGED <<inputVars, pos, paths, nodeCost, agenda, found, searching, prev>>
  BY DEF BuildBestLattice
<1>2. LatticeInv' /\ Right' = Right /\ Pairs(lexicon)' = Pairs(lexicon)
  BY <1>1, LatticeIsKept DEF ViterbiInv
<1>3. /\ prev \in [Nodes -> Nodes \cup {NoNode}]
      /\ \A n \in Nodes \ Right : prev[n] = NoNode
      /\ \A r \in Right : /\ <<prev[r], r>> \in Pairs(lexicon)
                          /\ nodeCost[r] = CostVia(prev[r], r)
      /\ next = NoLinks /\ isbest = {BOS, EOS}
  BY <1>1 DEF ViterbiInv, LinkInv
<1>4. BestPathTo' = BestPathTo
  BY <1>1 DEF BestPathTo
<1>5. LinkInv'
  <2>1. /\ prev' \in [Nodes -> Nodes \cup {NoNode}]
        /\ \A n \in Nodes \ Right' : prev'[n] = NoNode
        /\ \A r \in Right' : /\ <<prev'[r], r>> \in Pairs(lexicon)'
                             /\ nodeCost'[r] = CostVia(prev[r], r)'
    BY <1>1, <1>2, <1>3 DEF CostVia, inputVars
  <2>2. next' = RelinkForward(BestPathTo'[EOS], NoLinks)
    BY <1>1, <1>3, <1>4
  <2>3. isbest' = {BOS, EOS} \cup ToSet(BestPathTo'[EOS])
    BY <1>1, <1>3, <1>4
  <2>4. RelinkForward(BestPathTo'[EOS], NoLinks) = RelinkForward(BestPathTo[EOS], NoLinks)'
    BY DEF RelinkForward, NoLinks
  <2>5. ToSet(BestPathTo'[EOS]) = ToSet(BestPathTo[EOS])'
    BY DEF ToSet
  <2> HIDE DEF BestPathTo, RelinkForward
  <2> QED
    BY <1>1, <2>1, <2>2, <2>3, <2>4, <2>5 DEF LinkInv
<1>6. GeneratorPhase'
  BY <1>1, <1>2, IdleIsKept DEF ViterbiInv
<1> QED
  BY <1>2, <1>5, <1>6 DEF ViterbiInv

LEMMA BuildAllLatticeStep ==
  ASSUME ViterbiInv, BuildAllLattice
  PROVE  ViterbiInv'
<1>1. /\ phase = "all" /\ phase' = "nbest"
      /\ UNCHANGED <<inputVars, pos, paths, nodeCost, agenda, found, searching>>
  BY DEF BuildAllLattice
<1>2. LatticeInv'
  BY <1>1, LatticeIsKept DEF ViterbiInv
<1>3. LinkInv'
  BY <1>1 DEF LinkInv
<1>4. GeneratorPhase'
  BY <1>1, <1>2, IdleIsKept DEF ViterbiInv
<1> QED
  BY <1>2, <1>3, <1>4 DEF ViterbiInv

LEMMA InitNBestStep ==
  ASSUME ViterbiInv, InitNBest
  PROVE  ViterbiInv'
<1>1. /\ phase = "nbest" /\ phase' = "done" /\ ~searching
      /\ UNCHANGED <<inputVars, pos, paths, nodeCost, searching>>
      /\ Idle /\ requestType' = requestType
  BY DEF InitNBest, ViterbiInv, GeneratorPhase, inputVars
<1>2. LatticeInv' /\ LinkInv'
  BY <1>1, LatticeIsKept DEF ViterbiInv, LinkInv
<1>3. CostsAreBest'
  BY <1>2, CostsHoldNext
<1>4. CASE "NBEST" \in requestType
  <2>1. agenda' = {InitialElement} /\ found' = << >>
    BY <1>4 DEF InitNBest, SetAgenda
  <2>2. Linked(InitialElement.path)'
    BY InitialElementType DEF Linked, InitialElement, Element
  <2>3. found' \in Seq(Elements) /\ Len(found') = 0
    BY <2>1, EmptySeq
  <2>4. GeneratorTypes'
    BY <1>3, <2>1, <2>2, <2>3, InitialElementType DEF GeneratorTypes
  <2>5. AgendaBound' /\ FoundInOrder' /\ FoundAreLinked'
    BY <2>1, <2>3 DEF AgendaBound, FoundInOrder, FoundAreLinked
  <2> QED
    BY <1>1, <1>2, <1>4, <2>4, <2>5 DEF ViterbiInv, GeneratorPhase, GeneratorInvariant
<1>5. CASE "NBEST" \notin requestType
  <2>1. Idle'
    BY <1>1, <1>5 DEF InitNBest, Idle
  <2> QED
    BY <1>1, <1>2, <2>1, IdleGeneratorNext DEF ViterbiInv, GeneratorPhase
<1> QED
  BY <1>4, <1>5

LEMMA EnumerateStep ==
  ASSUME ViterbiInv, Enumerate
  PROVE  ViterbiInv'
<1>1. /\ phase = "done" /\ "NBEST" \in requestType /\ NextPath
      /\ phase' = IF found' = found THEN "done" ELSE "result"
      /\ UNCHANGED <<inputVars, pos, paths, nodeCost>> /\ requestType' = requestType
  BY DEF Enumerate, NextPath, CallNext, SearchStep, Expand, ReturnPath, ReturnNone,
         inputVars, latticeVars
<1>2. LatticeInv' /\ LinkInv'
  BY <1>1, LatticeIsKept DEF ViterbiInv, LinkInv
<1>3. GeneratorInvariant'
  BY <1>1, StepKeepsInvariant DEF ViterbiInv, GeneratorPhase
<1>4. phase' = "result" => ~searching'
  BY <1>1 DEF NextPath, CallNext, SearchStep, Expand, ReturnPath, ReturnNone
<1> QED
  BY <1>1, <1>2, <1>3, <1>4 DEF ViterbiInv, GeneratorPhase

LEMMA GeneratorIsKept ==
  ASSUME GeneratorInvariant, UNCHANGED <<latticeVars, agenda, found>>
  PROVE  GeneratorInvariant'
BY DEF GeneratorInvariant, GeneratorTypes, CostsAreBest, AgendaBound, FoundInOrder,
       FoundAreLinked, Linked, latticeVars

LEMMA BuildResultStep ==
  ASSUME ViterbiInv, BuildResultForNBest
  PROVE  ViterbiInv'
<1>1. /\ phase = "result" /\ phase' = "done"
      /\ UNCHANGED <<inputVars, pos, paths, nodeCost, agenda, found, searching>>
      /\ UNCHANGED latticeVars /\ requestType' = requestType
  BY DEF BuildResultForNBest, inputVars, latticeVars
<1>2. LatticeInv' /\ LinkInv'
  BY <1>1, LatticeIsKept DEF ViterbiInv, LinkInv
<1>3. GeneratorInvariant'
  BY <1>1, GeneratorIsKept DEF ViterbiInv, GeneratorPhase
<1> QED
  BY <1>1, <1>2, <1>3 DEF ViterbiInv, GeneratorPhase, Idle

LEMMA StutterStep ==
  ASSUME ViterbiInv, UNCHANGED vars
  PROVE  ViterbiInv'
<1>1. /\ UNCHANGED <<inputVars, phase, pos, endNodes, isbest, paths, nodeCost,
                     agenda, searching, next, prev, found, latticeVars>>
      /\ lexicon' = lexicon /\ pathCost' = pathCost /\ requestType' = requestType
  BY DEF vars, inputVars, generatorVars, latticeVars
<1>2. Right' = Right /\ Pairs(lexicon)' = Pairs(lexicon)
  BY <1>1 DEF Right, Pairs
<1>3. LatticeInv'
  BY <1>1, <1>2 DEF ViterbiInv, LatticeInv, InputOK, PhaseOK, NodeLists, PathObjects,
                    NodeCosts, Refusal, AllPath, CostVia
<1>4. LinkInv'
  <2>1. BestPathTo' = BestPathTo
    BY <1>1 DEF BestPathTo
  <2>2. /\ RelinkForward(BestPathTo[EOS], NoLinks)' = RelinkForward(BestPathTo[EOS], NoLinks)
        /\ ToSet(BestPathTo[EOS])' = ToSet(BestPathTo[EOS])
    BY <2>1 DEF RelinkForward, NoLinks, ToSet
  <2> QED
    BY <1>1, <1>2, <2>2 DEF ViterbiInv, LinkInv, NoLinks, CostVia
<1>5. GeneratorPhase'
  BY <1>1, GeneratorIsKept DEF ViterbiInv, GeneratorPhase, Idle
<1> QED
  BY <1>3, <1>4, <1>5 DEF ViterbiInv

LEMMA LookupStep ==
  ASSUME ViterbiInv, LookupAt \/ SkipPosition \/ ConnectEos
  PROVE  ViterbiInv'
<1>1. phase = "lookup" /\ phase' \in {"lookup", "failed", "forwardbackward"}
      /\ UNCHANGED <<agenda, found, searching>>
  BY DEF LookupAt, SkipPosition, ConnectEos, Fail, generatorVars
<1>2. LatticeInv' /\ LinkInv'
  BY LookupAtStep, SkipStep, ConnectEosStep DEF ViterbiInv
<1>3. GeneratorPhase'
  BY <1>1, <1>2, IdleIsKept DEF ViterbiInv
<1> QED
  BY <1>2, <1>3 DEF ViterbiInv

LEMMA ViterbiStep == ViterbiInv /\ [Next]_vars => ViterbiInv'
BY LookupStep, ForwardBackwardStep, BuildBestLatticeStep, BuildAllLatticeStep,
   InitNBestStep, EnumerateStep, BuildResultStep, StutterStep DEF Next, Analyze

(***************************************************************************)
(* Through every phase of analyze() and every call of next(): each node    *)
(* that was looked up is in the list of the place where it ends, has the   *)
(* Path objects connect() made for it, and the cost of the cheapest way    *)
(* to it, and the generator has what it needs of the lattice.              *)
(***************************************************************************)
THEOREM ViterbiInvariance == Spec => []ViterbiInv
BY ViterbiInitially, ViterbiStep, PTL DEF Spec

-----------------------------------------------------------------------------
(***************************************************************************)
(* Ways through the lattice: sequences of connected nodes.                 *)
(***************************************************************************)
Connected(s) == \A i \in 1..(Len(s) - 1) : <<s[i], s[i + 1]>> \in Pairs(lexicon)

Route(s) == s \in Paths /\ Connected(s) /\ s[1] = BOS

LEMMA LenOfPath ==
  ASSUME NEW s \in Paths
  PROVE  /\ Len(s) \in Nat /\ Len(s) >= 1
         /\ s \in Seq(Nodes)
         /\ \A i \in 1..Len(s) : s[i] \in Nodes
BY PathFacts, LenProperties DEF Paths

(* The nodes behind the first are right nodes, those before the last left ones. *)
LEMMA ConnectedNodes ==
  ASSUME InputOK, NEW s \in Paths, Connected(s), NEW i \in 1..(Len(s) - 1)
  PROVE  /\ <<s[i], s[i + 1]>> \in Pairs(lexicon)
         /\ i \in 1..Len(s) /\ i + 1 \in 1..Len(s)
         /\ s[i] \in lexicon \cup {BOS} /\ s[i] # EOS
         /\ s[i + 1] \in lexicon \cup {EOS} /\ s[i + 1] # BOS
         /\ Ends(s[i]) = IF s[i + 1] = EOS THEN EndOfText(lexicon) ELSE Begin[s[i + 1]]
         /\ pathCost[<<s[i], s[i + 1]>>] \in Int
<1>1. <<s[i], s[i + 1]>> \in Pairs(lexicon) /\ i \in 1..Len(s) /\ i + 1 \in 1..Len(s)
  BY LenOfPath DEF Connected
<1> DEFINE p == <<s[i], s[i + 1]>>
<1>2. p[1] = s[i] /\ p[2] = s[i + 1] /\ pathCost[p] \in Int
  BY <1>1, ConstantFacts DEF InputOK
<1> HIDE DEF p
<1>3. /\ p[1] \in lexicon \cup {BOS} /\ p[2] \in lexicon \cup {EOS}
      /\ Ends(p[1]) = IF p[2] = EOS THEN EndOfText(lexicon) ELSE Begin[p[2]]
  BY <1>1, PairFacts DEF p
<1> QED
  BY <1>1, <1>2, <1>3, ConstantFacts DEF InputOK, p

-----------------------------------------------------------------------------
(***************************************************************************)
(* Cost() of a way through the lattice is the recursive sum it is defined  *)
(* as, and never below what the nodes know.                                *)
(***************************************************************************)
LEMMA CostUpToFacts ==
  ASSUME InputOK, NEW s \in Paths, Connected(s)
  PROVE  /\ \A i \in 1..Len(s) : CostUpTo(s)[i] \in Int
         /\ CostUpTo(s)[1] = 0
         /\ \A i \in 1..(Len(s) - 1) :
              CostUpTo(s)[i + 1] = CostUpTo(s)[i] + pathCost[<<s[i], s[i + 1]>>]
         /\ Cost(s) = CostUpTo(s)[Len(s)]
<1> DEFINE I == 1..Len(s)
           step(i) == pathCost[<<s[i - 1], s[i]>>]
           value == [x \in I \X [I -> Int] |->
                       IF x[1] = 1 THEN 0 ELSE x[2][x[1] - 1] + step(x[1])]
           rank == [i \in I |-> i]
<1>1. Len(s) \in Nat /\ Len(s) >= 1
  BY LenOfPath
<1>2. ASSUME NEW i \in I, i # 1
      PROVE  i - 1 \in I /\ i - 1 < i /\ step(i) \in Int
  <2>1. i - 1 \in 1..(Len(s) - 1) /\ (i - 1) + 1 = i
    BY <1>1, <1>2
  <2> QED
    BY <2>1, ConnectedNodes
<1>3. \A i \in I : \A f \in [I -> Int] :
        value[<<i, f>>] = IF i = 1 THEN 0 ELSE f[i - 1] + step(i)
  OBVIOUS
<1>4. value \in [I \X [I -> Int] -> Int]
  <2>1. ASSUME NEW x \in I \X [I -> Int]
        PROVE  (IF x[1] = 1 THEN 0 ELSE x[2][x[1] - 1] + step(x[1])) \in Int
    <3>1. x[1] \in I /\ x[2] \in [I -> Int]
      OBVIOUS
    <3>2. x[1] # 1 => x[1] - 1 \in I /\ step(x[1]) \in Int
      BY <1>2, <3>1
    <3> HIDE DEF step, I
    <3> QED
      BY <3>1, <3>2
  <2> QED
    BY <2>1
<1>5. rank \in [I -> 0..Len(s)] /\ \A i \in I : rank[i] = i
  BY <1>1
<1>6. ASSUME NEW i \in I, NEW f \in [I -> Int], NEW g \in [I -> Int],
             \A j \in I : rank[j] < rank[i] => f[j] = g[j]
      PROVE  value[<<i, f>>] = value[<<i, g>>]
  <2> HIDE DEF value, rank, step, I
  <2>1. i # 1 => f[i - 1] = g[i - 1]
    BY <1>2, <1>5, <1>6
  <2> QED
    BY <1>3, <2>1
<1>7. \E f \in [I -> Int] : \A i \in I : f[i] = value[<<i, f>>]
  <2> DEFINE V == Int
             bound == Len(s)
  <2>1. /\ V # {} /\ bound \in Nat /\ rank \in [I -> 0..bound]
        /\ value \in [I \X [I -> V] -> V]
    BY <1>1, <1>4, <1>5
  <2>2. \A i \in I : \A f, g \in [I -> V] :
          (\A j \in I : rank[j] < rank[i] => f[j] = g[j])
            => value[<<i, f>>] = value[<<i, g>>]
    BY <1>6
  <2> HIDE DEF value, rank, I, V, bound
  <2>3. Recursion(I, V, bound, rank, value)
    BY <2>1, <2>2 DEF Recursion
  <2>4. \E f \in [I -> V] : \A i \in I : f[i] = value[<<i, f>>]
    BY <2>3, RecursiveFunctionExists
  <2> QED
    BY <2>4 DEF V
<1>8. PICK f \in [I -> Int] : \A i \in I : f[i] = IF i = 1 THEN 0 ELSE f[i - 1] + step(i)
  <2> HIDE DEF value, step, I
  <2> QED
    BY <1>3, <1>7
<1>9. f = [i \in I |-> IF i = 1 THEN 0 ELSE f[i - 1] + step(i)]
  <2> HIDE DEF step
  <2> QED
    BY <1>8
<1>10. CostUpTo(s) = [i \in I |-> IF i = 1 THEN 0 ELSE CostUpTo(s)[i - 1] + step(i)]
  BY <1>9 DEF CostUpTo
<1> DEFINE cost == CostUpTo(s)
<1>11. cost[1] = 0
  <2> HIDE DEF cost, step
  <2> QED
    BY <1>1, <1>10 DEF cost
<1>12. ASSUME NEW i \in 1..(Len(s) - 1)
       PROVE  cost[i + 1] = cost[i] + pathCost[<<s[i], s[i + 1]>>]
  <2>1. i + 1 \in I /\ i + 1 # 1 /\ (i + 1) - 1 = i
    BY <1>1
  <2>2. cost[i + 1] = cost[i] + step(i + 1)
    <3> HIDE DEF step, cost
    <3> QED
      BY <1>10, <2>1 DEF cost
  <2> QED
    BY <2>1, <2>2
<1>13. 1..Len(s) \subseteq {i \in Nat : cost[i] \in Int}
  <2> DEFINE T == {i \in Nat : cost[i] \in Int}
  <2> HIDE DEF cost
  <2>1. 1 \in T
    BY <1>11
  <2>2. ASSUME NEW i \in 1..(Len(s) - 1), i \in T PROVE i + 1 \in T
    <3>1. pathCost[<<s[i], s[i + 1]>>] \in Int
      BY ConnectedNodes
    <3> QED
      BY <1>12, <2>2, <3>1
  <2> HIDE DEF T
  <2>3. 1..Len(s) \subseteq T
    BY <1>1, <2>1, <2>2, IntervalInduction
  <2> QED
    BY <2>3 DEF T
<1> QED
  BY <1>11, <1>12, <1>13 DEF Cost

LEMMA NoRouteIsCheaper ==
  ASSUME LatticeInv, NEW s, Route(s),
         NEW n \in 1..Len(s), \A i \in 1..(n - 1) : s[i + 1] \in Right
  PROVE  nodeCost[s[n]] <= CostUpTo(s)[n]
<1>1. s \in Paths /\ Connected(s) /\ s[1] = BOS /\ InputOK /\ NodeCosts
  BY DEF Route, LatticeInv
<1>2. Len(s) \in Nat /\ \A i \in 1..Len(s) : nodeCost[s[i]] \in Int
  BY <1>1, LenOfPath DEF NodeCosts
<1> DEFINE T == {i \in Nat : nodeCost[s[i]] <= CostUpTo(s)[i]}
<1>3. 1 \in T
  BY <1>1, CostUpToFacts DEF NodeCosts
<1>4. ASSUME NEW i \in 1..(n - 1), i \in T PROVE i + 1 \in T
  <2>1. i \in 1..(Len(s) - 1) /\ i \in 1..Len(s) /\ i + 1 \in 1..Len(s)
    BY <1>2
  <2>2. /\ <<s[i], s[i + 1]>> \in Pairs(lexicon)
        /\ pathCost[<<s[i], s[i + 1]>>] \in Int
    BY <1>1, <2>1, ConnectedNodes
  <2>3. nodeCost[s[i + 1]] <= nodeCost[s[i]] + pathCost[<<s[i], s[i + 1]>>]
    <3>1. s[i + 1] \in Right
      OBVIOUS
    <3>2. <<s[i], s[i + 1]>>[1] = s[i] /\ <<s[i], s[i + 1]>>[2] = s[i + 1]
      OBVIOUS
    <3> QED
      BY <1>1, <2>2, <3>1, <3>2 DEF NodeCosts, CostVia
  <2>4. /\ CostUpTo(s)[i + 1] = CostUpTo(s)[i] + pathCost[<<s[i], s[i + 1]>>]
        /\ CostUpTo(s)[i] \in Int /\ CostUpTo(s)[i + 1] \in Int
    BY <1>1, <2>1, CostUpToFacts
  <2>5. nodeCost[s[i]] \in Int /\ nodeCost[s[i + 1]] \in Int /\ nodeCost[s[i]] <= CostUpTo(s)[i]
    BY <1>2, <1>4, <2>1
  <2>6. nodeCost[s[i + 1]] <= CostUpTo(s)[i + 1]
    BY <2>2, <2>3, <2>4, <2>5
  <2> QED
    BY <2>6
<1>5. 1..n \subseteq T
  <2>1. n \in Nat
    BY <1>2
  <2> HIDE DEF T
  <2> QED
    BY <2>1, <1>3, <1>4, IntervalInduction
<1> QED
  BY <1>5

(* A way along which the node costs are attained costs what they say. *)
LEMMA TightRouteCost ==
  ASSUME LatticeInv, NEW s, Route(s), NEW n \in 1..Len(s),
         \A i \in 1..(n - 1) : nodeCost[s[i + 1]] = CostVia(s[i], s[i + 1])
  PROVE  CostUpTo(s)[n] = nodeCost[s[n]]
<1>1. s \in Paths /\ Connected(s) /\ s[1] = BOS /\ InputOK /\ NodeCosts
  BY DEF Route, LatticeInv
<1>2. Len(s) \in Nat /\ n \in Nat
  BY <1>1, LenOfPath
<1> DEFINE T == {i \in Nat : CostUpTo(s)[i] = nodeCost[s[i]]}
<1>3. 1 \in T
  BY <1>1, CostUpToFacts DEF NodeCosts
<1>4. ASSUME NEW i \in 1..(n - 1), i \in T PROVE i + 1 \in T
  <2>1. i \in 1..(Len(s) - 1)
    BY <1>2
  <2>2. CostUpTo(s)[i + 1] = CostUpTo(s)[i] + pathCost[<<s[i], s[i + 1]>>]
    BY <1>1, <2>1, CostUpToFacts
  <2> QED
    BY <1>4, <2>2 DEF CostVia
<1>5. 1..n \subseteq T
  <2> HIDE DEF T
  <2> QED
    BY <1>2, <1>3, <1>4, IntervalInduction
<1> QED
  BY <1>5

-----------------------------------------------------------------------------
(***************************************************************************)
(* BestPathTo: from a known node prev leads back to BOS.                   *)
(***************************************************************************)
Linking == phase \in {"lookup", "failed", "forwardbackward", "best", "all"}

Rank(n) == IF n = BOS THEN 0 ELSE IF n \in lexicon THEN Begin[n] + 1 ELSE Size + 1

LEMMA RankFacts ==
  ASSUME InputOK, LinkInv, PhaseOK, Linking
  PROVE  /\ \A n \in Nodes : Rank(n) \in 0..(Size + 1)
         /\ \A r \in Right : /\ prev[r] \in Right \cup {BOS} /\ prev[r] \in Nodes
                             /\ prev[r] # NoNode
                             /\ Rank(prev[r]) < Rank(r)
<1>1. lexicon \subseteq Words /\ Right \subseteq lexicon \cup {EOS}
  BY DEF InputOK, Right
<1>2. ASSUME NEW n \in Nodes PROVE Rank(n) \in 0..(Size + 1)
  <2>1. n \in lexicon => Begin[n] \in Nat /\ Begin[n] < Size
    BY <1>1, ConstantFacts
  <2> QED
    BY <2>1, ConstantFacts DEF Rank
<1>3. ASSUME NEW r \in Right
      PROVE  /\ prev[r] \in Right \cup {BOS} /\ prev[r] \in Nodes
             /\ prev[r] # NoNode /\ Rank(prev[r]) < Rank(r)
  <2> DEFINE p == <<prev[r], r>>
  <2>1. p \in Pairs(lexicon) /\ p[1] = prev[r] /\ p[2] = r
    BY DEF Linking, LinkInv
  <2>2. /\ p[1] \in Right \cup {BOS} /\ p[1] # EOS
        /\ p[1] \in lexicon \cup {BOS}
        /\ Ends(p[1]) = IF p[2] = EOS THEN EndOfText(lexicon) ELSE Begin[p[2]]
    <3> HIDE DEF p
    <3> QED
      BY <2>1, LeftIsKnown, PairFacts
  <2>3. prev[r] \in Nodes /\ prev[r] # NoNode
    BY <1>1, <2>1, <2>2, NoNodeAssumption DEF Nodes
  <2>4. Rank(prev[r]) < Rank(r)
    <3>1. CASE prev[r] = BOS
      <4>1. r # BOS /\ (r \in lexicon => Begin[r] \in Nat)
        BY <1>1, ConstantFacts
      <4> QED
        BY <3>1, <4>1, ConstantFacts DEF Rank
    <3>2. CASE prev[r] # BOS
      <4>1. prev[r] \in lexicon /\ prev[r] \in Words
        BY <1>1, <2>1, <2>2, <3>2
      <4>2. /\ Rank(prev[r]) = Begin[prev[r]] + 1 /\ Begin[prev[r]] \in Nat
            /\ Begin[prev[r]] < Size /\ Begin[prev[r]] < End[prev[r]]
            /\ End[prev[r]] \in Nat
        BY <3>2, <4>1, ConstantFacts DEF Rank
      <4>3. CASE r = EOS
        <5>1. Rank(r) = Size + 1
          BY <1>1, <4>3, ConstantFacts DEF Rank
        <5> QED
          BY <4>2, <5>1, ConstantFacts
      <4>4. CASE r # EOS
        <5>1. /\ r \in lexicon /\ r # BOS /\ Begin[r] \in Nat
              /\ End[prev[r]] = Begin[r]
          BY <1>1, <2>1, <2>2, <3>2, <4>4, ConstantFacts DEF Ends
        <5>2. Rank(r) = Begin[r] + 1
          BY <5>1 DEF Rank
        <5> QED
          BY <4>2, <5>1, <5>2
      <4> QED
        BY <4>3, <4>4
    <3> QED
      BY <3>1, <3>2
  <2> QED
    BY <2>1, <2>2, <2>3, <2>4
<1> QED
  BY <1>2, <1>3

LEMMA BestPathToFacts ==
  ASSUME InputOK, LinkInv, PhaseOK, Linking
  PROVE  /\ \A n \in Nodes : BestPathTo[n] \in Seq(Nodes)
         /\ BestPathTo[BOS] = <<BOS>>
         /\ \A r \in Right : BestPathTo[r] = Append(BestPathTo[prev[r]], r)
<1> DEFINE V == Seq(Nodes)
           bound == Size + 1
           rank == [n \in Nodes |-> Rank(n)]
           value == [x \in Nodes \X [Nodes -> V] |->
                       IF prev[x[1]] = NoNode THEN <<x[1]>>
                       ELSE Append(x[2][prev[x[1]]], x[1])]
<1>1. /\ V # {} /\ bound \in Nat /\ rank \in [Nodes -> 0..bound]
  <2>1. << >> \in V
    BY EmptySeq
  <2>2. rank \in [Nodes -> 0..bound]
    BY RankFacts
  <2>3. bound \in Nat
    BY ConstantFacts
  <2> HIDE DEF V, bound, rank
  <2> QED
    BY <2>1, <2>2, <2>3
<1>2. \A n \in Nodes : prev[n] \in Nodes \cup {NoNode}
  BY DEF LinkInv, Linking
<1>3. value \in [Nodes \X [Nodes -> V] -> V]
  <2>1. ASSUME NEW x \in Nodes \X [Nodes -> V]
        PROVE  (IF prev[x[1]] = NoNode THEN <<x[1]>>
                ELSE Append(x[2][prev[x[1]]], x[1])) \in V
    <3>1. x[1] \in Nodes /\ x[2] \in [Nodes -> V]
      OBVIOUS
    <3>2. <<x[1]>> \in V
      BY <3>1
    <3>3. prev[x[1]] # NoNode => x[2][prev[x[1]]] \in V
      <4> HIDE DEF V
      <4> QED
        BY <1>2, <3>1
    <3>4. prev[x[1]] # NoNode => Append(x[2][prev[x[1]]], x[1]) \in V
      BY <3>1, <3>3, AppendProperties
    <3> HIDE DEF V
    <3> QED
      BY <3>2, <3>4
  <2> HIDE DEF V
  <2> QED
    BY <2>1
<1>4. \A n \in Nodes : \A f \in [Nodes -> V] :
        value[<<n, f>>] = IF prev[n] = NoNode THEN <<n>> ELSE Append(f[prev[n]], n)
  <2> HIDE DEF V
  <2> QED
    OBVIOUS
<1>5. ASSUME NEW n \in Nodes, NEW f \in [Nodes -> V], NEW g \in [Nodes -> V],
             \A m \in Nodes : rank[m] < rank[n] => f[m] = g[m]
      PROVE  value[<<n, f>>] = value[<<n, g>>]
  <2>1. CASE prev[n] = NoNode
    <3> HIDE DEF value, V
    <3> QED
      BY <1>4, <2>1
  <2>2. CASE prev[n] # NoNode
    <3>1. n \in Right
      BY <2>2 DEF LinkInv, Linking
    <3>2. prev[n] \in Nodes /\ Rank(prev[n]) < Rank(n)
      BY <3>1, RankFacts
    <3>3. f[prev[n]] = g[prev[n]]
      BY <1>5, <3>2
    <3>4. \A h \in [Nodes -> V] : value[<<n, h>>] = Append(h[prev[n]], n)
      <4> HIDE DEF value, V
      <4> QED
        BY <1>4, <2>2
    <3> HIDE DEF value, V
    <3>5. value[<<n, f>>] = Append(f[prev[n]], n) /\ value[<<n, g>>] = Append(g[prev[n]], n)
      BY <3>4
    <3> QED
      BY <3>3, <3>5
  <2> QED
    BY <2>1, <2>2
<1>6. PICK f \in [Nodes -> V] :
        \A n \in Nodes : f[n] = IF prev[n] = NoNode THEN <<n>> ELSE Append(f[prev[n]], n)
  <2>1. Recursion(Nodes, V, bound, rank, value)
    <3> HIDE DEF value, rank, V, bound
    <3> QED
      BY <1>1, <1>3, <1>5 DEF Recursion
  <2>2. \E f \in [Nodes -> V] : \A n \in Nodes : f[n] = value[<<n, f>>]
    <3> HIDE DEF value, rank, V, bound
    <3> QED
      BY <2>1, RecursiveFunctionExists
  <2> HIDE DEF value, V
  <2> QED
    BY <1>4, <2>2
<1>7. f = [n \in Nodes |-> IF prev[n] = NoNode THEN <<n>> ELSE Append(f[prev[n]], n)]
  <2> HIDE DEF V
  <2> QED
    BY <1>6
<1>8. BestPathTo = [n \in Nodes |-> IF prev[n] = NoNode THEN <<n>>
                                    ELSE Append(BestPathTo[prev[n]], n)]
  BY <1>7 DEF BestPathTo
<1> DEFINE best == BestPathTo
<1>9. \A n \in Nodes : best[n] = IF prev[n] = NoNode THEN <<n>> ELSE Append(best[prev[n]], n)
  <2> HIDE DEF best
  <2> QED
    BY <1>8 DEF best
<1>10. BOS \in Nodes /\ prev[BOS] = NoNode
  BY RightFacts DEF Nodes, LinkInv, Linking
<1>11. \A r \in Right : r \in Nodes /\ prev[r] # NoNode
  BY RankFacts, RightFacts
<1>12. \A n \in Nodes : best[n] \in Seq(Nodes)
  <2> DEFINE T == {k \in Nat : \A n \in Nodes : Rank(n) < k => best[n] \in Seq(Nodes)}
  <2> HIDE DEF best
  <2>1. 0 \in T
    <3>1. ASSUME NEW n \in Nodes PROVE ~(Rank(n) < 0)
      BY RankFacts
    <3> QED
      BY <3>1
  <2>2. ASSUME NEW k \in Nat, k \in T PROVE k + 1 \in T
    <3>1. ASSUME NEW n \in Nodes, Rank(n) < k + 1 PROVE best[n] \in Seq(Nodes)
      <4>1. CASE prev[n] = NoNode
        <5>1. <<n>> \in Seq(Nodes)
          OBVIOUS
        <5>2. best[n] = <<n>>
          BY <1>9, <4>1, Zenon
        <5> QED
          BY <5>1, <5>2
      <4>2. CASE prev[n] # NoNode
        <5>1. n \in Right
          BY <4>2 DEF LinkInv, Linking
        <5>2. /\ prev[n] \in Nodes /\ Rank(prev[n]) < Rank(n)
              /\ Rank(n) \in Nat /\ Rank(prev[n]) \in Nat
          BY <5>1, RankFacts, ConstantFacts
        <5>3. best[prev[n]] \in Seq(Nodes)
          BY <2>2, <3>1, <5>2
        <5> QED
          BY <1>9, <4>2, <5>3, AppendProperties, ZenonT(30)
      <4> QED
        BY <4>1, <4>2
    <3> QED
      BY <3>1
  <2>3. Size + 2 \in T
    <3> HIDE DEF T
    <3> QED
      BY <2>1, <2>2, NatSetInduction, ConstantFacts
  <2>4. ASSUME NEW n \in Nodes PROVE Rank(n) < Size + 2
    BY RankFacts, ConstantFacts
  <2> QED
    BY <2>3, <2>4
<1> QED
  <2> HIDE DEF best
  <2>1. best[BOS] = <<BOS>> /\ \A r \in Right : best[r] = Append(best[prev[r]], r)
    BY <1>9, <1>10, <1>11
  <2> QED
    BY <1>12, <2>1 DEF best

(* The path prev gives: from BOS to the node, along the links, at its cost. *)
Tight(s) ==
  /\ Route(s)
  /\ \A i \in 1..(Len(s) - 1) :
       /\ prev[s[i + 1]] = s[i] /\ s[i + 1] \in Right
       /\ nodeCost[s[i + 1]] = CostVia(s[i], s[i + 1])

LEMMA BestPathShape ==
  ASSUME LatticeInv, LinkInv, Linking, NEW n \in Right \cup {BOS}
  PROVE  /\ Tight(BestPathTo[n])
         /\ BestPathTo[n][Len(BestPathTo[n])] = n
<1> DEFINE Shaped(m) == /\ Tight(BestPathTo[m])
                        /\ BestPathTo[m][Len(BestPathTo[m])] = m
           T == {k \in Nat : \A m \in Right \cup {BOS} : Rank(m) < k => Shaped(m)}
<1>1. InputOK /\ PhaseOK
  BY DEF LatticeInv
<1>2. \A m \in Right \cup {BOS} : m \in Nodes /\ Rank(m) \in Nat /\ Rank(m) < Size + 2
  <2> SUFFICES ASSUME NEW m \in Right \cup {BOS}
               PROVE  m \in Nodes /\ Rank(m) \in Nat /\ Rank(m) < Size + 2
    OBVIOUS
  <2>1. m \in Nodes
    BY <1>1, RightFacts DEF Nodes
  <2>2. Rank(m) \in 0..(Size + 1)
    BY <1>1, <2>1, RankFacts
  <2> QED
    BY <2>1, <2>2, ConstantFacts
<1>3. Shaped(BOS)
  <2>1. BestPathTo[BOS] = <<BOS>> /\ <<BOS>> \in Paths
    BY <1>1, BestPathToFacts DEF Paths, Nodes
  <2> HIDE DEF BestPathTo
  <2> QED
    BY <2>1 DEF Tight, Route, Connected
<1>4. 0 \in T
  BY <1>2
<1>5. ASSUME NEW k \in Nat, k \in T PROVE k + 1 \in T
  <2> SUFFICES ASSUME NEW m \in Right, Rank(m) < k + 1 PROVE Shaped(m)
    BY <1>3
  <2>1. /\ prev[m] \in Right \cup {BOS} /\ Rank(prev[m]) < Rank(m)
        /\ Rank(prev[m]) \in Nat /\ Rank(m) \in Nat
    BY <1>1, <1>2, RankFacts
  <2>2. Shaped(prev[m])
    BY <1>5, <2>1
  <2> DEFINE s == BestPathTo[prev[m]]
             q == BestPathTo[m]
  <2>3. q = Append(s, m)
    BY <1>1, BestPathToFacts
  <2>4. /\ s \in Paths /\ Connected(s) /\ s[1] = BOS /\ s[Len(s)] = prev[m]
        /\ \A i \in 1..(Len(s) - 1) :
             /\ prev[s[i + 1]] = s[i] /\ s[i + 1] \in Right
             /\ nodeCost[s[i + 1]] = CostVia(s[i], s[i + 1])
    BY <2>2 DEF Tight, Route
  <2> HIDE DEF s, q
  <2>5. s \in Seq(Nodes) /\ Len(s) \in Nat /\ Len(s) >= 1
    BY <2>4, LenOfPath
  <2>6. /\ q \in Seq(Nodes) /\ q # << >> /\ Len(q) = Len(s) + 1
        /\ \A i \in 1..Len(s) : q[i] = s[i]
        /\ q[Len(s) + 1] = m
    BY <1>2, <2>3, <2>5, AppendProperties
  <2>7. ASSUME NEW i \in 1..(Len(q) - 1)
        PROVE  /\ <<q[i], q[i + 1]>> \in Pairs(lexicon)
               /\ prev[q[i + 1]] = q[i] /\ q[i + 1] \in Right
               /\ nodeCost[q[i + 1]] = CostVia(q[i], q[i + 1])
    <3>1. CASE i = Len(s)
      <4>1. q[i] = prev[m] /\ q[i + 1] = m
        BY <2>4, <2>5, <2>6, <3>1
      <4> QED
        BY <4>1 DEF LinkInv, Linking
    <3>2. CASE i # Len(s)
      <4>1. i \in 1..(Len(s) - 1) /\ q[i] = s[i] /\ q[i + 1] = s[i + 1]
        BY <2>5, <2>6, <3>2
      <4> QED
        BY <2>4, <4>1 DEF Connected
    <3> QED
      BY <3>1, <3>2
  <2>8. Tight(q) /\ q[Len(q)] = m
    <3>1. q \in Paths /\ q[1] = BOS /\ q[Len(q)] = m
      BY <2>4, <2>5, <2>6 DEF Paths
    <3> QED
      BY <2>7, <3>1 DEF Tight, Route, Connected
  <2> QED
    BY <2>8 DEF q
<1>6. Size + 2 \in T
  <2> HIDE DEF T
  <2> QED
    BY <1>4, <1>5, NatSetInduction, ConstantFacts
<1> QED
  BY <1>2, <1>6

-----------------------------------------------------------------------------
(***************************************************************************)
(* No node comes twice on a way through the lattice.                       *)
(***************************************************************************)
LEMMA RouteGoesForward ==
  ASSUME InputOK, NEW s \in Paths, Connected(s)
  PROVE  \A j \in 1..Len(s) : \A i \in 1..(j - 1) :
           s[i] # EOS /\ (s[j] = EOS \/ Ends(s[i]) < Ends(s[j]))
<1>1. Len(s) \in Nat /\ Len(s) >= 1
  BY LenOfPath
<1>2. ASSUME NEW i \in 1..(Len(s) - 1)
      PROVE  /\ s[i] # EOS /\ Ends(s[i]) \in Nat
             /\ s[i + 1] # EOS => Ends(s[i]) < Ends(s[i + 1]) /\ Ends(s[i + 1]) \in Nat
  <2>1. /\ s[i] \in lexicon \cup {BOS} /\ s[i] # EOS
        /\ s[i + 1] \in lexicon \cup {EOS} /\ s[i + 1] # BOS
        /\ Ends(s[i]) = IF s[i + 1] = EOS THEN EndOfText(lexicon) ELSE Begin[s[i + 1]]
    BY ConnectedNodes
  <2>2. Ends(s[i]) \in Nat
    BY <2>1, ConstantFacts DEF Ends, InputOK
  <2>3. CASE s[i + 1] # EOS
    <3>1. s[i + 1] \in Words /\ Ends(s[i + 1]) = End[s[i + 1]] /\ Ends(s[i]) = Begin[s[i + 1]]
      BY <2>1, <2>3 DEF Ends, InputOK
    <3> QED
      BY <2>1, <2>2, <3>1, ConstantFacts
  <2> QED
    BY <2>1, <2>2, <2>3
<1> DEFINE T == {j \in Nat : \A i \in 1..(j - 1) :
                   s[i] # EOS /\ (s[j] = EOS \/ Ends(s[i]) < Ends(s[j]))}
<1>3. 1 \in T
  OBVIOUS
<1>4. ASSUME NEW j \in 1..(Len(s) - 1), j \in T PROVE j + 1 \in T
  <2> SUFFICES ASSUME NEW i \in 1..((j + 1) - 1)
               PROVE  s[i] # EOS /\ (s[j + 1] = EOS \/ Ends(s[i]) < Ends(s[j + 1]))
    BY <1>1
  <2>1. i \in 1..(Len(s) - 1) /\ j \in 1..(Len(s) - 1)
    BY <1>1
  <2>2. CASE i = j
    BY <1>2, <2>1, <2>2
  <2>3. CASE i # j
    <3>1. i \in 1..(j - 1)
      BY <2>1, <2>3, <1>1
    <3>2. s[j] # EOS /\ Ends(s[i]) < Ends(s[j])
      BY <1>2, <1>4, <2>1, <3>1
    <3>3. Ends(s[i]) \in Nat /\ Ends(s[j]) \in Nat
      BY <1>2, <2>1
    <3> QED
      BY <1>2, <2>1, <3>2, <3>3
  <2> QED
    BY <2>2, <2>3
<1>5. 1..Len(s) \subseteq T
  <2> HIDE DEF T
  <2> QED
    BY <1>1, <1>3, <1>4, IntervalInduction
<1> QED
  BY <1>5

(* A path without repetitions. *)
Injective(s) == \A i, j \in 1..Len(s) : s[i] = s[j] => i = j

LEMMA RouteIsInjective ==
  ASSUME InputOK, NEW s \in Paths, Connected(s)
  PROVE  Injective(s)
<1> SUFFICES ASSUME NEW i \in 1..Len(s), NEW j \in 1..Len(s), s[i] = s[j]
             PROVE  i = j
  BY DEF Injective
<1>1. Len(s) \in Nat
  BY LenOfPath
<1>2. ASSUME NEW k \in 1..Len(s), NEW m \in 1..(k - 1), s[m] = s[k] PROVE FALSE
  <2>1. m \in 1..(Len(s) - 1)
    BY <1>1
  <2>2. s[m] # EOS /\ s[m] \in lexicon \cup {BOS}
    BY <2>1, ConnectedNodes
  <2>3. Ends(s[m]) < Ends(s[k])
    BY <1>2, <2>2, RouteGoesForward
  <2>4. Ends(s[m]) \in Nat
    BY <2>2, ConstantFacts DEF Ends, InputOK
  <2> QED
    BY <1>2, <2>3, <2>4
<1>3. i < j => i \in 1..(j - 1)
  BY <1>1
<1>4. j < i => j \in 1..(i - 1)
  BY <1>1
<1> QED
  BY <1>1, <1>2, <1>3, <1>4

LEMMA PathLength ==
  ASSUME NEW s \in Paths, Injective(s)
  PROVE  Len(s) <= Cardinality(Words) + 2
<1> DEFINE f == [i \in 1..Len(s) |-> s[i]]
<1>1. Len(s) \in Nat
  BY LenOfPath
<1>2. f \in Injection(1..Len(s), Nodes)
  BY LenOfPath DEF Injection, IsInjective, Injective
<1>3. /\ IsFiniteSet(Words) /\ Cardinality(Words) \in Nat
      /\ IsFiniteSet(Nodes) /\ Cardinality(Nodes) <= Cardinality(Words) + 2
      /\ Cardinality(Nodes) \in Nat
  <2>1. IsFiniteSet(Words) /\ Cardinality(Words) \in Nat
    BY ViterbiAssumption, FS_CardinalityType
  <2>2. /\ IsFiniteSet(Words \cup {BOS})
        /\ Cardinality(Words \cup {BOS}) = Cardinality(Words) + 1
    BY <2>1, FS_AddElement, ConstantFacts
  <2>3. /\ IsFiniteSet((Words \cup {BOS}) \cup {EOS})
        /\ Cardinality((Words \cup {BOS}) \cup {EOS}) = (Cardinality(Words) + 1) + 1
    BY <2>2, FS_AddElement, ConstantFacts, SMTT(30)
  <2>4. (Words \cup {BOS}) \cup {EOS} = Nodes
    BY DEF Nodes
  <2> QED
    BY <2>1, <2>3, <2>4
<1>4. Cardinality(1..Len(s)) <= Cardinality(Nodes)
  BY <1>2, <1>3, FS_Injection
<1>5. Cardinality(1..Len(s)) = Len(s)
  BY <1>1, FS_Interval, SMTT(30)
<1> QED
  BY <1>1, <1>3, <1>4, <1>5

(***************************************************************************)
(* Chain, which follows next from BOS to EOS, is the path that next links. *)
(***************************************************************************)
LEMMA ChainFollowsNext ==
  ASSUME NEW s \in Paths, Injective(s), s[1] = BOS, s[Len(s)] = EOS,
         next \in [Nodes -> Nodes \cup {NoNode}],
         \A i \in 1..(Len(s) - 1) : next[s[i]] = s[i + 1]
  PROVE  Chain = s
<1> DEFINE N == Cardinality(Words) + 1
           V == Seq(Nodes \cup {NoNode}) \ {<< >>}
           rank == [k \in 0..N |-> k]
           step(c) == IF Last(c) \in {EOS, NoNode} THEN c ELSE Append(c, next[Last(c)])
           value == [x \in (0..N) \X [0..N -> V] |->
                       IF x[1] = 0 THEN <<BOS>> ELSE step(x[2][x[1] - 1])]
<1>1. s[1] = BOS /\ Len(s) \in Nat /\ Len(s) >= 1
  BY LenOfPath
<1>2. N \in Nat /\ Len(s) <= N + 1
  <2>1. Cardinality(Words) \in Nat
    BY ViterbiAssumption, FS_CardinalityType
  <2> QED
    BY <1>1, <2>1, PathLength
<1>3. ASSUME NEW c \in V PROVE step(c) \in V
  <2>1. c \in Seq(Nodes \cup {NoNode}) /\ Len(c) \in 1..Len(c)
    BY EmptySeq
  <2>2. Last(c) \in Nodes \cup {NoNode}
    BY <2>1, ElementOfSeq DEF Last
  <2>3. Last(c) \notin {EOS, NoNode} => next[Last(c)] \in Nodes \cup {NoNode}
    BY <2>2
  <2>4. Last(c) \notin {EOS, NoNode} => Append(c, next[Last(c)]) \in V
    BY <2>1, <2>3, AppendProperties
  <2> QED
    BY <2>4
<1>4. <<BOS>> \in V
  <2>1. BOS \in Nodes \cup {NoNode}
    BY DEF Nodes
  <2>2. <<BOS>> \in Seq(Nodes \cup {NoNode}) /\ Len(<<BOS>>) = 1
    BY <2>1
  <2> QED
    BY <2>2, EmptySeq
<1>5. ASSUME NEW k \in 0..N, k # 0 PROVE k - 1 \in 0..N /\ k - 1 < k
  BY <1>2, <1>5
<1>6. \A k \in 0..N : \A f \in [0..N -> V] :
        value[<<k, f>>] = IF k = 0 THEN <<BOS>> ELSE step(f[k - 1])
  <2> HIDE DEF step, V, N
  <2> QED
    OBVIOUS
<1>7. value \in [(0..N) \X [0..N -> V] -> V]
  <2>1. ASSUME NEW x \in (0..N) \X [0..N -> V]
        PROVE  (IF x[1] = 0 THEN <<BOS>> ELSE step(x[2][x[1] - 1])) \in V
    <3>1. x[1] \in 0..N /\ x[2] \in [0..N -> V]
      OBVIOUS
    <3>2. x[1] # 0 => x[2][x[1] - 1] \in V
      <4> HIDE DEF V, N
      <4> QED
        BY <1>5, <3>1
    <3>3. x[1] # 0 => step(x[2][x[1] - 1]) \in V
      <4> HIDE DEF V, N, step
      <4> QED
        BY <1>3, <3>2
    <3> HIDE DEF V, step
    <3> QED
      BY <1>4, <3>3
  <2> HIDE DEF V, N, step
  <2> QED
    BY <2>1
<1>8. Recursion(0..N, V, N, rank, value)
  <2>1. rank \in [0..N -> 0..N] /\ \A k \in 0..N : rank[k] = k
    OBVIOUS
  <2>2. \A k \in 0..N : \A f, g \in [0..N -> V] :
          (\A j \in 0..N : rank[j] < rank[k] => f[j] = g[j])
            => value[<<k, f>>] = value[<<k, g>>]
    <3> HIDE DEF V, N, step, value, rank
    <3> SUFFICES ASSUME NEW k \in 0..N, NEW f \in [0..N -> V], NEW g \in [0..N -> V],
                        \A j \in 0..N : rank[j] < rank[k] => f[j] = g[j]
                 PROVE  value[<<k, f>>] = value[<<k, g>>]
      OBVIOUS
    <3>1. k # 0 => f[k - 1] = g[k - 1]
      BY <1>5, <2>1
    <3> QED
      BY <1>6, <3>1
  <2>3. V # {}
    BY <1>4
  <2> HIDE DEF V, N, step, value, rank
  <2> QED
    BY <1>2, <1>7, <2>1, <2>2, <2>3 DEF Recursion
<1>9. PICK f \in [0..N -> V] :
        \A k \in 0..N : f[k] = IF k = 0 THEN <<BOS>> ELSE step(f[k - 1])
  <2> HIDE DEF V, N, step, value, rank
  <2> DEFINE K == 0..N
  <2>1. \E f \in [K -> V] : \A k \in K : f[k] = value[<<k, f>>]
    <3>1. Recursion(K, V, N, rank, value)
      BY <1>8
    <3> HIDE DEF K
    <3> QED
      BY <3>1, RecursiveFunctionExists
  <2> QED
    BY <1>6, <2>1
<1>10. f = [k \in 0..N |-> IF k = 0 THEN <<BOS>> ELSE step(f[k - 1])]
  <2> HIDE DEF V, N, step
  <2> QED
    BY <1>9
<1> DEFINE F == CHOOSE g : g = [k \in 0..N |-> IF k = 0 THEN <<BOS>> ELSE step(g[k - 1])]
<1>11. F = [k \in 0..N |-> IF k = 0 THEN <<BOS>> ELSE step(F[k - 1])]
  <2> HIDE DEF step, N
  <2> QED
    BY <1>10
<1>12. Chain = F[N]
  BY DEF Chain
<1>13. \A k \in 0..N : F[k] = IF k = 0 THEN <<BOS>> ELSE step(F[k - 1])
  <2> HIDE DEF step, N, F
  <2> SUFFICES ASSUME NEW k \in 0..N
               PROVE  F[k] = IF k = 0 THEN <<BOS>> ELSE step(F[k - 1])
    OBVIOUS
  <2> QED
    BY <1>11
<1> DEFINE Same(k) ==
             /\ F[k] \in Seq(Nodes)
             /\ Len(F[k]) = IF k + 1 <= Len(s) THEN k + 1 ELSE Len(s)
             /\ \A i \in 1..Len(F[k]) : F[k][i] = s[i]
           T == {k \in Nat : k <= N => Same(k)}
<1>14. Same(0)
  <2>1. F[0] = <<BOS>>
    <3> HIDE DEF step, N, F
    <3> QED
      BY <1>2, <1>13
  <2>2. <<BOS>> \in Seq(Nodes) /\ Len(<<BOS>>) = 1 /\ <<BOS>>[1] = BOS
    BY ConstantFacts DEF Nodes
  <2> HIDE DEF F
  <2> QED
    BY <1>1, <2>1, <2>2
<1>15. ASSUME NEW k \in Nat, k \in T PROVE k + 1 \in T
  <2> SUFFICES ASSUME k + 1 <= N PROVE Same(k + 1)
    <3> HIDE DEF Same, N, F, value, rank, V, step
    <3>1. k + 1 \in Nat
      OBVIOUS
    <3> QED
      BY <3>1
  <2> DEFINE c == F[k]
  <2>1. F[k + 1] = step(c)
    <3>1. k + 1 \in 0..N /\ k + 1 # 0 /\ (k + 1) - 1 = k
      BY <1>2
    <3> HIDE DEF step, N, F
    <3> QED
      BY <1>13, <3>1
  <2>2. Same(k)
    <3> HIDE DEF Same, N
    <3>1. k <= N
      BY <1>2
    <3> QED
      BY <1>15, <3>1
  <2>3. /\ c \in Seq(Nodes) /\ Len(c) = IF k + 1 <= Len(s) THEN k + 1 ELSE Len(s)
        /\ \A i \in 1..Len(c) : c[i] = s[i]
    BY <2>2
  <2>4. Len(c) \in 1..Len(s) /\ Last(c) = s[Len(c)]
    <3> HIDE DEF c
    <3> QED
      BY <1>1, <2>3 DEF Last
  <2>5. CASE Len(c) = Len(s)
    <3>1. step(c) = c
      <4> HIDE DEF c
      <4> QED
        BY <2>4, <2>5
    <3> HIDE DEF c, step, F
    <3> QED
      BY <1>1, <2>1, <2>3, <2>5, <3>1 DEF c
  <2>6. CASE Len(c) # Len(s)
    <3> DEFINE i == Len(c)
    <3>1. i = k + 1 /\ i \in 1..(Len(s) - 1) /\ i + 1 = k + 2 /\ i \in Nat
      <4> HIDE DEF c
      <4> QED
        BY <1>1, <2>3, <2>4, <2>6
    <3>2. s[i] \in Nodes /\ s[i] # EOS /\ s[i + 1] \in Nodes
      <4> HIDE DEF i
      <4> QED
        BY <1>1, <3>1, LenOfPath DEF Injective
    <3>3. step(c) = Append(c, s[i + 1])
      <4> HIDE DEF c
      <4> QED
        BY <2>4, <3>1, <3>2, NoNodeAssumption
    <3> HIDE DEF c
    <3>4. /\ Append(c, s[i + 1]) \in Seq(Nodes)
          /\ Len(Append(c, s[i + 1])) = i + 1
          /\ \A j \in 1..i : Append(c, s[i + 1])[j] = c[j]
          /\ Append(c, s[i + 1])[i + 1] = s[i + 1]
      BY <2>3, <3>2, AppendProperties
    <3> HIDE DEF step, F, i
    <3>5. /\ F[k + 1] \in Seq(Nodes) /\ Len(F[k + 1]) = i + 1
          /\ \A j \in 1..i : F[k + 1][j] = c[j]
          /\ F[k + 1][i + 1] = s[i + 1]
      BY <2>1, <3>3, <3>4
    <3>6. \A j \in 1..(i + 1) : F[k + 1][j] = s[j]
      <4> SUFFICES ASSUME NEW j \in 1..(i + 1) PROVE F[k + 1][j] = s[j]
        OBVIOUS
      <4>1. j = i + 1 \/ j \in 1..i
        BY <3>1
      <4>2. \A m \in 1..i : c[m] = s[m]
        BY <2>3 DEF i
      <4> QED
        BY <3>5, <4>1, <4>2
    <3> QED
      BY <1>1, <3>1, <3>5, <3>6
  <2> QED
    BY <2>5, <2>6
<1>16. N \in T
  <2> HIDE DEF Same
  <2>1. 0 \in T
    BY <1>14
  <2> HIDE DEF T
  <2> QED
    BY <1>2, <1>15, <2>1, NatSetInduction
<1>17. Same(N)
  <2> HIDE DEF Same
  <2> QED
    BY <1>2, <1>16
<1>18. /\ F[N] \in Seq(Nodes) /\ Len(F[N]) = Len(s)
       /\ \A i \in 1..Len(F[N]) : F[N][i] = s[i]
  <2> HIDE DEF F, N
  <2> QED
    BY <1>1, <1>2, <1>17
<1>19. F[N] = s
  <2> HIDE DEF F, N
  <2>1. s \in Seq(Nodes)
    BY <1>1, LenOfPath
  <2> QED
    BY <1>18, <2>1, SeqEqual
<1> QED
  BY <1>12, <1>19

-----------------------------------------------------------------------------
(***************************************************************************)
(* The ways to cut the text are the ways through the lattice to EOS.       *)
(***************************************************************************)
LEMMA TextEndIsEndOfText ==
  ASSUME InputOK
  PROVE  TextEnd = EndOfText(lexicon) /\ TextEnd \in 0..Size
<1> DEFINE all == {Ends(n) : n \in {m \in lexicon \cup {BOS} : Ends(m) <= Size}}
           ends == {0} \cup {End[w] : w \in {v \in lexicon : End[v] <= Size}}
<1>1. lexicon \subseteq Words
  BY DEF InputOK
<1>2. Ends(BOS) = 0 /\ \A w \in lexicon : Ends(w) = End[w]
  BY <1>1, ConstantFacts DEF Ends
<1>3. all \subseteq ends
  BY <1>2
<1>4. ASSUME NEW x \in ends PROVE x \in all
  <2>1. CASE x = 0
    BY <1>2, <2>1, ConstantFacts
  <2>2. CASE x # 0
    <3>1. PICK w \in lexicon : End[w] <= Size /\ x = End[w]
      BY <2>2
    <3>2. Ends(w) = x /\ Ends(w) <= Size
      BY <1>2, <3>1
    <3> QED
      BY <3>2
  <2> QED
    BY <2>1, <2>2
<1>5. ends = all
  <2> HIDE DEF ends, all
  <2> QED
    BY <1>3, <1>4
<1>6. TextEnd = Max(ends) /\ EndOfText(lexicon) = Max(all)
  BY DEF TextEnd, EndOfText
<1> QED
  BY <1>1, <1>5, <1>6, EndOfTextFacts

(* Without white space at the end, the text ends where the sentence does. *)
LEMMA TextIsSentence ==
  ASSUME InputOK, ~HasOvershoot
  PROVE  TextEnd = Size
<1> DEFINE E == EndOfText(lexicon)
<1>1. lexicon \subseteq Words
  BY DEF InputOK
<1>2. /\ E \in 0..Size
      /\ \E n \in lexicon \cup {BOS} : Ends(n) = E
      /\ \A n \in lexicon \cup {BOS} : Ends(n) <= Size => Ends(n) <= E
  BY <1>1, EndOfTextFacts
<1>3. Ends(BOS) = 0 /\ \A w \in lexicon : Ends(w) = End[w] /\ End[w] \in Nat
  BY <1>1, ConstantFacts DEF Ends
<1>4. E = 0 \/ \E v \in lexicon : End[v] = E
  BY <1>2, <1>3
<1> HIDE DEF E
<1>5. E = Size
  <2> SUFFICES ASSUME E # Size PROVE FALSE
    OBVIOUS
  <2>1. E \in 0..(Size - 1)
    BY <1>2, ConstantFacts
  <2>2. PICK w \in lexicon : Begin[w] = E
    BY <1>4, <2>1, LexiconFacts
  <2>3. End[w] <= Size /\ End[w] > E /\ E \in Nat /\ End[w] \in Nat
    BY <1>1, <2>1, <2>2, ConstantFacts DEF HasOvershoot
  <2>4. End[w] <= E
    BY <1>2, <1>3, <2>3
  <2> QED
    BY <2>3, <2>4
<1> QED
  BY <1>5, TextEndIsEndOfText DEF E

(* The rest of a way, from a node that starts at p to EOS. *)
Starts(n) == IF n = EOS THEN TextEnd ELSE Begin[n]

Rest(s, p) ==
  /\ s \in Paths /\ Connected(s) /\ s[Len(s)] = EOS
  /\ s[1] \in lexicon \cup {EOS} /\ Starts(s[1]) = p

LEMMA PairStarts ==
  ASSUME InputOK, NEW l \in lexicon \cup {BOS}, NEW r \in lexicon \cup {EOS}
  PROVE  <<l, r>> \in Pairs(lexicon) <=> Ends(l) = Starts(r)
BY TextEndIsEndOfText, PairFacts, IsPair DEF Starts

LEMMA LongerThanOne ==
  ASSUME NEW n \in Nat, n >= 1, n # 1
  PROVE  1 \in 1..(n - 1) /\ 1 + 1 = 2 /\ n > 1 /\ n \in 1..n
         /\ n - 1 \in 1..(n - 1) /\ (n - 1) + 1 = n
OBVIOUS

(* Splitting off and putting back the first node. *)
LEMMA FirstAndRest ==
  ASSUME NEW s \in Paths, Len(s) # 1
  PROVE  /\ Tail(s) \in Paths
         /\ s = <<s[1]>> \o Tail(s)
         /\ Len(Tail(s)) = Len(s) - 1
         /\ \A i \in 1..(Len(s) - 1) : Tail(s)[i] = s[i + 1]
<1>1. s \in Seq(Nodes) /\ s # << >> /\ Len(s) \in Nat /\ Len(s) > 1 /\ s[1] \in Nodes
  <2>1. /\ s \in Seq(Nodes) /\ Len(s) \in Nat /\ Len(s) >= 1 /\ s[1] \in Nodes
    BY LenOfPath
  <2>2. s # << >>
    BY DEF Paths
  <2>3. Len(s) > 1
    BY <2>1, LongerThanOne
  <2> QED
    BY <2>1, <2>2, <2>3, Zenon
<1>2. /\ Tail(s) \in Seq(Nodes) /\ Len(Tail(s)) = Len(s) - 1
      /\ \A i \in 1..(Len(s) - 1) : Tail(s)[i] = s[i + 1]
  BY <1>1, HeadTailProperties
<1> DEFINE t == Tail(s)
<1> HIDE DEF t
<1>3. t \in Seq(Nodes) /\ Len(t) = Len(s) - 1 /\ \A i \in 1..(Len(s) - 1) : t[i] = s[i + 1]
  BY <1>2 DEF t
<1>4. t \in Paths
  BY <1>1, <1>3, EmptySeq DEF Paths
<1> DEFINE q == <<s[1]>> \o t
<1>5. /\ q \in Seq(Nodes) /\ Len(q) = Len(t) + 1 /\ q[1] = s[1]
      /\ \A i \in 1..Len(t) : q[i + 1] = t[i]
  BY <1>1, <1>4, PrependPath DEF Paths
<1> HIDE DEF q
<1>6. Len(q) = Len(s)
  BY <1>1, <1>3, <1>5
<1>7. ASSUME NEW i \in 1..Len(q) PROVE q[i] = s[i]
  <2>1. CASE i = 1
    BY <1>5, <2>1
  <2>2. CASE i # 1
    <3>1. i - 1 \in 1..Len(t) /\ (i - 1) + 1 = i /\ i - 1 \in 1..(Len(s) - 1)
      BY <1>1, <1>3, <1>6, <2>2
    <3> QED
      BY <1>3, <1>5, <3>1
  <2> QED
    BY <2>1, <2>2
<1>8. q = s
  BY <1>1, <1>5, <1>6, <1>7, SeqEqual
<1> QED
  BY <1>3, <1>4, <1>8 DEF q, t

LEMMA PrependConnected ==
  ASSUME InputOK, NEW t \in Paths, NEW n \in lexicon \cup {BOS},
         t[1] \in lexicon \cup {EOS}
  PROVE  LET s == <<n>> \o t IN
         /\ s \in Paths /\ s[1] = n /\ s[Len(s)] = t[Len(t)] /\ Len(s) = Len(t) + 1
         /\ Connected(s) <=> Ends(n) = Starts(t[1]) /\ Connected(t)
<1> DEFINE s == <<n>> \o t
<1>1. n \in Nodes /\ Len(t) \in Nat /\ Len(t) >= 1
  BY LenOfPath DEF InputOK, Nodes
<1>2. /\ s \in Paths /\ Len(s) = Len(t) + 1 /\ s[1] = n
      /\ \A i \in 1..Len(t) : s[i + 1] = t[i]
  BY <1>1, PrependPath
<1> HIDE DEF s
<1>3. s[Len(s)] = t[Len(t)] /\ s[2] = t[1]
  BY <1>1, <1>2
<1>4. Connected(s) => <<n, t[1]>> \in Pairs(lexicon) /\ Connected(t)
  <2> SUFFICES ASSUME Connected(s)
               PROVE  <<n, t[1]>> \in Pairs(lexicon) /\ Connected(t)
    OBVIOUS
  <2>1. <<n, t[1]>> \in Pairs(lexicon)
    <3>1. 1 \in 1..(Len(s) - 1) /\ 1 + 1 = 2
      BY <1>1, <1>2
    <3> QED
      BY <1>2, <1>3, <3>1 DEF Connected
  <2>2. ASSUME NEW i \in 1..(Len(t) - 1) PROVE <<t[i], t[i + 1]>> \in Pairs(lexicon)
    <3>1. i + 1 \in 1..(Len(s) - 1) /\ i \in 1..Len(t) /\ i + 1 \in 1..Len(t)
      BY <1>1, <1>2
    <3>2. s[i + 1] = t[i] /\ s[(i + 1) + 1] = t[i + 1]
      BY <1>2, <3>1
    <3>3. <<s[i + 1], s[(i + 1) + 1]>> \in Pairs(lexicon)
      BY <3>1 DEF Connected
    <3> QED
      BY <3>2, <3>3
  <2> QED
    BY <2>1, <2>2 DEF Connected
<1>5. <<n, t[1]>> \in Pairs(lexicon) /\ Connected(t) => Connected(s)
  <2> SUFFICES ASSUME <<n, t[1]>> \in Pairs(lexicon), Connected(t),
                      NEW i \in 1..(Len(s) - 1)
               PROVE  <<s[i], s[i + 1]>> \in Pairs(lexicon)
    BY DEF Connected
  <2>1. CASE i = 1
    BY <1>2, <1>3, <2>1
  <2>2. CASE i # 1
    <3>1. i - 1 \in 1..(Len(t) - 1) /\ i - 1 \in 1..Len(t) /\ i \in 1..Len(t)
          /\ (i - 1) + 1 = i
      BY <1>1, <1>2, <2>2
    <3>2. s[i] = t[i - 1] /\ s[i + 1] = t[i]
      BY <1>2, <3>1
    <3>3. <<t[i - 1], t[(i - 1) + 1]>> \in Pairs(lexicon)
      BY <3>1 DEF Connected
    <3> QED
      BY <3>1, <3>2, <3>3
  <2> QED
    BY <2>1, <2>2
<1> QED
  BY <1>2, <1>3, <1>4, <1>5, PairStarts DEF s

LEMMA CutsAreRoutes ==
  ASSUME InputOK
  PROVE  \A s : s \in Cuts <=> Route(s) /\ s[Len(s)] = EOS
<1> DEFINE P == 0..Size
           V == SUBSET Paths
           rank == [p \in P |-> Size - p]
           from(p) == {v \in lexicon : Begin[v] = p /\ End[v] <= TextEnd}
           put(w, rests) == {<<w>> \o rest : rest \in rests}
           value == [x \in P \X [P -> V] |->
                       IF x[1] = TextEnd THEN {<<EOS>>}
                       ELSE UNION {put(w, x[2][End[w]]) : w \in from(x[1])}]
<1>1. lexicon \subseteq Words /\ TextEnd \in 0..Size /\ lexicon \subseteq Nodes
  BY TextEndIsEndOfText, RightFacts DEF InputOK
<1>2. ASSUME NEW p \in P, NEW w \in from(p)
      PROVE  /\ w \in lexicon /\ w \in Nodes /\ Begin[w] = p /\ End[w] \in P
             /\ p < End[w] /\ End[w] <= TextEnd /\ p # TextEnd
             /\ Starts(w) = p /\ Ends(w) = End[w]
  BY <1>1, ConstantFacts DEF Starts, Ends
<1>3. <<EOS>> \in Paths /\ Len(<<EOS>>) = 1
  <2>1. EOS \in Nodes
    BY DEF Nodes
  <2> QED
    BY <2>1 DEF Paths
<1>4. ASSUME NEW w \in Nodes, NEW rests \in V PROVE put(w, rests) \in V
  <2> SUFFICES ASSUME NEW rest \in rests PROVE <<w>> \o rest \in Paths
    OBVIOUS
  <2> QED
    BY PrependPath
<1>5. \A p \in P : \A f \in [P -> V] :
        value[<<p, f>>] = IF p = TextEnd THEN {<<EOS>>}
                          ELSE UNION {put(w, f[End[w]]) : w \in from(p)}
  <2> HIDE DEF P, V, put, from
  <2> QED
    OBVIOUS
<1>6. value \in [P \X [P -> V] -> V]
  <2>1. ASSUME NEW x \in P \X [P -> V]
        PROVE  (IF x[1] = TextEnd THEN {<<EOS>>}
                ELSE UNION {put(w, x[2][End[w]]) : w \in from(x[1])}) \in V
    <3>1. x[1] \in P /\ x[2] \in [P -> V]
      <4> HIDE DEF P, V
      <4> QED
        OBVIOUS
    <3>2. ASSUME NEW w \in from(x[1]) PROVE put(w, x[2][End[w]]) \in V
      <4>1. w \in Nodes /\ End[w] \in P
        BY <1>2, <3>1
      <4>2. x[2][End[w]] \in V
        <5> HIDE DEF P, V
        <5> QED
          BY <3>1, <4>1
      <4> HIDE DEF put, V
      <4> QED
        BY <1>4, <4>1, <4>2
    <3> HIDE DEF put, from
    <3> QED
      BY <1>3, <3>2
  <2> HIDE DEF P, V, put, from
  <2> QED
    BY <2>1
<1>7. Recursion(P, V, Size, rank, value)
  <2>1. rank \in [P -> 0..Size] /\ \A p \in P : rank[p] = Size - p
    BY ConstantFacts
  <2>2. ASSUME NEW p \in P, NEW f \in [P -> V], NEW g \in [P -> V],
               \A q \in P : rank[q] < rank[p] => f[q] = g[q]
        PROVE  value[<<p, f>>] = value[<<p, g>>]
    <3>1. ASSUME NEW w \in from(p) PROVE f[End[w]] = g[End[w]]
      <4>1. End[w] \in P /\ p < End[w]
        BY <1>2
      <4>2. Size - End[w] < Size - p
        BY <4>1, ConstantFacts
      <4> HIDE DEF rank
      <4>3. rank[End[w]] < rank[p]
        BY <2>1, <4>1, <4>2
      <4> QED
        BY <2>2, <4>1, <4>3
    <3> HIDE DEF P, V, put, from, rank, value
    <3>2. {put(w, f[End[w]]) : w \in from(p)} = {put(w, g[End[w]]) : w \in from(p)}
      BY <3>1
    <3> QED
      BY <1>5, <3>2
  <2>3. V # {} /\ Size \in Nat
    BY ConstantFacts
  <2> HIDE DEF P, V, rank, value
  <2> QED
    BY <1>6, <2>1, <2>2, <2>3 DEF Recursion
<1>8. PICK h \in [P -> V] :
        \A p \in P : h[p] = IF p = TextEnd THEN {<<EOS>>}
                            ELSE UNION {put(w, h[End[w]]) : w \in from(p)}
  <2> HIDE DEF P, V, rank, value, put, from
  <2>1. \E h \in [P -> V] : \A p \in P : h[p] = value[<<p, h>>]
    BY <1>7, RecursiveFunctionExists
  <2> QED
    BY <1>5, <2>1
<1>9. h = [p \in P |-> IF p = TextEnd THEN {<<EOS>>}
                       ELSE UNION {put(w, h[End[w]]) : w \in from(p)}]
  <2> HIDE DEF P, V, put, from
  <2> QED
    BY <1>8
<1> DEFINE F == CHOOSE g : g = [p \in P |-> IF p = TextEnd THEN {<<EOS>>}
                                ELSE UNION {put(w, g[End[w]]) : w \in from(p)}]
<1>10. F = [p \in P |-> IF p = TextEnd THEN {<<EOS>>}
                        ELSE UNION {put(w, F[End[w]]) : w \in from(p)}]
  <2> HIDE DEF P, put, from
  <2> QED
    BY <1>9
<1>11. Cuts = {<<BOS>> \o s : s \in F[0]}
  BY DEF Cuts
<1>12. ASSUME NEW p \in P
       PROVE  F[p] = IF p = TextEnd THEN {<<EOS>>}
                     ELSE UNION {put(w, F[End[w]]) : w \in from(p)}
  <2> HIDE DEF P, put, from, F
  <2> QED
    BY <1>10
<1> HIDE DEF F
<1> DEFINE Exact(p) == \A s : s \in F[p] <=> Rest(s, p)
           T == {k \in Nat : \A p \in P : Size - p < k => Exact(p)}
<1>13. 0 \in T
  BY ConstantFacts
<1>14. ASSUME NEW k \in Nat, k \in T PROVE k + 1 \in T
  <2> SUFFICES ASSUME NEW p \in P, Size - p < k + 1 PROVE Exact(p)
    <3> HIDE DEF Exact, P
    <3> QED
      OBVIOUS
  <2>1. ASSUME NEW w \in from(p) PROVE Exact(End[w])
    <3>1. End[w] \in P /\ p < End[w]
      BY <1>2
    <3>2. Size - End[w] < k
      BY <3>1, ConstantFacts
    <3> HIDE DEF Exact, P
    <3> QED
      BY <1>14, <3>1, <3>2
  <2>2. ASSUME NEW s \in F[p] PROVE Rest(s, p)
    <3>1. CASE p = TextEnd
      <4>1. s = <<EOS>>
        BY <1>12, <2>2, <3>1
      <4>2. s[1] = EOS /\ s \in Paths /\ Len(s) = 1
        BY <1>3, <4>1
      <4>3. Connected(s) /\ s[Len(s)] = EOS
        BY <4>2 DEF Connected
      <4> QED
        BY <3>1, <4>2, <4>3 DEF Rest, Starts
    <3>2. CASE p # TextEnd
      <4>1. PICK w \in from(p) : s \in put(w, F[End[w]])
        <5> HIDE DEF P, put, from
        <5>1. F[p] = UNION {put(v, F[End[v]]) : v \in from(p)}
          BY <1>12, <3>2
        <5> QED
          BY <2>2, <5>1, Zenon
      <4>2. PICK rest \in F[End[w]] : s = <<w>> \o rest
        BY <4>1
      <4>3. Rest(rest, End[w])
        BY <2>1, <4>1, <4>2
      <4>4. w \in lexicon /\ Ends(w) = End[w] /\ Starts(w) = p
        BY <1>2, <4>1
      <4> QED
        BY <4>2, <4>3, <4>4, PrependConnected DEF Rest
    <3> QED
      BY <3>1, <3>2
  <2>3. ASSUME NEW s, Rest(s, p) PROVE s \in F[p]
    <3>1. /\ s \in Paths /\ Connected(s) /\ s[Len(s)] = EOS
          /\ s[1] \in lexicon \cup {EOS} /\ Starts(s[1]) = p
          /\ Len(s) \in Nat /\ Len(s) >= 1 /\ s \in Seq(Nodes)
      BY <2>3, LenOfPath DEF Rest
    <3>2. CASE Len(s) = 1
      <4>1. s = <<EOS>>
        <5>1. /\ <<EOS>> \in Seq(Nodes) /\ Len(<<EOS>>) = 1 /\ <<EOS>>[1] = EOS
          BY <1>3 DEF Paths
        <5>2. \A i \in 1..Len(s) : s[i] = <<EOS>>[i]
          BY <3>1, <3>2, <5>1
        <5> QED
          BY <3>1, <3>2, <5>1, <5>2, SeqEqual
      <4>2. p = TextEnd
        BY <3>1, <3>2 DEF Starts
      <4> QED
        BY <1>12, <4>1, <4>2
    <3>3. CASE Len(s) # 1
      <4> DEFINE t == Tail(s)
                 w == s[1]
      <4>1. /\ t \in Paths /\ s = <<w>> \o t /\ Len(t) = Len(s) - 1
            /\ \A i \in 1..(Len(s) - 1) : t[i] = s[i + 1]
        BY <3>1, <3>3, FirstAndRest
      <4>2. 1 \in 1..(Len(s) - 1) /\ 1 + 1 = 2
        BY <3>1, <3>3, LongerThanOne, Zenon
      <4>3. w \in lexicon /\ s[2] \in lexicon \cup {EOS} /\ t[1] = s[2]
        <5>1. s[1] # EOS /\ s[1 + 1] \in lexicon \cup {EOS}
          BY <3>1, <4>2, ConnectedNodes
        <5> QED
          BY <3>1, <4>1, <4>2, <5>1
      <4> HIDE DEF t, w
      <4>4. Ends(w) = Starts(t[1]) /\ Connected(t) /\ t[Len(t)] = EOS
        BY <3>1, <4>1, <4>3, PrependConnected
      <4>5. Ends(w) = End[w] /\ Starts(w) = Begin[w] /\ w \in Words
        BY <1>1, <4>3, ConstantFacts DEF Ends, Starts
      <4>6. End[w] <= TextEnd
        <5>1. CASE t[1] = EOS
          BY <1>1, <4>4, <4>5, <5>1, ConstantFacts DEF Starts
        <5>2. CASE t[1] # EOS
          <6>1. /\ t \in Paths /\ Connected(t) /\ Len(t) \in Nat /\ Len(t) >= 1
            BY <4>1, <4>4, LenOfPath
          <6>2. Len(t) # 1
            BY <4>4, <5>2
          <6>3. /\ 1 \in 1..(Len(t) - 1) /\ Len(t) \in 1..Len(t)
                /\ Len(t) - 1 \in 1..(Len(t) - 1) /\ (Len(t) - 1) + 1 = Len(t)
            BY <6>1, <6>2, LongerThanOne, Zenon
          <6>4. Ends(t[1]) <= TextEnd
            <7>1. /\ t[Len(t)] = EOS /\ Len(t) \in 1..Len(t)
                  /\ Len(t) - 1 \in 1..(Len(t) - 1) /\ (Len(t) - 1) + 1 = Len(t)
              BY <4>4, <6>1, <6>3
            <7>2. Ends(t[Len(t) - 1]) = EndOfText(lexicon)
              BY <6>1, <7>1, ConnectedNodes
            <7>3. CASE Len(t) - 1 = 1
              <8>1. Ends(t[1]) = TextEnd
                BY <7>2, <7>3, TextEndIsEndOfText, Zenon
              <8> QED
                BY <1>1, <8>1
            <7>4. CASE Len(t) - 1 # 1
              <8>1. 1 \in 1..((Len(t) - 1) - 1) /\ Len(t) - 1 \in 1..Len(t)
                BY <6>1, <7>1, <7>4
              <8>2. t[Len(t) - 1] # EOS /\ Ends(t[1]) < Ends(t[Len(t) - 1])
                BY <6>1, <7>1, <8>1, ConnectedNodes, RouteGoesForward
              <8>3. t[1] \in lexicon
                BY <4>1, <4>3, <5>2
              <8>4. Ends(t[1]) \in Nat
                BY <1>1, <8>3, ConstantFacts DEF Ends
              <8> QED
                BY <1>1, <7>2, <8>2, <8>4, TextEndIsEndOfText, ConstantFacts
            <7> QED
              BY <7>3, <7>4
          <6>5. t[1] \in Words /\ Ends(t[1]) = End[t[1]] /\ Starts(t[1]) = Begin[t[1]]
            BY <1>1, <4>3, <5>2, ConstantFacts DEF Ends, Starts
          <6>6. /\ End[w] = Begin[t[1]] /\ End[t[1]] <= TextEnd
                /\ End[w] \in Nat /\ End[t[1]] \in Nat
                /\ Begin[t[1]] < End[t[1]]
            BY <4>4, <4>5, <6>4, <6>5, ConstantFacts
          <6>7. Begin[t[1]] <= TextEnd
            BY <1>1, <6>6, <6>5, ConstantFacts
          <6> QED
            BY <6>6, <6>7
        <5> QED
          BY <5>1, <5>2
      <4>7. w \in from(p) /\ p # TextEnd
        <5>1. Begin[w] = p
          BY <3>1, <4>5 DEF w
        <5> QED
          BY <1>2, <4>3, <4>6, <5>1
      <4>8. Rest(t, End[w])
        BY <4>1, <4>3, <4>4, <4>5 DEF Rest
      <4>9. t \in F[End[w]]
        BY <2>1, <4>7, <4>8
      <4>10. s \in put(w, F[End[w]])
        BY <4>1, <4>9
      <4> HIDE DEF P, put, from
      <4>11. F[p] = UNION {put(v, F[End[v]]) : v \in from(p)}
        BY <1>12, <4>7
      <4> QED
        BY <4>7, <4>10, <4>11, Zenon
    <3> QED
      BY <3>2, <3>3
  <2> QED
    BY <2>2, <2>3
<1>15. Exact(0)
  <2>1. Size + 1 \in T
    <3> HIDE DEF T
    <3> QED
      BY <1>13, <1>14, NatSetInduction, ConstantFacts
  <2>2. 0 \in P /\ Size - 0 < Size + 1
    BY ConstantFacts
  <2> HIDE DEF Exact, P
  <2> QED
    BY <2>1, <2>2
<1>16. ASSUME NEW t \in F[0] PROVE Route(<<BOS>> \o t) /\ (<<BOS>> \o t)[Len(<<BOS>> \o t)] = EOS
  <2>1. Rest(t, 0)
    BY <1>15
  <2>2. /\ t \in Paths /\ Connected(t) /\ t[Len(t)] = EOS
        /\ t[1] \in lexicon \cup {EOS} /\ Starts(t[1]) = 0
    BY <2>1 DEF Rest
  <2>3. BOS \in lexicon \cup {BOS} /\ Ends(BOS) = 0
    BY DEF Ends
  <2> QED
    BY <2>2, <2>3, PrependConnected, Zenon DEF Route
<1>17. ASSUME NEW s, Route(s), s[Len(s)] = EOS
       PROVE  \E t \in F[0] : s = <<BOS>> \o t
  <2>1. s \in Paths /\ Connected(s) /\ s[1] = BOS /\ Len(s) \in Nat /\ Len(s) >= 1
    BY <1>17, LenOfPath DEF Route
  <2>2. Len(s) # 1
    BY <1>17, <2>1, ConstantFacts
  <2> DEFINE t == Tail(s)
  <2>3. /\ t \in Paths /\ s = <<BOS>> \o t /\ Len(t) = Len(s) - 1
        /\ \A i \in 1..(Len(s) - 1) : t[i] = s[i + 1]
    BY <2>1, <2>2, FirstAndRest
  <2>4. 1 \in 1..(Len(s) - 1) /\ 1 + 1 = 2
    BY <2>1, <2>2, LongerThanOne, Zenon
  <2>5. s[2] \in lexicon \cup {EOS} /\ t[1] = s[2]
    BY <2>1, <2>3, <2>4, ConnectedNodes
  <2> HIDE DEF t
  <2>6. Ends(BOS) = Starts(t[1]) /\ Connected(t) /\ t[Len(t)] = EOS
    <3>1. BOS \in lexicon \cup {BOS}
      OBVIOUS
    <3> DEFINE q == <<BOS>> \o t
    <3>2. /\ q[Len(q)] = t[Len(t)]
          /\ Connected(q) <=> Ends(BOS) = Starts(t[1]) /\ Connected(t)
      BY <2>3, <2>5, <3>1, PrependConnected, Zenon
    <3>3. q = s
      BY <2>3
    <3> HIDE DEF q
    <3> QED
      BY <1>17, <2>1, <3>2, <3>3
  <2>7. Rest(t, 0)
    BY <2>3, <2>5, <2>6 DEF Rest, Ends
  <2> QED
    BY <1>15, <2>3, <2>7
<1> QED
  <2> SUFFICES ASSUME NEW s PROVE s \in Cuts <=> Route(s) /\ s[Len(s)] = EOS
    OBVIOUS
  <2>1. s \in Cuts <=> \E t \in F[0] : s = <<BOS>> \o t
    BY <1>11
  <2>2. ASSUME s \in Cuts PROVE Route(s) /\ s[Len(s)] = EOS
    <3>1. PICK t \in F[0] : s = <<BOS>> \o t
      BY <2>1, <2>2
    <3> DEFINE q == <<BOS>> \o t
    <3>2. Route(q) /\ q[Len(q)] = EOS
      BY <1>16
    <3> QED
      BY <3>1, <3>2
  <2>3. ASSUME Route(s), s[Len(s)] = EOS PROVE s \in Cuts
    BY <1>17, <2>1, <2>3
  <2> QED
    BY <2>2, <2>3

-----------------------------------------------------------------------------
(***************************************************************************)
(* Writing a path without repetitions into next and prev.                  *)
(***************************************************************************)
LEMMA RelinkForwardFacts ==
  ASSUME NEW s \in Paths, Injective(s), NEW f \in [Nodes -> Nodes \cup {NoNode}]
  PROVE  /\ RelinkForward(s, f) \in [Nodes -> Nodes \cup {NoNode}]
         /\ \A i \in 1..(Len(s) - 1) : RelinkForward(s, f)[s[i]] = s[i + 1]
<1> DEFINE I == 1..(Len(s) - 1)
           at(n) == CHOOSE i \in I : s[i] = n
<1>1. /\ Len(s) \in Nat /\ \A i \in 1..Len(s) : s[i] \in Nodes
      /\ \A i \in I : i \in 1..Len(s) /\ i + 1 \in 1..Len(s) /\ i + 1 = 1 + i
  BY LenOfPath
<1>2. \A n \in Nodes : (\E i \in I : s[i] = n) => at(n) \in I /\ s[at(n)] = n
  <2> HIDE DEF I
  <2> QED
    OBVIOUS
<1>3. \A i \in I : at(s[i]) = i
  <2> SUFFICES ASSUME NEW i \in I PROVE at(s[i]) = i
    OBVIOUS
  <2>1. at(s[i]) \in I /\ s[at(s[i])] = s[i]
    BY <1>1, <1>2
  <2> HIDE DEF at
  <2> QED
    BY <1>1, <2>1 DEF Injective
<1>4. RelinkForward(s, f) =
        [n \in Nodes |-> IF \E i \in I : s[i] = n THEN s[1 + at(n)] ELSE f[n]]
  BY DEF RelinkForward
<1> HIDE DEF I, at
<1>5. ASSUME NEW n \in Nodes, \E i \in I : s[i] = n PROVE s[1 + at(n)] \in Nodes
  BY <1>1, <1>2, <1>5
<1>6. ASSUME NEW i \in I PROVE RelinkForward(s, f)[s[i]] = s[i + 1]
  <2>1. RelinkForward(s, f)[s[i]] = s[1 + at(s[i])]
    BY <1>1, <1>4
  <2> QED
    BY <1>1, <1>3, <2>1
<1>7. RelinkForward(s, f) \in [Nodes -> Nodes \cup {NoNode}]
  BY <1>4, <1>5
<1> QED
  BY <1>6, <1>7 DEF I

LEMMA RelinkBackwardFacts ==
  ASSUME NEW s \in Paths, Injective(s), NEW f \in [Nodes -> Nodes \cup {NoNode}]
  PROVE  /\ RelinkBackward(s, f) \in [Nodes -> Nodes \cup {NoNode}]
         /\ \A i \in 1..(Len(s) - 1) : RelinkBackward(s, f)[s[i + 1]] = s[i]
<1> DEFINE I == 2..Len(s)
           at(n) == CHOOSE i \in I : s[i] = n
<1>1. /\ Len(s) \in Nat /\ \A i \in 1..Len(s) : s[i] \in Nodes
      /\ \A i \in I : i \in 1..Len(s) /\ i - 1 \in 1..Len(s)
      /\ \A i \in 1..(Len(s) - 1) : i + 1 \in I /\ (i + 1) - 1 = i
  BY LenOfPath
<1>2. \A n \in Nodes : (\E i \in I : s[i] = n) => at(n) \in I /\ s[at(n)] = n
  <2> HIDE DEF I
  <2> QED
    OBVIOUS
<1>3. \A i \in I : at(s[i]) = i
  <2> SUFFICES ASSUME NEW i \in I PROVE at(s[i]) = i
    OBVIOUS
  <2>1. at(s[i]) \in I /\ s[at(s[i])] = s[i]
    BY <1>1, <1>2
  <2> HIDE DEF at
  <2> QED
    BY <1>1, <2>1 DEF Injective
<1>4. RelinkBackward(s, f) =
        [n \in Nodes |-> IF \E i \in I : s[i] = n THEN s[at(n) - 1] ELSE f[n]]
  BY DEF RelinkBackward
<1> HIDE DEF I, at
<1>5. ASSUME NEW n \in Nodes, \E i \in I : s[i] = n PROVE s[at(n) - 1] \in Nodes
  BY <1>1, <1>2, <1>5
<1>6. ASSUME NEW i \in I PROVE RelinkBackward(s, f)[s[i]] = s[i - 1]
  <2>1. RelinkBackward(s, f)[s[i]] = s[at(s[i]) - 1]
    BY <1>1, <1>4
  <2> QED
    BY <1>3, <2>1
<1>7. RelinkBackward(s, f) \in [Nodes -> Nodes \cup {NoNode}]
  BY <1>4, <1>5
<1> QED
  BY <1>1, <1>6, <1>7

LEMMA RouteRelinks ==
  ASSUME InputOK, NEW s, Route(s), s[Len(s)] = EOS,
         NEW f \in [Nodes -> Nodes \cup {NoNode}],
         next = RelinkForward(s, f)
  PROVE  Chain = s
<1>1. s \in Paths /\ Connected(s)
  BY DEF Route
<1>2. Injective(s)
  BY <1>1, RouteIsInjective
<1> QED
  BY <1>1, <1>2, RelinkForwardFacts, ChainFollowsNext DEF Route

-----------------------------------------------------------------------------
(***************************************************************************)
(* buildBestLattice() links a way to cut the whole text into words that is *)
(* no more expensive than any other, EOS holds its cost, and isbest marks  *)
(* its nodes.                                                              *)
(***************************************************************************)
LEMMA LinkedPathIsBest ==
  ASSUME ViterbiInv, phase = "all"
  PROVE  /\ Chain = BestPathTo[EOS] /\ Tight(BestPathTo[EOS])
         /\ BestPathTo[EOS][Len(BestPathTo[EOS])] = EOS
         /\ Right = lexicon \cup {EOS}
<1>1. InputOK /\ PhaseOK /\ LatticeInv /\ LinkInv /\ Linking
  BY DEF ViterbiInv, LatticeInv, Linking
<1>2. Right = lexicon \cup {EOS}
  BY <1>1, AllWordsKnown DEF Right, PhaseOK
<1> DEFINE s == BestPathTo[EOS]
<1>3. Tight(s) /\ s[Len(s)] = EOS
  BY <1>1, <1>2, BestPathShape
<1>4. next = RelinkForward(s, NoLinks)
  BY <1>1 DEF LinkInv
<1> HIDE DEF s
<1>5. NoLinks \in [Nodes -> Nodes \cup {NoNode}]
  BY DEF NoLinks
<1>6. Chain = s
  BY <1>1, <1>3, <1>4, <1>5, RouteRelinks DEF Tight
<1> QED
  BY <1>2, <1>3, <1>6 DEF s

LEMMA RouteCosts ==
  ASSUME ViterbiInv, phase \notin {"lookup", "failed"}, NEW s, Route(s), s[Len(s)] = EOS
  PROVE  nodeCost[EOS] <= Cost(s)
<1>1. InputOK /\ PhaseOK /\ LatticeInv
  BY DEF ViterbiInv, LatticeInv
<1>2. Right = lexicon \cup {EOS}
  BY <1>1, AllWordsKnown DEF Right, PhaseOK
<1>3. s \in Paths /\ Connected(s) /\ Len(s) \in Nat /\ Len(s) >= 1
  BY LenOfPath DEF Route
<1>4. Len(s) \in 1..Len(s)
  BY <1>3
<1>5. \A i \in 1..(Len(s) - 1) : s[i + 1] \in Right
  BY <1>1, <1>2, <1>3, ConnectedNodes
<1>6. nodeCost[s[Len(s)]] <= CostUpTo(s)[Len(s)]
  BY <1>1, <1>4, <1>5, NoRouteIsCheaper
<1> QED
  BY <1>6 DEF Cost

(***************************************************************************)
(* What buildBestLattice() links is a way to cut the text into words of    *)
(* the lexicon, and no other way is cheaper.                               *)
(***************************************************************************)
THEOREM BestPathIsCheapest == Spec => []BestIsCheapest
<1>1. ASSUME ViterbiInv PROVE BestIsCheapest
  <2> SUFFICES ASSUME phase = "all"
               PROVE  /\ Chain \in Cuts /\ LinkedBack(Chain)
                      /\ \A s \in Cuts : nodeCost[EOS] <= Cost(s)
                      /\ nodeCost[EOS] = Cost(Chain)
                      /\ isbest = ToSet(Chain)
    BY DEF BestIsCheapest
  <2>1. InputOK /\ LatticeInv /\ LinkInv
    BY <1>1 DEF ViterbiInv, LatticeInv
  <2> DEFINE s == BestPathTo[EOS]
  <2>2. Chain = s /\ Tight(s) /\ s[Len(s)] = EOS
    BY <1>1, LinkedPathIsBest
  <2>3. isbest = {BOS, EOS} \cup ToSet(s)
    BY <2>1 DEF LinkInv
  <2> HIDE DEF s
  <2>4. /\ Route(s) /\ s \in Paths /\ s[1] = BOS /\ Len(s) \in Nat /\ Len(s) >= 1
        /\ 1 \in 1..Len(s) /\ Len(s) \in 1..Len(s)
    BY <2>2, LenOfPath DEF Tight, Route
  <2>5. s \in Cuts
    BY <2>1, <2>2, <2>4, CutsAreRoutes
  <2>6. LinkedBack(s)
    BY <2>2 DEF Tight, LinkedBack
  <2>7. \A t \in Cuts : nodeCost[EOS] <= Cost(t)
    BY <1>1, <2>1, CutsAreRoutes, RouteCosts
  <2>8. nodeCost[EOS] = Cost(s)
    <3>1. \A i \in 1..(Len(s) - 1) : nodeCost[s[i + 1]] = CostVia(s[i], s[i + 1])
      BY <2>2 DEF Tight
    <3>2. CostUpTo(s)[Len(s)] = nodeCost[s[Len(s)]]
      BY <2>1, <2>4, <3>1, TightRouteCost
    <3> QED
      BY <2>2, <3>2 DEF Cost
  <2>9. isbest = ToSet(s)
    <3>1. BOS \in ToSet(s) /\ EOS \in ToSet(s)
      BY <2>2, <2>4 DEF ToSet
    <3> QED
      BY <2>3, <3>1
  <2> QED
    BY <2>2, <2>5, <2>6, <2>7, <2>8, <2>9
<1> QED
  BY <1>1, ViterbiInvariance, PTL

(***************************************************************************)
(* In the lattice that analyze() builds, next() returns paths from BOS to  *)
(* EOS along path objects in the order of their costs, and nothing on the  *)
(* agenda can become cheaper than a path that was returned: what the       *)
(* generator needs, best node costs, analyze() provides.                   *)
(***************************************************************************)
THEOREM EnumerationInOrder == Spec => [](FoundInOrder /\ AgendaBound /\ FoundAreLinked)
<1>1. ViterbiInv => FoundInOrder /\ AgendaBound /\ FoundAreLinked
  BY DEF ViterbiInv, GeneratorPhase, GeneratorInvariant
<1> QED
  BY <1>1, ViterbiInvariance, PTL

-----------------------------------------------------------------------------
(***************************************************************************)
(* A sentence is refused because of a node that no way reaches for less    *)
(* than the largest cost.                                                  *)
(***************************************************************************)
LEMMA KnownBefore ==
  ASSUME InputOK, PhaseOK, NEW s, Route(s),
         NEW n \in 1..Len(s), s[n] \in Right \cup {BOS}
  PROVE  \A i \in 1..(n - 1) : s[i + 1] \in Right
<1>1. s \in Paths /\ Connected(s) /\ Len(s) \in Nat
  BY LenOfPath DEF Route
<1> DEFINE T == {k \in Nat : k < n => s[n - k] \in Right \cup {BOS}}
<1>2. 0 \in T
  BY <1>1
<1>3. ASSUME NEW k \in Nat, k \in T PROVE k + 1 \in T
  <2> SUFFICES ASSUME k + 1 < n PROVE s[n - (k + 1)] \in Right \cup {BOS}
    BY <1>3
  <2> DEFINE i == n - (k + 1)
             p == <<s[i], s[i + 1]>>
  <2>1. i \in 1..(Len(s) - 1) /\ i + 1 = n - k /\ k < n
    BY <1>1
  <2>2. s[i + 1] \in Right \cup {BOS}
    BY <1>3, <2>1
  <2> HIDE DEF i
  <2>3. p \in Pairs(lexicon) /\ s[i + 1] # BOS
    BY <1>1, <2>1, ConnectedNodes
  <2>4. p[1] = s[i] /\ p[2] = s[i + 1]
    OBVIOUS
  <2> HIDE DEF p
  <2>5. p[1] \in Right \cup {BOS}
    BY <2>2, <2>3, <2>4, LeftIsKnown
  <2> QED
    BY <2>4, <2>5 DEF i
<1>4. Nat \subseteq T
  <2> HIDE DEF T
  <2> QED
    BY <1>2, <1>3, NatSetInduction
<1>5. ASSUME NEW i \in 1..(n - 1) PROVE s[i + 1] \in Right
  <2>1. n - (i + 1) \in Nat /\ n - (i + 1) < n /\ n - (n - (i + 1)) = i + 1
        /\ i \in 1..(Len(s) - 1)
    BY <1>1
  <2>2. n - (i + 1) \in T
    BY <1>4, <2>1
  <2>3. s[i + 1] \in Right \cup {BOS}
    BY <2>1, <2>2
  <2> QED
    BY <1>1, <2>1, <2>3, ConnectedNodes
<1> QED
  BY <1>5

LEMMA RefusedOutOfReach ==
  ASSUME LatticeInv, phase = "failed"
  PROVE  \E w \in lexicon \cup {EOS} : \A s : Route(s) =>
           \A i \in 1..Len(s) : s[i] = w => CostUpTo(s)[i] >= MaxCost
<1>1. InputOK /\ PhaseOK /\ NodeCosts
  BY DEF LatticeInv
<1>2. PICK w \in lexicon \cup {EOS} : \A l \in lexicon \cup {BOS} :
        <<l, w>> \in Pairs(lexicon) => l \in Right \cup {BOS} /\ CostVia(l, w) >= MaxCost
  BY DEF LatticeInv, Refusal
<1>3. ASSUME NEW s, Route(s), NEW i \in 1..Len(s), s[i] = w
      PROVE  CostUpTo(s)[i] >= MaxCost
  <2>1. s \in Paths /\ Connected(s) /\ s[1] = BOS /\ Len(s) \in Nat
    BY <1>3, LenOfPath DEF Route
  <2>2. i # 1
    BY <1>1, <1>3, <2>1, ConstantFacts DEF InputOK
  <2> DEFINE j == i - 1
  <2>3. j \in 1..(Len(s) - 1) /\ j + 1 = i /\ j \in 1..Len(s)
    BY <2>1, <2>2
  <2> HIDE DEF j
  <2>4. /\ <<s[j], w>> \in Pairs(lexicon) /\ s[j] \in lexicon \cup {BOS}
        /\ pathCost[<<s[j], w>>] \in Int
    BY <1>1, <1>3, <2>1, <2>3, ConnectedNodes
  <2>5. s[j] \in Right \cup {BOS} /\ CostVia(s[j], w) >= MaxCost
    BY <1>2, <2>4
  <2>6. nodeCost[s[j]] <= CostUpTo(s)[j]
    BY <1>1, <1>3, <2>3, <2>5, KnownBefore, NoRouteIsCheaper
  <2>7. CostUpTo(s)[i] = CostUpTo(s)[j] + pathCost[<<s[j], w>>] /\ CostUpTo(s)[j] \in Int
    BY <1>1, <1>3, <2>1, <2>3, CostUpToFacts
  <2>8. nodeCost[s[j]] \in Int
    BY <1>1, <2>1, <2>3, LenOfPath DEF NodeCosts
  <2>9. nodeCost[s[j]] + pathCost[<<s[j], w>>] >= MaxCost
    BY <2>5 DEF CostVia
  <2> QED
    BY <2>4, <2>6, <2>7, <2>8, <2>9, ConstantFacts
<1> QED
  BY <1>2, <1>3

(* Putting a node behind a way. *)
LEMMA AppendRoute ==
  ASSUME InputOK, NEW t, Route(t), NEW n, <<t[Len(t)], n>> \in Pairs(lexicon)
  PROVE  LET q == Append(t, n) IN
         /\ Route(q) /\ Len(q) = Len(t) + 1 /\ q[Len(q)] = n
         /\ \A i \in 1..Len(t) : q[i] = t[i]
<1> DEFINE q == Append(t, n)
           p == <<t[Len(t)], n>>
<1>1. n \in Nodes
  <2>1. p[2] \in lexicon \cup {EOS} /\ p[2] = n
    BY PairFacts
  <2> QED
    BY <2>1, RightFacts DEF Nodes
<1>2. /\ t \in Paths /\ Connected(t) /\ t[1] = BOS
      /\ t \in Seq(Nodes) /\ Len(t) \in Nat /\ Len(t) >= 1
  BY LenOfPath DEF Route
<1>3. /\ q \in Seq(Nodes) /\ Len(q) = Len(t) + 1 /\ q[Len(t) + 1] = n
      /\ \A i \in 1..Len(t) : q[i] = t[i]
  BY <1>1, <1>2, AppendProperties
<1> HIDE DEF q
<1>4. q \in Paths
  BY <1>2, <1>3, EmptySeq DEF Paths
<1>5. ASSUME NEW i \in 1..(Len(q) - 1) PROVE <<q[i], q[i + 1]>> \in Pairs(lexicon)
  <2>1. CASE i = Len(t)
    BY <1>2, <1>3, <2>1
  <2>2. CASE i # Len(t)
    <3>1. i \in 1..(Len(t) - 1) /\ i \in 1..Len(t) /\ i + 1 \in 1..Len(t)
      BY <1>2, <1>3, <2>2
    <3>2. <<t[i], t[i + 1]>> \in Pairs(lexicon)
      BY <1>2, <3>1 DEF Connected
    <3> QED
      BY <1>3, <3>1, <3>2
  <2> QED
    BY <2>1, <2>2
<1>6. Route(q)
  <2>1. q[1] = BOS
    BY <1>2, <1>3
  <2> QED
    BY <1>4, <1>5, <2>1 DEF Route, Connected
<1> QED
  BY <1>2, <1>3, <1>6 DEF q

(* Without white space at the end, every way leads on to EOS. *)
LEMMA RouteLeadsOn ==
  ASSUME InputOK, ~HasOvershoot, NEW t, Route(t)
  PROVE  \E q : /\ Route(q) /\ q[Len(q)] = EOS /\ Len(q) >= Len(t)
                /\ \A i \in 1..Len(t) : q[i] = t[i]
<1> DEFINE Leads(s) == \E q : /\ Route(q) /\ q[Len(q)] = EOS /\ Len(q) >= Len(s)
                              /\ \A i \in 1..Len(s) : q[i] = s[i]
           last(s) == s[Len(s)]
           T == {k \in Nat : \A s : (/\ Route(s) /\ last(s) # EOS
                                     /\ Size - Ends(last(s)) < k) => Leads(s)}
<1>1. lexicon \subseteq Words /\ Size \in Nat /\ TextEnd = Size
  BY ConstantFacts, TextIsSentence DEF InputOK
<1>2. ASSUME NEW s, Route(s), last(s) # EOS
      PROVE  /\ last(s) \in lexicon \cup {BOS}
             /\ Ends(last(s)) \in 0..Size
             /\ Len(s) \in Nat
  <2>1. s \in Paths /\ Connected(s) /\ s[1] = BOS /\ Len(s) \in Nat /\ Len(s) >= 1
    BY <1>2, LenOfPath DEF Route
  <2>2. last(s) \in lexicon \cup {BOS}
    <3>1. CASE Len(s) = 1
      BY <2>1, <3>1
    <3>2. CASE Len(s) # 1
      <4> DEFINE j == Len(s) - 1
      <4>1. j \in 1..(Len(s) - 1) /\ j + 1 = Len(s)
        BY <2>1, <3>2, LongerThanOne, Zenon
      <4> HIDE DEF j
      <4>2. s[j + 1] \in lexicon \cup {EOS}
        BY <2>1, <4>1, ConnectedNodes
      <4> QED
        BY <1>2, <4>1, <4>2
    <3> QED
      BY <3>1, <3>2
  <2> HIDE DEF last
  <2>3. Ends(last(s)) \in 0..Size
    <3>1. CASE last(s) = BOS
      BY <1>1, <3>1 DEF Ends
    <3>2. CASE last(s) # BOS
      <4>1. last(s) \in lexicon /\ last(s) \in Words /\ Ends(last(s)) = End[last(s)]
        BY <1>1, <2>2, <3>2 DEF Ends
      <4>2. End[last(s)] \in Nat /\ ~(End[last(s)] > Size)
        BY <4>1, ConstantFacts DEF HasOvershoot
      <4> QED
        BY <1>1, <4>1, <4>2
    <3> QED
      BY <3>1, <3>2
  <2> QED
    BY <2>1, <2>2, <2>3
<1>3. 0 \in T
  <2> SUFFICES ASSUME NEW s, Route(s), last(s) # EOS, Size - Ends(last(s)) < 0
               PROVE  FALSE
    OBVIOUS
  <2>1. Ends(last(s)) \in 0..Size
    BY <1>2
  <2> HIDE DEF last
  <2> QED
    BY <1>1, <2>1
<1>4. ASSUME NEW k \in Nat, k \in T PROVE k + 1 \in T
  <2> SUFFICES ASSUME NEW s, Route(s), last(s) # EOS, Size - Ends(last(s)) < k + 1
               PROVE  Leads(s)
    <3> HIDE DEF Leads, last
    <3> QED
      OBVIOUS
  <2> DEFINE l == last(s)
  <2>1. l \in lexicon \cup {BOS} /\ Ends(l) \in 0..Size /\ Len(s) \in Nat
    BY <1>2
  <2>2. CASE Ends(l) = Size
    <3> DEFINE q == Append(s, EOS)
    <3>1. <<s[Len(s)], EOS>> \in Pairs(lexicon)
      <4>1. Ends(l) = Starts(EOS)
        BY <1>1, <2>2 DEF Starts
      <4>2. <<l, EOS>> \in Pairs(lexicon)
        <5> HIDE DEF l
        <5> QED
          BY <2>1, <4>1, PairStarts
      <4> QED
        BY <4>2
    <3>2. /\ Route(q) /\ Len(q) = Len(s) + 1 /\ q[Len(q)] = EOS
          /\ \A i \in 1..Len(s) : q[i] = s[i]
      BY <3>1, AppendRoute
    <3> HIDE DEF q
    <3>3. Len(q) >= Len(s)
      BY <2>1, <3>2
    <3> QED
      BY <3>2, <3>3
  <2>3. CASE Ends(l) # Size
    <3>1. Ends(l) \in 0..(Size - 1)
      <4> HIDE DEF l
      <4> QED
        BY <1>1, <2>1, <2>3
    <3>2. Ends(l) = 0 \/ \E v \in lexicon : End[v] = Ends(l)
      <4> HIDE DEF l
      <4> QED
        BY <2>1 DEF Ends
    <3>3. PICK w \in lexicon : Begin[w] = Ends(l)
      <4> HIDE DEF l
      <4> QED
        BY <3>1, <3>2, LexiconFacts
    <3>4. w \in Words /\ w # EOS /\ w # BOS
      BY <1>1, ConstantFacts
    <3>5. <<s[Len(s)], w>> \in Pairs(lexicon)
      <4>1. Ends(l) = Starts(w)
        BY <3>3, <3>4 DEF Starts
      <4>2. <<l, w>> \in Pairs(lexicon)
        <5> HIDE DEF l
        <5> QED
          BY <2>1, <4>1, PairStarts
      <4> QED
        BY <4>2
    <3> DEFINE q == Append(s, w)
    <3>6. /\ Route(q) /\ Len(q) = Len(s) + 1 /\ q[Len(q)] = w
          /\ \A i \in 1..Len(s) : q[i] = s[i]
      BY <3>5, AppendRoute
    <3> HIDE DEF q
    <3>7. last(q) = w /\ last(q) # EOS
      BY <3>4, <3>6
    <3>8. Size - Ends(last(q)) < k
      <4>1. Ends(w) = End[w] /\ End[w] \in Nat /\ Begin[w] \in Nat /\ Begin[w] < End[w]
        BY <3>4, ConstantFacts DEF Ends
      <4>2. Size - Begin[w] < k + 1
        BY <3>3
      <4> HIDE DEF last
      <4> QED
        BY <1>1, <3>7, <4>1, <4>2
    <3>9. Leads(q)
      <4> HIDE DEF Leads, last
      <4> QED
        BY <1>4, <3>6, <3>7, <3>8
    <3>10. PICK r : /\ Route(r) /\ r[Len(r)] = EOS /\ Len(r) >= Len(q)
                    /\ \A i \in 1..Len(q) : r[i] = q[i]
      BY <3>9
    <3>11. Len(r) \in Nat
      BY <3>10, LenOfPath DEF Route
    <3>12. Len(r) >= Len(s) /\ \A i \in 1..Len(s) : r[i] = s[i]
      BY <2>1, <3>6, <3>10, <3>11
    <3> QED
      BY <3>10, <3>12
  <2> QED
    BY <2>2, <2>3
<1>5. CASE last(t) = EOS
  <2>1. Len(t) \in Nat
    BY LenOfPath DEF Route
  <2> QED
    BY <1>5, <2>1
<1>6. CASE last(t) # EOS
  <2>1. Size + 1 \in T
    <3> HIDE DEF T
    <3> QED
      BY <1>1, <1>3, <1>4, NatSetInduction
  <2>2. Size - Ends(last(t)) < Size + 1
    <3>1. Ends(last(t)) \in 0..Size
      BY <1>2, <1>6
    <3> HIDE DEF last
    <3> QED
      BY <1>1, <3>1
  <2> HIDE DEF Leads, last
  <2>3. Leads(t)
    BY <1>6, <2>1, <2>2
  <2> QED
    BY <2>3 DEF Leads
<1> QED
  BY <1>5, <1>6

(***************************************************************************)
(* connect() refuses a sentence without white space at its end if and only *)
(* if some node cannot be reached for less than the largest cost.          *)
(***************************************************************************)
THEOREM RefusalIsExact == Spec => []RefusedOnOverflow
<1>1. ASSUME ViterbiInv PROVE RefusedOnOverflow
  <2> DEFINE outOfReach(w) == \A s \in Cuts : \A i \in 1..Len(s) :
                                s[i] = w => CostUpTo(s)[i] >= MaxCost
  <2> SUFFICES ASSUME ~HasOvershoot, phase \in {"failed", "best"}
               PROVE  phase = "failed" <=> \E w \in lexicon \cup {EOS} : outOfReach(w)
    BY DEF RefusedOnOverflow
  <2>1. InputOK /\ PhaseOK /\ LatticeInv /\ LinkInv /\ NodeCosts
    BY <1>1 DEF ViterbiInv, LatticeInv
  <2>2. CASE phase = "failed"
    <3>1. \E w \in lexicon \cup {EOS} : outOfReach(w)
      BY <2>1, <2>2, RefusedOutOfReach, CutsAreRoutes
    <3> QED
      BY <2>2, <3>1
  <2>3. CASE phase = "best"
    <3>1. Right = lexicon \cup {EOS} /\ Linking
      BY <2>1, <2>3, AllWordsKnown DEF Right, PhaseOK, Linking
    <3> SUFFICES ASSUME NEW w \in lexicon \cup {EOS}, outOfReach(w) PROVE FALSE
      BY <2>3
    <3> DEFINE t == BestPathTo[w]
    <3>2. Tight(t) /\ t[Len(t)] = w
      BY <2>1, <3>1, BestPathShape
    <3> HIDE DEF t
    <3>3. PICK q : /\ Route(q) /\ q[Len(q)] = EOS /\ Len(q) >= Len(t)
                   /\ \A i \in 1..Len(t) : q[i] = t[i]
      BY <2>1, <3>2, RouteLeadsOn DEF Tight
    <3> DEFINE n == Len(t)
    <3>4. n \in Nat /\ n \in 1..n /\ Len(q) \in Nat /\ n \in 1..Len(q)
      BY <3>2, <3>3, LenOfPath DEF Tight, Route
    <3>5. ASSUME NEW i \in 1..(n - 1)
          PROVE  nodeCost[q[i + 1]] = CostVia(q[i], q[i + 1])
      <4>1. i \in 1..Len(t) /\ i + 1 \in 1..Len(t) /\ i \in 1..(Len(t) - 1)
        BY <3>4
      <4>2. q[i] = t[i] /\ q[i + 1] = t[i + 1]
        BY <3>3, <4>1
      <4> QED
        BY <3>2, <4>1, <4>2 DEF Tight
    <3>6. q[n] = w
      BY <3>2, <3>3, <3>4
    <3> HIDE DEF n
    <3>7. CostUpTo(q)[n] = nodeCost[w]
      BY <2>1, <3>3, <3>4, <3>5, <3>6, TightRouteCost
    <3>8. nodeCost[w] < MaxCost /\ nodeCost[w] \in Int
      BY <2>1, <3>1, RightFacts DEF NodeCosts
    <3>9. q \in Cuts
      BY <2>1, <3>3, CutsAreRoutes
    <3>10. CostUpTo(q)[n] >= MaxCost
      BY <3>4, <3>6, <3>9
    <3> QED
      BY <3>7, <3>8, <3>10, ConstantFacts
  <2> QED
    BY <2>2, <2>3
<1> QED
  BY <1>1, ViterbiInvariance, PTL

-----------------------------------------------------------------------------
(***************************************************************************)
(* N-best enumeration.  The paths on the agenda are ends of ways to EOS.   *)
(***************************************************************************)
IsTail(t, s) ==
  /\ Len(t) <= Len(s)
  /\ \A i \in 1..Len(t) : s[i + (Len(s) - Len(t))] = t[i]

LEMMA SamePath ==
  ASSUME NEW t \in Paths, NEW s \in Paths, Len(t) = Len(s), IsTail(t, s)
  PROVE  t = s
<1>1. Len(t) \in Nat /\ Len(s) \in Nat /\ t \in Seq(Nodes) /\ s \in Seq(Nodes)
  BY LenOfPath
<1>2. \A i \in 1..Len(t) : i + (Len(s) - Len(t)) = i
  BY <1>1
<1>3. \A i \in 1..Len(t) : t[i] = s[i]
  BY <1>2 DEF IsTail
<1> QED
  BY <1>1, <1>3, SeqEqual

LEMMA TailOfSelf ==
  ASSUME NEW s \in Paths PROVE IsTail(s, s)
<1>1. Len(s) \in Nat /\ \A i \in 1..Len(s) : i + (Len(s) - Len(s)) = i
  BY LenOfPath
<1> QED
  BY <1>1 DEF IsTail

LEMMA TailOfPrepend ==
  ASSUME NEW t \in Paths, NEW n \in Nodes, NEW u \in Paths, IsTail(u, <<n>> \o t)
  PROVE  u = <<n>> \o t \/ IsTail(u, t)
<1> DEFINE q == <<n>> \o t
<1>1. /\ q \in Paths /\ Len(q) = Len(t) + 1
      /\ \A i \in 1..Len(t) : q[i + 1] = t[i]
  BY PrependPath
<1>2. Len(t) \in Nat /\ Len(u) \in Nat
  BY LenOfPath
<1>3. IsTail(u, q)
  OBVIOUS
<1> HIDE DEF q
<1>4. CASE Len(u) = Len(q)
  BY <1>1, <1>3, <1>4, SamePath DEF q
<1>5. CASE Len(u) # Len(q)
  <2>1. Len(u) <= Len(t)
    BY <1>1, <1>2, <1>3, <1>5 DEF IsTail
  <2>2. ASSUME NEW i \in 1..Len(u) PROVE t[i + (Len(t) - Len(u))] = u[i]
    <3> DEFINE j == i + (Len(t) - Len(u))
    <3>1. j \in 1..Len(t) /\ j + 1 = i + (Len(q) - Len(u))
      BY <1>1, <1>2, <2>1
    <3> HIDE DEF j
    <3>2. q[j + 1] = u[i]
      BY <1>3, <3>1 DEF IsTail
    <3>3. t[j] = u[i]
      BY <1>1, <3>1, <3>2
    <3> QED
      BY <3>3 DEF j
  <2> QED
    BY <2>1, <2>2 DEF IsTail
<1> QED
  BY <1>4, <1>5

LEMMA TailOfTail ==
  ASSUME NEW t \in Paths, NEW n \in Nodes, NEW s \in Paths, IsTail(<<n>> \o t, s)
  PROVE  IsTail(t, s)
<1> DEFINE q == <<n>> \o t
<1>1. /\ q \in Paths /\ Len(q) = Len(t) + 1
      /\ \A i \in 1..Len(t) : q[i + 1] = t[i]
  BY PrependPath
<1>2. Len(t) \in Nat /\ Len(s) \in Nat
  BY LenOfPath
<1>3. IsTail(q, s)
  OBVIOUS
<1> HIDE DEF q
<1>4. Len(t) <= Len(s)
  BY <1>1, <1>2, <1>3 DEF IsTail
<1>5. ASSUME NEW i \in 1..Len(t) PROVE s[i + (Len(s) - Len(t))] = t[i]
  <2>1. i + 1 \in 1..Len(q) /\ (i + 1) + (Len(s) - Len(q)) = i + (Len(s) - Len(t))
    BY <1>1, <1>2
  <2> QED
    BY <1>1, <1>3, <2>1 DEF IsTail
<1> QED
  BY <1>4, <1>5 DEF IsTail

(* A proper end of s can be extended by the node before it. *)
LEMMA LongerTail ==
  ASSUME NEW t \in Paths, NEW s \in Paths, IsTail(t, s), t # s
  PROVE  LET k == Len(s) - Len(t) IN
         /\ k \in 1..(Len(s) - 1) /\ s[k + 1] = t[1]
         /\ IsTail(<<s[k]>> \o t, s)
<1> DEFINE k == Len(s) - Len(t)
           q == <<s[k]>> \o t
<1>1. /\ Len(t) \in Nat /\ Len(s) \in Nat /\ Len(t) >= 1
      /\ \A i \in 1..Len(s) : s[i] \in Nodes
  BY LenOfPath
<1>2. Len(t) # Len(s)
  BY SamePath
<1>3. k \in 1..(Len(s) - 1) /\ k \in 1..Len(s) /\ 1 \in 1..Len(t) /\ 1 + k = k + 1
  BY <1>1, <1>2 DEF IsTail
<1>4. s[k + 1] = t[1]
  BY <1>3 DEF IsTail
<1>5. \A i \in 1..Len(t) : s[i + k] = t[i]
  BY DEF IsTail
<1>6. k = Len(s) - Len(t)
  OBVIOUS
<1> HIDE DEF k
<1>7. /\ q \in Paths /\ Len(q) = Len(t) + 1 /\ q[1] = s[k]
      /\ \A i \in 1..Len(t) : q[i + 1] = t[i]
  BY <1>1, <1>3, PrependPath
<1> HIDE DEF q
<1>8. IsTail(q, s)
  <2>1. Len(q) <= Len(s)
    BY <1>1, <1>3, <1>6, <1>7
  <2>2. ASSUME NEW i \in 1..Len(q) PROVE s[i + (Len(s) - Len(q))] = q[i]
    <3>1. i + (Len(s) - Len(q)) = (i - 1) + k
      BY <1>1, <1>6, <1>7
    <3>2. CASE i = 1
      BY <1>3, <1>7, <3>1, <3>2, SMTT(30)
    <3>3. CASE i # 1
      <4>1. i - 1 \in 1..Len(t) /\ (i - 1) + 1 = i
        BY <1>1, <1>7, <3>3
      <4> QED
        BY <1>5, <1>7, <3>1, <4>1
    <3> QED
      BY <3>2, <3>3
  <2> QED
    BY <2>1, <2>2 DEF IsTail
<1> QED
  BY <1>3, <1>4, <1>8 DEF k, q

LEMMA PrependCost ==
  ASSUME InputOK, NEW t \in Paths, NEW n \in Nodes, Connected(t), Connected(<<n>> \o t)
  PROVE  Cost(<<n>> \o t) = pathCost[<<n, t[1]>>] + Cost(t)
<1> DEFINE q == <<n>> \o t
           c == pathCost[<<n, t[1]>>]
<1>1. /\ q \in Paths /\ Len(q) = Len(t) + 1 /\ q[1] = n
      /\ \A i \in 1..Len(t) : q[i + 1] = t[i]
  BY PrependPath
<1>2. Connected(q)
  OBVIOUS
<1> HIDE DEF q
<1>3. Len(t) \in Nat /\ Len(t) >= 1 /\ 1 \in 1..(Len(q) - 1) /\ 1 \in 1..Len(t)
  BY <1>1, LenOfPath
<1>4. q[2] = t[1]
  BY <1>1, <1>3
<1> DEFINE T == {i \in Nat : CostUpTo(q)[i + 1] = c + CostUpTo(t)[i]}
<1>5. c \in Int
  BY <1>1, <1>2, <1>3, <1>4, ConnectedNodes
<1> HIDE DEF c
<1>6. 1 \in T
  <2>1. CostUpTo(q)[1 + 1] = CostUpTo(q)[1] + c
    BY <1>1, <1>2, <1>3, <1>4, CostUpToFacts DEF c
  <2>2. CostUpTo(q)[1] = 0 /\ CostUpTo(t)[1] = 0
    BY <1>1, <1>2, CostUpToFacts
  <2> QED
    BY <1>5, <2>1, <2>2
<1>7. ASSUME NEW i \in 1..(Len(t) - 1), i \in T PROVE i + 1 \in T
  <2>1. i \in 1..Len(t) /\ i + 1 \in 1..Len(t) /\ i + 1 \in 1..(Len(q) - 1)
    BY <1>1, <1>3
  <2>2. q[i + 1] = t[i] /\ q[(i + 1) + 1] = t[i + 1]
    BY <1>1, <2>1
  <2>3. CostUpTo(q)[(i + 1) + 1] = CostUpTo(q)[i + 1] + pathCost[<<t[i], t[i + 1]>>]
    BY <1>1, <1>2, <2>1, <2>2, CostUpToFacts
  <2>4. CostUpTo(t)[i + 1] = CostUpTo(t)[i] + pathCost[<<t[i], t[i + 1]>>]
    BY CostUpToFacts
  <2>5. CostUpTo(t)[i] \in Int /\ pathCost[<<t[i], t[i + 1]>>] \in Int
    BY <2>1, CostUpToFacts, ConnectedNodes
  <2>6. CostUpTo(q)[i + 1] = c + CostUpTo(t)[i]
    BY <1>7
  <2>7. CostUpTo(q)[(i + 1) + 1] = c + CostUpTo(t)[i + 1]
    BY <1>5, <2>3, <2>4, <2>5, <2>6
  <2> QED
    BY <2>7
<1>8. Len(t) \in T
  <2> HIDE DEF T
  <2>1. 1..Len(t) \subseteq T
    BY <1>3, <1>6, <1>7, IntervalInduction
  <2>2. Len(t) \in 1..Len(t)
    BY <1>3
  <2> QED
    BY <2>1, <2>2
<1>9. CostUpTo(q)[Len(q)] = c + CostUpTo(t)[Len(t)]
  BY <1>1, <1>8
<1> QED
  BY <1>9 DEF Cost, q, c

LEMMA EosCost ==
  ASSUME InputOK
  PROVE  /\ <<EOS>> \in Paths /\ Len(<<EOS>>) = 1 /\ Connected(<<EOS>>)
         /\ Cost(<<EOS>>) = 0
<1>1. <<EOS>> \in Paths /\ Len(<<EOS>>) = 1
  BY DEF Nodes, Paths
<1>2. Connected(<<EOS>>)
  BY <1>1 DEF Connected
<1> DEFINE s == <<EOS>>
<1> HIDE DEF s
<1>3. s \in Paths /\ Len(s) = 1 /\ Connected(s)
  BY <1>1, <1>2 DEF s
<1>4. Cost(s) = 0
  BY <1>3, CostUpToFacts
<1> QED
  BY <1>1, <1>2, <1>4 DEF s

(***************************************************************************)
(* The invariant of the enumeration: costs are exact, no path is the end   *)
(* of another one on the agenda or returned, every way to EOS is returned  *)
(* or ends in a path of the agenda, and the best one is returned first.    *)
(***************************************************************************)
Enumerating == phase \in {"done", "result"} /\ "NBEST" \in requestType

Costed ==
  /\ \A e \in agenda : e.gx = Cost(e.path)
  /\ \A i \in 1..Len(found) : found[i].gx = Cost(found[i].path)

Apart ==
  /\ \A e, f \in agenda : IsTail(e.path, f.path) => e = f
  /\ \A e \in agenda : \A i \in 1..Len(found) : ~IsTail(e.path, found[i].path)
  /\ \A i, j \in 1..Len(found) : found[i].path = found[j].path => i = j

Ahead(s) == \E e \in agenda : IsTail(e.path, s)
Returned(s) == \E i \in 1..Len(found) : found[i].path = s
Covering == \A s : Route(s) /\ s[Len(s)] = EOS => Ahead(s) \/ Returned(s)

FirstIsBest ==
  IF found = << >>
  THEN agenda = {InitialElement} \/ \E e \in agenda : e.fx = nodeCost[EOS]
  ELSE found[1].gx = nodeCost[EOS]

SearchInv == Costed /\ Apart /\ Covering /\ FirstIsBest
EnumInv == Enumerating => SearchInv

LEMMA SearchFacts ==
  ASSUME ViterbiInv, Enumerating
  PROVE  /\ InputOK /\ paths = Pairs(lexicon) /\ Right = lexicon \cup {EOS}
         /\ NodeCosts /\ found \in Seq(Elements) /\ Len(found) \in Nat
         /\ \A e \in agenda :
              /\ e \in Elements /\ e.path \in Paths /\ Connected(e.path)
              /\ e.path[Len(e.path)] = EOS /\ Head(e.path) = e.path[1]
              /\ e.path[1] \in lexicon \cup {BOS, EOS}
         /\ \A i \in 1..Len(found) :
              /\ found[i] \in Elements /\ Route(found[i].path)
              /\ found[i].path[Len(found[i].path)] = EOS
<1>1. InputOK /\ PhaseOK /\ PathObjects /\ NodeCosts
  BY DEF ViterbiInv, LatticeInv
<1>2. Right = lexicon \cup {EOS}
  BY <1>1, AllWordsKnown DEF Right, PhaseOK, Enumerating
<1>3. paths = Pairs(lexicon)
  <2>1. \A p \in Pairs(lexicon) : p[2] \in lexicon \cup {EOS}
    BY PairFacts
  <2>2. AllPath
    BY DEF AllPath, Enumerating
  <2> QED
    BY <1>1, <1>2, <2>1, <2>2 DEF PathObjects
<1>4. \A s : Linked(s) => Connected(s) /\ s[Len(s)] = EOS
  BY <1>3 DEF Linked, Connected
<1>5. /\ agenda \subseteq Elements /\ \A e \in agenda : Linked(e.path)
      /\ found \in Seq(Elements) /\ FoundAreLinked
  BY DEF ViterbiInv, GeneratorPhase, GeneratorInvariant, GeneratorTypes
<1>6. Len(found) \in Nat
  BY <1>5, LenProperties
<1>7. ASSUME NEW s \in Paths, Connected(s), s[Len(s)] = EOS
      PROVE  s[1] \in lexicon \cup {BOS, EOS}
  <2>1. Len(s) \in Nat /\ Len(s) >= 1
    BY LenOfPath
  <2>2. CASE Len(s) = 1
    BY <1>7, <2>2
  <2>3. CASE Len(s) # 1
    <3>1. 1 \in 1..(Len(s) - 1)
      BY <2>1, <2>3, LongerThanOne, Zenon
    <3> QED
      BY <1>1, <1>7, <3>1, ConnectedNodes
  <2> QED
    BY <2>2, <2>3
<1>8. ASSUME NEW e \in agenda
      PROVE  /\ e \in Elements /\ e.path \in Paths /\ Connected(e.path)
             /\ e.path[Len(e.path)] = EOS /\ Head(e.path) = e.path[1]
             /\ e.path[1] \in lexicon \cup {BOS, EOS}
  <2>1. e \in Elements /\ e.path \in Paths
    BY <1>5 DEF Elements
  <2>2. Connected(e.path) /\ e.path[Len(e.path)] = EOS
    BY <1>4, <1>5
  <2> QED
    BY <1>7, <2>1, <2>2, PathFacts
<1>9. ASSUME NEW i \in 1..Len(found)
      PROVE  /\ found[i] \in Elements /\ Route(found[i].path)
             /\ found[i].path[Len(found[i].path)] = EOS
  <2>1. found[i] \in Elements
    BY <1>5, <1>6, ElementOfSeq
  <2>2. found[i].path \in Paths
    BY <2>1 DEF Elements
  <2>3. Head(found[i].path) = BOS /\ Linked(found[i].path)
    BY <1>5 DEF FoundAreLinked
  <2> QED
    BY <1>4, <2>1, <2>2, <2>3, PathFacts DEF Route
<1> QED
  BY <1>1, <1>2, <1>3, <1>5, <1>6, <1>8, <1>9

(* The left elements of an element: one for each pair that leads to it. *)
LEMMA LeftElements ==
  ASSUME ViterbiInv, Enumerating, Costed, NEW e \in agenda
  PROVE  /\ \A c \in Predecessors(e) : \E n \in Nodes :
              /\ c.path = <<n>> \o e.path /\ <<n, e.path[1]>> \in Pairs(lexicon)
              /\ c.path \in Paths
              /\ c = Element(<<n>> \o e.path,
                             nodeCost[n] + pathCost[<<n, e.path[1]>>] + e.gx,
                             pathCost[<<n, e.path[1]>>] + e.gx)
              /\ c.gx = Cost(c.path)
         /\ \A n : <<n, e.path[1]>> \in Pairs(lexicon) =>
              \E c \in Predecessors(e) :
                /\ c.path = <<n>> \o e.path
                /\ c.fx = nodeCost[n] + pathCost[<<n, e.path[1]>>] + e.gx
<1>1. /\ InputOK /\ paths = Pairs(lexicon) /\ e.path \in Paths /\ Connected(e.path)
      /\ Head(e.path) = e.path[1] /\ e.gx = Cost(e.path)
      /\ e.path[Len(e.path)] = EOS
  BY SearchFacts DEF Costed
<1>2. ASSUME NEW c \in Predecessors(e)
      PROVE  \E n \in Nodes :
              /\ c.path = <<n>> \o e.path /\ <<n, e.path[1]>> \in Pairs(lexicon)
              /\ c.path \in Paths
              /\ c = Element(<<n>> \o e.path,
                             nodeCost[n] + pathCost[<<n, e.path[1]>>] + e.gx,
                             pathCost[<<n, e.path[1]>>] + e.gx)
              /\ c.gx = Cost(c.path)
  <2>1. PICK p \in Pairs(lexicon) :
          /\ p[2] = e.path[1]
          /\ c = Element(<<p[1]>> \o e.path, nodeCost[p[1]] + pathCost[p] + e.gx,
                         pathCost[p] + e.gx)
    BY <1>1 DEF Predecessors
  <2>2. p = <<p[1], e.path[1]>> /\ p[1] \in lexicon \cup {BOS} /\ p[2] \in lexicon \cup {EOS}
    BY <2>1, PairFacts
  <2> DEFINE n == p[1]
             q == <<n>> \o e.path
  <2>3. n \in Nodes
    BY <1>1, <2>2, RightFacts DEF Nodes
  <2>4. q \in Paths
    BY <1>1, <2>3, PrependPath
  <2>5. Ends(n) = Starts(e.path[1])
    BY <1>1, <2>1, <2>2, PairStarts
  <2>6. Connected(q)
    BY <1>1, <2>1, <2>2, <2>5, PrependConnected
  <2>7. Cost(q) = pathCost[<<n, e.path[1]>>] + Cost(e.path)
    BY <1>1, <2>3, <2>6, PrependCost
  <2>8. /\ c.path = q /\ c.gx = pathCost[<<n, e.path[1]>>] + e.gx
        /\ c = Element(q, nodeCost[n] + pathCost[<<n, e.path[1]>>] + e.gx,
                       pathCost[<<n, e.path[1]>>] + e.gx)
        /\ <<n, e.path[1]>> \in Pairs(lexicon)
    BY <2>1, <2>2 DEF Element
  <2> HIDE DEF n
  <2>9. c.gx = Cost(c.path) /\ c.path \in Paths
    BY <1>1, <2>4, <2>7, <2>8
  <2> QED
    BY <2>3, <2>8, <2>9
<1>3. ASSUME NEW n, <<n, e.path[1]>> \in Pairs(lexicon)
      PROVE  \E c \in Predecessors(e) :
               /\ c.path = <<n>> \o e.path
               /\ c.fx = nodeCost[n] + pathCost[<<n, e.path[1]>>] + e.gx
  <2> DEFINE p == <<n, e.path[1]>>
             c == Element(<<p[1]>> \o e.path, nodeCost[p[1]] + pathCost[p] + e.gx,
                          pathCost[p] + e.gx)
  <2>1. p \in {x \in paths : x[2] = Head(e.path)}
    BY <1>1, <1>3
  <2>2. c \in Predecessors(e)
    <3> HIDE DEF p
    <3> QED
      BY <2>1 DEF Predecessors
  <2>3. c.path = <<n>> \o e.path /\ c.fx = nodeCost[n] + pathCost[p] + e.gx
    BY DEF Element
  <2> HIDE DEF c
  <2> QED
    BY <2>2, <2>3
<1> QED
  BY <1>2, <1>3

LEMMA SameLattice ==
  ASSUME UNCHANGED <<lexicon, pathCost>>
  PROVE  \A s : (Cost(s)' = Cost(s)) /\ (Route(s)' <=> Route(s))
<1>1. lexicon' = lexicon /\ pathCost' = pathCost
  OBVIOUS
<1>2. Pairs(lexicon)' = Pairs(lexicon)
  BY <1>1 DEF Pairs
<1>3. \A s : Cost(s)' = Cost(s)
  BY <1>1 DEF Cost, CostUpTo
<1>4. \A s : Route(s)' <=> Route(s)
  BY <1>2 DEF Route, Connected
<1> QED
  BY <1>3, <1>4

LEMMA ExpandSearch ==
  ASSUME ViterbiInv, Enumerating, SearchInv, NEW e \in agenda, Expand(e),
         UNCHANGED inputVars
  PROVE  SearchInv'
<1>1. /\ agenda' = (agenda \ {e}) \cup Predecessors(e) /\ found' = found
      /\ lexicon' = lexicon /\ pathCost' = pathCost /\ nodeCost' = nodeCost
      /\ IsTop(e) /\ Head(e.path) # BOS
  BY DEF Expand, latticeVars, inputVars
<1>2. /\ InputOK /\ NodeCosts /\ Right = lexicon \cup {EOS} /\ Len(found) \in Nat
      /\ \A f \in agenda : f \in Elements /\ f.path \in Paths
      /\ \A i \in 1..Len(found) :
           Route(found[i].path) /\ found[i].path[Len(found[i].path)] = EOS
  BY SearchFacts
<1>3. /\ e.path \in Paths /\ Connected(e.path) /\ e.path[Len(e.path)] = EOS
      /\ e.path[1] \in lexicon \cup {EOS} /\ e.gx = Cost(e.path) /\ e.gx \in Int
  BY <1>1, SearchFacts DEF Elements, SearchInv, Costed
<1>4. \A c \in Predecessors(e) : \E n \in Nodes :
        /\ c.path = <<n>> \o e.path /\ <<n, e.path[1]>> \in Pairs(lexicon)
        /\ c.path \in Paths
        /\ c = Element(<<n>> \o e.path,
                       nodeCost[n] + pathCost[<<n, e.path[1]>>] + e.gx,
                       pathCost[<<n, e.path[1]>>] + e.gx)
        /\ c.gx = Cost(c.path)
  BY LeftElements DEF SearchInv
<1>5. \A n : <<n, e.path[1]>> \in Pairs(lexicon) =>
        \E c \in Predecessors(e) :
          /\ c.path = <<n>> \o e.path
          /\ c.fx = nodeCost[n] + pathCost[<<n, e.path[1]>>] + e.gx
  BY LeftElements DEF SearchInv
<1>6. \A s : (Cost(s)' = Cost(s)) /\ (Route(s)' <=> Route(s))
  BY <1>1, SameLattice
<1>7. ASSUME NEW c \in Predecessors(e), NEW s \in Paths, IsTail(c.path, s)
      PROVE  IsTail(e.path, s)
  <2>1. PICK n \in Nodes : c.path = <<n>> \o e.path
    BY <1>4
  <2>2. IsTail(<<n>> \o e.path, s)
    BY <1>7, <2>1
  <2> QED
    BY <1>3, <2>2, TailOfTail
<1>8. Costed'
  <2>1. \A c \in agenda' : c.gx = Cost(c.path)
    BY <1>1, <1>4 DEF SearchInv, Costed
  <2>2. \A i \in 1..Len(found) : found[i].gx = Cost(found[i].path)
    BY DEF SearchInv, Costed
  <2> QED
    BY <1>1, <1>6, <2>1, <2>2 DEF Costed
<1>9. Apart'
  <2>1. ASSUME NEW c \in Predecessors(e), NEW d \in Predecessors(e), IsTail(c.path, d.path)
        PROVE  c = d
    <3>1. PICK n \in Nodes :
            /\ c.path = <<n>> \o e.path
            /\ c = Element(<<n>> \o e.path,
                           nodeCost[n] + pathCost[<<n, e.path[1]>>] + e.gx,
                           pathCost[<<n, e.path[1]>>] + e.gx)
      BY <1>4
    <3>2. PICK m \in Nodes :
            /\ d.path = <<m>> \o e.path
            /\ d = Element(<<m>> \o e.path,
                           nodeCost[m] + pathCost[<<m, e.path[1]>>] + e.gx,
                           pathCost[<<m, e.path[1]>>] + e.gx)
      BY <1>4
    <3>3. /\ c.path \in Paths /\ d.path \in Paths
          /\ Len(c.path) = Len(e.path) + 1 /\ Len(d.path) = Len(e.path) + 1
          /\ c.path[1] = n /\ d.path[1] = m
      <4>1. \A l \in Nodes : /\ <<l>> \o e.path \in Paths /\ (<<l>> \o e.path)[1] = l
                             /\ Len(<<l>> \o e.path) = Len(e.path) + 1
        BY <1>3, PrependPath, Zenon
      <4> QED
        BY <3>1, <3>2, <4>1, Zenon
    <3>4. c.path = d.path
      BY <2>1, <3>3, SamePath
    <3>5. n = m
      BY <3>3, <3>4
    <3> QED
      BY <3>1, <3>2, <3>5
  <2>2. ASSUME NEW c \in Predecessors(e), NEW f \in agenda \ {e}
        PROVE  ~IsTail(c.path, f.path)
    <3> SUFFICES ASSUME IsTail(c.path, f.path) PROVE FALSE
      OBVIOUS
    <3>1. IsTail(e.path, f.path)
      BY <1>2, <1>7
    <3> QED
      BY <3>1 DEF SearchInv, Apart
  <2>3. ASSUME NEW c \in Predecessors(e), NEW f \in agenda \ {e}
        PROVE  ~IsTail(f.path, c.path)
    <3> SUFFICES ASSUME IsTail(f.path, c.path) PROVE FALSE
      OBVIOUS
    <3>1. PICK n \in Nodes : c.path = <<n>> \o e.path
      BY <1>4
    <3>2. f.path = c.path \/ IsTail(f.path, e.path)
      BY <1>2, <1>3, <3>1, TailOfPrepend
    <3>3. c.path \in Paths
      BY <1>4
    <3>4. IsTail(e.path, f.path) \/ IsTail(f.path, e.path)
      BY <1>7, <3>2, <3>3, TailOfSelf
    <3> QED
      BY <3>4 DEF SearchInv, Apart
  <2>4. \A c, d \in agenda' : IsTail(c.path, d.path) => c = d
    BY <1>1, <2>1, <2>2, <2>3 DEF SearchInv, Apart
  <2>5. ASSUME NEW c \in agenda', NEW i \in 1..Len(found)
        PROVE  ~IsTail(c.path, found[i].path)
    <3>1. found[i].path \in Paths
      BY <1>2 DEF Route
    <3>2. IsTail(c.path, found[i].path) => \E f \in agenda : IsTail(f.path, found[i].path)
      BY <1>1, <1>7, <3>1
    <3> QED
      BY <3>2 DEF SearchInv, Apart
  <2>6. \A i, j \in 1..Len(found) : found[i].path = found[j].path => i = j
    BY DEF SearchInv, Apart
  <2> QED
    BY <1>1, <2>4, <2>5, <2>6 DEF Apart, IsTail
<1>10. Covering'
  <2>1. ASSUME NEW s, Route(s), s[Len(s)] = EOS
        PROVE  (\E c \in agenda' : IsTail(c.path, s)) \/ Returned(s)
    <3>1. Ahead(s) \/ Returned(s)
      BY <2>1 DEF SearchInv, Covering
    <3>2. CASE \E f \in agenda \ {e} : IsTail(f.path, s)
      BY <1>1, <3>2
    <3>3. CASE IsTail(e.path, s)
      <4>1. s \in Paths /\ Connected(s) /\ s[1] = BOS
        BY <2>1 DEF Route
      <4>2. e.path # s
        BY <1>1, <1>3, <4>1, PathFacts
      <4> DEFINE k == Len(s) - Len(e.path)
      <4>3. k \in 1..(Len(s) - 1) /\ s[k + 1] = e.path[1] /\ IsTail(<<s[k]>> \o e.path, s)
        BY <1>3, <3>3, <4>1, <4>2, LongerTail
      <4> HIDE DEF k
      <4>4. <<s[k], e.path[1]>> \in Pairs(lexicon)
        BY <1>2, <4>1, <4>3, ConnectedNodes
      <4>5. PICK c \in Predecessors(e) : c.path = <<s[k]>> \o e.path
        BY <1>5, <4>4
      <4> QED
        BY <1>1, <4>3, <4>5
    <3> QED
      BY <3>1, <3>2, <3>3 DEF Ahead
  <2> QED
    BY <1>1, <1>6, <2>1 DEF Covering, Ahead, Returned, IsTail
<1>11. FirstIsBest'
  <2>1. CASE found # << >>
    BY <1>1, <2>1 DEF SearchInv, FirstIsBest
  <2>2. CASE found = << >>
    <3>2. CASE \E f \in agenda \ {e} : f.fx = nodeCost[EOS]
      BY <1>1, <2>2, <3>2 DEF FirstIsBest
    <3>3. CASE nodeCost[e.path[1]] + e.gx = nodeCost[EOS]
      <4> DEFINE r == e.path[1]
      <4>1. PICK l \in Nodes : <<l, r>> \in Pairs(lexicon) /\ nodeCost[r] = CostVia(l, r)
        BY <1>2, <1>3 DEF NodeCosts
      <4>2. PICK c \in Predecessors(e) :
              c.fx = nodeCost[l] + pathCost[<<l, r>>] + e.gx
        BY <1>5, <4>1
      <4>3. c.fx = nodeCost[EOS]
        BY <3>3, <4>1, <4>2 DEF CostVia
      <4> QED
        BY <1>1, <2>2, <4>3 DEF FirstIsBest
    <3>4. nodeCost[EOS] \in Int
      BY <1>2 DEF NodeCosts, Nodes
    <3>5. CASE agenda = {InitialElement}
      <4>1. e.path[1] = EOS /\ e.gx = 0
        BY <3>5 DEF InitialElement, Element
      <4> QED
        BY <3>3, <3>4, <4>1
    <3>6. CASE e.fx = nodeCost[EOS] /\ agenda # {InitialElement}
      <4>1. e.fx = nodeCost[Head(e.path)] + e.gx
        BY <3>6 DEF ViterbiInv, GeneratorPhase, GeneratorInvariant, AgendaBound
      <4> QED
        BY <3>3, <3>6, <4>1, SearchFacts
    <3> QED
      BY <2>2, <3>2, <3>5, <3>6 DEF SearchInv, FirstIsBest
  <2> QED
    BY <2>1, <2>2
<1> QED
  BY <1>8, <1>9, <1>10, <1>11 DEF SearchInv

LEMMA ReturnSearch ==
  ASSUME ViterbiInv, Enumerating, SearchInv, NEW e \in agenda, ReturnPath(e),
         UNCHANGED inputVars
  PROVE  SearchInv'
<1>1. /\ agenda' = agenda \ {e} /\ found' = Append(found, e)
      /\ lexicon' = lexicon /\ pathCost' = pathCost /\ nodeCost' = nodeCost
      /\ IsTop(e) /\ Head(e.path) = BOS
  BY DEF ReturnPath, latticeVars, inputVars
<1>2. /\ InputOK /\ NodeCosts /\ Right = lexicon \cup {EOS} /\ Len(found) \in Nat
      /\ found \in Seq(Elements)
      /\ \A f \in agenda : f \in Elements /\ f.path \in Paths
      /\ \A i \in 1..Len(found) :
           Route(found[i].path) /\ found[i].path[Len(found[i].path)] = EOS
  BY SearchFacts
<1>3. /\ e \in Elements /\ e.path \in Paths /\ Connected(e.path)
      /\ e.path[Len(e.path)] = EOS /\ e.path[1] = BOS /\ e.gx = Cost(e.path)
  BY <1>1, SearchFacts DEF SearchInv, Costed
<1>4. /\ Len(found') = Len(found) + 1 /\ found'[Len(found) + 1] = e
      /\ \A i \in 1..Len(found) : found'[i] = found[i]
  BY <1>1, <1>2, <1>3, AppendProperties
<1>5. \A s : (Cost(s)' = Cost(s)) /\ (Route(s)' <=> Route(s))
  BY <1>1, SameLattice
<1>6. \A i \in 1..Len(found') : i \in 1..Len(found) \/ i = Len(found) + 1
  BY <1>2, <1>4
<1>7. Costed'
  <2>1. \A f \in agenda' : f.gx = Cost(f.path)
    BY <1>1 DEF SearchInv, Costed
  <2>2. \A i \in 1..Len(found') : found'[i].gx = Cost(found'[i].path)
    BY <1>3, <1>4, <1>6 DEF SearchInv, Costed
  <2> QED
    BY <1>5, <2>1, <2>2 DEF Costed
<1>8. Apart'
  <2>1. \A f, g \in agenda' : IsTail(f.path, g.path) => f = g
    BY <1>1 DEF SearchInv, Apart
  <2>2. ASSUME NEW f \in agenda', NEW i \in 1..Len(found')
        PROVE  ~IsTail(f.path, found'[i].path)
    <3>1. f \in agenda /\ f # e
      BY <1>1
    <3>2. CASE i \in 1..Len(found)
      BY <1>4, <3>1, <3>2 DEF SearchInv, Apart
    <3>3. CASE i = Len(found) + 1
      BY <1>4, <3>1, <3>3 DEF SearchInv, Apart
    <3> QED
      BY <1>6, <3>2, <3>3
  <2>3. \A i \in 1..Len(found) : found[i].path # e.path
    BY <1>3, TailOfSelf DEF SearchInv, Apart
  <2>4. ASSUME NEW i \in 1..Len(found'), NEW j \in 1..Len(found'),
               found'[i].path = found'[j].path
        PROVE  i = j
    <3>1. CASE i \in 1..Len(found) /\ j \in 1..Len(found)
      BY <1>4, <2>4, <3>1 DEF SearchInv, Apart
    <3> QED
      BY <1>4, <1>6, <2>3, <2>4, <3>1
  <2> QED
    BY <2>1, <2>2, <2>4 DEF Apart, IsTail
<1>9. Covering'
  <2>1. ASSUME NEW s, Route(s), s[Len(s)] = EOS
        PROVE  (\E f \in agenda' : IsTail(f.path, s))
               \/ \E i \in 1..Len(found') : found'[i].path = s
    <3>1. Ahead(s) \/ Returned(s)
      BY <2>1 DEF SearchInv, Covering
    <3>2. CASE \E f \in agenda \ {e} : IsTail(f.path, s)
      BY <1>1, <3>2
    <3>3. CASE IsTail(e.path, s)
      <4>1. s \in Paths /\ Connected(s)
        BY <2>1 DEF Route
      <4>2. e.path = s
        <5> SUFFICES ASSUME e.path # s PROVE FALSE
          OBVIOUS
        <5> DEFINE k == Len(s) - Len(e.path)
        <5>1. k \in 1..(Len(s) - 1) /\ s[k + 1] = BOS
          BY <1>3, <3>3, <4>1, LongerTail
        <5> HIDE DEF k
        <5> QED
          BY <1>2, <4>1, <5>1, ConnectedNodes
      <4>3. Len(found) + 1 \in 1..Len(found')
        BY <1>2, <1>4
      <4> QED
        BY <1>4, <4>2, <4>3
    <3>4. CASE Returned(s)
      <4>1. PICK i \in 1..Len(found) : found[i].path = s
        BY <3>4 DEF Returned
      <4>2. i \in 1..Len(found')
        BY <1>2, <1>4
      <4> QED
        BY <1>4, <4>1, <4>2
    <3> QED
      BY <3>1, <3>2, <3>3, <3>4 DEF Ahead
  <2> QED
    BY <1>5, <2>1 DEF Covering, Ahead, Returned, IsTail
<1>10. FirstIsBest'
  <2>1. found'[1].gx = nodeCost[EOS]
    <3>1. CASE found # << >>
      <4>1. 1 \in 1..Len(found)
        BY <1>2, <3>1, EmptySeq
      <4> QED
        BY <1>4, <3>1, <4>1 DEF SearchInv, FirstIsBest
    <3>2. CASE found = << >>
      <4>1. found'[1] = e
        BY <1>4, <3>2
      <4>2. agenda # {InitialElement}
        BY <1>3, NodesDiffer DEF InitialElement, Element
      <4>3. e.fx = nodeCost[BOS] + e.gx
        BY <1>1, <4>2 DEF ViterbiInv, GeneratorPhase, GeneratorInvariant, AgendaBound
      <4>4. PICK f \in agenda : f.fx = nodeCost[EOS]
        BY <3>2, <4>2 DEF SearchInv, FirstIsBest
      <4>5. e.fx <= f.fx
        BY <1>1 DEF IsTop
      <4>6. nodeCost[EOS] <= e.gx
        <5>1. phase \notin {"lookup", "failed"}
          BY DEF Enumerating
        <5>2. Route(e.path)
          BY <1>3 DEF Route
        <5> QED
          BY <1>3, <5>1, <5>2, RouteCosts
      <4>7. nodeCost[BOS] = 0 /\ nodeCost[EOS] \in Int /\ e.gx \in Int
        BY <1>2, <1>3 DEF NodeCosts, Nodes, Elements
      <4> QED
        BY <4>1, <4>3, <4>4, <4>5, <4>6, <4>7
    <3> QED
      BY <3>1, <3>2
  <2>2. found' # << >>
    BY <1>2, <1>4, EmptySeq
  <2> QED
    BY <1>1, <2>1, <2>2 DEF FirstIsBest
<1> QED
  BY <1>7, <1>8, <1>9, <1>10 DEF SearchInv

LEMMA StartSearch ==
  ASSUME ViterbiInv, InitNBest, "NBEST" \in requestType
  PROVE  SearchInv'
<1>1. /\ agenda' = {InitialElement} /\ found' = << >>
      /\ lexicon' = lexicon /\ pathCost' = pathCost /\ InputOK
  BY DEF InitNBest, SetAgenda, inputVars, ViterbiInv, LatticeInv
<1>2. InitialElement.path = <<EOS>> /\ InitialElement.gx = 0
  BY DEF InitialElement, Element
<1>3. \A s : (Cost(s)' = Cost(s)) /\ (Route(s)' <=> Route(s))
  BY <1>1, SameLattice
<1>4. Len(found') = 0 /\ \A i : i \notin 1..Len(found')
  BY <1>1, EmptySeq
<1>5. Costed'
  <2>1. \A e \in agenda' : e.gx = Cost(e.path)
    BY <1>1, <1>2, EosCost
  <2> QED
    BY <1>3, <1>4, <2>1 DEF Costed
<1>6. Apart'
  BY <1>1, <1>4 DEF Apart
<1>7. Covering'
  <2>1. ASSUME NEW s, Route(s), s[Len(s)] = EOS PROVE IsTail(InitialElement.path, s)
    <3> DEFINE t == <<EOS>>
    <3>1. t \in Paths /\ Len(t) = 1 /\ t[1] = EOS
      BY <1>1, EosCost
    <3>2. Len(s) \in Nat /\ Len(s) >= 1
      BY <2>1, LenOfPath DEF Route
    <3> HIDE DEF t
    <3>3. IsTail(t, s)
      BY <2>1, <3>1, <3>2 DEF IsTail
    <3> QED
      BY <1>2, <3>3 DEF t
  <2>2. \A s : Route(s) /\ s[Len(s)] = EOS => \E e \in agenda' : IsTail(e.path, s)
    BY <1>1, <2>1
  <2> QED
    BY <1>3, <2>2 DEF Covering, Ahead, Returned, IsTail
<1>8. FirstIsBest'
  BY <1>1 DEF FirstIsBest, InitialElement
<1> QED
  BY <1>5, <1>6, <1>7, <1>8 DEF SearchInv

LEMMA SearchIsKept ==
  ASSUME SearchInv, UNCHANGED <<lexicon, pathCost, nodeCost, agenda, found>>
  PROVE  SearchInv'
<1>1. \A s : (Cost(s)' = Cost(s)) /\ (Route(s)' <=> Route(s))
  BY SameLattice
<1>2. Costed'
  BY <1>1 DEF SearchInv, Costed
<1>3. Apart'
  BY DEF SearchInv, Apart, IsTail
<1>4. Covering'
  BY <1>1 DEF SearchInv, Covering, Ahead, Returned, IsTail
<1>5. FirstIsBest'
  BY DEF SearchInv, FirstIsBest, InitialElement
<1> QED
  BY <1>2, <1>3, <1>4, <1>5 DEF SearchInv

LEMMA EnumStep ==
  ViterbiInv /\ EnumInv /\ [Next]_vars => EnumInv'
<1> SUFFICES ASSUME ViterbiInv, EnumInv, [Next]_vars, Enumerating'
             PROVE  SearchInv'
  BY DEF EnumInv
<1>1. ASSUME phase' \in {"lookup", "failed", "forwardbackward", "best", "all", "nbest"}
      PROVE  FALSE
  BY <1>1 DEF Enumerating
<1>2. CASE LookupAt \/ SkipPosition \/ ConnectEos
  <2>1. phase' \in {"lookup", "failed", "forwardbackward"}
    BY <1>2 DEF LookupAt, SkipPosition, ConnectEos, Fail
  <2> QED
    BY <1>1, <2>1
<1>3. CASE ForwardBackward \/ BuildBestLattice \/ BuildAllLattice
  <2>1. phase' \in {"best", "all", "nbest"}
    BY <1>3 DEF ForwardBackward, BuildBestLattice, BuildAllLattice
  <2> QED
    BY <1>1, <2>1
<1>4. CASE InitNBest
  <2>1. "NBEST" \in requestType
    BY <1>4 DEF InitNBest, inputVars, Enumerating
  <2> QED
    BY <1>4, <2>1, StartSearch
<1>5. CASE Enumerate
  <2>1. Enumerating /\ SearchInv /\ UNCHANGED inputVars /\ NextPath
    BY <1>5 DEF Enumerate, Enumerating, EnumInv
  <2>2. CASE CallNext \/ ReturnNone
    <3>1. UNCHANGED <<lexicon, pathCost, nodeCost, agenda, found>>
      BY <2>1, <2>2 DEF CallNext, ReturnNone, latticeVars, inputVars
    <3> QED
      BY <2>1, <3>1, SearchIsKept
  <2>3. ASSUME NEW e \in agenda, Expand(e) PROVE SearchInv'
    BY <2>1, <2>3, ExpandSearch
  <2>4. ASSUME NEW e \in agenda, ReturnPath(e) PROVE SearchInv'
    BY <2>1, <2>4, ReturnSearch
  <2> QED
    BY <2>1, <2>2, <2>3, <2>4 DEF NextPath, SearchStep
<1>6. CASE BuildResultForNBest
  <2>1. /\ Enumerating /\ SearchInv
        /\ UNCHANGED <<lexicon, pathCost, nodeCost, agenda, found>>
    BY <1>6 DEF BuildResultForNBest, Enumerating, EnumInv, inputVars
  <2> QED
    BY <2>1, SearchIsKept
<1>7. CASE UNCHANGED vars
  <2>1. /\ Enumerating /\ SearchInv
        /\ UNCHANGED <<lexicon, pathCost, nodeCost, agenda, found>>
    BY <1>7 DEF vars, Enumerating, EnumInv, inputVars, generatorVars
  <2> QED
    BY <2>1, SearchIsKept
<1> QED
  BY <1>2, <1>3, <1>4, <1>5, <1>6, <1>7 DEF Next, Analyze

(***************************************************************************)
(* next() returns ways to cut the whole text into words, each with its     *)
(* cost and none of them twice, the cheapest one first, and when it        *)
(* reports that there are no more it has returned all of them.             *)
(***************************************************************************)
THEOREM EveryCutIsEnumerated == Spec => []EnumeratesEveryCut
<1>1. Init => EnumInv
  BY DEF Init, EnumInv, Enumerating
<1>2. Spec => [](ViterbiInv /\ EnumInv)
  BY <1>1, EnumStep, ViterbiInitially, ViterbiStep, PTL DEF Spec
<1>3. ASSUME ViterbiInv, EnumInv PROVE EnumeratesEveryCut
  <2> SUFFICES ASSUME phase = "done", "NBEST" \in requestType
               PROVE  /\ \A i \in 1..Len(found) :
                           /\ found[i].path \in Cuts
                           /\ found[i].gx = Cost(found[i].path)
                           /\ \A j \in 1..Len(found) :
                                found[i].path = found[j].path => i = j
                      /\ found # << >> => found[1].gx = nodeCost[EOS]
                      /\ agenda = {} => {found[i].path : i \in 1..Len(found)} = Cuts
    BY DEF EnumeratesEveryCut
  <2>1. Enumerating /\ SearchInv
    BY <1>3 DEF Enumerating, EnumInv
  <2>2. /\ InputOK
        /\ \A i \in 1..Len(found) :
             Route(found[i].path) /\ found[i].path[Len(found[i].path)] = EOS
    BY <1>3, <2>1, SearchFacts
  <2>3. \A i \in 1..Len(found) : found[i].path \in Cuts
    BY <2>2, CutsAreRoutes
  <2>4. /\ \A i \in 1..Len(found) : found[i].gx = Cost(found[i].path)
        /\ \A i, j \in 1..Len(found) : found[i].path = found[j].path => i = j
    BY <2>1 DEF SearchInv, Costed, Apart
  <2>5. found # << >> => found[1].gx = nodeCost[EOS]
    BY <2>1 DEF SearchInv, FirstIsBest
  <2>6. ASSUME agenda = {}
        PROVE  {found[i].path : i \in 1..Len(found)} = Cuts
    <3>1. \A s \in Cuts : Returned(s)
      BY <2>1, <2>2, <2>6, CutsAreRoutes DEF SearchInv, Covering, Ahead
    <3> QED
      BY <2>3, <3>1 DEF Returned
  <2> QED
    BY <2>3, <2>4, <2>5, <2>6
<1> QED
  BY <1>2, <1>3, PTL

-----------------------------------------------------------------------------
(***************************************************************************)
(* The links after analyze(): those of the path that was returned last,    *)
(* unless buildAllLattice() has to link all nodes.                         *)
(***************************************************************************)
LinkTypes ==
  /\ next \in [Nodes -> Nodes \cup {NoNode}]
  /\ prev \in [Nodes -> Nodes \cup {NoNode}]

Follows(s) == \A i \in 1..(Len(s) - 1) : next[s[i]] = s[i + 1] /\ prev[s[i + 1]] = s[i]

FollowInv ==
  ~Linking /\ "ALL_MORPHS" \notin requestType =>
    LinkTypes /\ (found # << >> => Follows(found[Len(found)].path))

LEMMA BestLinkTypes ==
  ASSUME ViterbiInv, Linking
  PROVE  LinkTypes
<1>1. prev \in [Nodes -> Nodes \cup {NoNode}]
  BY DEF ViterbiInv, LinkInv, Linking
<1>2. NoLinks \in [Nodes -> Nodes \cup {NoNode}]
  BY DEF NoLinks
<1>3. CASE phase # "all"
  <2>1. next = NoLinks
    BY <1>3 DEF ViterbiInv, LinkInv, Linking
  <2> QED
    BY <1>1, <1>2, <2>1 DEF LinkTypes
<1>4. CASE phase = "all"
  <2> DEFINE s == BestPathTo[EOS]
  <2>1. Tight(s) /\ next = RelinkForward(s, NoLinks) /\ InputOK
    BY <1>4, LinkedPathIsBest DEF ViterbiInv, LinkInv, LatticeInv
  <2> HIDE DEF s
  <2>2. s \in Paths /\ Injective(s)
    BY <2>1, RouteIsInjective DEF Tight, Route
  <2> QED
    BY <1>1, <1>2, <2>1, <2>2, RelinkForwardFacts DEF LinkTypes
<1> QED
  BY <1>3, <1>4

LEMMA ReturnFollows ==
  ASSUME ViterbiInv, Enumerating, LinkTypes, NEW e \in agenda, ReturnPath(e)
  PROVE  LinkTypes' /\ Follows(found[Len(found)].path)'
<1>1. /\ found' = Append(found, e)
      /\ next' = RelinkForward(e.path, next) /\ prev' = RelinkBackward(e.path, prev)
  BY DEF ReturnPath
<1>2. /\ InputOK /\ e \in Elements /\ e.path \in Paths /\ Connected(e.path)
      /\ found \in Seq(Elements) /\ Len(found) \in Nat
  BY SearchFacts
<1>3. Injective(e.path)
  BY <1>2, RouteIsInjective
<1>4. found'[Len(found')] = e
  BY <1>1, <1>2, AppendProperties
<1>5. LinkTypes'
  BY <1>1, <1>2, <1>3, RelinkForwardFacts, RelinkBackwardFacts DEF LinkTypes
<1>6. \A i \in 1..(Len(e.path) - 1) :
        next'[e.path[i]] = e.path[i + 1] /\ prev'[e.path[i + 1]] = e.path[i]
  BY <1>1, <1>2, <1>3, RelinkForwardFacts, RelinkBackwardFacts DEF LinkTypes
<1> QED
  BY <1>4, <1>5, <1>6 DEF Follows

LEMMA FollowStep ==
  ViterbiInv /\ FollowInv /\ [Next]_vars => FollowInv'
<1> SUFFICES ASSUME ViterbiInv, FollowInv, [Next]_vars,
                    ~Linking', "ALL_MORPHS" \notin requestType'
             PROVE  LinkTypes' /\ (found' # << >> => Follows(found[Len(found)].path)')
  BY DEF FollowInv
<1>1. requestType' = requestType
  BY DEF Next, Analyze, vars, inputVars, LookupAt, SkipPosition, ConnectEos, Fail,
         ForwardBackward, BuildBestLattice, BuildAllLattice, InitNBest, Enumerate,
         BuildResultForNBest
<1>2. ASSUME phase' \in {"lookup", "failed", "forwardbackward", "best", "all"}
      PROVE  FALSE
  BY <1>2 DEF Linking
<1>3. ASSUME LinkTypes, UNCHANGED <<next, prev, found>>,
             found # << >> => Follows(found[Len(found)].path)
      PROVE  LinkTypes' /\ (found' # << >> => Follows(found[Len(found)].path)')
  BY <1>3 DEF LinkTypes, Follows
<1>4. CASE LookupAt \/ SkipPosition \/ ConnectEos
  <2>1. phase' \in {"lookup", "failed", "forwardbackward"}
    BY <1>4 DEF LookupAt, SkipPosition, ConnectEos, Fail
  <2> QED
    BY <1>2, <2>1
<1>5. CASE ForwardBackward \/ BuildBestLattice
  <2>1. phase' \in {"best", "all"}
    BY <1>5 DEF ForwardBackward, BuildBestLattice
  <2> QED
    BY <1>2, <2>1
<1>6. CASE BuildAllLattice
  <2>1. UNCHANGED <<next, prev, found>> /\ Linking /\ found = << >>
    BY <1>1, <1>6 DEF BuildAllLattice, LinkAll, Linking, ViterbiInv, GeneratorPhase, Idle
  <2> QED
    BY <1>3, <2>1, BestLinkTypes
<1>7. CASE InitNBest
  <2>1. /\ UNCHANGED <<next, prev>> /\ ~Linking /\ found = << >> /\ found' = << >>
    BY <1>7 DEF InitNBest, SetAgenda, Linking, ViterbiInv, GeneratorPhase, Idle
  <2>2. LinkTypes
    BY <1>1, <2>1 DEF FollowInv
  <2> QED
    BY <1>3, <2>1, <2>2
<1>8. CASE Enumerate
  <2>1. Enumerating /\ ~Linking /\ NextPath
    BY <1>8 DEF Enumerate, Enumerating, Linking
  <2>2. LinkTypes /\ (found # << >> => Follows(found[Len(found)].path))
    BY <1>1, <2>1 DEF FollowInv
  <2>3. CASE CallNext \/ ReturnNone \/ \E e \in agenda : Expand(e)
    <3>1. UNCHANGED <<next, prev, found>>
      BY <2>3 DEF CallNext, ReturnNone, Expand
    <3> QED
      BY <1>3, <2>2, <3>1
  <2>4. ASSUME NEW e \in agenda, ReturnPath(e)
        PROVE  LinkTypes' /\ (found' # << >> => Follows(found[Len(found)].path)')
    BY <2>1, <2>2, <2>4, ReturnFollows
  <2> QED
    BY <2>1, <2>3, <2>4 DEF NextPath, SearchStep
<1>9. CASE BuildResultForNBest
  <2>1. UNCHANGED <<next, prev, found>> /\ ~Linking
    BY <1>1, <1>9 DEF BuildResultForNBest, LinkAll, Linking
  <2> QED
    BY <1>1, <1>3, <2>1 DEF FollowInv
<1>10. CASE UNCHANGED vars
  <2>1. UNCHANGED <<next, prev, found, phase>>
    BY <1>10 DEF vars, generatorVars
  <2>2. ~Linking
    BY <2>1 DEF Linking
  <2> QED
    BY <1>1, <1>3, <2>1, <2>2 DEF FollowInv
<1> QED
  BY <1>4, <1>5, <1>6, <1>7, <1>8, <1>9, <1>10 DEF Next, Analyze

(***************************************************************************)
(* After each next() the nodes are linked, forward and backward, along the *)
(* path it returned, unless ALL_MORPHS asks for all nodes.                 *)
(***************************************************************************)
THEOREM LinksAreThePath == Spec => []LinksFollowFound
<1>1. Init => FollowInv
  BY DEF Init, FollowInv, Linking
<1>2. Spec => [](ViterbiInv /\ FollowInv)
  BY <1>1, FollowStep, ViterbiInitially, ViterbiStep, PTL DEF Spec
<1>3. ASSUME ViterbiInv, FollowInv PROVE LinksFollowFound
  <2> SUFFICES ASSUME phase = "done", found # << >>, "ALL_MORPHS" \notin requestType
               PROVE  Chain = found[Len(found)].path /\ LinkedBack(Chain)
    BY DEF LinksFollowFound
  <2>1. Enumerating
    BY <1>3 DEF ViterbiInv, GeneratorPhase, Idle, Enumerating
  <2>2. LinkTypes /\ Follows(found[Len(found)].path)
    BY <1>3 DEF FollowInv, Linking
  <2> DEFINE s == found[Len(found)].path
  <2>3. InputOK /\ Route(s) /\ s[Len(s)] = EOS
    <3>1. Len(found) \in 1..Len(found)
      BY <1>3, <2>1, SearchFacts, EmptySeq
    <3> QED
      BY <1>3, <2>1, <3>1, SearchFacts
  <2>4. Follows(s)
    BY <2>2
  <2> HIDE DEF s
  <2>5. Chain = s
    BY <2>2, <2>3, <2>4, RouteIsInjective, ChainFollowsNext DEF LinkTypes, Follows, Route
  <2>6. LinkedBack(s)
    BY <2>4 DEF Follows, LinkedBack
  <2> QED
    BY <2>5, <2>6 DEF s
<1> QED
  BY <1>2, <1>3, PTL

-----------------------------------------------------------------------------
(***************************************************************************)
(* IV. The list of all nodes: the begin lists as sequences, one after the  *)
(* other.                                                                  *)
(***************************************************************************)
LEMMA SetAsSequence ==
  ASSUME NEW T, IsFiniteSet(T)
  PROVE  /\ SetToSeq(T) \in Seq(T)
         /\ Injective(SetToSeq(T))
         /\ \A x \in T : \E i \in 1..Len(SetToSeq(T)) : SetToSeq(T)[i] = x
<1> DEFINE n == Cardinality(T)
           s == SetToSeq(T)
<1>1. n \in Nat /\ ExistsBijection(1..n, T)
  BY FS_CardinalityType
<1>2. s \in [1..n -> T] /\ IsInjective(s)
  BY <1>1 DEF SetToSeq, ExistsBijection, Bijection, Injection
<1>3. s \in Injection(1..n, T)
  BY <1>2 DEF Injection
<1>4. IsFiniteSet(1..n) /\ Cardinality(1..n) = n
  BY <1>1, FS_Interval
<1>5. s \in Surjection(1..n, T)
  <2> HIDE DEF s
  <2> QED
    BY <1>3, <1>4, FS_Injection
<1>6. s \in Seq(T) /\ Len(s) = n
  <2> HIDE DEF s, n
  <2> QED
    BY <1>1, <1>2
<1> HIDE DEF s
<1>7. Injective(s)
  BY <1>2, <1>6 DEF Injective, IsInjective
<1> QED
  BY <1>5, <1>6, <1>7 DEF Surjection, s

(* Nodes in the order of their beginnings. *)
Place(n) == IF n = BOS THEN -1 ELSE IF n = EOS THEN Size ELSE Begin[n]
Sorted(s) == \A i, j \in 1..Len(s) : i < j => Place(s[i]) <= Place(s[j])

LEMMA PlaceType == \A n \in Nodes : Place(n) \in Int
BY ConstantFacts DEF Place, Nodes

LEMMA ConcatSorted ==
  ASSUME NEW s \in Seq(Nodes), NEW t \in Seq(Nodes),
         Injective(s), Injective(t), Sorted(s), Sorted(t),
         \A i \in 1..Len(s) : \A j \in 1..Len(t) : Place(s[i]) < Place(t[j])
  PROVE  /\ s \o t \in Seq(Nodes) /\ Len(s \o t) = Len(s) + Len(t)
         /\ Injective(s \o t) /\ Sorted(s \o t)
         /\ ToSet(s \o t) = ToSet(s) \cup ToSet(t)
         /\ Len(s) > 0 => (s \o t)[1] = s[1]
<1> DEFINE c == s \o t
<1>1. /\ c \in Seq(Nodes) /\ Len(c) = Len(s) + Len(t) /\ Len(s) \in Nat /\ Len(t) \in Nat
      /\ \A i \in 1..Len(s) + Len(t) : c[i] = IF i <= Len(s) THEN s[i] ELSE t[i - Len(s)]
      /\ \A i \in 1..Len(s) : s[i] \in Nodes
      /\ \A i \in 1..Len(t) : t[i] \in Nodes
  BY ConcatProperties, ElementOfSeq
<1>2. ASSUME NEW i \in 1..Len(c)
      PROVE  \/ i \in 1..Len(s) /\ c[i] = s[i]
             \/ i - Len(s) \in 1..Len(t) /\ c[i] = t[i - Len(s)] /\ i > Len(s)
  <2> HIDE DEF c
  <2> QED
    BY <1>1
<1>3. ASSUME NEW i \in 1..Len(c), NEW j \in 1..Len(c), i < j
      PROVE  c[i] # c[j] /\ Place(c[i]) <= Place(c[j])
  <2> HIDE DEF c
  <2>1. CASE i \in 1..Len(s) /\ j \in 1..Len(s)
    <3>1. c[i] = s[i] /\ c[j] = s[j] /\ i # j
      BY <1>1, <1>2, <1>3, <2>1
    <3> QED
      BY <1>3, <2>1, <3>1 DEF Injective, Sorted
  <2>2. CASE i \in 1..Len(s) /\ j \notin 1..Len(s)
    <3>1. c[i] = s[i] /\ j - Len(s) \in 1..Len(t) /\ c[j] = t[j - Len(s)]
      BY <1>1, <1>2, <2>2
    <3>2. Place(c[i]) < Place(c[j]) /\ Place(c[i]) \in Int /\ Place(c[j]) \in Int
      BY <1>1, <2>2, <3>1, PlaceType
    <3> QED
      BY <3>2
  <2>3. CASE i \notin 1..Len(s)
    <3>1. /\ i - Len(s) \in 1..Len(t) /\ c[i] = t[i - Len(s)]
          /\ j - Len(s) \in 1..Len(t) /\ c[j] = t[j - Len(s)]
          /\ i - Len(s) < j - Len(s) /\ i - Len(s) # j - Len(s)
      BY <1>1, <1>2, <1>3, <2>3
    <3> QED
      BY <3>1 DEF Injective, Sorted
  <2> QED
    BY <2>1, <2>2, <2>3
<1>4. Injective(c) /\ Sorted(c)
  <2> HIDE DEF c
  <2>1. ASSUME NEW i \in 1..Len(c), NEW j \in 1..Len(c), c[i] = c[j] PROVE i = j
    <3>1. ~(i < j) /\ ~(j < i)
      BY <1>3, <2>1
    <3> QED
      BY <3>1
  <2> QED
    BY <1>3, <2>1 DEF Injective, Sorted
<1>5. ToSet(c) = ToSet(s) \cup ToSet(t)
  <2>1. DOMAIN c = 1..Len(c) /\ DOMAIN s = 1..Len(s) /\ DOMAIN t = 1..Len(t)
    <3> HIDE DEF c
    <3> QED
      BY <1>1
  <2>2. ASSUME NEW i \in 1..Len(s) PROVE i \in 1..Len(c) /\ c[i] = s[i]
    <3> HIDE DEF c
    <3> QED
      BY <1>1
  <2>3. ASSUME NEW i \in 1..Len(t)
        PROVE  i + Len(s) \in 1..Len(c) /\ c[i + Len(s)] = t[i]
    <3> HIDE DEF c
    <3>1. i + Len(s) \in 1..Len(s) + Len(t) /\ ~(i + Len(s) <= Len(s))
          /\ (i + Len(s)) - Len(s) = i
      BY <1>1
    <3> QED
      BY <1>1, <3>1
  <2> HIDE DEF c
  <2> QED
    BY <1>2, <2>1, <2>2, <2>3 DEF ToSet
<1>6. Len(s) > 0 => c[1] = s[1]
  <2> HIDE DEF c
  <2> QED
    BY <1>1
<1> QED
  BY <1>1, <1>4, <1>5, <1>6

-----------------------------------------------------------------------------
(***************************************************************************)
(* AllMorphs, when the begin lists hold the nodes that begin there.        *)
(***************************************************************************)
BeginLists ==
  beginNodes = [p \in 0..Size |-> IF p = Size THEN {EOS} ELSE Starting(p)]

Listing(s) ==
  /\ s \in Paths /\ s[1] = BOS /\ s[Len(s)] = EOS
  /\ Injective(s) /\ Sorted(s)
  /\ ToSet(s) = lexicon \cup {BOS, EOS}

LEMMA AllMorphsIsListing ==
  ASSUME InputOK, BeginLists
  PROVE  Listing(AllMorphs)
<1> DEFINE seqs == [p \in 1..(Size + 1) |-> SetToSeq(beginNodes[p - 1])]
<1>1. Size \in Nat /\ Size > 0 /\ lexicon \subseteq Words /\ BOS # EOS
      /\ BOS \notin Words /\ EOS \notin Words
  BY ConstantFacts DEF InputOK
<1>2. ASSUME NEW p \in 1..(Size + 1)
      PROVE  /\ IsFiniteSet(beginNodes[p - 1]) /\ beginNodes[p - 1] \subseteq Nodes \ {BOS}
             /\ \A n \in beginNodes[p - 1] : Place(n) = p - 1
             /\ beginNodes[p - 1] = IF p = Size + 1 THEN {EOS} ELSE Starting(p - 1)
  <2>1. /\ p - 1 \in 0..Size /\ (p - 1 = Size <=> p = Size + 1)
        /\ beginNodes[p - 1] = IF p - 1 = Size THEN {EOS} ELSE Starting(p - 1)
    BY <1>1 DEF BeginLists
  <2>2. IsFiniteSet({EOS})
    BY FS_Singleton
  <2>3. Starting(p - 1) \subseteq Words /\ IsFiniteSet(Words)
    BY <1>1, ViterbiAssumption DEF Starting
  <2>4. IsFiniteSet(Starting(p - 1))
    BY <2>3, FS_Subset
  <2> QED
    BY <1>1, <2>1, <2>2, <2>3, <2>4 DEF Starting, Nodes, Place
<1>3. ASSUME NEW p \in 1..(Size + 1)
      PROVE  /\ seqs[p] \in Seq(Nodes) /\ Injective(seqs[p]) /\ Sorted(seqs[p])
             /\ ToSet(seqs[p]) = beginNodes[p - 1]
             /\ \A i \in 1..Len(seqs[p]) : Place(seqs[p][i]) = p - 1
  <2> DEFINE B == beginNodes[p - 1]
             s == SetToSeq(B)
  <2>1. seqs[p] = s
    OBVIOUS
  <2>2. /\ s \in Seq(B) /\ Injective(s)
        /\ \A x \in B : \E i \in 1..Len(s) : s[i] = x
    BY <1>2, SetAsSequence
  <2> HIDE DEF s, B, seqs
  <2>3. /\ Len(s) \in Nat /\ DOMAIN s = 1..Len(s)
        /\ \A i \in 1..Len(s) : s[i] \in B
    BY <2>2, ElementOfSeq
  <2>4. ToSet(s) = B
    BY <2>2, <2>3 DEF ToSet
  <2>5. B \subseteq Nodes /\ \A n \in B : Place(n) = p - 1
    BY <1>2 DEF B
  <2>6. s \in Seq(Nodes)
    BY <2>2, <2>5
  <2>7. Sorted(s) /\ \A i \in 1..Len(s) : Place(s[i]) = p - 1
    <3>1. \A i \in 1..Len(s) : Place(s[i]) = p - 1
      BY <2>3, <2>5
    <3> QED
      BY <3>1 DEF Sorted
  <2> QED
    BY <2>1, <2>2, <2>4, <2>6, <2>7 DEF B
<1>4. seqs \in Seq(Seq(Nodes)) /\ Len(seqs) = Size + 1
  <2>1. \A p \in 1..(Size + 1) : seqs[p] \in Seq(Nodes)
    BY <1>3
  <2>2. seqs \in [1..(Size + 1) -> Seq(Nodes)]
    <3>1. seqs = [p \in 1..(Size + 1) |-> seqs[p]]
      OBVIOUS
    <3> HIDE DEF seqs
    <3> QED
      BY <2>1, <3>1
  <2> HIDE DEF seqs
  <2> DEFINE N == Size + 1
  <2>3. N \in Nat
    BY <1>1
  <2> HIDE DEF N
  <2>4. seqs \in Seq(Seq(Nodes)) /\ Len(seqs) = N
    BY <2>2, <2>3 DEF N
  <2> QED
    BY <2>4 DEF N
<1> HIDE DEF seqs
<1>5. PICK f \in [1..(Size + 1) -> Seq(Nodes)] :
        /\ FlattenSeq(seqs) = f[Size + 1]
        /\ f[1] = seqs[1]
        /\ \A i \in 1..Size : f[i + 1] = f[i] \o seqs[i + 1]
  <2>1. Len(seqs) > 0 /\ Len(seqs) - 1 = Size
    BY <1>1, <1>4
  <2> DEFINE N == Len(seqs)
             V == Seq(Nodes)
  <2>2. \E f \in [1..N -> V] :
          /\ FlattenSeq(seqs) = f[N]
          /\ f[1] = seqs[1]
          /\ \A i \in 1..(N - 1) : f[i + 1] = f[i] \o seqs[i + 1]
    BY <1>4, <2>1, FlattenFacts
  <2>3. N = Size + 1 /\ N - 1 = Size
    BY <1>4, <2>1
  <2> HIDE DEF N, V
  <2>4. \E f \in [1..N -> V] :
          /\ FlattenSeq(seqs) = f[N]
          /\ f[1] = seqs[1]
          /\ \A i \in 1..Size : f[i + 1] = f[i] \o seqs[i + 1]
    BY <2>2, <2>3
  <2> QED
    BY <2>3, <2>4 DEF V
<1> DEFINE Sum(i) == UNION {beginNodes[p - 1] : p \in 1..i}
           Good(i) == /\ f[i] \in Seq(Nodes) /\ Injective(f[i]) /\ Sorted(f[i])
                      /\ ToSet(f[i]) = Sum(i)
                      /\ \A j \in 1..Len(f[i]) : Place(f[i][j]) < i
           T == {i \in Nat : Good(i)}
<1>6. 1..(Size + 1) \subseteq T
  <2>1. Good(1)
    <3>1. 1 \in 1..(Size + 1) /\ 1 - 1 = 0 /\ 0 < 1 /\ 1..1 = {1}
      BY <1>1
    <3>2. Sum(1) = beginNodes[1 - 1]
      BY <3>1
    <3> HIDE DEF Sum
    <3> QED
      BY <1>3, <1>5, <3>1, <3>2
  <2>2. ASSUME NEW i \in 1..Size, Good(i) PROVE Good(i + 1)
    <3>1. i + 1 \in 1..(Size + 1) /\ (i + 1) - 1 = i /\ i \in Int
      BY <1>1
    <3> DEFINE t == seqs[i + 1]
    <3>2. /\ t \in Seq(Nodes) /\ Injective(t) /\ Sorted(t) /\ ToSet(t) = beginNodes[i]
          /\ \A j \in 1..Len(t) : Place(t[j]) = i
      BY <1>3, <3>1
    <3>3. f[i + 1] = f[i] \o t
      BY <1>5
    <3>4. /\ f[i] \in Seq(Nodes) /\ Injective(f[i]) /\ Sorted(f[i])
          /\ ToSet(f[i]) = Sum(i)
          /\ \A j \in 1..Len(f[i]) : Place(f[i][j]) < i
      BY <2>2
    <3> HIDE DEF t, Sum
    <3>5. /\ f[i + 1] \in Seq(Nodes) /\ Injective(f[i + 1]) /\ Sorted(f[i + 1])
          /\ ToSet(f[i + 1]) = ToSet(f[i]) \cup ToSet(t)
      <4> DEFINE r == f[i]
      <4>1. \A j \in 1..Len(r) : \A k \in 1..Len(t) : Place(r[j]) < Place(t[k])
        BY <3>2, <3>4
      <4>2. r \in Seq(Nodes) /\ Injective(r) /\ Sorted(r)
        BY <3>4
      <4>3. f[i + 1] = r \o t
        BY <3>3
      <4> HIDE DEF r, Good, T
      <4>4. /\ r \o t \in Seq(Nodes) /\ Injective(r \o t) /\ Sorted(r \o t)
            /\ ToSet(r \o t) = ToSet(r) \cup ToSet(t)
        BY <3>2, <4>1, <4>2, ConcatSorted
      <4> QED
        BY <4>3, <4>4 DEF r
    <3>6. Sum(i + 1) = Sum(i) \cup beginNodes[i]
      <4>1. 1..(i + 1) = (1..i) \cup {i + 1}
        BY <3>1
      <4> QED
        BY <3>1, <4>1 DEF Sum
    <3>7. \A j \in 1..Len(f[i + 1]) : Place(f[i + 1][j]) < i + 1
      <4> SUFFICES ASSUME NEW j \in 1..Len(f[i + 1])
                   PROVE  Place(f[i + 1][j]) < i + 1
        OBVIOUS
      <4>1. f[i + 1][j] \in ToSet(f[i]) \cup ToSet(t) /\ f[i + 1][j] \in Nodes
        <5>1. f[i + 1][j] \in ToSet(f[i + 1]) /\ f[i + 1][j] \in Nodes
          BY <3>5, ElementOfSeq DEF ToSet
        <5> QED
          BY <3>5, <5>1
      <4>2. \A n \in ToSet(f[i]) \cup ToSet(t) : Place(n) < i \/ Place(n) = i
        BY <3>2, <3>4 DEF ToSet
      <4>3. Place(f[i + 1][j]) \in Int
        BY <4>1, PlaceType
      <4> QED
        BY <3>1, <4>1, <4>2, <4>3
    <3> QED
      BY <3>2, <3>4, <3>5, <3>6, <3>7
  <2> DEFINE N == Size + 1
  <2>3. N \in Nat /\ 1 \in T
    <3> HIDE DEF Good
    <3> QED
      BY <1>1, <2>1
  <2>4. ASSUME NEW i \in 1..(N - 1), i \in T PROVE i + 1 \in T
    <3>1. i \in 1..Size /\ Good(i) /\ i + 1 \in Nat
      <4> HIDE DEF Good
      <4> QED
        BY <1>1, <2>4
    <3> HIDE DEF Good
    <3> QED
      BY <2>2, <3>1
  <2> HIDE DEF T, N
  <2>5. 1..N \subseteq T
    BY <2>3, <2>4, IntervalInduction
  <2> QED
    BY <2>5 DEF N
<1> DEFINE rest == f[Size + 1]
<1>7. /\ rest \in Seq(Nodes) /\ Injective(rest) /\ Sorted(rest)
      /\ ToSet(rest) = Sum(Size + 1)
  <2>1. Size + 1 \in 1..(Size + 1)
    BY <1>1
  <2>2. Good(Size + 1)
    <3> HIDE DEF Good
    <3> QED
      BY <1>6, <2>1
  <2> QED
    BY <2>2
<1>8. Sum(Size + 1) = lexicon \cup {EOS}
  <2>1. ASSUME NEW p \in 1..(Size + 1) PROVE beginNodes[p - 1] \subseteq lexicon \cup {EOS}
    BY <1>2 DEF Starting
  <2>2. Size + 1 \in 1..(Size + 1) /\ EOS \in beginNodes[(Size + 1) - 1]
    <3>1. Size + 1 \in 1..(Size + 1)
      BY <1>1
    <3> QED
      BY <1>2, <3>1
  <2>3. ASSUME NEW w \in lexicon
        PROVE  \E p \in 1..(Size + 1) : w \in beginNodes[p - 1]
    <3>1. /\ Begin[w] + 1 \in 1..(Size + 1) /\ (Begin[w] + 1) - 1 = Begin[w]
          /\ Begin[w] + 1 # Size + 1
      BY <1>1, ConstantFacts
    <3>2. w \in beginNodes[(Begin[w] + 1) - 1]
      BY <1>2, <3>1 DEF Starting
    <3> QED
      BY <3>1, <3>2
  <2> QED
    BY <2>1, <2>2, <2>3
<1> DEFINE b == <<BOS>>
           s == b \o rest
<1>9. b \in Seq(Nodes) /\ Len(b) = 1 /\ b[1] = BOS /\ ToSet(b) = {BOS}
  BY <1>1 DEF Nodes, ToSet
<1>10. Injective(b) /\ Sorted(b)
  <2> HIDE DEF b
  <2> QED
    BY <1>9 DEF Injective, Sorted
<1>11. \A i \in 1..Len(b) : \A j \in 1..Len(rest) : Place(b[i]) < Place(rest[j])
  <2> HIDE DEF rest, b
  <2>1. ASSUME NEW j \in 1..Len(rest) PROVE rest[j] \in lexicon \cup {EOS}
    <3>1. rest[j] \in ToSet(rest)
      BY <1>7, ElementOfSeq DEF ToSet
    <3> QED
      BY <1>7, <1>8, <3>1
  <2> QED
    BY <1>1, <1>9, <2>1, ConstantFacts DEF Place
<1> HIDE DEF rest, b, Sum, Good, T
<1>12. /\ s \in Seq(Nodes) /\ Len(s) = 1 + Len(rest) /\ Injective(s) /\ Sorted(s)
       /\ ToSet(s) = {BOS} \cup (lexicon \cup {EOS}) /\ s[1] = BOS
  <2>1. /\ s \in Seq(Nodes) /\ Len(s) = Len(b) + Len(rest)
        /\ Injective(s) /\ Sorted(s) /\ ToSet(s) = ToSet(b) \cup ToSet(rest)
        /\ Len(b) > 0 => s[1] = b[1]
    <3>1. rest \in Seq(Nodes) /\ Injective(rest) /\ Sorted(rest)
      BY <1>7 DEF rest
    <3> QED
      BY <1>9, <1>10, <1>11, <3>1, ConcatSorted
  <2>2. ToSet(rest) = lexicon \cup {EOS}
    BY <1>7, <1>8 DEF rest
  <2> HIDE DEF s
  <2> QED
    BY <1>9, <2>1, <2>2
<1>13. AllMorphs = s
  BY <1>5 DEF AllMorphs, seqs, rest, b
<1> HIDE DEF s
<1>14. Len(s) \in Nat /\ Len(s) >= 1 /\ DOMAIN s = 1..Len(s)
  BY <1>7, <1>12
<1>15. s[Len(s)] = EOS
  <2>1. PICK k \in 1..Len(s) : s[k] = EOS
    BY <1>12, <1>14 DEF ToSet
  <2>2. CASE k = Len(s)
    BY <2>1, <2>2
  <2>3. CASE k # Len(s)
    <3>1. k < Len(s) /\ Len(s) \in 1..Len(s)
      <4>1. Len(s) \in Nat /\ Len(s) >= 1
        BY <1>14
      <4> QED
        BY <2>3, <4>1
    <3>2. Place(s[k]) = Size /\ Place(s[k]) <= Place(s[Len(s)])
      BY <1>1, <1>12, <2>1, <3>1 DEF Place, Sorted
    <3>3. s[Len(s)] \in {BOS} \cup (lexicon \cup {EOS})
      BY <1>12, <1>14, <3>1 DEF ToSet
    <3>4. s[Len(s)] # BOS /\ s[Len(s)] \notin lexicon
      BY <1>1, <3>2, ConstantFacts DEF Place
    <3> QED
      BY <3>3, <3>4
  <2> QED
    BY <2>2, <2>3
<1>16. s # << >>
  BY <1>14
<1> QED
  BY <1>12, <1>13, <1>15, <1>16 DEF Listing, Paths

LEMMA ListingLength ==
  ASSUME InputOK, NEW s, Listing(s)
  PROVE  Len(s) = Cardinality(lexicon) + 2
<1>1. /\ Len(s) \in Nat /\ s \in Seq(Nodes) /\ DOMAIN s = 1..Len(s)
      /\ ToSet(s) = lexicon \cup {BOS, EOS} /\ Injective(s)
  BY LenOfPath DEF Listing, Paths
<1> DEFINE all == lexicon \cup {BOS, EOS}
           f == [i \in 1..Len(s) |-> s[i]]
<1>2. f \in Bijection(1..Len(s), all)
  BY <1>1 DEF ToSet, Bijection, Injection, Surjection, IsInjective, Injective
<1>3. Cardinality(all) = Len(s)
  <2>1. ExistsBijection(1..Len(s), all)
    BY <1>2 DEF ExistsBijection
  <2> QED
    BY <1>1, <2>1, FS_CountingElements
<1>4. IsFiniteSet(lexicon) /\ Cardinality(lexicon) \in Nat
  <2>1. lexicon \subseteq Words /\ IsFiniteSet(Words)
    BY ViterbiAssumption DEF InputOK
  <2> QED
    BY <2>1, FS_Subset, FS_CardinalityType
<1>5. BOS \notin lexicon /\ EOS \notin lexicon \cup {BOS}
  BY ConstantFacts DEF InputOK
<1>6. /\ IsFiniteSet(lexicon \cup {BOS})
      /\ Cardinality(lexicon \cup {BOS}) = Cardinality(lexicon) + 1
  BY <1>4, <1>5, FS_AddElement
<1>7. Cardinality((lexicon \cup {BOS}) \cup {EOS}) = (Cardinality(lexicon) + 1) + 1
  BY <1>5, <1>6, FS_AddElement
<1>8. (lexicon \cup {BOS}) \cup {EOS} = all
  OBVIOUS
<1> HIDE DEF all, f
<1>9. Cardinality(all) = (Cardinality(lexicon) + 1) + 1
  BY <1>7, <1>8
<1> QED
  BY <1>3, <1>4, <1>9

LEMMA ListingInOrder ==
  ASSUME InputOK, NEW s, Listing(s), NEW i \in 2..(Len(s) - 2)
  PROVE  Begin[s[i]] <= Begin[s[i + 1]]
<1>1. /\ Len(s) \in Nat /\ DOMAIN s = 1..Len(s)
      /\ i \in 1..Len(s) /\ i + 1 \in 1..Len(s) /\ i < i + 1
      /\ i # 1 /\ i # Len(s) /\ i + 1 # 1 /\ i + 1 # Len(s)
      /\ 1 \in 1..Len(s) /\ Len(s) \in 1..Len(s)
  BY LenOfPath DEF Listing, Paths
<1>2. ASSUME NEW j \in {i, i + 1} PROVE s[j] \in lexicon
  <2>1. s[j] # BOS /\ s[j] # EOS
    BY <1>1 DEF Listing, Injective
  <2>2. s[j] \in ToSet(s)
    BY <1>1 DEF ToSet
  <2> QED
    BY <2>1, <2>2 DEF Listing
<1>3. s[i] \in lexicon /\ s[i + 1] \in lexicon
  BY <1>2
<1>4. Place(s[i]) <= Place(s[i + 1])
  BY <1>1 DEF Listing, Sorted
<1> QED
  BY <1>3, <1>4, ConstantFacts DEF Place, InputOK

(* The begin lists, and the links while buildAllLattice() makes them. *)
BeginInv ==
  beginNodes = [p \in 0..Size |->
                  IF p = Size THEN IF phase \in {"lookup", "failed"} THEN {} ELSE {EOS}
                  ELSE IF p < pos THEN Starting(p) ELSE {}]

AllInv ==
  ~Linking /\ "ALL_MORPHS" \in requestType =>
    LinkTypes /\ (phase # "result" => Follows(AllMorphs))

LEMMA BeginStep ==
  ViterbiInv /\ BeginInv /\ [Next]_vars => BeginInv'
<1> SUFFICES ASSUME ViterbiInv, BeginInv, [Next]_vars PROVE BeginInv'
  OBVIOUS
<1>1. /\ InputOK /\ PhaseOK /\ LatticeInv /\ Size \in Nat /\ pos \in 0..Size
      /\ \A p \in 0..Size : Starting(p) = {w \in lexicon : Begin[w] = p}
  BY ConstantFacts DEF ViterbiInv, LatticeInv, PhaseOK, Starting
<1>2. ASSUME UNCHANGED <<lexicon, pos, beginNodes>>,
             phase' \in {"lookup", "failed"} <=> phase \in {"lookup", "failed"}
      PROVE  BeginInv'
  BY <1>2 DEF BeginInv, Starting
<1>3. CASE LookupAt
  <2>1. CASE TooLong(endNodes[pos], Starting(pos))
    BY <1>2, <1>3, <2>1 DEF LookupAt, Fail, inputVars
  <2>2. CASE ~TooLong(endNodes[pos], Starting(pos))
    <3>1. /\ beginNodes' = [beginNodes EXCEPT ![pos] = Starting(pos)] /\ pos' = pos + 1
          /\ lexicon' = lexicon /\ phase' = phase /\ phase = "lookup" /\ pos < Size
      BY <1>3, <2>2 DEF LookupAt, inputVars
    <3>2. ASSUME NEW p \in 0..Size
          PROVE  beginNodes'[p] = IF p = Size THEN {}
                                  ELSE IF p < pos + 1 THEN Starting(p) ELSE {}
      <4>1. beginNodes[p] = IF p = Size THEN {} ELSE IF p < pos THEN Starting(p) ELSE {}
        BY <3>1 DEF BeginInv
      <4>2. beginNodes'[p] = IF p = pos THEN Starting(pos) ELSE beginNodes[p]
        BY <3>1 DEF BeginInv
      <4>3. (p < pos + 1 <=> p < pos \/ p = pos) /\ pos # Size
        BY <1>1, <3>1
      <4> QED
        BY <4>1, <4>2, <4>3
    <3>3. \A p \in 0..Size : Starting(p)' = Starting(p)
      BY <3>1 DEF Starting
    <3>4. beginNodes' = [p \in 0..Size |-> beginNodes'[p]]
      BY <3>1 DEF BeginInv
    <3> QED
      BY <3>1, <3>2, <3>3, <3>4 DEF BeginInv
  <2> QED
    BY <2>1, <2>2
<1>4. CASE SkipPosition
  <2>1. /\ phase = "lookup" /\ pos < Size /\ endNodes[pos] = {} /\ pos' = pos + 1
        /\ UNCHANGED <<lexicon, beginNodes, phase>>
    BY <1>4 DEF SkipPosition, inputVars
  <2>2. Starting(pos) = {}
    BY <1>1, <2>1, NothingBegins DEF Starting
  <2>3. \A p \in 0..Size : /\ Starting(p)' = Starting(p)
                           /\ p < pos + 1 <=> p < pos \/ p = pos
    BY <1>1, <2>1 DEF Starting
  <2> QED
    BY <1>1, <2>1, <2>2, <2>3 DEF BeginInv
<1>5. CASE ConnectEos
  <2>1. CASE TooLong(endNodes[LastEnd], {EOS})
    BY <1>2, <1>5, <2>1 DEF ConnectEos, Fail, inputVars
  <2>2. CASE ~TooLong(endNodes[LastEnd], {EOS})
    <3>1. /\ beginNodes' = [beginNodes EXCEPT ![Size] = {EOS}] /\ pos' = pos
          /\ lexicon' = lexicon /\ phase' = "forwardbackward"
      BY <1>5, <2>2 DEF ConnectEos, inputVars
    <3>2. ASSUME NEW p \in 0..Size
          PROVE  beginNodes'[p] = IF p = Size THEN {EOS}
                                  ELSE IF p < pos THEN Starting(p) ELSE {}
      BY <1>1, <3>1 DEF BeginInv
    <3>3. \A p \in 0..Size : Starting(p)' = Starting(p)
      BY <3>1 DEF Starting
    <3>4. beginNodes' = [p \in 0..Size |-> beginNodes'[p]]
      BY <3>1 DEF BeginInv
    <3> QED
      BY <3>1, <3>2, <3>3, <3>4 DEF BeginInv
  <2> QED
    BY <2>1, <2>2
<1>6. CASE ForwardBackward \/ BuildBestLattice \/ BuildAllLattice \/ InitNBest
  BY <1>2, <1>6 DEF ForwardBackward, BuildBestLattice, BuildAllLattice, InitNBest, inputVars
<1>7. CASE Enumerate \/ BuildResultForNBest
  <2>1. phase' \notin {"lookup", "failed"} /\ phase \notin {"lookup", "failed"}
    BY <1>7 DEF Enumerate, BuildResultForNBest
  <2>2. UNCHANGED <<lexicon, pos, beginNodes>>
    BY <1>7 DEF Enumerate, BuildResultForNBest, inputVars
  <2> QED
    BY <1>2, <2>1, <2>2
<1>8. CASE UNCHANGED vars
  BY <1>2, <1>8 DEF vars, inputVars
<1> QED
  BY <1>3, <1>4, <1>5, <1>6, <1>7, <1>8 DEF Next, Analyze

LEMMA BuiltListing ==
  ASSUME ViterbiInv, BeginInv, phase \notin {"lookup", "failed"}
  PROVE  InputOK /\ Listing(AllMorphs)
<1>1. InputOK /\ pos = Size
  BY DEF ViterbiInv, LatticeInv, PhaseOK
<1>2. BeginLists
  BY <1>1, ConstantFacts DEF BeginInv, BeginLists
<1> QED
  BY <1>1, <1>2, AllMorphsIsListing

LEMMA LinkAllFollows ==
  ASSUME ViterbiInv, BeginInv, LinkTypes, phase \notin {"lookup", "failed"},
         "ALL_MORPHS" \in requestType, LinkAll, beginNodes' = beginNodes
  PROVE  LinkTypes' /\ Follows(AllMorphs)'
<1> DEFINE s == AllMorphs
<1>1. s \in Paths /\ Injective(s)
  BY BuiltListing DEF Listing
<1>2. next' = RelinkForward(s, next) /\ prev' = RelinkBackward(s, prev)
  BY DEF LinkAll
<1>3. s' = s
  BY DEF AllMorphs
<1> HIDE DEF s
<1>4. LinkTypes'
  BY <1>1, <1>2, RelinkForwardFacts, RelinkBackwardFacts DEF LinkTypes
<1>5. \A i \in 1..(Len(s) - 1) : next'[s[i]] = s[i + 1] /\ prev'[s[i + 1]] = s[i]
  BY <1>1, <1>2, RelinkForwardFacts, RelinkBackwardFacts DEF LinkTypes
<1> QED
  BY <1>3, <1>4, <1>5 DEF Follows, s

LEMMA AllStep ==
  ViterbiInv /\ BeginInv /\ AllInv /\ [Next]_vars => AllInv'
<1> SUFFICES ASSUME ViterbiInv, BeginInv, AllInv, [Next]_vars,
                    ~Linking', "ALL_MORPHS" \in requestType'
             PROVE  LinkTypes' /\ (phase' # "result" => Follows(AllMorphs)')
  BY DEF AllInv
<1>1. requestType' = requestType
  BY DEF Next, Analyze, vars, inputVars, LookupAt, SkipPosition, ConnectEos, Fail,
         ForwardBackward, BuildBestLattice, BuildAllLattice, InitNBest, Enumerate,
         BuildResultForNBest
<1>2. ASSUME phase' \in {"lookup", "failed", "forwardbackward", "best", "all"}
      PROVE  FALSE
  BY <1>2 DEF Linking
<1>3. ASSUME ~Linking, UNCHANGED <<next, prev, beginNodes>>, phase # "result"
      PROVE  LinkTypes' /\ (phase' # "result" => Follows(AllMorphs)')
  <2>1. LinkTypes /\ Follows(AllMorphs)
    BY <1>1, <1>3 DEF AllInv
  <2>2. AllMorphs' = AllMorphs
    BY <1>3 DEF AllMorphs
  <2> HIDE DEF AllMorphs
  <2> QED
    BY <1>3, <2>1, <2>2 DEF LinkTypes, Follows
<1>4. CASE LookupAt \/ SkipPosition \/ ConnectEos
  <2>1. phase' \in {"lookup", "failed", "forwardbackward"}
    BY <1>4 DEF LookupAt, SkipPosition, ConnectEos, Fail
  <2> QED
    BY <1>2, <2>1
<1>5. CASE ForwardBackward \/ BuildBestLattice
  <2>1. phase' \in {"best", "all"}
    BY <1>5 DEF ForwardBackward, BuildBestLattice
  <2> QED
    BY <1>2, <2>1
<1>6. CASE BuildAllLattice
  <2>1. LinkAll /\ phase = "all" /\ beginNodes' = beginNodes
    BY <1>6 DEF BuildAllLattice
  <2>2. LinkTypes
    BY <2>1, BestLinkTypes DEF Linking
  <2> QED
    BY <1>1, <2>1, <2>2, LinkAllFollows
<1>7. CASE InitNBest
  <2>1. UNCHANGED <<next, prev, beginNodes>> /\ phase = "nbest"
    BY <1>7 DEF InitNBest, SetAgenda
  <2> QED
    BY <1>3, <2>1 DEF Linking
<1>8. CASE Enumerate
  <2>1. Enumerating /\ ~Linking /\ NextPath /\ beginNodes' = beginNodes /\ phase = "done"
        /\ phase' = IF found' = found THEN "done" ELSE "result"
    BY <1>8 DEF Enumerate, Enumerating, Linking
  <2>2. LinkTypes
    BY <1>1, <2>1 DEF AllInv
  <2>3. CASE CallNext \/ ReturnNone \/ \E e \in agenda : Expand(e)
    <3>1. UNCHANGED <<next, prev>>
      BY <2>3 DEF CallNext, ReturnNone, Expand
    <3> QED
      BY <1>3, <2>1, <3>1
  <2>4. ASSUME NEW e \in agenda, ReturnPath(e)
        PROVE  LinkTypes' /\ (phase' # "result" => Follows(AllMorphs)')
    <3>1. LinkTypes'
      BY <2>1, <2>2, <2>4, ReturnFollows
    <3>2. found \in Seq(Elements) /\ e \in Elements
      BY <2>1, <2>4, SearchFacts
    <3>3. found' = Append(found, e) /\ Len(found') = Len(found) + 1 /\ Len(found) \in Nat
      BY <2>4, <3>2, AppendProperties DEF ReturnPath
    <3>4. phase' = "result"
      BY <2>1, <3>3
    <3> QED
      BY <3>1, <3>4
  <2> QED
    BY <2>1, <2>3, <2>4 DEF NextPath, SearchStep
<1>9. CASE BuildResultForNBest
  <2>1. LinkAll /\ phase = "result" /\ beginNodes' = beginNodes
    BY <1>9 DEF BuildResultForNBest
  <2>2. LinkTypes
    BY <1>1, <2>1 DEF AllInv, Linking
  <2> QED
    BY <1>1, <2>1, <2>2, LinkAllFollows
<1>10. CASE UNCHANGED vars
  <2>1. UNCHANGED <<next, prev, beginNodes, phase>>
    BY <1>10 DEF vars, generatorVars
  <2>2. ~Linking
    BY <2>1 DEF Linking
  <2>3. CASE phase = "result"
    <3>1. LinkTypes
      BY <1>1, <2>2 DEF AllInv
    <3> QED
      BY <2>1, <2>3, <3>1 DEF LinkTypes
  <2> QED
    BY <1>3, <2>1, <2>2, <2>3
<1> QED
  BY <1>4, <1>5, <1>6, <1>7, <1>8, <1>9, <1>10 DEF Next, Analyze

(***************************************************************************)
(* With ALL_MORPHS the links from BOS lead to every node of the lattice    *)
(* exactly once, in the order of their beginnings and to EOS at last,      *)
(* after analyze() and again after every next().                           *)
(***************************************************************************)
THEOREM AllMorphsAreListed == Spec => []AllMorphsListed
<1>1. Init => BeginInv /\ AllInv
  BY ConstantFacts DEF Init, BeginInv, AllInv, Linking
<1>2. Spec => [](ViterbiInv /\ BeginInv /\ AllInv)
  BY <1>1, BeginStep, AllStep, ViterbiInitially, ViterbiStep, PTL DEF Spec
<1>3. ASSUME ViterbiInv, BeginInv, AllInv PROVE AllMorphsListed
  <2> SUFFICES ASSUME phase \in {"nbest", "done"}, "ALL_MORPHS" \in requestType
               PROVE  /\ ToSet(Chain) = lexicon \cup {BOS, EOS}
                      /\ Len(Chain) = Cardinality(lexicon) + 2
                      /\ LinkedBack(Chain)
                      /\ \A i \in 2..(Len(Chain) - 2) : Begin[Chain[i]] <= Begin[Chain[i + 1]]
    BY DEF AllMorphsListed
  <2>1. LinkTypes /\ Follows(AllMorphs)
    BY <1>3 DEF AllInv, Linking
  <2> DEFINE s == AllMorphs
  <2>2. InputOK /\ Listing(s)
    BY <1>3, BuiltListing
  <2>3. Follows(s)
    BY <2>1
  <2> HIDE DEF s
  <2>4. Chain = s
    BY <2>1, <2>2, <2>3, ChainFollowsNext DEF LinkTypes, Follows, Listing
  <2>5. LinkedBack(s)
    BY <2>3 DEF Follows, LinkedBack
  <2> QED
    BY <2>2, <2>4, <2>5, ListingLength, ListingInOrder DEF Listing
<1> QED
  BY <1>2, <1>3, PTL

-----------------------------------------------------------------------------
(***************************************************************************)
(* V. The marginal probabilities.  alpha of a node is the weight of all    *)
(* ways that lead to it, and the ways to EOS that go on from a way weigh   *)
(* as much as that way times beta of its last node; so the products that   *)
(* forwardbackward() forms are the weights of the ways through a node, or  *)
(* along a path object, and divided by Z they are its share.               *)
(***************************************************************************)

LEMMA WeightOfPair ==
  ASSUME InputOK, NEW p \in Pairs(lexicon)
  PROVE  Weight(pathCost[p]) \in Int
<1>1. pathCost[p] \in Costs
  BY DEF InputOK
<1>2. \A c \in Costs : Weight(c) \in Nat \ {0}
  BY ViterbiAssumption
<1>3. Weight(pathCost[p]) \in Nat \ {0}
  BY <1>1, <1>2, Zenon
<1> QED
  BY <1>3

LEMMA WeightUpToFacts ==
  ASSUME InputOK, NEW s \in Paths, Connected(s)
  PROVE  /\ \A i \in 1..Len(s) : WeightUpTo(s)[i] \in Int
         /\ WeightUpTo(s)[1] = 1
         /\ \A i \in 1..(Len(s) - 1) :
              WeightUpTo(s)[i + 1] = WeightUpTo(s)[i] * Weight(pathCost[<<s[i], s[i + 1]>>])
<1> DEFINE I == 1..Len(s)
           factor(i) == Weight(pathCost[<<s[i - 1], s[i]>>])
           value == [x \in I \X [I -> Int] |->
                       IF x[1] = 1 THEN 1 ELSE x[2][x[1] - 1] * factor(x[1])]
           rank == [i \in I |-> i]
<1>1. Len(s) \in Nat /\ Len(s) >= 1
  BY LenOfPath
<1>2. ASSUME NEW i \in I, i # 1
      PROVE  i - 1 \in I /\ i - 1 < i /\ factor(i) \in Int
  <2>1. i - 1 \in 1..(Len(s) - 1) /\ (i - 1) + 1 = i
    BY <1>1, <1>2
  <2> QED
    BY <2>1, ConnectedNodes, WeightOfPair
<1>3. \A i \in I : \A f \in [I -> Int] :
        value[<<i, f>>] = IF i = 1 THEN 1 ELSE f[i - 1] * factor(i)
  <2> HIDE DEF factor
  <2> QED
    OBVIOUS
<1>4. value \in [I \X [I -> Int] -> Int]
  <2>1. ASSUME NEW x \in I \X [I -> Int]
        PROVE  (IF x[1] = 1 THEN 1 ELSE x[2][x[1] - 1] * factor(x[1])) \in Int
    <3>1. x[1] \in I /\ x[2] \in [I -> Int]
      OBVIOUS
    <3>2. x[1] # 1 => x[1] - 1 \in I /\ factor(x[1]) \in Int
      BY <1>2, <3>1
    <3> HIDE DEF factor, I
    <3> QED
      BY <3>1, <3>2, ProductIsInt
  <2> HIDE DEF factor
  <2> QED
    BY <2>1
<1>5. rank \in [I -> 0..Len(s)] /\ \A i \in I : rank[i] = i
  BY <1>1
<1>6. ASSUME NEW i \in I, NEW f \in [I -> Int], NEW g \in [I -> Int],
             \A j \in I : rank[j] < rank[i] => f[j] = g[j]
      PROVE  value[<<i, f>>] = value[<<i, g>>]
  <2> HIDE DEF value, rank, factor, I
  <2>1. i # 1 => f[i - 1] = g[i - 1]
    BY <1>2, <1>5, <1>6
  <2> QED
    BY <1>3, <2>1
<1>7. \E f \in [I -> Int] : \A i \in I : f[i] = value[<<i, f>>]
  <2> DEFINE V == Int
             bound == Len(s)
  <2>1. /\ V # {} /\ bound \in Nat /\ rank \in [I -> 0..bound]
        /\ value \in [I \X [I -> V] -> V]
    BY <1>1, <1>4, <1>5
  <2>2. \A i \in I : \A f, g \in [I -> V] :
          (\A j \in I : rank[j] < rank[i] => f[j] = g[j])
            => value[<<i, f>>] = value[<<i, g>>]
    BY <1>6
  <2> HIDE DEF value, rank, I, V, bound
  <2>3. Recursion(I, V, bound, rank, value)
    BY <2>1, <2>2 DEF Recursion
  <2>4. \E f \in [I -> V] : \A i \in I : f[i] = value[<<i, f>>]
    BY <2>3, RecursiveFunctionExists
  <2> QED
    BY <2>4 DEF V
<1>8. PICK f \in [I -> Int] : \A i \in I : f[i] = IF i = 1 THEN 1 ELSE f[i - 1] * factor(i)
  <2> HIDE DEF value, factor, I
  <2> QED
    BY <1>3, <1>7
<1>9. f = [i \in I |-> IF i = 1 THEN 1 ELSE f[i - 1] * factor(i)]
  <2> HIDE DEF factor
  <2> QED
    BY <1>8
<1>10. WeightUpTo(s) = [i \in I |-> IF i = 1 THEN 1 ELSE WeightUpTo(s)[i - 1] * factor(i)]
  BY <1>9 DEF WeightUpTo
<1> DEFINE weight == WeightUpTo(s)
<1>11. weight[1] = 1
  <2> HIDE DEF weight, factor
  <2> QED
    BY <1>1, <1>10 DEF weight
<1>12. ASSUME NEW i \in 1..(Len(s) - 1)
       PROVE  weight[i + 1] = weight[i] * Weight(pathCost[<<s[i], s[i + 1]>>])
  <2>1. i + 1 \in I /\ i + 1 # 1 /\ (i + 1) - 1 = i
    BY <1>1
  <2>2. weight[i + 1] = weight[i] * factor(i + 1)
    <3> HIDE DEF factor, weight
    <3> QED
      BY <1>10, <2>1 DEF weight
  <2> QED
    BY <2>1, <2>2
<1>13. 1..Len(s) \subseteq {i \in Nat : weight[i] \in Int}
  <2> DEFINE T == {i \in Nat : weight[i] \in Int}
  <2> HIDE DEF weight
  <2>1. 1 \in T
    BY <1>11
  <2>2. ASSUME NEW i \in 1..(Len(s) - 1), i \in T PROVE i + 1 \in T
    <3>1. Weight(pathCost[<<s[i], s[i + 1]>>]) \in Int
      BY ConnectedNodes, WeightOfPair
    <3>2. weight[i + 1] \in Int
      BY <1>12, <2>2, <3>1, ProductIsInt
    <3> QED
      BY <3>2
  <2> HIDE DEF T
  <2>3. 1..Len(s) \subseteq T
    BY <1>1, <2>1, <2>2, IntervalInduction
  <2> QED
    BY <2>3 DEF T
<1> QED
  BY <1>11, <1>12, <1>13

(* The weight of a way and of the way one node longer. *)
LEMMA WeightOfAppend ==
  ASSUME InputOK, NEW t, Route(t), NEW n, <<t[Len(t)], n>> \in Pairs(lexicon)
  PROVE  /\ WeightOf(t) \in Int
         /\ WeightOf(Append(t, n)) = Weight(pathCost[<<t[Len(t)], n>>]) * WeightOf(t)
<1> DEFINE q == Append(t, n)
<1>1. /\ Route(q) /\ Len(q) = Len(t) + 1 /\ q[Len(q)] = n
      /\ \A i \in 1..Len(t) : q[i] = t[i]
  BY AppendRoute
<1> HIDE DEF q
<1>2. /\ t \in Paths /\ Connected(t) /\ q \in Paths /\ Connected(q)
      /\ Len(t) \in Nat /\ Len(t) >= 1
  BY <1>1, LenOfPath DEF Route
<1>3. /\ \A i \in 1..Len(t) : WeightUpTo(t)[i] \in Int
      /\ WeightUpTo(t)[1] = 1
      /\ \A i \in 1..(Len(t) - 1) :
           WeightUpTo(t)[i + 1] = WeightUpTo(t)[i] * Weight(pathCost[<<t[i], t[i + 1]>>])
  BY <1>2, WeightUpToFacts
<1>4. /\ WeightUpTo(q)[1] = 1
      /\ \A i \in 1..(Len(q) - 1) :
           WeightUpTo(q)[i + 1] = WeightUpTo(q)[i] * Weight(pathCost[<<q[i], q[i + 1]>>])
  BY <1>2, WeightUpToFacts
<1> DEFINE T == {i \in Nat : WeightUpTo(q)[i] = WeightUpTo(t)[i]}
<1>5. 1 \in T
  BY <1>3, <1>4
<1>6. ASSUME NEW i \in 1..(Len(t) - 1), i \in T PROVE i + 1 \in T
  <2>1. i \in 1..Len(t) /\ i + 1 \in 1..Len(t) /\ i \in 1..(Len(q) - 1)
    BY <1>1, <1>2
  <2>2. q[i] = t[i] /\ q[i + 1] = t[i + 1] /\ WeightUpTo(q)[i] = WeightUpTo(t)[i]
    BY <1>1, <1>6, <2>1
  <2>3. WeightUpTo(q)[i + 1] = WeightUpTo(t)[i + 1]
    BY <1>3, <1>4, <2>1, <2>2
  <2> QED
    BY <2>3
<1>7. 1..Len(t) \subseteq T
  <2> HIDE DEF T
  <2> QED
    BY <1>2, <1>5, <1>6, IntervalInduction
<1>8. Len(t) \in 1..Len(t) /\ Len(t) \in 1..(Len(q) - 1)
  BY <1>1, <1>2
<1>9. WeightUpTo(q)[Len(t)] = WeightOf(t) /\ WeightOf(t) \in Int
  BY <1>3, <1>7, <1>8 DEF WeightOf
<1>10. q[Len(t)] = t[Len(t)] /\ q[Len(t) + 1] = n
  BY <1>1, <1>8
<1>11. WeightOf(q) = WeightOf(t) * Weight(pathCost[<<t[Len(t)], n>>])
  BY <1>1, <1>4, <1>8, <1>9, <1>10 DEF WeightOf
<1>12. Weight(pathCost[<<t[Len(t)], n>>]) \in Int
  BY WeightOfPair
<1> QED
  BY <1>9, <1>11, <1>12 DEF q

(***************************************************************************)
(* The lattice when the lookups are over and path objects were asked for.  *)
(***************************************************************************)
LatticeBuilt == InputOK /\ paths = Pairs(lexicon)

LEMMA BuiltPairs ==
  ASSUME LatticeBuilt
  PROVE  /\ IsFiniteSet(paths)
         /\ \A n \in Nodes : Rank(n) \in 0..(Size + 1)
         /\ \A p \in paths : /\ p[1] \in Nodes /\ p[2] \in Nodes
                             /\ Rank(p[1]) < Rank(p[2])
                             /\ Weight(pathCost[p]) \in Int
<1>1. lexicon \subseteq Words /\ InputOK /\ paths = Pairs(lexicon)
  BY DEF LatticeBuilt, InputOK
<1>2. ASSUME NEW n \in Nodes PROVE Rank(n) \in 0..(Size + 1)
  <2>1. n \in lexicon => Begin[n] \in Nat /\ Begin[n] < Size
    BY <1>1, ConstantFacts
  <2> QED
    BY <2>1, ConstantFacts DEF Rank
<1>3. ASSUME NEW p \in paths
      PROVE  p = <<p[1], p[2]>> /\ p[1] \in Nodes /\ p[2] \in Nodes /\ Rank(p[1]) < Rank(p[2])
  <2>1. /\ p = <<p[1], p[2]>>
        /\ p[1] \in lexicon \cup {BOS} /\ p[2] \in lexicon \cup {EOS}
        /\ Ends(p[1]) = IF p[2] = EOS THEN EndOfText(lexicon) ELSE Begin[p[2]]
    BY <1>1, PairFacts
  <2>2. p[2] \in lexicon => /\ p[2] # EOS /\ p[2] # BOS /\ Begin[p[2]] \in Nat
                            /\ Rank(p[2]) = Begin[p[2]] + 1
    BY <1>1, ConstantFacts DEF Rank
  <2>3. p[2] = EOS => Rank(p[2]) = Size + 1
    BY <1>1, ConstantFacts DEF Rank
  <2>4. CASE p[1] = BOS
    <3>1. Rank(p[1]) = 0 /\ p[1] \in Nodes
      BY <2>4 DEF Rank, Nodes
    <3>2. Rank(p[2]) > 0 /\ p[2] \in Nodes
      BY <1>1, <2>1, <2>2, <2>3, ConstantFacts DEF Nodes
    <3> QED
      BY <2>1, <3>1, <3>2
  <2>5. CASE p[1] # BOS
    <3>1. /\ p[1] \in lexicon /\ Rank(p[1]) = Begin[p[1]] + 1 /\ Begin[p[1]] \in Nat
          /\ Begin[p[1]] < Size /\ Begin[p[1]] < End[p[1]] /\ End[p[1]] \in Nat
          /\ Ends(p[1]) = End[p[1]]
      BY <1>1, <2>1, <2>5, ConstantFacts DEF Rank, Ends
    <3>2. Rank(p[1]) < Rank(p[2])
      BY <2>1, <2>2, <2>3, <3>1, ConstantFacts
    <3> QED
      BY <1>1, <2>1, <3>2 DEF Nodes
  <2> QED
    BY <2>4, <2>5
<1>4. IsFiniteSet(paths)
  <2>1. IsFiniteSet(Nodes)
    <3>1. IsFiniteSet(Words \cup {BOS})
      BY ViterbiAssumption, FS_AddElement
    <3>2. IsFiniteSet((Words \cup {BOS}) \cup {EOS})
      BY <3>1, FS_AddElement
    <3>3. (Words \cup {BOS}) \cup {EOS} = Nodes
      BY DEF Nodes
    <3> QED
      BY <3>2, <3>3
  <2>2. IsFiniteSet(Nodes \X Nodes)
    BY <2>1, FS_Product
  <2>3. paths \subseteq Nodes \X Nodes
    BY <1>3
  <2> QED
    BY <2>2, <2>3, FS_Subset
<1>5. \A p \in paths : Weight(pathCost[p]) \in Int
  BY <1>1, WeightOfPair
<1> QED
  BY <1>2, <1>3, <1>4, <1>5

(* The graph that CalcAlpha goes along, and the equation that defines it. *)
PairWeights == [p \in paths |-> Weight(pathCost[p])]

LEMMA CalcAlphaFacts ==
  ASSUME LatticeBuilt
  PROVE  \A n \in Nodes :
           /\ CalcAlpha[n] \in Int
           /\ CalcAlpha[n] = IF Lefts(n) = {} THEN 1
                             ELSE SumFunction([p \in Lefts(n) |->
                                                 Weight(pathCost[p]) * CalcAlpha[p[1]]])
<1> DEFINE bound == Size + 1
           rank == [n \in Nodes |-> Rank(n)]
           links == [n \in Nodes |-> Lefts(n)]
           to == [p \in paths |-> p[1]]
           factor == PairWeights
           Sums(n, f) == IF Lefts(n) = {} THEN 1
                         ELSE SumFunction([p \in Lefts(n) |-> Weight(pathCost[p]) * f[p[1]]])
<1>1. \A n \in Nodes : links[n] = Lefts(n) /\ Lefts(n) \subseteq paths
  BY DEF Lefts
<1>2. bound \in Nat /\ rank \in [Nodes -> 0..bound]
  BY BuiltPairs, ConstantFacts
<1>3. ASSUME NEW n \in Nodes
      PROVE  /\ IsFiniteSet(links[n])
             /\ \A p \in links[n] : /\ to[p] \in Nodes /\ factor[p] \in Int
                                    /\ rank[to[p]] < rank[n]
  <2>1. IsFiniteSet(links[n])
    BY <1>1, BuiltPairs, FS_Subset
  <2>2. ASSUME NEW p \in links[n]
        PROVE  to[p] \in Nodes /\ factor[p] \in Int /\ rank[to[p]] < rank[n]
    <3>1. p \in paths /\ p[2] = n
      BY DEF Lefts
    <3> QED
      BY <3>1, BuiltPairs DEF PairWeights
  <2> QED
    BY <2>1, <2>2
<1>4. Ranked(Nodes, bound, rank, links, to, factor)
  <2> HIDE DEF bound, rank, links, to, factor
  <2> QED
    BY <1>2, <1>3 DEF Ranked
<1>5. ASSUME NEW f
      PROVE  SumsAlong(f, Nodes, links, to, factor) <=> \A n \in Nodes : f[n] = Sums(n, f)
  <2>1. ASSUME NEW n \in Nodes
        PROVE  [p \in links[n] |-> factor[p] * f[to[p]]]
                 = [p \in Lefts(n) |-> Weight(pathCost[p]) * f[p[1]]]
    <3>1. \A p \in Lefts(n) : factor[p] = Weight(pathCost[p]) /\ to[p] = p[1]
      BY <1>1 DEF PairWeights
    <3> HIDE DEF factor, to, links
    <3> QED
      BY <1>1, <3>1
  <2> HIDE DEF factor, to, links
  <2> QED
    BY <1>1, <2>1 DEF SumsAlong
<1>6. PICK f \in [Nodes -> Int] : SumsAlong(f, Nodes, links, to, factor)
  <2> HIDE DEF bound, rank, links, to, factor
  <2> QED
    BY <1>4, SumRecursion
<1>7. f = [n \in Nodes |-> Sums(n, f)]
  <2> HIDE DEF factor, to, links, Sums
  <2> QED
    BY <1>5, <1>6
<1>8. CalcAlpha = [n \in Nodes |-> Sums(n, CalcAlpha)]
  BY <1>7 DEF CalcAlpha
<1>9. \A n \in Nodes : CalcAlpha[n] = Sums(n, CalcAlpha)
  <2> DEFINE a == CalcAlpha
  <2> HIDE DEF a, Sums
  <2>1. a = [n \in Nodes |-> Sums(n, a)]
    BY <1>8 DEF a
  <2>2. \A n \in Nodes : a[n] = Sums(n, a)
    BY <2>1
  <2> QED
    BY <2>2 DEF a
<1>10. \A n \in Nodes : CalcAlpha[n] \in Int
  <2> HIDE DEF bound, rank, links, to, factor, Sums
  <2> QED
    BY <1>4, <1>5, <1>9, SumsAreInts
<1> QED
  BY <1>9, <1>10

LEMMA CalcBetaFacts ==
  ASSUME LatticeBuilt
  PROVE  LET listed == UNION {endNodes[p] : p \in 0..Size} IN
         \A n \in Nodes :
           /\ CalcBeta[n] \in Int
           /\ CalcBeta[n] = IF Rights(n) = {} \/ n \notin listed THEN 1
                            ELSE SumFunction([p \in Rights(n) |->
                                                Weight(pathCost[p]) * CalcBeta[p[2]]])
<1> DEFINE listed == UNION {endNodes[p] : p \in 0..Size}
           bound == Size + 1
           rank == [n \in Nodes |-> bound - Rank(n)]
           links == [n \in Nodes |-> IF n \in listed THEN Rights(n) ELSE {}]
           to == [p \in paths |-> p[2]]
           factor == PairWeights
           Sums(n, f) == IF Rights(n) = {} \/ n \notin listed THEN 1
                         ELSE SumFunction([p \in Rights(n) |-> Weight(pathCost[p]) * f[p[2]]])
<1>1. \A n \in Nodes : Rights(n) \subseteq paths
  BY DEF Rights
<1>2. /\ bound \in Nat /\ rank \in [Nodes -> 0..bound]
      /\ \A n \in Nodes : rank[n] = bound - Rank(n) /\ Rank(n) \in Int
  BY BuiltPairs, ConstantFacts
<1>3. ASSUME NEW n \in Nodes
      PROVE  /\ IsFiniteSet(links[n])
             /\ \A p \in links[n] : /\ to[p] \in Nodes /\ factor[p] \in Int
                                    /\ rank[to[p]] < rank[n]
  <2>1. IsFiniteSet(links[n])
    <3>1. links[n] \subseteq paths
      BY <1>1
    <3> QED
      BY <3>1, BuiltPairs, FS_Subset
  <2>2. ASSUME NEW p \in links[n]
        PROVE  to[p] \in Nodes /\ factor[p] \in Int /\ rank[to[p]] < rank[n]
    <3>1. p \in paths /\ p[1] = n
      BY DEF Rights
    <3>2. /\ p[2] \in Nodes /\ Rank(n) < Rank(p[2]) /\ factor[p] \in Int
          /\ Rank(n) \in Int /\ Rank(p[2]) \in Int /\ bound \in Nat
      BY <1>2, <3>1, BuiltPairs DEF PairWeights
    <3>3. to[p] = p[2] /\ rank[p[2]] = bound - Rank(p[2]) /\ rank[n] = bound - Rank(n)
      BY <3>1, <3>2
    <3> HIDE DEF bound, rank, to, factor
    <3> QED
      BY <3>2, <3>3
  <2> QED
    BY <2>1, <2>2
<1>4. Ranked(Nodes, bound, rank, links, to, factor)
  <2> HIDE DEF bound, rank, links, to, factor
  <2> QED
    BY <1>2, <1>3 DEF Ranked
<1>5. ASSUME NEW f
      PROVE  SumsAlong(f, Nodes, links, to, factor) <=> \A n \in Nodes : f[n] = Sums(n, f)
  <2>1. ASSUME NEW n \in Nodes, n \in listed
        PROVE  [p \in links[n] |-> factor[p] * f[to[p]]]
                 = [p \in Rights(n) |-> Weight(pathCost[p]) * f[p[2]]]
    <3>1. \A p \in Rights(n) : factor[p] = Weight(pathCost[p]) /\ to[p] = p[2]
      BY <1>1 DEF PairWeights
    <3>2. links[n] = Rights(n)
      BY <2>1
    <3> HIDE DEF factor, to, links
    <3> QED
      BY <3>1, <3>2
  <2>2. \A n \in Nodes : links[n] = IF n \in listed THEN Rights(n) ELSE {}
    OBVIOUS
  <2> HIDE DEF factor, to, links, listed
  <2> QED
    BY <2>1, <2>2 DEF SumsAlong
<1>6. PICK f \in [Nodes -> Int] : SumsAlong(f, Nodes, links, to, factor)
  <2> HIDE DEF bound, rank, links, to, factor
  <2> QED
    BY <1>4, SumRecursion
<1>7. f = [n \in Nodes |-> Sums(n, f)]
  <2> HIDE DEF factor, to, links, Sums
  <2> QED
    BY <1>5, <1>6
<1>8. CalcBeta = [n \in Nodes |-> Sums(n, CalcBeta)]
  BY <1>7 DEF CalcBeta
<1>9. \A n \in Nodes : CalcBeta[n] = Sums(n, CalcBeta)
  <2> DEFINE a == CalcBeta
  <2> HIDE DEF a, Sums
  <2>1. a = [n \in Nodes |-> Sums(n, a)]
    BY <1>8 DEF a
  <2>2. \A n \in Nodes : a[n] = Sums(n, a)
    BY <2>1
  <2> QED
    BY <2>2 DEF a
<1>10. \A n \in Nodes : CalcBeta[n] \in Int
  <2> HIDE DEF bound, rank, links, to, factor, Sums
  <2> QED
    BY <1>4, <1>5, <1>9, SumsAreInts
<1> QED
  BY <1>9, <1>10

(***************************************************************************)
(* alpha is the weight of all ways that lead to a node.                    *)
(***************************************************************************)
Weights == [s \in Paths |-> WeightOf(s)]
RoutesTo(n) == {s \in Paths : Route(s) /\ s[Len(s)] = n}

LEMMA RouteFacts ==
  ASSUME NEW n, NEW t \in RoutesTo(n)
  PROVE  t \in Paths /\ Route(t) /\ t[Len(t)] = n
BY DEF RoutesTo

(* The beginning of a way is a way. *)
LEMMA PrefixRoute ==
  ASSUME NEW s, Route(s), NEW m \in 1..Len(s)
  PROVE  \E t : /\ Route(t) /\ Len(t) = m /\ t[Len(t)] = s[m]
                /\ \A i \in 1..m : t[i] = s[i]
<1>1. /\ s \in Paths /\ Connected(s) /\ s[1] = BOS /\ s \in Seq(Nodes)
      /\ Len(s) \in Nat /\ Len(s) >= 1 /\ \A i \in 1..Len(s) : s[i] \in Nodes
  BY LenOfPath DEF Route
<1> DEFINE t == [i \in 1..m |-> s[i]]
<1>2. m \in Nat /\ m >= 1 /\ m <= Len(s)
  BY <1>1
<1>3. t \in Seq(Nodes) /\ Len(t) = m /\ \A i \in 1..m : t[i] = s[i]
  <2>1. t \in [1..m -> Nodes]
    BY <1>1, <1>2
  <2> QED
    BY <1>2, <2>1
<1> HIDE DEF t
<1>4. t \in Paths
  BY <1>2, <1>3, EmptySeq DEF Paths
<1>5. ASSUME NEW i \in 1..(Len(t) - 1) PROVE <<t[i], t[i + 1]>> \in Pairs(lexicon)
  <2>1. i \in 1..m /\ i + 1 \in 1..m /\ i \in 1..(Len(s) - 1)
    BY <1>1, <1>2, <1>3
  <2> QED
    BY <1>1, <1>3, <2>1 DEF Connected
<1>6. t[1] = BOS /\ t[Len(t)] = s[m]
  BY <1>1, <1>2, <1>3
<1> QED
  BY <1>3, <1>4, <1>5, <1>6 DEF Route, Connected

(* Every way to a node behind BOS is a way to a left node, and the node. *)
LEMMA ButLast ==
  ASSUME InputOK, NEW s, Route(s), s[Len(s)] # BOS
  PROVE  \E t : /\ Route(t) /\ s = Append(t, s[Len(s)])
                /\ <<t[Len(t)], s[Len(s)]>> \in Pairs(lexicon)
<1>1. /\ s \in Paths /\ Connected(s) /\ s[1] = BOS /\ s \in Seq(Nodes)
      /\ Len(s) \in Nat /\ Len(s) >= 1 /\ \A i \in 1..Len(s) : s[i] \in Nodes
  BY LenOfPath DEF Route
<1>2. Len(s) # 1
  BY <1>1
<1> DEFINE m == Len(s) - 1
<1>3. m \in Nat /\ m >= 1 /\ m + 1 = Len(s) /\ m \in 1..(Len(s) - 1) /\ m \in 1..Len(s)
  BY <1>1, <1>2
<1> HIDE DEF m
<1>4. PICK t : /\ Route(t) /\ Len(t) = m /\ t[Len(t)] = s[m]
               /\ \A i \in 1..m : t[i] = s[i]
  BY <1>3, PrefixRoute
<1>5. t \in Seq(Nodes)
  BY <1>4, LenOfPath DEF Route
<1>6. <<t[Len(t)], s[Len(s)]>> \in Pairs(lexicon)
  <2>1. <<s[m], s[m + 1]>> \in Pairs(lexicon)
    BY <1>1, <1>3 DEF Connected
  <2> QED
    BY <1>3, <1>4, <2>1
<1>7. s = Append(t, s[Len(s)])
  <2> DEFINE n == s[Len(s)]
             q == Append(t, n)
  <2>1. n \in Nodes
    BY <1>1
  <2> HIDE DEF n
  <2>2. /\ q \in Seq(Nodes) /\ Len(q) = Len(t) + 1 /\ q[Len(t) + 1] = n
        /\ \A i \in 1..Len(t) : q[i] = t[i]
    BY <1>5, <2>1, AppendProperties
  <2> HIDE DEF q
  <2>3. Len(q) = Len(s)
    BY <1>3, <1>4, <2>2
  <2>4. ASSUME NEW i \in 1..Len(q) PROVE q[i] = s[i]
    <3>1. CASE i = Len(s)
      BY <1>3, <1>4, <2>2, <3>1 DEF n
    <3>2. CASE i # Len(s)
      <4>1. i \in 1..m /\ i \in 1..Len(t)
        BY <1>3, <1>4, <2>3, <3>2
      <4> QED
        BY <1>4, <2>2, <4>1
    <3> QED
      BY <3>1, <3>2
  <2>5. q = s
    BY <1>1, <2>2, <2>3, <2>4, SeqEqual
  <2> QED
    BY <2>5 DEF q, n
<1> QED
  BY <1>4, <1>6, <1>7

LEMMA AppendedIsInjective ==
  ASSUME NEW n \in Nodes, NEW t \in Paths, NEW u \in Paths, Append(t, n) = Append(u, n)
  PROVE  t = u
<1>1. /\ t \in Seq(Nodes) /\ u \in Seq(Nodes) /\ Len(t) \in Nat /\ Len(u) \in Nat
  BY LenOfPath
<1> DEFINE q == Append(t, n)
           r == Append(u, n)
<1>2. Len(q) = Len(t) + 1 /\ \A i \in 1..Len(t) : q[i] = t[i]
  BY <1>1, AppendProperties
<1>3. Len(r) = Len(u) + 1 /\ \A i \in 1..Len(u) : r[i] = u[i]
  BY <1>1, AppendProperties
<1>4. q = r
  OBVIOUS
<1> HIDE DEF q, r
<1>5. Len(t) = Len(u)
  BY <1>1, <1>2, <1>3, <1>4
<1>6. \A i \in 1..Len(t) : t[i] = u[i]
  BY <1>2, <1>3, <1>4, <1>5
<1> QED
  BY <1>1, <1>5, <1>6, SeqEqual

LEMMA LeftsFacts ==
  ASSUME LatticeBuilt, NEW n \in lexicon \cup {EOS}
  PROVE  Lefts(n) # {} /\ n \in Nodes /\ n # BOS
<1>1. InputOK /\ paths = Pairs(lexicon) /\ lexicon \subseteq Words /\ n \in Nodes /\ n # BOS
  BY ConstantFacts DEF LatticeBuilt, InputOK, Nodes
<1>2. \E l \in lexicon \cup {BOS} : Ends(l) = IF n = EOS THEN EndOfText(lexicon) ELSE Begin[n]
  <2>1. CASE n = EOS
    BY <1>1, <2>1, EndOfTextFacts
  <2>2. CASE n # EOS
    <3>1. Begin[n] = 0 \/ \E v \in lexicon : End[v] = Begin[n]
      BY <1>1, <2>2, LexiconFacts
    <3>2. Ends(BOS) = 0 /\ \A v \in lexicon : Ends(v) = End[v]
      BY <1>1, ConstantFacts DEF Ends
    <3> QED
      BY <2>2, <3>1, <3>2
  <2> QED
    BY <2>1, <2>2
<1>3. PICK l \in lexicon \cup {BOS} : <<l, n>> \in Pairs(lexicon)
  BY <1>2, IsPair
<1>4. <<l, n>>[2] = n
  OBVIOUS
<1>5. <<l, n>> \in Lefts(n)
  BY <1>1, <1>3, <1>4 DEF Lefts
<1> QED
  BY <1>1, <1>5

LEMMA RoutesToBos ==
  ASSUME LatticeBuilt
  PROVE  /\ RoutesTo(BOS) = {<<BOS>>} /\ WeightOf(<<BOS>>) = 1
         /\ <<BOS>> \in Paths /\ Lefts(BOS) = {}
<1>1. InputOK /\ paths = Pairs(lexicon) /\ lexicon \subseteq Words
  BY DEF LatticeBuilt, InputOK
<1> DEFINE b == <<BOS>>
<1>2. b \in Seq(Nodes) /\ Len(b) = 1 /\ b[1] = BOS
  BY NodesDiffer
<1> HIDE DEF b
<1>3. b \in Paths /\ Connected(b) /\ Route(b) /\ b[Len(b)] = BOS
  <2>1. b \in Paths
    BY <1>2, EmptySeq DEF Paths
  <2>2. Connected(b)
    BY <1>2 DEF Connected
  <2> QED
    BY <1>2, <2>1, <2>2 DEF Route
<1>4. ASSUME NEW s \in RoutesTo(BOS) PROVE s = b
  <2>1. s \in Paths /\ Route(s) /\ s[Len(s)] = BOS /\ Connected(s) /\ s[1] = BOS
        /\ Len(s) \in Nat /\ Len(s) >= 1 /\ s \in Seq(Nodes)
    BY LenOfPath DEF RoutesTo, Route
  <2>2. Len(s) = 1
    <3> SUFFICES ASSUME Len(s) # 1 PROVE FALSE
      OBVIOUS
    <3> DEFINE i == Len(s) - 1
    <3>1. i \in 1..(Len(s) - 1) /\ i + 1 = Len(s)
      <4>1. Len(s) \in Nat /\ Len(s) >= 1 /\ Len(s) # 1
        BY <2>1
      <4> QED
        BY <4>1, LongerThanOne, Zenon
    <3> HIDE DEF i
    <3> QED
      BY <1>1, <2>1, <3>1, ConnectedNodes
  <2> QED
    BY <1>2, <2>1, <2>2, SeqEqual
<1>5. RoutesTo(BOS) = {b}
  BY <1>3, <1>4 DEF RoutesTo
<1>6. WeightOf(b) = 1
  BY <1>1, <1>2, <1>3, WeightUpToFacts DEF WeightOf
<1>7. Lefts(BOS) = {}
  <2> SUFFICES ASSUME NEW p \in Pairs(lexicon), p[2] = BOS PROVE FALSE
    BY <1>1 DEF Lefts
  <2> QED
    BY <1>1, PairFacts, ConstantFacts
<1> QED
  BY <1>3, <1>5, <1>6, <1>7 DEF b

(* The ways to a node, sorted by the path object they end with. *)
LEMMA RoutesByLast ==
  ASSUME LatticeBuilt, NEW n \in lexicon \cup {EOS}
  PROVE  /\ RoutesTo(n) = UNION {{Append(t, n) : t \in RoutesTo(p[1])} : p \in Lefts(n)}
         /\ PartsApart([p \in Lefts(n) |-> {Append(t, n) : t \in RoutesTo(p[1])}], Lefts(n))
<1>1. InputOK /\ paths = Pairs(lexicon) /\ n \in Nodes /\ n # BOS
  BY LeftsFacts DEF LatticeBuilt
<1> DEFINE Part(p) == {Append(t, n) : t \in RoutesTo(p[1])}
<1>2. ASSUME NEW p \in Lefts(n)
      PROVE  p = <<p[1], n>> /\ p \in Pairs(lexicon)
  BY <1>1, PairFacts DEF Lefts
<1>3. ASSUME NEW p \in Lefts(n), NEW t \in RoutesTo(p[1])
      PROVE  /\ Append(t, n) \in RoutesTo(n) /\ t \in Paths /\ t[Len(t)] = p[1]
  <2>1. t \in Paths /\ Route(t) /\ t[Len(t)] = p[1]
    BY RouteFacts
  <2>2. <<t[Len(t)], n>> \in Pairs(lexicon)
    BY <1>2, <2>1
  <2>3. Route(Append(t, n)) /\ Append(t, n)[Len(Append(t, n))] = n
    BY <1>1, <2>1, <2>2, AppendRoute
  <2> QED
    BY <2>1, <2>3 DEF RoutesTo, Route
<1>4. ASSUME NEW s \in RoutesTo(n) PROVE \E p \in Lefts(n) : s \in Part(p)
  <2>1. s \in Paths /\ Route(s) /\ s[Len(s)] = n
    BY RouteFacts
  <2>2. PICK t : Route(t) /\ s = Append(t, n) /\ <<t[Len(t)], n>> \in Pairs(lexicon)
    BY <1>1, <2>1, ButLast
  <2> DEFINE p == <<t[Len(t)], n>>
  <2>3. p \in Lefts(n) /\ p[1] = t[Len(t)]
    BY <1>1, <2>2 DEF Lefts
  <2>4. t \in RoutesTo(p[1])
    BY <2>2, <2>3 DEF RoutesTo, Route
  <2> QED
    BY <2>2, <2>3, <2>4
<1>5. ASSUME NEW p \in Lefts(n), NEW q \in Lefts(n), p # q
      PROVE  Part(p) \cap Part(q) = {}
  <2> SUFFICES ASSUME NEW t \in RoutesTo(p[1]), NEW u \in RoutesTo(q[1]), Append(t, n) = Append(u, n)
               PROVE  FALSE
    OBVIOUS
  <2>1. t = u
    BY <1>1, <1>3, AppendedIsInjective
  <2>2. p[1] = q[1]
    BY <1>3, <2>1
  <2> QED
    BY <1>2, <1>5, <2>2
<1>6. RoutesTo(n) = UNION {Part(p) : p \in Lefts(n)}
  <2>1. \A p \in Lefts(n) : Part(p) \subseteq RoutesTo(n)
    BY <1>3
  <2> HIDE DEF Part
  <2> QED
    BY <1>4, <2>1
<1>7. PartsApart([p \in Lefts(n) |-> Part(p)], Lefts(n))
  <2> HIDE DEF Part
  <2> QED
    BY <1>5 DEF PartsApart
<1> QED
  BY <1>6, <1>7

SumTo(n) == SumFunctionOnSet(Weights, RoutesTo(n))

(* One path object's share of the ways to a node. *)
LEMMA WeightOfPart ==
  ASSUME LatticeBuilt, NEW n \in lexicon \cup {EOS}, NEW p \in Lefts(n),
         Summable(Weights, RoutesTo(p[1]))
  PROVE  /\ Summable(Weights, {Append(t, n) : t \in RoutesTo(p[1])})
         /\ SumFunctionOnSet(Weights, {Append(t, n) : t \in RoutesTo(p[1])})
              = Weight(pathCost[p]) * SumTo(p[1])
<1> DEFINE R == RoutesTo(p[1])
           m == [t \in R |-> Append(t, n)]
           c == Weight(pathCost[p])
           f == [t \in R |-> c * Weights[t]]
<1>1. InputOK /\ paths = Pairs(lexicon) /\ n \in Nodes
  BY LeftsFacts DEF LatticeBuilt
<1>2. p = <<p[1], n>> /\ p \in Pairs(lexicon) /\ c \in Int
  BY <1>1, PairFacts, WeightOfPair DEF Lefts
<1>3. ASSUME NEW t \in R
      PROVE  t \in Paths /\ Append(t, n) \in Paths /\ Weights[Append(t, n)] = c * Weights[t]
  <2>1. t \in Paths /\ Route(t) /\ t[Len(t)] = p[1]
    BY RouteFacts
  <2>2. <<t[Len(t)], n>> \in Pairs(lexicon) /\ <<t[Len(t)], n>> = p
    BY <1>2, <2>1
  <2>3. Append(t, n) \in Paths
    BY <1>1, <2>1, <2>2, AppendRoute DEF Route
  <2>4. WeightOf(Append(t, n)) = c * WeightOf(t)
    BY <1>1, <2>1, <2>2, WeightOfAppend
  <2> QED
    BY <2>1, <2>3, <2>4 DEF Weights
<1>4. \A x, y \in R : m[x] = m[y] => x = y
  BY <1>1, <1>3, AppendedIsInjective
<1> HIDE DEF c
<1>5. \A t \in R : Weights[m[t]] = f[t] /\ f[t] = c * Weights[t]
  BY <1>3
<1>6. {m[t] : t \in R} = {Append(t, n) : t \in R}
  OBVIOUS
<1>7. Summable(f, R) /\ SumFunctionOnSet(f, R) = c * SumTo(p[1])
  <2> HIDE DEF f, m
  <2> QED
    BY <1>2, <1>5, SumTimes DEF SumTo
<1>8. /\ Summable(Weights, {m[t] : t \in R})
      /\ SumFunctionOnSet(Weights, {m[t] : t \in R}) = SumFunctionOnSet(f, R)
  <2> HIDE DEF f, m, R
  <2> QED
    BY <1>4, <1>5, <1>7, SumOfImage
<1> QED
  BY <1>6, <1>7, <1>8 DEF c

LEMMA AlphaIsSum ==
  ASSUME LatticeBuilt
  PROVE  \A n \in lexicon \cup {BOS, EOS} :
           Summable(Weights, RoutesTo(n)) /\ CalcAlpha[n] = SumTo(n)
<1> DEFINE Sums(n) == Summable(Weights, RoutesTo(n)) /\ CalcAlpha[n] = SumTo(n)
           Known == lexicon \cup {BOS, EOS}
           T == {k \in Nat : \A n \in Known : Rank(n) < k => Sums(n)}
<1>1. /\ InputOK /\ paths = Pairs(lexicon) /\ Known \subseteq Nodes
      /\ \A n \in Nodes : Rank(n) \in 0..(Size + 1)
  BY BuiltPairs DEF LatticeBuilt, InputOK, Nodes
<1>2. Sums(BOS)
  <2> DEFINE b == <<BOS>>
  <2>1. RoutesTo(BOS) = {b} /\ Weights[b] = 1 /\ CalcAlpha[BOS] = 1
    BY RoutesToBos, NodesDiffer, CalcAlphaFacts DEF Weights
  <2> HIDE DEF b
  <2>2. Summable(Weights, {b}) /\ SumFunctionOnSet(Weights, {b}) = 1
    BY <2>1, SumOfOne
  <2> QED
    BY <2>1, <2>2 DEF SumTo
<1>3. 0 \in T
  BY <1>1
<1>4. ASSUME NEW k \in Nat, k \in T, NEW n \in lexicon \cup {EOS}, Rank(n) < k + 1
      PROVE  Sums(n)
  <2> DEFINE L == Lefts(n)
             part == [p \in L |-> {Append(t, n) : t \in RoutesTo(p[1])}]
             g == [p \in L |-> Weight(pathCost[p]) * CalcAlpha[p[1]]]
  <2>1. ASSUME NEW p \in L PROVE Sums(p[1])
    <3>1. p \in paths /\ p[2] = n
      BY DEF Lefts
    <3>2. p[1] \in Known
      BY <1>1, <3>1, PairFacts
    <3>3. Rank(p[1]) < Rank(n) /\ Rank(n) \in Nat /\ Rank(p[1]) \in Nat
      BY <1>1, <3>1, <3>2, BuiltPairs, ConstantFacts
    <3>4. Rank(p[1]) < k
      BY <1>4, <3>3
    <3> HIDE DEF Sums
    <3> QED
      BY <1>4, <3>2, <3>4
  <2>2. \A p \in L : Summable(Weights, part[p]) /\ g[p] = SumFunctionOnSet(Weights, part[p])
    <3> SUFFICES ASSUME NEW p \in L
                 PROVE  Summable(Weights, part[p]) /\ g[p] = SumFunctionOnSet(Weights, part[p])
      OBVIOUS
    <3>1. Summable(Weights, RoutesTo(p[1])) /\ CalcAlpha[p[1]] = SumTo(p[1])
      BY <2>1
    <3>2. part[p] = {Append(t, n) : t \in RoutesTo(p[1])} /\ g[p] = Weight(pathCost[p]) * SumTo(p[1])
      BY <3>1
    <3> HIDE DEF part, g
    <3> QED
      BY <3>1, <3>2, WeightOfPart
  <2>3. IsFiniteSet(L)
    <3>1. L \subseteq paths
      BY DEF Lefts
    <3> QED
      BY <3>1, BuiltPairs, FS_Subset
  <2>4. PartsApart(part, L)
    BY RoutesByLast
  <2>5. RoutesTo(n) = AllOf(part, L)
    BY RoutesByLast DEF AllOf
  <2>6. /\ Summable(Weights, AllOf(part, L))
        /\ SumFunctionOnSet(Weights, AllOf(part, L)) = SumFunctionOnSet(g, L)
    <3> HIDE DEF part, L, g
    <3> QED
      BY <2>2, <2>3, <2>4, SumOfUnion
  <2>7. CalcAlpha[n] = SumFunction(g)
    BY LeftsFacts, CalcAlphaFacts
  <2>8. SumFunction(g) = SumFunctionOnSet(g, L)
    BY DEF SumFunction
  <2> HIDE DEF part, L, g
  <2> QED
    BY <2>5, <2>6, <2>7, <2>8 DEF SumTo
<1>5. ASSUME NEW k \in Nat, k \in T PROVE k + 1 \in T
  <2> HIDE DEF Sums
  <2> QED
    BY <1>2, <1>4, <1>5
<1>6. Size + 2 \in T
  <2> HIDE DEF T
  <2> QED
    BY <1>3, <1>5, NatSetInduction, ConstantFacts
<1>7. \A n \in Known : Rank(n) < Size + 2
  BY <1>1, ConstantFacts
<1> QED
  BY <1>6, <1>7

(***************************************************************************)
(* What follows a way on the ways to EOS weighs what beta says.            *)
(***************************************************************************)
GoesOn(t, s) == Len(t) <= Len(s) /\ \A i \in 1..Len(t) : s[i] = t[i]
FullRoutes == {s \in Paths : Route(s) /\ s[Len(s)] = EOS}
Completions(t) == {s \in FullRoutes : GoesOn(t, s)}
SumFrom(t) == SumFunctionOnSet(Weights, Completions(t))

Listed == UNION {endNodes[p] : p \in 0..Size}

LEMMA FullRouteFacts ==
  ASSUME LatticeBuilt, NEW s \in FullRoutes
  PROVE  /\ s \in Paths /\ s \in Seq(Nodes) /\ Route(s) /\ Connected(s) /\ s[1] = BOS
         /\ s[Len(s)] = EOS /\ Len(s) \in Nat /\ Len(s) >= 1
BY LenOfPath DEF FullRoutes, Route

LEMMA CompletionOfFull ==
  ASSUME LatticeBuilt, NEW t \in FullRoutes
  PROVE  Completions(t) = {t}
<1>1. InputOK
  BY DEF LatticeBuilt
<1>2. /\ t \in Paths /\ t \in Seq(Nodes) /\ t[Len(t)] = EOS /\ Len(t) \in Nat /\ Len(t) >= 1
  BY FullRouteFacts
<1>3. t \in Completions(t)
  BY <1>2 DEF Completions, GoesOn
<1>4. ASSUME NEW s \in Completions(t) PROVE s = t
  <2>1. s \in FullRoutes /\ Len(t) <= Len(s) /\ \A i \in 1..Len(t) : s[i] = t[i]
    BY DEF Completions, GoesOn
  <2>2. s \in Paths /\ s \in Seq(Nodes) /\ Connected(s) /\ Len(s) \in Nat
    BY <2>1, FullRouteFacts
  <2>3. Len(s) = Len(t)
    <3> SUFFICES ASSUME Len(s) # Len(t) PROVE FALSE
      OBVIOUS
    <3>1. Len(t) \in 1..(Len(s) - 1) /\ Len(t) \in 1..Len(t)
      BY <1>2, <2>1, <2>2
    <3>2. s[Len(t)] # EOS
      BY <1>1, <2>2, <3>1, ConnectedNodes
    <3> QED
      BY <1>2, <2>1, <3>1, <3>2
  <2> QED
    BY <1>2, <2>1, <2>2, <2>3, SeqEqual
<1> QED
  BY <1>3, <1>4

(* A way and what follows it directly. *)
LEMMA GoesOnWith ==
  ASSUME LatticeBuilt, NEW t, Route(t), NEW n, <<t[Len(t)], n>> \in Pairs(lexicon)
  PROVE  /\ Route(Append(t, n)) /\ Append(t, n)[Len(Append(t, n))] = n
         /\ \A s \in FullRoutes :
              s \in Completions(Append(t, n)) <=>
                Len(t) + 1 <= Len(s) /\ s[Len(t) + 1] = n /\ \A i \in 1..Len(t) : s[i] = t[i]
<1> DEFINE q == Append(t, n)
<1>1. InputOK /\ Len(t) \in Nat
  BY LenOfPath DEF LatticeBuilt, Route
<1>2. Route(q) /\ Len(q) = Len(t) + 1 /\ q[Len(q)] = n /\ \A i \in 1..Len(t) : q[i] = t[i]
  BY <1>1, AppendRoute
<1> HIDE DEF q
<1>3. ASSUME NEW s \in FullRoutes
      PROVE  s \in Completions(q) <=>
               Len(t) + 1 <= Len(s) /\ s[Len(t) + 1] = n /\ \A i \in 1..Len(t) : s[i] = t[i]
  <2>1. s \in Completions(q) <=> Len(q) <= Len(s) /\ \A i \in 1..Len(q) : s[i] = q[i]
    BY DEF Completions, GoesOn
  <2>2. (\A i \in 1..Len(q) : s[i] = q[i])
          <=> s[Len(t) + 1] = n /\ \A i \in 1..Len(t) : s[i] = t[i]
    BY <1>1, <1>2
  <2> QED
    BY <1>2, <2>1, <2>2
<1> QED
  BY <1>2, <1>3 DEF q

(* The completions of a way, sorted by the path object it goes on with. *)
LEMMA CompletionsByNext ==
  ASSUME LatticeBuilt, NEW t, Route(t), NEW n, t[Len(t)] = n, n # EOS
  PROVE  /\ Completions(t) = UNION {Completions(Append(t, p[2])) : p \in Rights(n)}
         /\ PartsApart([p \in Rights(n) |-> Completions(Append(t, p[2]))], Rights(n))
         /\ \A p \in Rights(n) : /\ Route(Append(t, p[2]))
                                 /\ Append(t, p[2])[Len(Append(t, p[2]))] = p[2]
                                 /\ p = <<n, p[2]>> /\ p \in Pairs(lexicon)
<1>1. /\ InputOK /\ paths = Pairs(lexicon)
      /\ t \in Paths /\ t \in Seq(Nodes) /\ Len(t) \in Nat /\ Len(t) >= 1
  BY LenOfPath DEF LatticeBuilt, Route
<1> DEFINE Part(p) == Completions(Append(t, p[2]))
<1>2. ASSUME NEW p \in Rights(n)
      PROVE  /\ p = <<n, p[2]>> /\ p \in Pairs(lexicon)
             /\ <<t[Len(t)], p[2]>> \in Pairs(lexicon)
  BY <1>1, PairFacts DEF Rights
<1>3. ASSUME NEW p \in Rights(n)
      PROVE  /\ Route(Append(t, p[2])) /\ Append(t, p[2])[Len(Append(t, p[2]))] = p[2]
             /\ \A s \in FullRoutes :
                  s \in Part(p) <=> Len(t) + 1 <= Len(s) /\ s[Len(t) + 1] = p[2]
                                    /\ \A i \in 1..Len(t) : s[i] = t[i]
  <2>1. PICK m : m = p[2]
    OBVIOUS
  <2>2. <<t[Len(t)], m>> \in Pairs(lexicon)
    BY <1>2, <2>1
  <2>3. /\ Route(Append(t, m)) /\ Append(t, m)[Len(Append(t, m))] = m
        /\ \A s \in FullRoutes :
             s \in Completions(Append(t, m)) <=>
               Len(t) + 1 <= Len(s) /\ s[Len(t) + 1] = m /\ \A i \in 1..Len(t) : s[i] = t[i]
    BY <2>2, GoesOnWith
  <2> QED
    BY <2>1, <2>3, Zenon
<1>4. \A p \in Rights(n) : Part(p) \subseteq FullRoutes
  BY DEF Completions
<1>5. ASSUME NEW p \in Rights(n), NEW s \in Part(p) PROVE s \in Completions(t)
  <2>1. s \in FullRoutes /\ Len(s) \in Nat
    BY <1>4, FullRouteFacts
  <2>2. Len(t) + 1 <= Len(s) /\ \A i \in 1..Len(t) : s[i] = t[i]
    BY <1>3, <2>1
  <2> QED
    BY <1>1, <2>1, <2>2 DEF Completions, GoesOn
<1>6. ASSUME NEW s \in Completions(t) PROVE \E p \in Rights(n) : s \in Part(p)
  <2>1. s \in FullRoutes /\ Len(t) <= Len(s) /\ \A i \in 1..Len(t) : s[i] = t[i]
    BY DEF Completions, GoesOn
  <2>2. s \in Paths /\ Connected(s) /\ Len(s) \in Nat /\ s[Len(s)] = EOS
    BY <2>1, FullRouteFacts
  <2>3. Len(t) \in 1..Len(t) /\ s[Len(t)] = n
    BY <1>1, <2>1
  <2>4. Len(s) # Len(t)
    BY <2>2, <2>3
  <2>5. Len(t) \in 1..(Len(s) - 1) /\ Len(t) + 1 <= Len(s)
    BY <1>1, <2>1, <2>2, <2>4
  <2> DEFINE p == <<n, s[Len(t) + 1]>>
  <2>6. p \in Pairs(lexicon)
    BY <2>2, <2>3, <2>5 DEF Connected
  <2>7. p \in Rights(n) /\ p[2] = s[Len(t) + 1]
    BY <1>1, <2>6 DEF Rights
  <2> HIDE DEF p, Part
  <2> QED
    BY <1>3, <2>1, <2>5, <2>7
<1>7. ASSUME NEW p \in Rights(n), NEW q \in Rights(n), p # q
      PROVE  Part(p) \cap Part(q) = {}
  <2> SUFFICES ASSUME NEW s \in Part(p), s \in Part(q) PROVE FALSE
    OBVIOUS
  <2>1. s \in FullRoutes
    BY <1>4
  <2> HIDE DEF Part
  <2>2. s[Len(t) + 1] = p[2] /\ s[Len(t) + 1] = q[2]
    BY <1>3, <2>1
  <2>3. p = <<n, p[2]>> /\ q = <<n, q[2]>>
    BY <1>2
  <2>4. p[2] = q[2]
    BY <2>2
  <2> QED
    BY <1>7, <2>3, <2>4
<1>8. Completions(t) = UNION {Part(p) : p \in Rights(n)}
  <2> HIDE DEF Part
  <2> QED
    BY <1>5, <1>6
<1>9. PartsApart([p \in Rights(n) |-> Part(p)], Rights(n))
  <2> HIDE DEF Part
  <2> QED
    BY <1>7 DEF PartsApart
<1> QED
  BY <1>2, <1>3, <1>8, <1>9

(* Without white space at the end, every word is followed by something. *)
LEMMA RightsFacts ==
  ASSUME LatticeBuilt, ~HasOvershoot, NEW n \in lexicon
  PROVE  Rights(n) # {}
<1>1. InputOK /\ paths = Pairs(lexicon) /\ lexicon \subseteq Words /\ TextEnd = Size
  BY TextIsSentence DEF LatticeBuilt, InputOK
<1>2. Ends(n) = End[n] /\ End[n] \in 0..Size
  BY <1>1, ConstantFacts DEF Ends, HasOvershoot
<1>3. \E r \in lexicon \cup {EOS} : Ends(n) = Starts(r)
  <2>1. CASE End[n] = Size
    BY <1>1, <1>2, <2>1 DEF Starts
  <2>2. CASE End[n] # Size
    <3>1. End[n] \in 0..(Size - 1)
      BY <1>2, <2>2, ConstantFacts
    <3>2. PICK w \in lexicon : Begin[w] = End[n]
      BY <1>1, <3>1, LexiconFacts
    <3>3. Starts(w) = Begin[w]
      BY <1>1, ConstantFacts DEF Starts
    <3> QED
      BY <1>2, <3>2, <3>3
  <2> QED
    BY <2>1, <2>2
<1>4. PICK r \in lexicon \cup {EOS} : <<n, r>> \in Pairs(lexicon)
  BY <1>1, <1>3, PairStarts
<1>5. <<n, r>>[1] = n
  OBVIOUS
<1> QED
  BY <1>1, <1>4, <1>5 DEF Rights

LEMMA WeightOfRoute ==
  ASSUME InputOK, NEW t, Route(t)
  PROVE  t \in Paths /\ WeightOf(t) \in Int /\ Weights[t] = WeightOf(t)
<1>1. t \in Paths /\ Connected(t) /\ Len(t) \in Nat /\ Len(t) >= 1
  BY LenOfPath DEF Route
<1>2. Len(t) \in 1..Len(t)
  BY <1>1
<1>3. WeightUpTo(t)[Len(t)] \in Int
  BY <1>1, <1>2, WeightUpToFacts
<1> QED
  BY <1>1, <1>3 DEF WeightOf, Weights

LEMMA BetaIsSum ==
  ASSUME LatticeBuilt, ~HasOvershoot, lexicon \subseteq Listed
  PROVE  \A t : Route(t) /\ t[Len(t)] \in lexicon \cup {EOS} =>
           /\ Summable(Weights, Completions(t))
           /\ SumFrom(t) = WeightOf(t) * CalcBeta[t[Len(t)]]
<1> DEFINE Tip(t) == t[Len(t)]
           Sums(t) == /\ Summable(Weights, Completions(t))
                      /\ SumFrom(t) = WeightOf(t) * CalcBeta[Tip(t)]
           Here(t) == Route(t) /\ Tip(t) \in lexicon \cup {EOS}
           T == {k \in Nat : \A t : Here(t) /\ Rank(Tip(t)) + k > Size + 1 => Sums(t)}
<1>1. /\ InputOK /\ paths = Pairs(lexicon) /\ lexicon \subseteq Words
      /\ lexicon \cup {EOS} \subseteq Nodes
      /\ \A n \in Nodes : Rank(n) \in 0..(Size + 1)
  BY BuiltPairs DEF LatticeBuilt, InputOK, Nodes
<1>2. 0 \in T
  <2> HIDE DEF Sums
  <2>1. \A n \in lexicon \cup {EOS} : ~(Rank(n) + 0 > Size + 1)
    BY <1>1, ConstantFacts
  <2> QED
    BY <2>1
<1>3. ASSUME NEW t, Route(t), Tip(t) = EOS PROVE Sums(t)
  <2>1. t \in FullRoutes /\ WeightOf(t) \in Int /\ Weights[t] = WeightOf(t)
    BY <1>1, <1>3, WeightOfRoute DEF FullRoutes
  <2>2. Completions(t) = {t}
    BY <2>1, CompletionOfFull
  <2>3. Rights(EOS) = {}
    <3> SUFFICES ASSUME NEW p \in Pairs(lexicon), p[1] = EOS PROVE FALSE
      BY <1>1 DEF Rights
    <3> QED
      BY <1>1, PairFacts, ConstantFacts
  <2>4. CalcBeta[EOS] = 1
    BY <1>1, <2>3, CalcBetaFacts
  <2>5. Summable(Weights, {t}) /\ SumFunctionOnSet(Weights, {t}) = WeightOf(t)
    BY <2>1, SumOfOne
  <2> QED
    BY <1>3, <2>1, <2>2, <2>4, <2>5 DEF SumFrom
<1>4. ASSUME NEW k \in Nat, k \in T, NEW t, Route(t), NEW n \in lexicon, Tip(t) = n,
             Rank(n) + (k + 1) > Size + 1
      PROVE  Sums(t)
  <2> DEFINE R == Rights(n)
             part == [p \in R |-> Completions(Append(t, p[2]))]
             b == [p \in R |-> Weight(pathCost[p]) * CalcBeta[p[2]]]
             g == [p \in R |-> WeightOf(t) * b[p]]
  <2>1. n # EOS /\ n \in Listed /\ n \in Nodes
    BY <1>1, ConstantFacts
  <2>2. /\ Completions(t) = AllOf(part, R)
        /\ PartsApart(part, R)
    BY <1>4, <2>1, CompletionsByNext DEF AllOf
  <2>3. ASSUME NEW p \in R
        PROVE  /\ Summable(Weights, part[p]) /\ g[p] = SumFunctionOnSet(Weights, part[p])
               /\ b[p] \in Int
    <3> DEFINE q == Append(t, p[2])
    <3>1. Route(q) /\ Tip(q) = p[2] /\ p = <<n, p[2]>> /\ p \in Pairs(lexicon)
      BY <1>4, <2>1, CompletionsByNext
    <3>2. p[2] \in lexicon \cup {EOS} /\ p[2] \in Nodes /\ p \in paths /\ p[1] = n
      BY <1>1, <3>1, PairFacts
    <3>3. Rank(n) < Rank(p[2]) /\ Rank(n) \in Nat /\ Rank(p[2]) \in Nat
      BY <1>1, <2>1, <3>2, BuiltPairs, ConstantFacts
    <3>4. Rank(p[2]) + k > Size + 1
      BY <1>4, <3>3, ConstantFacts
    <3>5. WeightOf(q) = Weight(pathCost[p]) * WeightOf(t) /\ WeightOf(t) \in Int
      <4>1. PICK m : m = p[2]
        OBVIOUS
      <4>2. <<t[Len(t)], m>> \in Pairs(lexicon) /\ <<t[Len(t)], m>> = p
        BY <1>4, <3>1, <4>1
      <4>3. /\ WeightOf(t) \in Int
            /\ WeightOf(Append(t, m)) = Weight(pathCost[<<t[Len(t)], m>>]) * WeightOf(t)
        BY <1>1, <1>4, <4>2, WeightOfAppend
      <4> QED
        BY <4>1, <4>2, <4>3
    <3>6. part[p] = Completions(q)
      OBVIOUS
    <3>7. Weight(pathCost[p]) \in Int /\ CalcBeta[p[2]] \in Int
      BY <3>2, BuiltPairs, CalcBetaFacts
    <3>8. b[p] = Weight(pathCost[p]) * CalcBeta[p[2]] /\ g[p] = WeightOf(t) * b[p]
      OBVIOUS
    <3> HIDE DEF q, part, b, g
    <3>9. Sums(q)
      <4>1. Here(q) /\ Rank(Tip(q)) + k > Size + 1
        BY <3>1, <3>2, <3>4
      <4> HIDE DEF Sums, Here, Tip
      <4> QED
        BY <1>4, <4>1
    <3>10. SumFrom(q) = (Weight(pathCost[p]) * WeightOf(t)) * CalcBeta[p[2]]
      BY <3>1, <3>5, <3>9
    <3>11. SumFrom(q) = WeightOf(t) * (Weight(pathCost[p]) * CalcBeta[p[2]])
      BY <3>5, <3>7, <3>10, ProductsRegroup
    <3>12. b[p] \in Int
      BY <3>7, <3>8, ProductIsInt
    <3> QED
      BY <3>6, <3>8, <3>9, <3>11, <3>12 DEF SumFrom
  <2>4. IsFiniteSet(R)
    <3>1. R \subseteq paths
      BY DEF Rights
    <3> QED
      BY <3>1, BuiltPairs, FS_Subset
  <2>5. CalcBeta[n] = SumFunction(b)
    <3>1. Rights(n) # {}
      BY RightsFacts
    <3> QED
      BY <2>1, <3>1, CalcBetaFacts DEF Listed
  <2>6. SumFunction(b) = SumFunctionOnSet(b, R)
    BY DEF SumFunction
  <2>7. \A p \in R : g[p] = WeightOf(t) * b[p]
    OBVIOUS
  <2>8. WeightOf(t) \in Int
    BY <1>1, <1>4, WeightOfRoute
  <2> HIDE DEF R, part, b, g
  <2>9. /\ Summable(Weights, AllOf(part, R))
        /\ SumFunctionOnSet(Weights, AllOf(part, R)) = SumFunctionOnSet(g, R)
    <3>1. \A p \in R : Summable(Weights, part[p]) /\ g[p] = SumFunctionOnSet(Weights, part[p])
      BY <2>3
    <3>2. PartsApart(part, R)
      BY <2>2
    <3> HIDE DEF T, Sums, Here, Tip
    <3> QED
      BY <2>4, <3>1, <3>2, SumOfUnion
  <2>10. SumFunctionOnSet(g, R) = WeightOf(t) * SumFunctionOnSet(b, R)
    <3>1. Summable(b, R)
      BY <2>3, <2>4 DEF Summable
    <3> QED
      BY <2>7, <2>8, <3>1, SumTimes
  <2> QED
    BY <1>4, <2>2, <2>5, <2>6, <2>9, <2>10 DEF SumFrom
<1>5. ASSUME NEW k \in Nat, k \in T PROVE k + 1 \in T
  <2> HIDE DEF Sums
  <2> QED
    BY <1>3, <1>4, <1>5
<1>6. Size + 2 \in T
  <2> HIDE DEF T
  <2>1. Nat \subseteq T
    BY <1>2, <1>5, NatSetInduction
  <2> QED
    BY <2>1, ConstantFacts
<1>7. \A n \in lexicon \cup {EOS} : Rank(n) + (Size + 2) > Size + 1
  BY <1>1, ConstantFacts
<1> QED
  <2> HIDE DEF Sums
  <2>1. \A t : Here(t) => Sums(t)
    BY <1>6, <1>7
  <2> QED
    BY <2>1 DEF Sums

(* Two ways to the same node with the same way in common are the same. *)
LEMMA OneBeginning ==
  ASSUME LatticeBuilt, NEW n, NEW t \in RoutesTo(n), NEW u \in RoutesTo(n),
         NEW s \in FullRoutes, GoesOn(t, s), GoesOn(u, s)
  PROVE  t = u
<1>1. /\ t \in Paths /\ t \in Seq(Nodes) /\ t[Len(t)] = n /\ Len(t) \in Nat /\ Len(t) >= 1
      /\ u \in Paths /\ u \in Seq(Nodes) /\ u[Len(u)] = n /\ Len(u) \in Nat /\ Len(u) >= 1
  BY LenOfPath DEF RoutesTo
<1>2. s \in Paths /\ Connected(s) /\ Len(s) \in Nat /\ InputOK
  BY FullRouteFacts DEF LatticeBuilt
<1>3. Len(t) \in 1..Len(s) /\ Len(u) \in 1..Len(s) /\ s[Len(t)] = n /\ s[Len(u)] = n
  BY <1>1, <1>2 DEF GoesOn
<1>4. Len(t) = Len(u)
  BY <1>2, <1>3, RouteIsInjective DEF Injective
<1>5. \A i \in 1..Len(t) : t[i] = u[i]
  BY <1>4 DEF GoesOn
<1> QED
  BY <1>1, <1>4, <1>5, SeqEqual

(* The sum over all ways to a node of what follows them. *)
LEMMA SumOverRoutes ==
  ASSUME LatticeBuilt, NEW n \in lexicon \cup {BOS, EOS}, NEW part, NEW c \in Int,
         PartsApart(part, RoutesTo(n)),
         \A t \in RoutesTo(n) : /\ Summable(Weights, part[t])
                                /\ SumFunctionOnSet(Weights, part[t]) = c * WeightOf(t)
  PROVE  /\ Summable(Weights, AllOf(part, RoutesTo(n)))
         /\ SumFunctionOnSet(Weights, AllOf(part, RoutesTo(n))) = CalcAlpha[n] * c
<1>1. Summable(Weights, RoutesTo(n)) /\ CalcAlpha[n] = SumFunctionOnSet(Weights, RoutesTo(n))
  BY AlphaIsSum DEF SumTo
<1>2. SumFunctionOnSet(Weights, RoutesTo(n)) \in Int
  BY <1>1, SumFacts
<1>3. \A t \in RoutesTo(n) : /\ Summable(Weights, part[t])
                             /\ SumFunctionOnSet(Weights, part[t]) = c * Weights[t]
  BY DEF RoutesTo, Weights
<1>4. /\ Summable(Weights, AllOf(part, RoutesTo(n)))
      /\ SumFunctionOnSet(Weights, AllOf(part, RoutesTo(n)))
           = c * SumFunctionOnSet(Weights, RoutesTo(n))
  BY <1>1, <1>3, SumOfMultiples DEF Multiples
<1>5. c * SumFunctionOnSet(Weights, RoutesTo(n)) = SumFunctionOnSet(Weights, RoutesTo(n)) * c
  BY <1>2
<1> QED
  BY <1>1, <1>4, <1>5

(* alpha * beta is the weight of the ways through a node. *)
LEMMA ShareOfNode ==
  ASSUME LatticeBuilt, ~HasOvershoot, lexicon \subseteq Listed, NEW n \in lexicon
  PROVE  LET through == {s \in FullRoutes : Passes(s, n)} IN
         /\ Summable(Weights, through)
         /\ SumFunctionOnSet(Weights, through) = CalcAlpha[n] * CalcBeta[n]
<1> DEFINE through == {s \in FullRoutes : Passes(s, n)}
           I == RoutesTo(n)
           part == [t \in I |-> Completions(t)]
           c == CalcBeta[n]
<1>1. InputOK /\ n \in Nodes /\ c \in Int
  BY CalcBetaFacts DEF LatticeBuilt, InputOK, Nodes
<1>2. ASSUME NEW t \in I
      PROVE  /\ Summable(Weights, part[t])
             /\ SumFunctionOnSet(Weights, part[t]) = c * WeightOf(t)
  <2>1. Route(t) /\ t[Len(t)] = n /\ WeightOf(t) \in Int
    BY <1>1, RouteFacts, WeightOfRoute
  <2>2. Summable(Weights, Completions(t)) /\ SumFrom(t) = WeightOf(t) * c
    BY <2>1, BetaIsSum
  <2>3. part[t] = Completions(t)
    OBVIOUS
  <2> HIDE DEF part, c
  <2> QED
    BY <1>1, <2>1, <2>2, <2>3 DEF SumFrom
<1>3. PartsApart(part, I)
  <2> SUFFICES ASSUME NEW t \in I, NEW u \in I, t # u,
                      NEW s \in Completions(t), s \in Completions(u)
               PROVE  FALSE
    BY DEF PartsApart
  <2>1. s \in FullRoutes /\ GoesOn(t, s) /\ GoesOn(u, s)
    BY DEF Completions
  <2> QED
    BY <2>1, OneBeginning
<1>4. ASSUME NEW t \in I, NEW s \in Completions(t) PROVE s \in through
  <2>1. s \in FullRoutes /\ Len(t) <= Len(s) /\ \A i \in 1..Len(t) : s[i] = t[i]
    BY DEF Completions, GoesOn
  <2>2. t[Len(t)] = n /\ Len(t) \in Nat /\ Len(t) >= 1 /\ Len(s) \in Nat
    BY <2>1, RouteFacts, LenOfPath, FullRouteFacts
  <2>3. Len(t) \in 1..Len(s) /\ s[Len(t)] = n
    BY <2>1, <2>2
  <2> QED
    BY <2>1, <2>3 DEF Passes
<1>5. ASSUME NEW s \in through PROVE \E t \in I : s \in Completions(t)
  <2>1. PICK m \in 1..Len(s) : s[m] = n
    BY DEF Passes
  <2>2. s \in FullRoutes /\ Route(s) /\ Len(s) \in Nat
    BY FullRouteFacts
  <2>3. PICK t : Route(t) /\ Len(t) = m /\ t[Len(t)] = s[m] /\ \A i \in 1..m : t[i] = s[i]
    BY <2>2, PrefixRoute
  <2>4. t \in I
    BY <2>1, <2>3 DEF RoutesTo, Route
  <2>5. s \in Completions(t)
    BY <2>2, <2>3 DEF Completions, GoesOn
  <2> QED
    BY <2>4, <2>5
<1>6. AllOf(part, I) = through
  <2>1. \A t \in I : part[t] = Completions(t)
    OBVIOUS
  <2> HIDE DEF part, I, through
  <2> QED
    BY <1>4, <1>5, <2>1 DEF AllOf
<1>7. /\ Summable(Weights, AllOf(part, I))
      /\ SumFunctionOnSet(Weights, AllOf(part, I)) = CalcAlpha[n] * c
  <2> HIDE DEF part, c
  <2> QED
    BY <1>1, <1>2, <1>3, SumOverRoutes
<1> QED
  BY <1>6, <1>7

(* With the weight of a path object in between, those that take it. *)
LEMMA ShareOfPath ==
  ASSUME LatticeBuilt, ~HasOvershoot, lexicon \subseteq Listed, NEW p \in paths
  PROVE  LET along == {s \in FullRoutes : Takes(s, p)} IN
         /\ Summable(Weights, along)
         /\ SumFunctionOnSet(Weights, along)
              = CalcAlpha[p[1]] * (Weight(pathCost[p]) * CalcBeta[p[2]])
<1> DEFINE along == {s \in FullRoutes : Takes(s, p)}
           l == p[1]
           r == p[2]
           I == RoutesTo(l)
           part == [t \in I |-> Completions(Append(t, r))]
           c == Weight(pathCost[p]) * CalcBeta[r]
<1>1. /\ InputOK /\ p = <<l, r>> /\ p \in Pairs(lexicon)
      /\ l \in lexicon \cup {BOS, EOS} /\ r \in lexicon \cup {EOS}
      /\ Weight(pathCost[p]) \in Int /\ CalcBeta[r] \in Int
  BY PairFacts, BuiltPairs, CalcBetaFacts DEF LatticeBuilt
<1>2. c \in Int
  BY <1>1, ProductIsInt
<1> HIDE DEF l, r
<1>3. ASSUME NEW t \in I
      PROVE  /\ Route(t) /\ t[Len(t)] = l /\ <<t[Len(t)], r>> = p
             /\ <<t[Len(t)], r>> \in Pairs(lexicon)
             /\ Len(t) \in Nat /\ Len(t) >= 1
  BY <1>1, RouteFacts, LenOfPath
<1>4. ASSUME NEW t \in I
      PROVE  /\ Summable(Weights, part[t])
             /\ SumFunctionOnSet(Weights, part[t]) = c * WeightOf(t)
  <2> DEFINE q == Append(t, r)
  <2>1. Route(q) /\ q[Len(q)] = r
    BY <1>3, GoesOnWith
  <2>2. WeightOf(q) = Weight(pathCost[p]) * WeightOf(t) /\ WeightOf(t) \in Int
    BY <1>1, <1>3, WeightOfAppend
  <2>3. part[t] = Completions(q)
    OBVIOUS
  <2> HIDE DEF q, part
  <2>4. Summable(Weights, Completions(q)) /\ SumFrom(q) = WeightOf(q) * CalcBeta[r]
    BY <1>1, <2>1, BetaIsSum
  <2>5. WeightOf(q) * CalcBeta[r] = c * WeightOf(t)
    <3>1. (Weight(pathCost[p]) * WeightOf(t)) * CalcBeta[r]
            = WeightOf(t) * (Weight(pathCost[p]) * CalcBeta[r])
      BY <1>1, <2>2, ProductsRegroup
    <3> QED
      BY <1>1, <1>2, <2>2, <3>1
  <2> QED
    BY <2>3, <2>4, <2>5 DEF SumFrom
<1>5. ASSUME NEW t \in I, NEW s \in FullRoutes
      PROVE  s \in Completions(Append(t, r)) <=>
               GoesOn(t, s) /\ Len(t) + 1 <= Len(s) /\ s[Len(t) + 1] = r
  <2>1. s \in Completions(Append(t, r)) <=>
          Len(t) + 1 <= Len(s) /\ s[Len(t) + 1] = r /\ \A i \in 1..Len(t) : s[i] = t[i]
    <3>1. Route(t) /\ <<t[Len(t)], r>> \in Pairs(lexicon)
      BY <1>3
    <3> HIDE DEF I, part, c, along
    <3> QED
      BY <3>1, GoesOnWith
  <2>2. Len(t) \in Nat /\ Len(s) \in Nat
    BY <1>3, FullRouteFacts
  <2> QED
    BY <2>1, <2>2 DEF GoesOn
<1>6. \A t : Completions(t) \subseteq FullRoutes
  BY DEF Completions
<1>7. PartsApart(part, I)
  <2> SUFFICES ASSUME NEW t \in I, NEW u \in I, t # u,
                      NEW s \in Completions(Append(t, r)), s \in Completions(Append(u, r))
               PROVE  FALSE
    BY DEF PartsApart
  <2>1. s \in FullRoutes
    BY <1>6
  <2>2. GoesOn(t, s) /\ GoesOn(u, s)
    BY <1>5, <2>1
  <2> QED
    BY <2>1, <2>2, OneBeginning
<1>8. ASSUME NEW t \in I, NEW s \in Completions(Append(t, r)) PROVE s \in along
  <2>1. s \in FullRoutes /\ Len(s) \in Nat
    BY <1>6, FullRouteFacts
  <2>2. GoesOn(t, s) /\ Len(t) + 1 <= Len(s) /\ s[Len(t) + 1] = r
    BY <1>5, <2>1
  <2>3. Len(t) \in 1..(Len(s) - 1) /\ s[Len(t)] = l
    <3>1. Len(t) \in Nat /\ Len(t) >= 1 /\ t[Len(t)] = l
      BY <1>3
    <3>2. \A i \in 1..Len(t) : s[i] = t[i]
      BY <2>2 DEF GoesOn
    <3> QED
      BY <2>1, <2>2, <3>1, <3>2
  <2>4. <<s[Len(t)], s[Len(t) + 1]>> = p
    BY <1>1, <2>2, <2>3
  <2> QED
    BY <2>1, <2>3, <2>4 DEF Takes
<1>9. ASSUME NEW s \in along PROVE \E t \in I : s \in Completions(Append(t, r))
  <2>1. PICK m \in 1..(Len(s) - 1) : <<s[m], s[m + 1]>> = p
    BY DEF Takes
  <2>2. s \in FullRoutes /\ Route(s) /\ Len(s) \in Nat
    BY FullRouteFacts
  <2>3. m \in 1..Len(s) /\ m + 1 <= Len(s) /\ m <= Len(s) /\ s[m] = l /\ s[m + 1] = r
    BY <1>1, <2>1, <2>2
  <2>4. PICK t : Route(t) /\ Len(t) = m /\ t[Len(t)] = s[m] /\ \A i \in 1..m : t[i] = s[i]
    BY <2>2, <2>3, PrefixRoute
  <2>5. t \in I
    BY <2>3, <2>4 DEF RoutesTo, Route
  <2>6. GoesOn(t, s)
    BY <2>3, <2>4 DEF GoesOn
  <2>7. s \in Completions(Append(t, r))
    BY <1>5, <2>2, <2>3, <2>4, <2>5, <2>6
  <2> QED
    BY <2>5, <2>7
<1>10. AllOf(part, I) = along
  <2>1. \A t \in I : part[t] = Completions(Append(t, r))
    OBVIOUS
  <2> HIDE DEF part, I, along
  <2> QED
    BY <1>8, <1>9, <2>1 DEF AllOf
<1>11. /\ Summable(Weights, AllOf(part, I))
       /\ SumFunctionOnSet(Weights, AllOf(part, I)) = CalcAlpha[l] * c
  <2> HIDE DEF part, c
  <2> QED
    BY <1>1, <1>2, <1>4, <1>7, SumOverRoutes
<1> QED
  BY <1>10, <1>11 DEF l, r

(***************************************************************************)
(* What forwardbackward() finds and what it leaves: a word that ends       *)
(* inside the sentence is in the list of the position where it ends.       *)
(***************************************************************************)
WordsListed == \A w \in lexicon : End[w] <= Size => w \in endNodes[End[w]]

MarginalInv ==
  /\ phase \in {"forwardbackward", "best"} => WordsListed
  /\ phase = "best" /\ "MARGINAL_PROB" \in requestType =>
       alpha = CalcAlpha /\ beta = CalcBeta /\ Z = CalcAlpha[EOS]

LEMMA ListedAtEos ==
  ASSUME ViterbiInv, ConnectEos, phase' = "forwardbackward"
  PROVE  WordsListed'
<1>1. LatticeInv /\ phase = "lookup" /\ pos = Size /\ InputOK /\ PhaseOK
  BY DEF ViterbiInv, LatticeInv, ConnectEos
<1>2. Right = lexicon /\ lexicon \subseteq Words
  BY <1>1, KnownInLookup, AllWordsKnown
<1>3. /\ DOMAIN endNodes = 0..(Size + 1)
      /\ \A p \in 0..(Size + 1) : endNodes[p] = {n \in lexicon \cup {BOS} : Ends(n) = p}
  BY <1>1, <1>2 DEF LatticeInv, NodeLists
<1>4. /\ lexicon' = lexicon
      /\ endNodes' = IF LastEnd = 0 THEN endNodes
                     ELSE [endNodes EXCEPT ![LastEnd] = @ \cup {EOS}]
  <2>1. ~TooLong(endNodes[LastEnd], {EOS})
    BY <1>1 DEF ConnectEos, Fail
  <2> QED
    BY <2>1 DEF ConnectEos, inputVars
<1>5. ASSUME NEW w \in lexicon, End[w] <= Size PROVE w \in endNodes'[End[w]]
  <2>1. End[w] \in 0..(Size + 1) /\ Ends(w) = End[w]
    BY <1>2, <1>5, ConstantFacts DEF Ends
  <2>2. w \in endNodes[End[w]]
    BY <1>3, <2>1
  <2>3. endNodes[End[w]] \subseteq endNodes'[End[w]]
    BY <1>3, <1>4, <2>1
  <2> QED
    BY <2>2, <2>3
<1> QED
  BY <1>4, <1>5 DEF WordsListed

LEMMA MarginalsAreKept ==
  ASSUME MarginalInv, UNCHANGED vars
  PROVE  MarginalInv'
<1>1. /\ phase' = phase /\ lexicon' = lexicon /\ requestType' = requestType
      /\ pathCost' = pathCost /\ paths' = paths /\ endNodes' = endNodes
      /\ alpha' = alpha /\ beta' = beta /\ Z' = Z
  BY DEF vars, inputVars, marginalVars
<1>2. CalcAlpha' = CalcAlpha
  BY <1>1 DEF CalcAlpha, Lefts
<1>3. CalcBeta' = CalcBeta
  BY <1>1 DEF CalcBeta, Rights
<1>4. WordsListed' <=> WordsListed
  BY <1>1 DEF WordsListed
<1> QED
  BY <1>1, <1>2, <1>3, <1>4 DEF MarginalInv

LEMMA MarginalsComputed ==
  ASSUME MarginalInv, ForwardBackward
  PROVE  MarginalInv'
<1>1. /\ phase = "forwardbackward" /\ phase' = "best"
      /\ lexicon' = lexicon /\ requestType' = requestType
      /\ pathCost' = pathCost /\ paths' = paths /\ endNodes' = endNodes
  BY DEF ForwardBackward, inputVars
<1>2. CalcAlpha' = CalcAlpha
  BY <1>1 DEF CalcAlpha, Lefts
<1>3. CalcBeta' = CalcBeta
  BY <1>1 DEF CalcBeta, Rights
<1>4. WordsListed'
  BY <1>1 DEF WordsListed, MarginalInv
<1>5. "MARGINAL_PROB" \in requestType =>
        alpha' = CalcAlpha /\ beta' = CalcBeta /\ Z' = CalcAlpha[EOS]
  BY DEF ForwardBackward
<1> QED
  BY <1>1, <1>2, <1>3, <1>4, <1>5 DEF MarginalInv

LEMMA MarginalStep == ViterbiInv /\ MarginalInv /\ [Next]_vars => MarginalInv'
<1> SUFFICES ASSUME ViterbiInv, MarginalInv, [Next]_vars PROVE MarginalInv'
  OBVIOUS
<1>1. CASE ForwardBackward
  BY <1>1, MarginalsComputed
<1>2. CASE ConnectEos
  <2>1. phase' \in {"forwardbackward", "failed"}
    BY <1>2 DEF ConnectEos, Fail
  <2> QED
    BY <1>2, <2>1, ListedAtEos DEF MarginalInv
<1>3. CASE LookupAt \/ SkipPosition
  <2>1. phase' \in {"lookup", "failed"}
    BY <1>3 DEF LookupAt, SkipPosition, Fail
  <2> QED
    BY <2>1 DEF MarginalInv
<1>4. CASE BuildBestLattice \/ BuildAllLattice \/ InitNBest
  <2>1. phase' \in {"all", "nbest", "done"}
    BY <1>4 DEF BuildBestLattice, BuildAllLattice, InitNBest
  <2> QED
    BY <2>1 DEF MarginalInv
<1>5. CASE Enumerate \/ BuildResultForNBest
  <2>1. phase' \in {"done", "result"}
    BY <1>5 DEF Enumerate, BuildResultForNBest
  <2> QED
    BY <2>1 DEF MarginalInv
<1>6. CASE UNCHANGED vars
  BY <1>6, MarginalsAreKept
<1> QED
  BY <1>1, <1>2, <1>3, <1>4, <1>5, <1>6 DEF Next, Analyze

LEMMA TotalIsSum ==
  ASSUME NEW S, S \subseteq Paths, Summable(Weights, S)
  PROVE  TotalWeight(S) = SumFunctionOnSet(Weights, S)
<1> DEFINE f == [s \in S |-> WeightOf(s)]
<1>1. \A s \in S : Weights[s] = f[s]
  BY DEF Weights
<1>2. TotalWeight(S) = SumFunctionOnSet(f, S)
  BY DEF TotalWeight, SumFunction
<1> HIDE DEF f
<1> QED
  BY <1>1, <1>2, SumSame

(***************************************************************************)
(* The marginal probabilities that forwardbackward() leaves are shares of  *)
(* the weight of all ways to cut a sentence without white space at its     *)
(* end: alpha * beta over those that pass through the node, divided by Z   *)
(* over all, and the same for a path object.                               *)
(***************************************************************************)
THEOREM MarginalsAreExact == Spec => []MarginalsAreShares
<1>1. ASSUME ViterbiInv, MarginalInv PROVE MarginalsAreShares
  <2> SUFFICES ASSUME ~HasOvershoot, phase = "best", "MARGINAL_PROB" \in requestType
               PROVE  /\ Z = TotalWeight(Cuts)
                      /\ \A n \in lexicon :
                           alpha[n] * beta[n] = TotalWeight({s \in Cuts : Passes(s, n)})
                      /\ \A p \in paths :
                           alpha[p[1]] * Weight(pathCost[p]) * beta[p[2]]
                             = TotalWeight({s \in Cuts : Takes(s, p)})
    BY DEF MarginalsAreShares
  <2>1. InputOK /\ PhaseOK /\ PathObjects /\ AllPath
    BY <1>1 DEF ViterbiInv, LatticeInv, AllPath
  <2>2. Right = lexicon \cup {EOS}
    BY <2>1, AllWordsKnown DEF Right, PhaseOK
  <2>3. LatticeBuilt
    <3>1. \A p \in Pairs(lexicon) : p[2] \in Right
      BY <2>2, PairFacts
    <3> QED
      BY <2>1, <3>1 DEF PathObjects, LatticeBuilt
  <2>4. alpha = CalcAlpha /\ beta = CalcBeta /\ Z = CalcAlpha[EOS]
    BY <1>1 DEF MarginalInv
  <2>5. lexicon \subseteq Listed
    <3> SUFFICES ASSUME NEW w \in lexicon PROVE w \in Listed
      OBVIOUS
    <3>1. End[w] \in 0..Size
      BY <2>1, ConstantFacts DEF HasOvershoot, InputOK
    <3>2. w \in endNodes[End[w]]
      BY <1>1, <3>1 DEF MarginalInv, WordsListed
    <3> QED
      BY <3>1, <3>2 DEF Listed
  <2>6. Cuts = FullRoutes
    <3>1. \A s : s \in Cuts <=> s \in FullRoutes
      BY <2>1, CutsAreRoutes DEF FullRoutes, Route
    <3> QED
      BY <3>1
  <2>7. FullRoutes \subseteq Paths /\ FullRoutes = RoutesTo(EOS)
    BY DEF FullRoutes, RoutesTo
  <2>8. Z = TotalWeight(Cuts)
    <3>1. Summable(Weights, RoutesTo(EOS)) /\ CalcAlpha[EOS] = SumFunctionOnSet(Weights, RoutesTo(EOS))
      BY <2>3, AlphaIsSum DEF SumTo
    <3> QED
      BY <2>4, <2>6, <2>7, <3>1, TotalIsSum
  <2>9. ASSUME NEW n \in lexicon
        PROVE  alpha[n] * beta[n] = TotalWeight({s \in Cuts : Passes(s, n)})
    <3> DEFINE through == {s \in FullRoutes : Passes(s, n)}
    <3>1. /\ Summable(Weights, through)
          /\ SumFunctionOnSet(Weights, through) = CalcAlpha[n] * CalcBeta[n]
      BY <2>3, <2>5, ShareOfNode
    <3>2. through \subseteq Paths
      BY <2>7
    <3>3. {s \in Cuts : Passes(s, n)} = through
      BY <2>6
    <3> HIDE DEF through
    <3> QED
      BY <2>4, <3>1, <3>2, <3>3, TotalIsSum
  <2>10. ASSUME NEW p \in paths
         PROVE  alpha[p[1]] * Weight(pathCost[p]) * beta[p[2]]
                  = TotalWeight({s \in Cuts : Takes(s, p)})
    <3> DEFINE along == {s \in FullRoutes : Takes(s, p)}
    <3>1. /\ Summable(Weights, along)
          /\ SumFunctionOnSet(Weights, along)
               = CalcAlpha[p[1]] * (Weight(pathCost[p]) * CalcBeta[p[2]])
      BY <2>3, <2>5, ShareOfPath
    <3>2. along \subseteq Paths
      BY <2>7
    <3>3. {s \in Cuts : Takes(s, p)} = along
      BY <2>6
    <3>4. /\ CalcAlpha[p[1]] \in Int /\ Weight(pathCost[p]) \in Int
          /\ CalcBeta[p[2]] \in Int
      BY <2>3, BuiltPairs, CalcAlphaFacts, CalcBetaFacts
    <3>5. (CalcAlpha[p[1]] * Weight(pathCost[p])) * CalcBeta[p[2]]
            = CalcAlpha[p[1]] * (Weight(pathCost[p]) * CalcBeta[p[2]])
      BY <3>4, ProductsAssociate
    <3> HIDE DEF along
    <3> QED
      BY <2>4, <3>1, <3>2, <3>3, <3>5, TotalIsSum
  <2> QED
    BY <2>8, <2>9, <2>10
<1>2. Init => MarginalInv
  BY DEF Init, MarginalInv
<1> QED
  BY <1>1, <1>2, MarginalStep, ViterbiInvariance, PTL DEF Spec
=============================================================================
