------------------------------ MODULE Viterbi -------------------------------
(***************************************************************************)
(* MeCab::Viterbi::analyze (mecab-0.996/src/viterbi.cpp): builds the       *)
(* lattice of a sentence position by position, links the best path, and on *)
(* request computes marginal probabilities, links all morphemes and starts *)
(* the N-best generator.  Sentence, dictionary and cost matrix are given   *)
(* by lexicon, the words the lookups find, each with its place in the      *)
(* sentence, and pathCost, Connector::cost of every pair of nodes.  Node   *)
(* lists are sets: which of several equally good left nodes comes first is *)
(* left open.                                                              *)
(***************************************************************************)
EXTENDS NBestGenerator, WordLattice, FiniteSets, FiniteSetsExt, SequencesExt

CONSTANTS
  Size,          \* lattice->size()
  Begin, End,    \* where the lookup that found a word began, where it ends
  Costs,         \* values of Connector::cost
  MaxCost,       \* the initial best_cost of connect()
  Weight(_)      \* exp(-theta * cost), as a positive number

ASSUME ViterbiAssumption ==
  /\ Size \in Nat \ {0}
  /\ IsFiniteSet(Words)
  /\ \A w \in Words :
       Begin[w] \in 0..(Size - 1) /\ End[w] \in Nat /\ End[w] > Begin[w]
  /\ Costs \subseteq Int /\ MaxCost \in Int
  /\ \A c \in Costs : Weight(c) \in Nat \ {0}

RequestTypes == {"NBEST", "MARGINAL_PROB", "ALL_MORPHS"}

VARIABLES
  lexicon, requestType,     \* the input
  phase, pos,               \* where analyze() is
  endNodes, beginNodes,     \* the two node lists of the lattice
  alpha, beta, Z,
  isbest

inputVars == <<lexicon, requestType, pathCost>>
marginalVars == <<alpha, beta, Z>>
vars == <<inputVars, phase, pos, endNodes, beginNodes, marginalVars, isbest,
          paths, nodeCost, generatorVars>>

Starting(p) == {w \in lexicon : Begin[w] = p}

(***************************************************************************)
(* The pairs of nodes that connect() is given.  EOS follows the words that *)
(* end last, but not behind the end of the sentence.                       *)
(***************************************************************************)
Ends(n) == IF n = BOS THEN 0 ELSE End[n]
EndOfText(lex) == Max({Ends(n) : n \in {m \in lex \cup {BOS} : Ends(m) <= Size}})
Pairs(lex) ==
  {p \in (lex \cup {BOS}) \X (lex \cup {EOS}) :
     Ends(p[1]) = IF p[2] = EOS THEN EndOfText(lex) ELSE Begin[p[2]]}

Init ==
  /\ lexicon \in {lex \in SUBSET Words :
                  PossibleLexicon({<<Begin[w], End[w]>> : w \in lex}, Size)}
  /\ pathCost \in [Pairs(lexicon) -> Costs]
  /\ requestType \in SUBSET RequestTypes
  /\ phase = "lookup" /\ pos = 0
  /\ endNodes = [p \in 0..(Size + 1) |-> IF p = 0 THEN {BOS} ELSE {}]
  /\ beginNodes = [p \in 0..Size |-> {}]
  /\ paths = {}
  /\ nodeCost = [n \in Nodes |-> 0]
  /\ next = [n \in Nodes |-> NoNode]
  /\ prev = [n \in Nodes |-> NoNode]
  /\ isbest = {BOS, EOS}
  /\ alpha = [n \in Nodes |-> 1] /\ beta = [n \in Nodes |-> 1] /\ Z = 1
  /\ agenda = {} /\ searching = FALSE /\ found = << >>

-----------------------------------------------------------------------------
(* connect(): right nodes rs are given their best left node among ls. *)

AllPath == requestType \cap {"NBEST", "MARGINAL_PROB"} # {}

CostVia(l, r) == nodeCost[l] + pathCost[<<l, r>>]
TooLongAbove(ls, rs) ==    \* mutant: the largest cost itself is let through
  \E r \in rs : \A l \in ls : CostVia(l, r) > MaxCost
TooLong(ls, rs) == \E r \in rs : \A l \in ls : CostVia(l, r) >= MaxCost

ConnectWorst(ls, rs) ==    \* mutant: the comparison is the wrong way round
  \E best \in [rs -> ls] :
    /\ \A r \in rs : \A l \in ls : CostVia(best[r], r) >= CostVia(l, r)
    /\ prev' = [n \in Nodes |-> IF n \in rs THEN best[n] ELSE prev[n]]
    /\ nodeCost' = [n \in Nodes |-> IF n \in rs THEN CostVia(best[n], n) ELSE nodeCost[n]]
    /\ paths' = paths \cup (IF AllPath THEN ls \X rs ELSE {})

ConnectBestOnly(ls, rs) ==    \* mutant: a path object for the best left only
  \E best \in [rs -> ls] :
    /\ \A r \in rs : \A l \in ls : CostVia(best[r], r) <= CostVia(l, r)
    /\ prev' = [n \in Nodes |-> IF n \in rs THEN best[n] ELSE prev[n]]
    /\ nodeCost' = [n \in Nodes |-> IF n \in rs THEN CostVia(best[n], n) ELSE nodeCost[n]]
    /\ paths' = paths \cup (IF AllPath THEN {<<best[r], r>> : r \in rs} ELSE {})

Connect(ls, rs) ==
  \E best \in [rs -> ls] :
    /\ \A r \in rs : \A l \in ls : CostVia(best[r], r) <= CostVia(l, r)
    /\ prev' = [n \in Nodes |-> IF n \in rs THEN best[n] ELSE prev[n]]
    /\ nodeCost' = [n \in Nodes |-> IF n \in rs THEN CostVia(best[n], n) ELSE nodeCost[n]]
    /\ paths' = paths \cup (IF AllPath THEN ls \X rs ELSE {})

(* A sentence that is given up leaves a lattice nobody may read. *)
Fail ==
  /\ phase' = "failed"
  /\ UNCHANGED <<inputVars, pos, endNodes, beginNodes, marginalVars, isbest,
                 paths, nodeCost, generatorVars>>

LookupAt ==
  /\ phase = "lookup" /\ pos < Size
  /\ endNodes[pos] # {}
  /\ IF TooLong(endNodes[pos], Starting(pos)) THEN Fail ELSE
       /\ Connect(endNodes[pos], Starting(pos))
       /\ beginNodes' = [beginNodes EXCEPT ![pos] = Starting(pos)]
       /\ endNodes' = [p \in DOMAIN endNodes |->
                         endNodes[p] \cup {w \in Starting(pos) : End[w] = p}]
       /\ pos' = pos + 1
       /\ UNCHANGED <<inputVars, phase, marginalVars, isbest,
                      agenda, searching, next, found>>

SkipPosition ==
  /\ phase = "lookup" /\ pos < Size
  /\ endNodes[pos] = {}
  /\ pos' = pos + 1
  /\ UNCHANGED <<inputVars, phase, endNodes, beginNodes, marginalVars, isbest,
                 paths, nodeCost, generatorVars>>

LastEnd == Max({p \in 0..Size : endNodes[p] # {}})

ConnectEos ==
  /\ phase = "lookup" /\ pos = Size
  /\ IF TooLong(endNodes[LastEnd], {EOS}) THEN Fail ELSE
       /\ Connect(endNodes[LastEnd], {EOS})
       /\ beginNodes' = [beginNodes EXCEPT ![Size] = {EOS}]
       /\ endNodes' = IF LastEnd = 0 THEN endNodes
                      ELSE [endNodes EXCEPT ![LastEnd] = @ \cup {EOS}]
       /\ phase' = "forwardbackward"
       /\ UNCHANGED <<inputVars, pos, marginalVars, isbest,
                      agenda, searching, next, found>>

-----------------------------------------------------------------------------
(***************************************************************************)
(* forwardbackward(): sums of products instead of logsumexp.  An empty sum *)
(* is written 0.0, the logarithm of 1; beta is only computed for nodes in  *)
(* a list endNodes[0..Size], the others keep 0.0.                          *)
(***************************************************************************)
Lefts(n) == {p \in paths : p[2] = n}
Rights(n) == {p \in paths : p[1] = n}

CalcAlpha ==
  LET f[n \in Nodes] ==
        IF Lefts(n) = {} THEN 1
        ELSE SumFunction([p \in Lefts(n) |-> Weight(pathCost[p]) * f[p[1]]])
  IN f

CalcBetaOfBest ==    \* mutant: follows the best path's links only
  LET f[n \in Nodes] ==
        IF {p \in Rights(n) : prev[p[2]] = n} = {} THEN 1
        ELSE SumFunction([p \in {q \in Rights(n) : prev[q[2]] = n} |->
                            Weight(pathCost[p]) * f[p[2]]])
  IN f

CalcBeta ==
  LET listed == UNION {endNodes[p] : p \in 0..Size}
      f[n \in Nodes] ==
        IF Rights(n) = {} \/ n \notin listed THEN 1
        ELSE SumFunction([p \in Rights(n) |-> Weight(pathCost[p]) * f[p[2]]])
  IN f

ForwardBackward ==
  /\ phase = "forwardbackward"
  /\ IF "MARGINAL_PROB" \in requestType
     THEN alpha' = CalcAlpha /\ beta' = CalcBeta /\ Z' = alpha'[EOS]
     ELSE UNCHANGED marginalVars
  /\ phase' = "best"
  /\ UNCHANGED <<inputVars, pos, endNodes, beginNodes, isbest,
                 paths, nodeCost, generatorVars>>

-----------------------------------------------------------------------------
(* buildBestLattice(): next is the inverse of prev along the best path. *)

BestPathTo ==
  LET f[n \in Nodes] == IF prev[n] = NoNode THEN <<n>> ELSE Append(f[prev[n]], n)
  IN f

BuildBestLattice ==
  /\ phase = "best"
  /\ next' = RelinkForward(BestPathTo[EOS], next)
  /\ isbest' = isbest \cup ToSet(BestPathTo[EOS])
  /\ phase' = "all"
  /\ UNCHANGED <<inputVars, pos, endNodes, beginNodes, marginalVars,
                 paths, nodeCost, agenda, searching, prev, found>>

(* buildAllLattice(): all nodes in the order of the begin lists. *)

AllMorphsBeforeEnd ==    \* mutant: the last list is left out
  <<BOS>> \o FlattenSeq([p \in 1..Size |-> SetToSeq(beginNodes[p - 1])])

AllMorphs ==
  <<BOS>> \o FlattenSeq([p \in 1..(Size + 1) |-> SetToSeq(beginNodes[p - 1])])

LinkAll ==
  IF "ALL_MORPHS" \in requestType
  THEN next' = RelinkForward(AllMorphs, next) /\ prev' = RelinkBackward(AllMorphs, prev)
  ELSE UNCHANGED <<next, prev>>

BuildAllLattice ==
  /\ phase = "all"
  /\ LinkAll
  /\ phase' = "nbest"
  /\ UNCHANGED <<inputVars, pos, endNodes, beginNodes, marginalVars, isbest,
                 paths, nodeCost, agenda, searching, found>>

InitNBest ==
  /\ phase = "nbest"
  /\ IF "NBEST" \in requestType THEN SetAgenda ELSE UNCHANGED <<agenda, found>>
  /\ phase' = "done"
  /\ UNCHANGED <<inputVars, pos, endNodes, beginNodes, marginalVars, isbest,
                 paths, nodeCost, searching, next, prev>>

Analyze ==
  \/ LookupAt \/ SkipPosition \/ ConnectEos
  \/ ForwardBackward \/ BuildBestLattice \/ BuildAllLattice \/ InitNBest

(***************************************************************************)
(* Lattice::next(), refused without NBEST: the generator's next() and,     *)
(* when that returned a path, buildResultForNBest().                       *)
(***************************************************************************)
Enumerate ==
  /\ phase = "done" /\ "NBEST" \in requestType
  /\ NextPath
  /\ phase' = IF found' = found THEN "done" ELSE "result"
  /\ UNCHANGED <<inputVars, pos, endNodes, beginNodes, marginalVars, isbest>>

BuildResultForNBest ==
  /\ phase = "result"
  /\ LinkAll
  /\ phase' = "done"
  /\ UNCHANGED <<inputVars, pos, endNodes, beginNodes, marginalVars, isbest,
                 paths, nodeCost, agenda, searching, found>>

Next == Analyze \/ Enumerate \/ BuildResultForNBest

Spec == Init /\ [][Next]_vars

(* The thread in analyze() or next() runs on; nobody has to call next(). *)
Running == phase \notin {"done", "failed"} \/ searching
FairSpec == Spec /\ WF_vars(Running /\ Next)
=============================================================================
