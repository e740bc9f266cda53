--------------------------- MODULE NBestGenerator ---------------------------
(***************************************************************************)
(* MeCab::NBestGenerator (mecab-0.996/src/nbest_generator.{h,cpp}): an A*  *)
(* search that walks the lattice backwards from EOS and returns, at each   *)
(* call of next(), the cheapest path not returned yet.  The lattice is     *)
(* what Viterbi left: nodeCost is Node::cost, the cost of the best path    *)
(* from BOS to the node and so the exact estimate of what is missing, and  *)
(* paths is the set of Path objects, <<lnode, rnode>>, of cost pathCost.   *)
(* A QueueElement and those it links to through `next` are one sequence of *)
(* nodes that ends in EOS.                                                 *)
(***************************************************************************)
EXTENDS Integers, Sequences

CONSTANTS Words, BOS, EOS

ASSUME NodeAssumption == BOS \notin Words /\ EOS \notin Words /\ BOS # EOS

Nodes == Words \cup {BOS, EOS}
NoNode == "none"

ASSUME NoNodeAssumption == NoNode \notin Nodes

VARIABLES
  paths, pathCost, nodeCost,   \* the lattice
  agenda,                      \* agenda_
  searching,                   \* TRUE inside the loop of next()
  next, prev,                  \* Node::next and Node::prev
  found                        \* history: the elements next() has returned

latticeVars == <<paths, pathCost, nodeCost>>
generatorVars == <<agenda, searching, next, prev, found>>

Element(path, fx, gx) == [path |-> path, fx |-> fx, gx |-> gx]
InitialElement == Element(<<EOS>>, 0, 0)

(* set(): forget the agenda, push EOS. *)
SetAgenda ==
  /\ agenda' = {InitialElement}
  /\ found' = << >>

(***************************************************************************)
(* The element on top of agenda_; the queue may order equal fx anyhow.     *)
(***************************************************************************)
IsTop(e) == e \in agenda /\ \A other \in agenda : e.fx <= other.fx

CallNext ==
  /\ ~searching
  /\ searching' = TRUE
  /\ UNCHANGED <<agenda, next, prev, found, latticeVars>>

(* One round of the loop, for a node other than BOS. *)
PredecessorsGreedy(e) ==    \* mutant: fx without the part already walked
  {Element(<<p[1]>> \o e.path, nodeCost[p[1]] + pathCost[p], pathCost[p] + e.gx) :
     p \in {q \in paths : q[2] = Head(e.path)}}

Predecessors(e) ==
  {Element(<<p[1]>> \o e.path,
           nodeCost[p[1]] + pathCost[p] + e.gx,
           pathCost[p] + e.gx) :
     p \in {q \in paths : q[2] = Head(e.path)}}

Expand(e) ==
  /\ searching
  /\ IsTop(e)
  /\ Head(e.path) # BOS
  /\ agenda' = (agenda \ {e}) \cup Predecessors(e)
  /\ UNCHANGED <<searching, next, prev, found, latticeVars>>

(* BOS is reached: the path is written into the nodes' next and prev. *)
RelinkForward(path, f) ==
  [n \in Nodes |-> IF \E i \in 1..(Len(path) - 1) : path[i] = n
                   THEN path[1 + CHOOSE i \in 1..(Len(path) - 1) : path[i] = n]
                   ELSE f[n]]

RelinkNothing(path, f) == f    \* mutant: prev keeps the best path

RelinkBackward(path, f) ==
  [n \in Nodes |-> IF \E i \in 2..Len(path) : path[i] = n
                   THEN path[(CHOOSE i \in 2..Len(path) : path[i] = n) - 1]
                   ELSE f[n]]

ReturnPath(e) ==
  /\ searching
  /\ IsTop(e)
  /\ Head(e.path) = BOS
  /\ agenda' = agenda \ {e}
  /\ next' = RelinkForward(e.path, next)
  /\ prev' = RelinkBackward(e.path, prev)
  /\ found' = Append(found, e)
  /\ searching' = FALSE
  /\ UNCHANGED latticeVars

ReturnNever ==    \* mutant: the loop is not left when the agenda is empty
  /\ searching
  /\ agenda = {}
  /\ UNCHANGED <<agenda, searching, next, prev, found, latticeVars>>

ReturnNone ==
  /\ searching
  /\ agenda = {}
  /\ searching' = FALSE
  /\ UNCHANGED <<agenda, next, prev, found, latticeVars>>

SearchStep ==
  \/ \E e \in agenda : Expand(e) \/ ReturnPath(e)
  \/ ReturnNone

NextPath == CallNext \/ SearchStep

-----------------------------------------------------------------------------
(***************************************************************************)
(* The generator alone, on a lattice whose node costs are the costs of the *)
(* best paths: BOS costs nothing and no path makes its right node cheaper. *)
(***************************************************************************)
CostsAreBest ==
  /\ paths \subseteq Nodes \X Nodes
  /\ nodeCost \in [Nodes -> Int]
  /\ nodeCost[BOS] = 0
  /\ \A p \in paths :
       /\ pathCost[p] \in Int
       /\ nodeCost[p[2]] <= nodeCost[p[1]] + pathCost[p]

GeneratorInit ==
  /\ CostsAreBest
  /\ agenda = {InitialElement}
  /\ searching = FALSE
  /\ found = << >>
  /\ next \in [Nodes -> Nodes \cup {NoNode}]
  /\ prev \in [Nodes -> Nodes \cup {NoNode}]

GeneratorSpec ==
  GeneratorInit /\ [][NextPath]_<<latticeVars, generatorVars>>

-----------------------------------------------------------------------------
(***************************************************************************)
(* next() returns paths in the order of their cost, which is their gx.     *)
(***************************************************************************)
FoundInOrder ==
  \A i, j \in 1..Len(found) : i <= j => found[i].gx <= found[j].gx

(***************************************************************************)
(* Nothing on the agenda can become cheaper than what has been returned:   *)
(* fx is the cost of the best path that ends as the element does.  That    *)
(* does not hold of the element set() pushes, which is then alone.         *)
(***************************************************************************)
AgendaBound ==
  \/ agenda = {InitialElement} /\ found = << >>
  \/ \A e \in agenda :
       /\ e.fx = nodeCost[Head(e.path)] + e.gx
       /\ \A i \in 1..Len(found) : found[i].gx <= e.fx

(***************************************************************************)
(* A returned path leads from BOS to EOS along path objects.               *)
(***************************************************************************)
Linked(path) ==
  /\ path[Len(path)] = EOS
  /\ \A i \in 1..(Len(path) - 1) : <<path[i], path[i + 1]>> \in paths

FoundAreLinked ==
  \A i \in 1..Len(found) : Head(found[i].path) = BOS /\ Linked(found[i].path)
=============================================================================
