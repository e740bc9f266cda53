---- MODULE TrainingLattice ----
(* The lattice of one training sentence (EncoderLearnerTagger,               *)
(* learner_tagger.cpp): its nodes with the corpus's own morphemes added, its  *)
(* paths, the answer in it, and how an analysis is scored against the answer. *)
(* A sentence is [text, words, answer]: words[p + 1] is the list lookup()     *)
(* gives at position p, answer the corpus's lines; a morpheme is the piece    *)
(* from one position to another and the compared part of its feature.         *)
EXTENDS Naturals, Sequences, SequencesExt, Ordering

Surface(sentence, node) == SubSeq(sentence.text, node.from + 1, node.to)

\* node_cmp_eq(): the same text and the same compared part of the feature.
CmpEq(sentence, a, b) ==
  /\ Surface(sentence, a) = Surface(sentence, b)
  /\ a.feature = b.feature

EndOfText(sentence) == Len(sentence.text)
Boundary(p) == [from |-> p, to |-> p, feature |-> "BOS/EOS"]

\* read(): the line at p as a virtual node where lookup() has nothing like it.
WithVirtual(sentence, p) ==
  LET found == sentence.words[p + 1]
      IsMissing(line) == line.from = p /\ \A i \in DOMAIN found : ~CmpEq(sentence, line, found[i])
  IN  Select(sentence.answer, {i \in DOMAIN sentence.answer : IsMissing(sentence.answer[i])})
        \o found

\* buildLattice(): BOS, the nodes at the positions some node ends at, EOS.
AddNodes(sentence, nodes, p) ==
  IF \E i \in DOMAIN nodes : nodes[i].to = p
  THEN nodes \o WithVirtual(sentence, p) ELSE nodes

NodesOf(sentence) ==
  LET before[p \in 0..EndOfText(sentence)] ==
        IF p = 0 THEN <<Boundary(0)>> ELSE AddNodes(sentence, before[p - 1], p - 1)
  IN  Append(before[EndOfText(sentence)], Boundary(EndOfText(sentence)))

\* connect(): to every right node, the left nodes from the last one connected.
PathsOf(sentence) ==
  LET nodes == NodesOf(sentence)
      Lefts(r) == Select([i \in 1..r - 1 |-> r - i],
                         {i \in 1..r - 1 : nodes[r - i].to = nodes[r].from})
      Path(l, r) == [l |-> l, r |-> r, eos |-> r = Len(nodes),
                     uni |-> <<nodes[r].feature>>,
                     bi  |-> <<nodes[l].feature, nodes[r].feature>>]
  IN  FlattenSeq([r \in DOMAIN nodes |-> [i \in DOMAIN Lefts(r) |-> Path(Lefts(r)[i], r)]])

\* calc_expectation(): the paths with a share; a node nothing follows has none.
Shares(sentence) ==
  LET paths == PathsOf(sentence)
      IsEmpty(path) == ~path.eos /\ \A i \in DOMAIN paths : paths[i].l # path.r
  IN  Select(paths, {i \in DOMAIN paths : ~IsEmpty(paths[i])})

\* The answer's nodes, in order: for each line the last node like it.
AnswerOf(sentence) ==
  LET nodes == NodesOf(sentence)
      Like(line) == {r \in 2..Len(nodes) - 1 :
                       nodes[r].from = line.from /\ CmpEq(sentence, line, nodes[r])}
  IN  [i \in DOMAIN sentence.answer |-> Max(Like(sentence.answer[i]))]

AnswerPaths(sentence) ==
  LET chain == <<1>> \o AnswerOf(sentence) \o <<Len(NodesOf(sentence))>>
      IsLink(path) == \E i \in 1..Len(chain) - 1 : chain[i] = path.l /\ chain[i + 1] = path.r
      paths == PathsOf(sentence)
  IN  Select(paths, {i \in DOMAIN paths : IsLink(paths[i])})

\* What viterbi() can leave, by the weights: any way through the lattice.
WaysThrough(sentence) ==
  LET nodes == NodesOf(sentence)
      Fits(chain) ==
        /\ nodes[chain[1]].from = 0
        /\ nodes[chain[Len(chain)]].to = EndOfText(sentence)
        /\ \A i \in 1..Len(chain) - 1 : nodes[chain[i]].to = nodes[chain[i + 1]].from
  IN  {chain \in UNION {[1..k -> 2..Len(nodes) - 1] : k \in 1..EndOfText(sentence)} : Fits(chain)}

\* eval(): the chains end in EOS; each cursor moves by the length of the node it
\* moves to, prec counts the answer's morphemes and recall those of the analysis.
NoScore == [crr |-> 0, prec |-> 0, recall |-> 0, err |-> 0]
One(condition) == IF condition THEN 1 ELSE 0

\* zeroone: a pair that is not the same, or one cursor behind the other.
WrongIfApart(both, level, same) == both /\ ~level
Wrong(both, level, same) == both /\ ~same

EvalStep(sentence, res, ans, c) ==
  LET both == c.r < Len(res) /\ c.a < Len(ans)
      resMoves == c.r < Len(res) /\ (both => c.resp <= c.ansp)
      ansMoves == c.a < Len(ans) /\ (both => c.ansp <= c.resp)
      same == both /\ c.resp = c.ansp /\ CmpEq(sentence, ans[c.a], res[c.r])
      Moved(position, chain, i) == position + chain[i + 1].to - chain[i + 1].from
  IN  [r    |-> c.r + One(resMoves),
       a    |-> c.a + One(ansMoves),
       resp |-> IF resMoves THEN Moved(c.resp, res, c.r) ELSE c.resp,
       ansp |-> IF ansMoves THEN Moved(c.ansp, ans, c.a) ELSE c.ansp,
       score |-> [crr    |-> c.score.crr + One(same),
                  prec   |-> c.score.prec + One(ansMoves),
                  recall |-> c.score.recall + One(resMoves),
                  err    |-> IF Wrong(both, c.resp = c.ansp, same) THEN 1 ELSE c.score.err]]

Eval(sentence, best) ==
  LET nodes == NodesOf(sentence)
      Chain(inner) == [i \in 1..Len(inner) + 1 |->
                         IF i <= Len(inner) THEN nodes[inner[i]] ELSE nodes[Len(nodes)]]
      res == Chain(best)
      ans == Chain(AnswerOf(sentence))
      c[n \in 0..Len(res) + Len(ans)] ==
        IF n = 0 THEN [r |-> 1, a |-> 1, resp |-> 0, ansp |-> 0, score |-> NoScore]
        ELSE EvalStep(sentence, res, ans, c[n - 1])
  IN  c[Len(res) + Len(ans)].score
====
