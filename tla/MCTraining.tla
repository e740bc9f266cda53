---- MODULE MCTraining ----
(* Training on corpora of up to three small sentences.                        *)
EXTENDS Training, Evaluation

MCFeatures == {"N", "V", "A", "BOS/EOS"}
MCTemplates ==
  [key \in UNION {[1..n -> MCFeatures] : n \in 1..2} |->
     IF Len(key) = 1 THEN << <<"u", key[1]>>, <<"u">> >> ELSE << <<"b", key[1], key[2]>> >>]

Piece(from, to, feature) == [from |-> from, to |-> to, feature |-> feature]

\* One reading splits a morpheme of the answer: the lengths differ before the
\* morpheme both have.
Shifted ==
  [text |-> <<"a", "b", "c">>,
   words |-> << <<Piece(0, 1, "N"), Piece(0, 2, "V")>>, <<Piece(1, 2, "N")>>, <<Piece(2, 3, "V")>> >>,
   answer |-> <<Piece(0, 2, "V"), Piece(2, 3, "V")>>]

\* The dictionary does not have the answer: a virtual node.
Virtual ==
  [text |-> <<"b", "b">>,
   words |-> << <<Piece(0, 1, "V")>>, <<Piece(1, 2, "V")>> >>,
   answer |-> <<Piece(0, 2, "A")>>]

MCSentences == {Shifted, Virtual}
MCOldModels == {<<>>, << <<"b", "V", "V">>, <<"u">>, <<"u", "A">> >>}

(* The corpus by the names of its features, without numbers or vectors.       *)

AllFeatures ==
  (UNION {ToSet(Templates[key]) : key \in DOMAIN Templates})
    \cup (UNION {ToSet(model) : model \in OldModels})

\* How often a path asks for a feature, and how often it holds one.
Asks(path, feature) == Times(Templates[path.uni], feature) + Times(Templates[path.bi], feature)
Has(path, feature) ==
  IF path.eos THEN Times(Templates[path.bi], feature) ELSE Asks(path, feature)
Asked(sentence, feature) ==
  LET paths == PathsOf(sentence) IN SumFunction([i \in DOMAIN paths |-> Asks(paths[i], feature)])
Held(paths, feature) == SumFunction([i \in DOMAIN paths |-> Has(paths[i], feature)])

AskedIn == [of \in Sentences \X AllFeatures |-> Asked(of[1], of[2])]
GradientIn == [of \in Sentences \X AllFeatures |->
                 Held(Shares(of[1]), of[2]) - Held(AnswerPaths(of[1]), of[2])]
NodesIn == [sentence \in Sentences |-> NodesOf(sentence)]
InCorpus(counts, feature) == SumFunction([i \in DOMAIN x |-> counts[<<x[i], feature>>]])

Features == UNION {{Templates[key][i] : i \in DOMAIN Templates[key]} : key \in DOMAIN cache}

\* The features that are left are those asked for often enough, an old model's
\* among them; they are numbered without a gap, and every vector of the cache
\* holds the numbers of the features of its key that are left, in their order
\* (shrink() renumbers the table, the vectors and the counts one by one). Asked
\* while the corpus is read and before every evaluation.
FeaturesNumbered ==
  phase \in {"reading", "round"} =>
  /\ {dic[feature] : feature \in DOMAIN dic} = 0..maxid - 1
  /\ Cardinality(DOMAIN dic) = maxid
  /\ \A key \in DOMAIN cache :
       LET features == Templates[key]
           left == Select(features, {i \in DOMAIN features : features[i] \in DOMAIN dic})
       IN  cache[key].vec = [i \in DOMAIN left |-> dic[left[i]]]
  /\ phase # "reading" =>
       Features \cap DOMAIN dic = {f \in Features : freq <= 1 \/ InCorpus(AskedIn, f) >= freq}

\* What the optimizer is given is, for every feature that is left, what the
\* lattices hold of it less what the answers hold: every sentence counted once,
\* whatever the threads' order, the round, the cut-off and the old model.
GradientComplete ==
  phase = "optimizing" =>
    /\ total.obj = Len(x)
    /\ \A feature \in DOMAIN dic :
         total.v[dic[feature]] = InCorpus(GradientIn, feature)

\* An analysis has the morphemes of the answer, as far as they are compared: the
\* dictionary may have several words that are alike.
HasAnswer(sentence, chain) ==
  /\ Len(chain) = Len(sentence.answer)
  /\ \A j \in DOMAIN chain : CmpEq(sentence, sentence.answer[j], NodesIn[sentence][chain[j]])

\* err counts the sentences whose analysis is not the answer, prec and recall are
\* the numbers of all morphemes of the answers and of the analyses, although the
\* cursors of eval() move on by the length of the wrong node. The count of common
\* morphemes, crr, misses some of them for that reason, and is only bounded.
ScoresExact ==
  phase = "objective" =>
    /\ total.score.err = Cardinality({i \in DOMAIN x : ~HasAnswer(x[i], best[i])})
    /\ total.score.prec = SumFunction([i \in DOMAIN x |-> Len(x[i].answer)])
    /\ total.score.recall = SumFunction([i \in DOMAIN x |-> Len(best[i])])
    /\ total.score.crr <= total.score.prec /\ total.score.crr <= total.score.recall

(* Analyses of the corpus and its answers as the files mecab-system-eval gets. *)

AsMorpheme(sentence, piece) ==
  [surface |-> SubSeq(sentence.text, piece.from + 1, piece.to), fields |-> <<piece.feature>>]
OutputOf(i) ==
  LET nodes == NodesIn[x[i]]
  IN  [j \in DOMAIN best[i] |-> AsMorpheme(x[i], nodes[best[i][j]])]
AnswerFile(i) == [j \in DOMAIN x[i].answer |-> AsMorpheme(x[i], x[i].answer[j])]

\* A sentence's morphemes with their places, compared at a level.
Placed(morphemes, level) ==
  {[at |-> SumFunction([i \in 1..j - 1 |-> Len(morphemes[i].surface)]),
    is |-> Column(morphemes[j], level)] : j \in DOMAIN morphemes}
Common(r1, r2, level) == Cardinality(Placed(r1, level) \cap Placed(r2, level))

\* When the surfaces are the first level, system-eval counts at every level the
\* morphemes both files have at the same place of the same sentence. If one file
\* has fewer sentences, one sentence of the other is counted as missed and all
\* that follow it are left out.
EvaluationExact ==
  phase = "objective" =>
    \A n, m \in 0..Len(x), levels \in {<<0, -1>>, <<0, 1>>} :
      LET output == [i \in 1..n |-> OutputOf(i)]
          answer == [i \in 1..m |-> AnswerFile(i)]
          counts == EvaluateFiles(output, answer, levels)
      IN  /\ \A l \in DOMAIN levels :
               counts.table[l] =
                 SumFunction([i \in 1..Min({n, m}) |-> Common(output[i], answer[i], levels[l])])
          /\ counts.prec = SumFunction([i \in 1..Min({n, m + 1}) |-> Len(output[i])])
          /\ counts.recall = SumFunction([i \in 1..Min({m, n + 1}) |-> Len(answer[i])])

\* The old weights are the old features' own exactly when no feature the cut-off
\* took out of the old model has one that stays behind it: only the features
\* are renumbered, the old weights keep their places.
OldWeightsInPlace ==
  phase = "round" =>
    LET IsOld(feature) == \E i \in DOMAIN oldModel : oldModel[i] = feature
        IsBefore(i, feature) == \E j \in 1..i - 1 : oldModel[j] = feature
        InPlace == \A feature \in DOMAIN dic :
          oldAlpha[dic[feature]] = IF IsOld(feature) THEN feature ELSE NoWeight
    IN  InPlace <=> \A i \in DOMAIN oldModel :
                      oldModel[i] \notin DOMAIN dic => \A f \in DOMAIN dic : IsBefore(i, f)

\* The direction comes from the newest pairs, as many as there are and the ring
\* holds: newest first, then back; each with the step and the gradient change of
\* the same two evaluations, the factor computed from that same pair, each
\* beginning where the one before it ended, and the newest ending here; the scale
\* is the newest pair's.
RecentPairs ==
  iter > 1 =>
    LET down == used.down IN
    /\ Len(down) = (IF iter - 1 < MSize THEN iter - 1 ELSE MSize)
    /\ used.up = Reverse(down)
    /\ \A i \in DOMAIN down : down[i].s = down[i].y /\ down[i].rho = <<down[i].s, down[i].y>>
    /\ \A i \in 1..Len(down) - 1 : down[i].s[1] = down[i + 1].s[2]
    /\ down[1].s[2] = w /\ used.scale = down[1].rho
====
