---- MODULE Training ----
(* Training of a CRF model (CRFLearner::run, learner.cpp): the corpus is read *)
(* and its features are numbered and cut off; then, until the optimizer or    *)
(* the objective settles, threads add up the gradient of the sentences and    *)
(* the optimizer moves the weights. The share of a path in the expectation is *)
(* a number that depends on the weights alone: every path that has one counts *)
(* 1 here, and the penalty, which needs no other part of the state, counts 0. *)
EXTENDS FeatureIndex, LBFGS, TrainingLattice

CONSTANTS
  Sentences,   \* the sentences that may be read (TrainingLattice)
  OldModels,   \* the models to go on from: the sequences of their features
  MaxThreads,  \* bound on thread_num (512 in the source)
  MaxFreq,     \* bound on freq
  CorpusSize,  \* bound on the sentences of a corpus
  MaxEvals     \* bound on the evaluations of the objective

ASSUME TrainingAssumption ==
  /\ MaxThreads \in Nat \ {0} /\ MaxFreq \in Nat \ {0}
  /\ CorpusSize \in Nat \ {0} /\ MaxEvals \in Nat

\* What read() has of a sentence; the keys of a path expand to features.
IsSequence(seq) == seq \in Seq(ToSet(seq))

ASSUME CorpusAssumption ==
  /\ \A sentence \in Sentences :
       /\ IsSequence(sentence.text) /\ IsSequence(sentence.answer)
       /\ \A p \in 1..Len(sentence.text) : IsSequence(sentence.words[p])
       /\ \A i \in DOMAIN PathsOf(sentence) :
            {PathsOf(sentence)[i].uni, PathsOf(sentence)[i].bi} \subseteq DOMAIN Templates
  /\ \A key \in DOMAIN Templates : IsSequence(Templates[key])

\* lookup() gives the words that begin at a position, none of them empty, and
\* read() joins the text from the surfaces of the lines; a line has a surface.
IsPiece(piece, from, n) == piece.from = from /\ piece.to \in from + 1..n

ASSUME SentenceAssumption ==
  \A sentence \in Sentences :
    LET n == Len(sentence.text)  answer == sentence.answer IN
    /\ \A p \in 1..n : \A i \in DOMAIN sentence.words[p] : IsPiece(sentence.words[p][i], p - 1, n)
    /\ answer # <<>> /\ answer[Len(answer)].to = n
    /\ \A i \in DOMAIN answer : IsPiece(answer[i], IF i = 1 THEN 0 ELSE answer[i - 1].to, n)

\* save() writes every feature of its table once.
ASSUME OldModelAssumption ==
  \A model \in OldModels :
    /\ IsSequence(model) /\ \A i \in DOMAIN model : model[i] # <<>>
    /\ \A i, j \in DOMAIN model : model[i] = model[j] => i = j

VARIABLES
  phase,            \* where the main thread is
  freq, threadNum,  \* the options
  x,                \* the sentences read
  oldModel,         \* the features of the file -M names, <<>> for none
  oldAlpha,         \* old_alpha: number -> the feature whose weight it holds
  k,                \* the main thread's counter over threads or sentences
  thread,           \* the learner_thread objects
  total,            \* expected, then the gradient; obj; the scores
  best,             \* sentence -> the path viterbi() left in its lattice
  converge          \* small differences in a row

optionVars == <<freq, threadNum, oldModel>>
roundVars == <<k, thread, total, best>>
vars == <<indexVars, optimizerVars, optionVars, roundVars, phase, x, oldAlpha, converge>>

NoWeight == <<>>
Nothing == [v |-> [id \in 0..maxid - 1 |-> 0], obj |-> 0, score |-> NoScore]
Idle == [at |-> "idle", i |-> 0, sum |-> [v |-> <<>>, obj |-> 0, score |-> NoScore]]

\* What read() leaves in a tagger, and eval() of every best path it may find.
Lattices ==
  [sentence \in Sentences |->
     [paths  |-> PathsOf(sentence),
      shares |-> Shares(sentence),
      answer |-> AnswerPaths(sentence),
      scores |-> [chain \in WaysThrough(sentence) |-> Eval(sentence, chain)]]]

AddScore(a, b) == [field \in DOMAIN a |-> a[field] + b[field]]

\* gradient() and eval() of sentence i, whose best path is chain, added to sum.
\* obj is the number of sentences whose value is in the objective.
Added(sum, i, chain) ==
  [v     |-> AddVectors(sum.v, cache, Lattices[x[i + 1]].shares),
   obj   |-> sum.obj + 1,
   score |-> AddScore(sum.score, Lattices[x[i + 1]].scores[chain])]

Init ==
  /\ Start
  /\ freq \in 1..MaxFreq
  /\ threadNum \in 1..MaxThreads
  /\ oldModel \in OldModels      \* reopen() numbers them as they come
  /\ dic = [feature \in {oldModel[i] : i \in DOMAIN oldModel} |->
              (CHOOSE i \in DOMAIN oldModel : oldModel[i] = feature) - 1]
  /\ maxid = Len(oldModel)
  /\ oldAlpha = [id \in 0..Len(oldModel) - 1 |-> oldModel[id + 1]]
  /\ observed = [id \in 0..Len(oldModel) - 1 |-> 0]
  /\ cache = [key \in {} |-> {}]
  /\ phase = "reading" /\ x = <<>> /\ k = 0 /\ converge = 0
  /\ thread = [t \in 0..threadNum - 1 |-> Idle]
  /\ total = Idle.sum /\ best = <<>>

Read(sentence) ==
  /\ phase = "reading" /\ Len(x) < CorpusSize
  /\ ReadPaths(Lattices[sentence].paths, Lattices[sentence].answer)
  /\ x' = Append(x, sentence)
  /\ UNCHANGED <<optimizerVars, optionVars, roundVars, phase, oldAlpha, converge>>

\* The end of the corpus: the cut-off, and every vector gets the final size.
CutOff ==
  /\ phase = "reading" /\ x # <<>>
  /\ Shrink(freq)
  /\ oldAlpha' = [id \in 0..maxid' - 1 |->
                    IF id \in DOMAIN oldAlpha THEN oldAlpha[id] ELSE NoWeight]
  /\ phase' = "round"
  /\ UNCHANGED <<optimizerVars, optionVars, roundVars, x, converge>>

Main == <<indexVars, optionVars, x, oldAlpha>>

\* One evaluation of the objective.
BeginRound ==
  /\ phase = "round"
  /\ total' = Nothing
  /\ best' = [i \in DOMAIN x |-> <<>>]
  /\ k' = 0
  /\ phase' = IF threadNum > 1 THEN "starting" ELSE "alone"
  /\ UNCHANGED <<Main, optimizerVars, thread, converge>>

Alone ==
  /\ phase = "alone"
  /\ \E chain \in DOMAIN Lattices[x[k + 1]].scores :
       /\ total' = Added(total, k, chain)
       /\ best' = [best EXCEPT ![k + 1] = chain]
  /\ k' = k + 1
  /\ phase' = IF k' = Len(x) THEN "objective" ELSE phase
  /\ UNCHANGED <<Main, optimizerVars, thread, converge>>

StartThread ==
  /\ phase = "starting"
  /\ thread' = [thread EXCEPT ![k].at = "begin"]
  /\ k' = (k + 1) % threadNum
  /\ phase' = IF k' = 0 THEN "joining" ELSE phase
  /\ UNCHANGED <<Main, optimizerVars, total, best, converge>>

\* learner_thread::run(): its sums at zero, then every threadNum-th sentence.
ResetCountersOnly(t) ==
  [at |-> "loop", i |-> t,
   sum |-> [Nothing EXCEPT !.v = IF thread[t].sum.v = <<>> THEN @ ELSE thread[t].sum.v]]
Reset(t) == [at |-> "loop", i |-> t, sum |-> Nothing]

ThreadBegins(t) ==
  /\ thread[t].at = "begin"
  /\ thread' = [thread EXCEPT ![t] = Reset(t)]
  /\ UNCHANGED <<Main, optimizerVars, phase, k, total, best, converge>>

ThreadSentence(t) ==
  /\ thread[t].at = "loop" /\ thread[t].i < Len(x)
  /\ \E chain \in DOMAIN Lattices[x[thread[t].i + 1]].scores : LET i == thread[t].i IN
     /\ thread' = [thread EXCEPT ![t].sum = Added(@, i, chain), ![t].i = i + threadNum]
     /\ best' = [best EXCEPT ![i + 1] = chain]
  /\ UNCHANGED <<Main, optimizerVars, phase, k, total, converge>>

ThreadEnds(t) ==
  /\ thread[t].at = "loop" /\ thread[t].i >= Len(x)
  /\ thread' = [thread EXCEPT ![t].at = "done"]
  /\ UNCHANGED <<Main, optimizerVars, phase, k, total, best, converge>>

JoinThread ==
  /\ phase = "joining" /\ thread[k].at = "done"
  /\ k' = (k + 1) % threadNum
  /\ phase' = IF k' = 0 THEN "summing" ELSE phase
  /\ UNCHANGED <<Main, optimizerVars, thread, total, best, converge>>

SumThread ==
  /\ phase = "summing"
  /\ LET sum == thread[k].sum IN
     total' = [v     |-> [id \in DOMAIN total.v |-> total.v[id] + sum.v[id]],
               obj   |-> total.obj + sum.obj,
               score |-> AddScore(total.score, sum.score)]
  /\ k' = (k + 1) % threadNum
  /\ phase' = IF k' = 0 THEN "objective" ELSE phase
  /\ UNCHANGED <<Main, optimizerVars, thread, best, converge>>

\* The gradient, and whether the objective moved by less than eta; the first
\* evaluation has nothing to compare with and counts as a large difference.
Objective(small) ==
  /\ phase = "objective"
  /\ evals = 0 => ~small
  /\ total' = [total EXCEPT !.v = [id \in DOMAIN @ |-> @[id] - observed[id]]]
  /\ converge' = IF small THEN converge + 1 ELSE 0
  /\ phase' = IF converge' = 3 THEN "writing" ELSE "optimizing"
  /\ UNCHANGED <<Main, optimizerVars, k, thread, best>>

Optimize ==
  /\ phase = "optimizing"
  /\ \/ GoOn /\ evals < MaxEvals /\ phase' = "round"
     \/ Minimum /\ phase' = "writing"
     \/ Failure /\ phase' = "died"
  /\ UNCHANGED <<Main, roundVars, converge>>

Save ==
  /\ phase = "writing"
  /\ phase' = "saved"
  /\ UNCHANGED <<Main, optimizerVars, roundVars, converge>>

Next ==
  \/ \E sentence \in Sentences : Read(sentence)
  \/ CutOff \/ BeginRound \/ Alone \/ StartThread
  \/ \E t \in DOMAIN thread : ThreadBegins(t) \/ ThreadSentence(t) \/ ThreadEnds(t)
  \/ JoinThread \/ SumThread
  \/ \E small \in BOOLEAN : Objective(small)
  \/ Optimize \/ Save

Spec == Init /\ [][Next]_vars
====
