---------------------------- MODULE TrainingProofs ----------------------------
(***************************************************************************)
(* The training of MCTraining, for any corpus, any old models, any number  *)
(* of threads, any cut-off frequency and any size of the corpus.           *)
(*                                                                         *)
(* TrainingInv says what every phase has established: the table has the    *)
(* feature of every sentence read, with the count of the sentences that    *)
(* use it (the reading); the ids are dense and the weights of the old      *)
(* model stand in their new places (the cut-off); a thread that has begun  *)
(* its round holds the counts of the turns it took, and the sum holds      *)
(* those of the threads added (the rounds).  The three safety properties   *)
(* that run "training" checks of the numbering, the gradient and the old   *)
(* weights follow from it, and with ScoreInv, which says the same of the   *)
(* scores, the one about eval().  The last part is about the optimizer the *)
(* training calls, whose ring of pairs needs an invariant of its own.      *)
(***************************************************************************)
EXTENDS MCTraining, InductionLemmas

-----------------------------------------------------------------------------
(***************************************************************************)
(* Part I: the lattices of the corpus.  Their paths are sequences, and the *)
(* templates have the keys of every path.                                  *)
(***************************************************************************)
ArePaths(paths) ==
  /\ paths \in Seq(ToSet(paths))
  /\ \A i \in 1..Len(paths) : paths[i].uni \in DOMAIN Templates /\ paths[i].bi \in DOMAIN Templates

LEMMA SequencesAre ==
  ASSUME NEW q, IsSequence(q)
  PROVE  Len(q) \in Nat /\ DOMAIN q = 1..Len(q) /\ \A i \in 1..Len(q) : q[i] \in ToSet(q)
BY LenProperties, ElementOfSeq DEF IsSequence

(* The nodes, position by position. *)
NodesGrow(sentence, W, F) ==
  LET n == Len(sentence.text) IN
  /\ n \in Nat /\ sentence.answer \in Seq(W) /\ \A i \in 1..n : sentence.words[i] \in Seq(W)
  /\ Boundary(0) \in W /\ Boundary(n) \in W
  /\ F[0] = <<Boundary(0)>> /\ \A i \in 1..n : F[i] = AddNodes(sentence, F[i - 1], i - 1)
  /\ \A i \in 0..n : F[i] \in Seq(W)
  /\ NodesOf(sentence) = Append(F[n], Boundary(n))

LEMMA NodesGrowUp ==
  ASSUME NEW sentence \in Sentences
  PROVE  \E W, F : NodesGrow(sentence, W, F)
<1> DEFINE n == Len(sentence.text)
           W == (UNION {ToSet(sentence.words[p]) : p \in 1..n})
                  \cup ToSet(sentence.answer) \cup {Boundary(0), Boundary(n)}
           V == Seq(W)
           step == [z \in (1..n) \X V |-> AddNodes(sentence, z[2], z[1] - 1)]
           rec(i, h) == IF i = 0 THEN <<Boundary(0)>> ELSE AddNodes(sentence, h[i - 1], i - 1)
           F == CHOOSE h : h = [i \in 0..n |-> rec(i, h)]
<1>1. n \in Nat /\ sentence.answer \in V
  <2>1. IsSequence(sentence.text) /\ IsSequence(sentence.answer)
    BY CorpusAssumption
  <2> QED
    BY <2>1, SequencesAre, SeqMonotonic DEF IsSequence
<1>2. \A p \in 1..n : sentence.words[p] \in V
  <2> TAKE p \in 1..n
  <2>1. IsSequence(sentence.words[p])
    BY CorpusAssumption
  <2>2. ToSet(sentence.words[p]) \subseteq W
    OBVIOUS
  <2> HIDE DEF W
  <2> QED
    BY <2>1, <2>2, SeqMonotonic DEF IsSequence
<1> HIDE DEF n
<1>3. <<Boundary(0)>> \in V /\ Boundary(n) \in W
  <2>1. Boundary(0) \in W /\ Boundary(n) \in W
    OBVIOUS
  <2> HIDE DEF W
  <2> QED
    BY <2>1
<1> HIDE DEF W
<1>4. ASSUME NEW i \in 1..n, NEW nodes \in V
      PROVE  AddNodes(sentence, nodes, i - 1) \in V
  <2>1. (i - 1) + 1 = i /\ sentence.words[i] \in V
    BY <1>1, <1>2
  <2>2. WithVirtual(sentence, i - 1) \in V
    <3> DEFINE found == sentence.words[(i - 1) + 1]
               IsMissing(line) ==
                 line.from = i - 1 /\ \A j \in DOMAIN found : ~CmpEq(sentence, line, found[j])
               K == {j \in DOMAIN sentence.answer : IsMissing(sentence.answer[j])}
    <3>1. WithVirtual(sentence, i - 1) = Select(sentence.answer, K) \o found
      BY DEF WithVirtual
    <3> HIDE DEF K
    <3>2. Select(sentence.answer, K) \in V
      BY <1>1, SelectFacts
    <3>3. found \in V
      BY <2>1
    <3> HIDE DEF found
    <3>4. Select(sentence.answer, K) \o found \in V
      BY <3>2, <3>3, ConcatProperties
    <3> QED
      BY <3>1, <3>4
  <2>3. nodes \o WithVirtual(sentence, i - 1) \in V
    BY <2>2, ConcatProperties
  <2> QED
    BY <2>3 DEF AddNodes
<1>5. step \in [(1..n) \X V -> V]
  <2>1. ASSUME NEW z \in (1..n) \X V PROVE AddNodes(sentence, z[2], z[1] - 1) \in V
    <3>1. z[1] \in 1..n /\ z[2] \in V
      OBVIOUS
    <3> HIDE DEF V
    <3> QED
      BY <1>4, <3>1
  <2> HIDE DEF V
  <2> QED
    BY <2>1
<1>6. PICK f : Iteration(f, n, V, <<Boundary(0)>>, step)
  <2> HIDE DEF step, V
  <2> QED
    BY <1>1, <1>3, <1>5, IterationExists
<1>7. f = [i \in 0..n |-> rec(i, f)]
  <2>1. f \in [0..n -> V] /\ f[0] = <<Boundary(0)>> /\ \A i \in 1..n : f[i] = step[<<i, f[i - 1]>>]
    BY <1>6 DEF Iteration
  <2>2. ASSUME NEW i \in 1..n PROVE f[i] = AddNodes(sentence, f[i - 1], i - 1)
    <3>1. f[i - 1] \in V
      BY <1>1, <2>1
    <3>2. \A h \in V : step[<<i, h>>] = AddNodes(sentence, h, i - 1)
      <4> HIDE DEF V
      <4> QED
        OBVIOUS
    <3> HIDE DEF step, V
    <3> QED
      BY <2>1, <3>1, <3>2
  <2>3. ASSUME NEW i \in 0..n PROVE f[i] = rec(i, f)
    <3>1. i = 0 \/ i \in 1..n
      BY <1>1
    <3> HIDE DEF V, step
    <3> QED
      BY <1>1, <2>1, <2>2, <3>1
  <2> HIDE DEF rec, V
  <2> QED
    BY <2>1, <2>3
<1>8. F = [i \in 0..n |-> rec(i, F)]
  <2> HIDE DEF rec
  <2> QED
    BY <1>7
<1> HIDE DEF F
<1>9. F[0] = <<Boundary(0)>> /\ \A i \in 1..n : F[i] = AddNodes(sentence, F[i - 1], i - 1)
  <2>1. \A i \in 0..n : F[i] = rec(i, F)
    <3> HIDE DEF rec
    <3> QED
      BY <1>8
  <2>2. 0 \in 0..n /\ \A i \in 1..n : i \in 0..n /\ i # 0
    BY <1>1
  <2> QED
    BY <2>1, <2>2
<1> DEFINE U == {i \in Nat : i <= n => F[i] \in V}
<1>10. 0 \in U
  BY <1>3, <1>9
<1>11. ASSUME NEW m \in Nat, m \in U PROVE m + 1 \in U
  <2> SUFFICES ASSUME m + 1 <= n PROVE F[m + 1] \in V
    OBVIOUS
  <2>1. m + 1 \in 1..n /\ (m + 1) - 1 = m /\ F[m] \in V
    BY <1>1, <1>11
  <2>2. AddNodes(sentence, F[m], (m + 1) - 1) \in V
    BY <1>4, <2>1
  <2> QED
    BY <1>9, <2>1, <2>2
<1>12. \A i \in 0..n : F[i] \in V
  <2>1. Nat \subseteq U
    <3> HIDE DEF U
    <3> QED
      BY <1>10, <1>11, NatSetInduction
  <2> QED
    BY <1>1, <2>1
<1>13. NodesOf(sentence) = Append(F[n], Boundary(n))
  BY DEF NodesOf, EndOfText, F, n
<1>14. n = Len(sentence.text) /\ V = Seq(W) /\ Boundary(0) \in W
  BY DEF n, W
<1> QED
  BY <1>1, <1>2, <1>3, <1>9, <1>12, <1>13, <1>14 DEF NodesGrow

LEMMA NodesAreSequence ==
  ASSUME NEW sentence \in Sentences
  PROVE  \E W : NodesOf(sentence) \in Seq(W)
<1>1. PICK W, F : NodesGrow(sentence, W, F)
  BY NodesGrowUp
<1>2. Len(sentence.text) \in 0..Len(sentence.text)
  BY <1>1 DEF NodesGrow
<1> QED
  BY <1>1, <1>2 DEF NodesGrow

LEMMA PathsAre ==
  ASSUME NEW sentence \in Sentences
  PROVE  /\ ArePaths(PathsOf(sentence))
         /\ ArePaths(Shares(sentence)) /\ ArePaths(AnswerPaths(sentence))
         /\ ToSet(Shares(sentence)) \subseteq ToSet(PathsOf(sentence))
         /\ ToSet(AnswerPaths(sentence)) \subseteq ToSet(PathsOf(sentence))
<1> DEFINE nodes == NodesOf(sentence)
           n == Len(nodes)
           Lefts(r) == Select([i \in 1..r - 1 |-> r - i],
                              {i \in 1..r - 1 : nodes[r - i].to = nodes[r].from})
           Path(l, r) == [l |-> l, r |-> r, eos |-> r = n,
                          uni |-> <<nodes[r].feature>>,
                          bi  |-> <<nodes[l].feature, nodes[r].feature>>]
           X == {Path(l, r) : l \in Int, r \in 1..n}
           paths == PathsOf(sentence)
<1>1. n \in Nat /\ DOMAIN nodes = 1..n
  BY NodesAreSequence, LenProperties
<1>2. \A r \in 1..n : Lefts(r) \in Seq(Int)
  <2> TAKE r \in 1..n
  <2> DEFINE before == [i \in 1..r - 1 |-> r - i]
             K == {i \in 1..r - 1 : nodes[r - i].to = nodes[r].from}
  <2>1. before \in Seq(Int)
    <3>1. r - 1 \in Nat /\ before \in [1..r - 1 -> Int]
      BY <1>1
    <3> QED
      BY <3>1, SeqDef
  <2> HIDE DEF before, K
  <2>2. Select(before, K) \in Seq(Int)
    BY <2>1, SelectFacts
  <2> QED
    BY <2>2 DEF before, K
<1>3. paths \in Seq(X)
  <2> DEFINE Row(r) == [i \in DOMAIN Lefts(r) |-> Path(Lefts(r)[i], r)]
             rows == [r \in DOMAIN nodes |-> Row(r)]
  <2>1. ASSUME NEW r \in 1..n PROVE Row(r) \in Seq(X)
    <3>1. Lefts(r) \in Seq(Int) /\ Len(Lefts(r)) \in Nat /\ DOMAIN Lefts(r) = 1..Len(Lefts(r))
      BY <1>2
    <3>2. \A i \in 1..Len(Lefts(r)) : Lefts(r)[i] \in Int
      BY <3>1
    <3> HIDE DEF Lefts, n
    <3>3. \A l \in Int : Path(l, r) \in X
      OBVIOUS
    <3> HIDE DEF Path, X
    <3>4. Row(r) \in [1..Len(Lefts(r)) -> X]
      BY <3>1, <3>2, <3>3
    <3> QED
      BY <3>1, <3>4, SeqDef
  <2>2. paths = FlattenSeq(rows)
    BY DEF PathsOf
  <2> HIDE DEF Row, X, n
  <2>3. rows \in Seq(Seq(X))
    <3>1. rows \in [1..n -> Seq(X)]
      BY <1>1, <2>1
    <3> QED
      BY <1>1, <3>1, SeqDef
  <2> HIDE DEF rows
  <2> QED
    BY <2>2, <2>3, FlattenElements
<1> HIDE DEF X
<1>4. ArePaths(paths)
  <2>1. Len(paths) \in Nat /\ DOMAIN paths = 1..Len(paths) /\ paths \in [1..Len(paths) -> X]
    BY <1>3, LenProperties
  <2>2. paths \in [1..Len(paths) -> ToSet(paths)]
    BY <2>1 DEF ToSet
  <2>3. paths \in Seq(ToSet(paths))
    BY <2>1, <2>2, SeqDef
  <2>4. \A i \in 1..Len(paths) : {paths[i].uni, paths[i].bi} \subseteq DOMAIN Templates
    BY <2>1, CorpusAssumption
  <2> QED
    BY <2>3, <2>4 DEF ArePaths
<1> HIDE DEF paths
<1>5. ASSUME NEW K PROVE ArePaths(Select(paths, K)) /\ ToSet(Select(paths, K)) \subseteq ToSet(paths)
  <2> DEFINE q == Select(paths, K)
  <2>1. q \in Seq(X) /\ \A j \in 1..Len(q) : \E i \in 1..Len(paths) : q[j] = paths[i]
    BY <1>3, SelectFacts
  <2>2. /\ Len(q) \in Nat /\ DOMAIN q = 1..Len(q) /\ q \in [1..Len(q) -> X]
        /\ Len(paths) \in Nat /\ DOMAIN paths = 1..Len(paths)
    BY <1>3, <2>1, LenProperties
  <2> HIDE DEF q
  <2>3. q \in Seq(ToSet(q))
    <3>1. q \in [1..Len(q) -> ToSet(q)]
      BY <2>2 DEF ToSet
    <3> QED
      BY <2>2, <3>1, SeqDef
  <2>4. ToSet(q) \subseteq ToSet(paths)
    BY <2>1, <2>2 DEF ToSet
  <2>5. ArePaths(q)
    BY <1>4, <2>1, <2>3 DEF ArePaths
  <2> QED
    BY <2>4, <2>5 DEF q
<1>6. \E K : Shares(sentence) = Select(paths, K)
  BY DEF Shares, paths
<1>7. \E K : AnswerPaths(sentence) = Select(paths, K)
  BY DEF AnswerPaths, paths
<1> QED
  BY <1>4, <1>5, <1>6, <1>7 DEF paths

-----------------------------------------------------------------------------
(***************************************************************************)
(* Part II: numbering.  A table gives the numbers below its size, each to  *)
(* one feature, and building a vector extends it.                          *)
(***************************************************************************)
IsTable(d, n) ==
  /\ n \in Nat /\ d \in [DOMAIN d -> 0..n - 1]
  /\ \A m \in 0..n - 1 : \E f \in DOMAIN d : d[f] = m
  /\ \A f, g \in DOMAIN d : d[f] = d[g] => f = g

IsWithin(d, e) == DOMAIN d \subseteq DOMAIN e /\ \A f \in DOMAIN d : e[f] = d[f]

LEMMA ExtendedTable ==
  ASSUME NEW d, NEW n, IsTable(d, n), NEW feature, feature \notin DOMAIN d
  PROVE  LET e == With(d, feature, n) IN
         /\ IsTable(e, n + 1) /\ IsWithin(d, e)
         /\ DOMAIN e = DOMAIN d \cup {feature} /\ e[feature] = n
<1> DEFINE e == With(d, feature, n)
<1>1. /\ DOMAIN e = DOMAIN d \cup {feature} /\ e[feature] = n
      /\ \A f \in DOMAIN d : e[f] = d[f]
  BY DEF With
<1>2. e = [f \in DOMAIN e |-> e[f]]
  BY DEF With
<1> HIDE DEF e
<1>3. n \in Nat /\ n + 1 \in Nat /\ (n + 1) - 1 = n
  BY DEF IsTable
<1>4. e \in [DOMAIN e -> 0..n]
  <2>1. \A f \in DOMAIN e : e[f] \in 0..n
    BY <1>1, <1>3 DEF IsTable
  <2> QED
    BY <1>2, <2>1
<1>5. \A m \in 0..n : \E f \in DOMAIN e : e[f] = m
  <2> TAKE m \in 0..n
  <2>1. m = n \/ m \in 0..n - 1
    BY <1>3
  <2> QED
    BY <1>1, <2>1 DEF IsTable
<1>6. \A f, g \in DOMAIN e : e[f] = e[g] => f = g
  <2>1. \A f \in DOMAIN d : e[f] \in 0..n - 1 /\ e[f] # n
    BY <1>1, <1>3 DEF IsTable
  <2> QED
    BY <1>1, <2>1 DEF IsTable
<1>7. IsTable(e, n + 1)
  BY <1>3, <1>4, <1>5, <1>6 DEF IsTable
<1> QED
  BY <1>1, <1>7 DEF e, IsWithin

(* id() for one feature, and the vector it is put in.                       *)
LEMMA NumberStep ==
  ASSUME NEW acc, acc = [dic |-> acc.dic, maxid |-> acc.maxid, vec |-> acc.vec],
         IsTable(acc.dic, acc.maxid), NEW feature
  PROVE  LET next == Number(acc, feature) IN
         /\ next = [dic |-> next.dic, maxid |-> next.maxid, vec |-> next.vec]
         /\ IsTable(next.dic, next.maxid) /\ IsWithin(acc.dic, next.dic)
         /\ DOMAIN next.dic = DOMAIN acc.dic \cup {feature}
         /\ next.vec = Append(acc.vec, next.dic[feature])
<1> DEFINE next == Number(acc, feature)
<1>1. CASE feature \in DOMAIN acc.dic
  <2>1. next = [dic |-> acc.dic, maxid |-> acc.maxid, vec |-> Append(acc.vec, acc.dic[feature])]
    BY <1>1 DEF Number
  <2> QED
    BY <1>1, <2>1 DEF IsWithin
<1>2. CASE feature \notin DOMAIN acc.dic
  <2> DEFINE e == With(acc.dic, feature, acc.maxid)
  <2>1. next = [dic |-> e, maxid |-> acc.maxid + 1, vec |-> Append(acc.vec, acc.maxid)]
    BY <1>2 DEF Number
  <2>2. /\ IsTable(e, acc.maxid + 1) /\ IsWithin(acc.dic, e)
        /\ DOMAIN e = DOMAIN acc.dic \cup {feature} /\ e[feature] = acc.maxid
    BY <1>2, ExtendedTable
  <2> HIDE DEF e
  <2> QED
    BY <2>1, <2>2
<1> QED
  BY <1>1, <1>2

(* Every feature of a vector, in order.                                     *)
LEMMA NumberedFeatures ==
  ASSUME NEW index, IsTable(index.dic, index.maxid), NEW features, IsSequence(features)
  PROVE  LET built == Numbered(index, features) IN
         /\ IsTable(built.dic, built.maxid) /\ IsWithin(index.dic, built.dic)
         /\ DOMAIN built.dic = DOMAIN index.dic \cup ToSet(features)
         /\ built.vec = [i \in 1..Len(features) |-> built.dic[features[i]]]
<1> DEFINE n == Len(features)
           D == DOMAIN index.dic \cup ToSet(features)
           base == [dic |-> index.dic, maxid |-> index.maxid, vec |-> <<>>]
           M == UNION {[A -> Nat] : A \in SUBSET D}
           V == {[dic |-> d, maxid |-> m, vec |-> v] : d \in M, m \in Nat, v \in Seq(Nat)}
           step == [z \in (1..n) \X V |-> Number(z[2], features[z[1]])]
           rec(i, h) == IF i = 0 THEN base ELSE Number(h[i - 1], features[i])
           F == CHOOSE h : h = [i \in 0..n |-> rec(i, h)]
<1>1. n \in Nat /\ DOMAIN features = 1..n /\ \A i \in 1..n : features[i] \in ToSet(features)
  BY SequencesAre
<1> HIDE DEF n
<1>2. \A A \in SUBSET D : \A d \in [A -> Nat] : d \in M
  OBVIOUS
<1>3. \A d \in M, m \in Nat, v \in Seq(Nat) : [dic |-> d, maxid |-> m, vec |-> v] \in V
  <2> HIDE DEF M
  <2> QED
    OBVIOUS
<1>4. base \in V
  <2>1. index.maxid \in Nat /\ index.dic \in [DOMAIN index.dic -> Nat]
    BY DEF IsTable
  <2>2. index.dic \in M
    BY <1>2, <2>1
  <2>3. <<>> \in Seq(Nat)
    OBVIOUS
  <2> HIDE DEF V, M
  <2> QED
    BY <1>3, <2>1, <2>2, <2>3
<1>5. ASSUME NEW i \in 1..n, NEW acc \in V PROVE Number(acc, features[i]) \in V
  <2>1. PICK d \in M, m \in Nat, v \in Seq(Nat) : acc = [dic |-> d, maxid |-> m, vec |-> v]
    <3> HIDE DEF M
    <3> QED
      BY <1>5
  <2>2. PICK A \in SUBSET D : d \in [A -> Nat]
    OBVIOUS
  <2> DEFINE feature == features[i]
  <2>3. feature \in D
    BY <1>1
  <2> HIDE DEF feature, V, M, D
  <2>4. CASE feature \in A
    <3>1. Number(acc, feature) = [dic |-> d, maxid |-> m, vec |-> Append(v, d[feature])]
      <4>1. feature \in DOMAIN acc.dic /\ acc.dic = d
        BY <2>1, <2>2, <2>4
      <4>2. Number(acc, feature) = [acc EXCEPT !.vec = Append(acc.vec, d[feature])]
        BY <4>1 DEF Number
      <4> QED
        BY <2>1, <4>2
    <3>2. d[feature] \in Nat
      BY <2>2, <2>4
    <3>3. Append(v, d[feature]) \in Seq(Nat)
      BY <3>2
    <3> QED
      BY <1>3, <3>1, <3>3 DEF feature
  <2>5. CASE feature \notin A
    <3> DEFINE e == With(d, feature, m)
    <3>1. Number(acc, feature) = [dic |-> e, maxid |-> m + 1, vec |-> Append(v, m)]
      BY <2>1, <2>2, <2>5 DEF Number
    <3>2. e \in [A \cup {feature} -> Nat]
      BY <2>2 DEF With
    <3>3. A \cup {feature} \in SUBSET D
      BY <2>3
    <3>4. Append(v, m) \in Seq(Nat) /\ m + 1 \in Nat
      OBVIOUS
    <3>5. e \in M
      <4> HIDE DEF e
      <4> QED
        BY <1>2, <3>2, <3>3
    <3> HIDE DEF e
    <3> QED
      BY <1>3, <3>1, <3>4, <3>5 DEF feature
  <2> QED
    BY <2>4, <2>5 DEF feature
<1> HIDE DEF base
<1>6. step \in [(1..n) \X V -> V]
  <2>1. ASSUME NEW z \in (1..n) \X V PROVE Number(z[2], features[z[1]]) \in V
    <3>1. z[1] \in 1..n /\ z[2] \in V
      OBVIOUS
    <3> HIDE DEF V
    <3> QED
      BY <1>5, <3>1
  <2> HIDE DEF V
  <2> QED
    BY <2>1
<1>7. PICK f : Iteration(f, n, V, base, step)
  <2> HIDE DEF step, V
  <2> QED
    BY <1>1, <1>4, <1>6, IterationExists
<1>8. f = [i \in 0..n |-> rec(i, f)]
  <2>1. f \in [0..n -> V] /\ f[0] = base /\ \A i \in 1..n : f[i] = step[<<i, f[i - 1]>>]
    <3> HIDE DEF V, step
    <3> QED
      BY <1>7 DEF Iteration
  <2>2. ASSUME NEW i \in 1..n PROVE f[i] = Number(f[i - 1], features[i])
    <3>1. f[i - 1] \in V
      <4> HIDE DEF V
      <4> QED
        BY <1>1, <2>1
    <3>2. \A h \in V : step[<<i, h>>] = Number(h, features[i])
      <4> HIDE DEF V
      <4> QED
        OBVIOUS
    <3> HIDE DEF step, V
    <3> QED
      BY <2>1, <3>1, <3>2
  <2>3. ASSUME NEW i \in 0..n PROVE f[i] = rec(i, f)
    <3>1. i = 0 \/ i \in 1..n
      BY <1>1
    <3> HIDE DEF V, step
    <3> QED
      BY <1>1, <2>1, <2>2, <3>1
  <2> HIDE DEF rec, V
  <2> QED
    BY <2>1, <2>3
<1>9. F = [i \in 0..n |-> rec(i, F)]
  <2> HIDE DEF rec
  <2> QED
    BY <1>8
<1>10. Numbered(index, features) = F[n]
  BY DEF Numbered, F, n, base
<1> HIDE DEF F
<1>11. F[0] = base /\ \A i \in 1..n : F[i] = Number(F[i - 1], features[i])
  <2>1. \A i \in 0..n : F[i] = rec(i, F)
    <3> HIDE DEF rec
    <3> QED
      BY <1>9
  <2>2. 0 \in 0..n /\ \A i \in 1..n : i \in 0..n /\ i # 0
    BY <1>1
  <2> QED
    BY <2>1, <2>2
<1> DEFINE Fine(i) ==
             /\ F[i] = [dic |-> F[i].dic, maxid |-> F[i].maxid, vec |-> F[i].vec]
             /\ IsTable(F[i].dic, F[i].maxid) /\ IsWithin(index.dic, F[i].dic)
             /\ DOMAIN F[i].dic = DOMAIN index.dic \cup {features[j] : j \in 1..i}
             /\ F[i].vec = [j \in 1..i |-> F[i].dic[features[j]]]
           U == {i \in Nat : i <= n => Fine(i)}
<1>12. Fine(0)
  <2>1. base = [dic |-> index.dic, maxid |-> index.maxid, vec |-> <<>>]
    BY DEF base
  <2>2. <<>> = [j \in 1..0 |-> base.dic[features[j]]] /\ 1..0 = {}
    OBVIOUS
  <2> QED
    BY <1>11, <2>1, <2>2 DEF IsWithin
<1>13. ASSUME NEW i \in Nat, i + 1 <= n, Fine(i) PROVE Fine(i + 1)
  <2> DEFINE feature == features[i + 1]
             acc == F[i]
             next == F[i + 1]
  <2>1. i + 1 \in 1..n /\ (i + 1) - 1 = i
    BY <1>1, <1>13
  <2>2. next = Number(acc, feature)
    BY <1>11, <2>1
  <2>3. /\ acc = [dic |-> acc.dic, maxid |-> acc.maxid, vec |-> acc.vec]
        /\ IsTable(acc.dic, acc.maxid) /\ IsWithin(index.dic, acc.dic)
        /\ DOMAIN acc.dic = DOMAIN index.dic \cup {features[j] : j \in 1..i}
        /\ acc.vec = [j \in 1..i |-> acc.dic[features[j]]]
    BY <1>13
  <2> HIDE DEF feature, acc, next
  <2>4. /\ next = [dic |-> next.dic, maxid |-> next.maxid, vec |-> next.vec]
        /\ IsTable(next.dic, next.maxid) /\ IsWithin(acc.dic, next.dic)
        /\ DOMAIN next.dic = DOMAIN acc.dic \cup {feature}
        /\ next.vec = Append(acc.vec, next.dic[feature])
    BY <2>2, <2>3, NumberStep
  <2>5. IsWithin(index.dic, next.dic)
    BY <2>3, <2>4 DEF IsWithin
  <2>6. DOMAIN next.dic = DOMAIN index.dic \cup {features[j] : j \in 1..i + 1}
    <3>1. {features[j] : j \in 1..i + 1} = {features[j] : j \in 1..i} \cup {feature}
      BY DEF feature
    <3> QED
      BY <2>3, <2>4, <3>1
  <2>7. next.vec = [j \in 1..i + 1 |-> next.dic[features[j]]]
    <3>1. acc.vec = [j \in 1..i |-> next.dic[features[j]]]
      BY <2>3, <2>4 DEF IsWithin
    <3>2. Append(acc.vec, next.dic[feature])
            = [j \in 1..i + 1 |-> IF j <= i THEN acc.vec[j] ELSE next.dic[feature]]
      <4>1. acc.vec \in Seq(Range(acc.vec)) /\ Len(acc.vec) = i
        BY <3>1, SeqDef DEF Range
      <4> QED
        BY <3>1, <4>1
    <3>3. \A j \in 1..i + 1 : (IF j <= i THEN acc.vec[j] ELSE next.dic[feature]) = next.dic[features[j]]
      BY <3>1 DEF feature
    <3> QED
      BY <2>4, <3>2, <3>3
  <2> QED
    BY <2>4, <2>5, <2>6, <2>7 DEF next
<1>14. Fine(n)
  <2> HIDE DEF Fine
  <2>1. 0 \in U /\ \A i \in Nat : i \in U => i + 1 \in U
    BY <1>1, <1>12, <1>13
  <2>2. n \in U
    <3> HIDE DEF U
    <3> QED
      BY <1>1, <2>1, NatSetInduction
  <2> QED
    BY <1>1, <2>2
<1>15. {features[j] : j \in 1..n} = ToSet(features)
  BY <1>1 DEF ToSet
<1> QED
  BY <1>10, <1>14, <1>15 DEF n
(***************************************************************************)
(* What holds of the features, their numbers and the vectors of the cache  *)
(* while the corpus is read, and how often a feature has been asked for.   *)
(***************************************************************************)
IsVector(vec, d, features) ==
  /\ \A i \in 1..Len(features) : features[i] \in DOMAIN d
  /\ vec = [i \in 1..Len(features) |-> d[features[i]]]

IsIndex(index) ==
  /\ index = [dic |-> index.dic, maxid |-> index.maxid, cache |-> index.cache]
  /\ IsTable(index.dic, index.maxid) /\ DOMAIN index.dic \subseteq AllFeatures
  /\ DOMAIN index.cache \subseteq DOMAIN Templates /\ IsFiniteSet(DOMAIN index.cache)
  /\ index.cache = [key \in DOMAIN index.cache |-> index.cache[key]]
  /\ \A key \in DOMAIN index.cache :
       /\ index.cache[key] = [vec |-> index.cache[key].vec, count |-> index.cache[key].count]
       /\ index.cache[key].count \in Nat
       /\ IsVector(index.cache[key].vec, index.dic, Templates[key])

Terms(held, feature) == [key \in DOMAIN held |-> held[key].count * Times(Templates[key], feature)]
AskedSoFar(index, feature) == SumFunctionOnSet(Terms(index.cache, feature), DOMAIN index.cache)

LEMMA TemplatesAre ==
  ASSUME NEW key \in DOMAIN Templates
  PROVE  /\ IsSequence(Templates[key]) /\ Templates[key] \in Seq(AllFeatures)
         /\ ToSet(Templates[key]) \subseteq AllFeatures
         /\ \A feature : Times(Templates[key], feature) \in Nat
<1>1. IsSequence(Templates[key])
  BY CorpusAssumption
<1>2. ToSet(Templates[key]) \subseteq AllFeatures
  BY DEF AllFeatures
<1>3. Templates[key] \in Seq(AllFeatures)
  BY <1>1, <1>2, SeqMonotonic DEF IsSequence
<1> QED
  BY <1>1, <1>2, <1>3, TimesFacts

LEMMA TermsSum ==
  ASSUME NEW index, IsIndex(index), NEW feature
  PROVE  /\ Summable(Terms(index.cache, feature), DOMAIN index.cache)
         /\ AskedSoFar(index, feature) \in Int
<1>1. \A key \in DOMAIN index.cache : Terms(index.cache, feature)[key] \in Int
  <2> TAKE key \in DOMAIN index.cache
  <2>1. index.cache[key].count \in Nat /\ Times(Templates[key], feature) \in Nat
    BY TemplatesAre DEF IsIndex
  <2>2. index.cache[key].count * Times(Templates[key], feature) \in Int
    BY <2>1
  <2> QED
    BY <2>2 DEF Terms
<1>2. Summable(Terms(index.cache, feature), DOMAIN index.cache)
  BY <1>1 DEF Summable, IsIndex
<1> QED
  BY <1>2, SumFacts DEF AskedSoFar

(* A vector that is in the table of a smaller index is in a larger one's.   *)
LEMMA VectorStays ==
  ASSUME NEW vec, NEW d, NEW e, IsWithin(d, e), NEW features, IsVector(vec, d, features)
  PROVE  IsVector(vec, e, features)
BY DEF IsWithin, IsVector

LEMMA BuildVectorIs ==
  ASSUME NEW index, IsIndex(index), NEW key \in DOMAIN Templates
  PROVE  LET next == BuildVector(index, key) IN
         /\ IsIndex(next) /\ IsWithin(index.dic, next.dic)
         /\ DOMAIN next.cache = DOMAIN index.cache \cup {key}
         /\ \A feature :
              AskedSoFar(next, feature) = AskedSoFar(index, feature) + Times(Templates[key], feature)
<1> DEFINE next == BuildVector(index, key)
           held == index.cache
<1>1. CASE key \in DOMAIN held
  <2> DEFINE now == [held EXCEPT ![key].count = held[key].count + 1]
  <2>1. next = [dic |-> index.dic, maxid |-> index.maxid, cache |-> now]
    BY <1>1 DEF BuildVector, IsIndex
  <2>2. /\ DOMAIN now = DOMAIN held /\ now = [other \in DOMAIN held |-> now[other]]
        /\ \A other \in DOMAIN held : other # key => now[other] = held[other]
        /\ now[key] = [vec |-> held[key].vec, count |-> held[key].count + 1]
    BY <1>1 DEF IsIndex
  <2> HIDE DEF now
  <2>3. held[key].count \in Nat /\ held[key].count + 1 \in Nat
    BY <1>1 DEF IsIndex
  <2>4. IsIndex(next)
    <3>1. \A other \in DOMAIN now :
            /\ now[other] = [vec |-> now[other].vec, count |-> now[other].count]
            /\ now[other].count \in Nat
            /\ IsVector(now[other].vec, index.dic, Templates[other])
      BY <1>1, <2>2, <2>3 DEF IsIndex
    <3> QED
      BY <2>1, <2>2, <3>1 DEF IsIndex
  <2>5. ASSUME NEW feature
        PROVE  AskedSoFar(next, feature) = AskedSoFar(index, feature) + Times(Templates[key], feature)
    <3> DEFINE before == Terms(held, feature)
               after == Terms(now, feature)
               rest == DOMAIN held \ {key}
               times == Times(Templates[key], feature)
    <3>1. Summable(before, DOMAIN held) /\ Summable(after, DOMAIN held)
      <4>1. next.cache = now
        BY <2>1
      <4> QED
        BY <2>2, <2>4, <4>1, TermsSum
    <3>2. \A other \in rest : before[other] = after[other]
      BY <2>2 DEF Terms
    <3>3. before[key] = held[key].count * times /\ after[key] = (held[key].count + 1) * times
      BY <1>1, <2>2 DEF Terms
    <3>4. times \in Nat
      BY TemplatesAre
    <3> HIDE DEF before, after, times
    <3>5. /\ SumFunctionOnSet(before, DOMAIN held) = before[key] + SumFunctionOnSet(before, rest)
          /\ SumFunctionOnSet(after, DOMAIN held) = after[key] + SumFunctionOnSet(after, rest)
      BY <1>1, <3>1, SumTakesOut
    <3>6. Summable(before, rest)
      <4>1. IsFiniteSet(rest)
        BY <3>1, FS_Subset DEF Summable
      <4> QED
        BY <3>1, <4>1 DEF Summable
    <3>7. SumFunctionOnSet(before, rest) \in Int /\ SumFunctionOnSet(before, rest) = SumFunctionOnSet(after, rest)
      <4>1. SumFunctionOnSet(before, rest) \in Int
        BY <3>6, SumFacts
      <4>2. SumFunctionOnSet(before, rest) = SumFunctionOnSet(after, rest)
        BY <3>2, <3>6, SumSame
      <4> QED
        BY <4>1, <4>2
    <3>8. after[key] = before[key] + times /\ before[key] \in Int
      BY <2>3, <3>3, <3>4
    <3>9. SumFunctionOnSet(after, DOMAIN held) = SumFunctionOnSet(before, DOMAIN held) + times
      BY <3>4, <3>5, <3>7, <3>8
    <3> QED
      BY <2>1, <2>2, <3>9 DEF AskedSoFar, before, after, times
  <2>6. IsWithin(index.dic, next.dic)
    BY <2>1 DEF IsWithin
  <2> QED
    BY <1>1, <2>1, <2>2, <2>4, <2>5, <2>6
<1>2. CASE key \notin DOMAIN held
  <2> DEFINE features == Templates[key]
             built == Numbered(index, features)
             entry == [vec |-> built.vec, count |-> 1]
             now == With(held, key, entry)
  <2>1. next = [dic |-> built.dic, maxid |-> built.maxid, cache |-> now]
    BY <1>2 DEF BuildVector
  <2>2. /\ DOMAIN now = DOMAIN held \cup {key} /\ now = [other \in DOMAIN now |-> now[other]]
        /\ \A other \in DOMAIN held : now[other] = held[other]
        /\ now[key] = entry
    BY <1>2 DEF With
  <2>3. /\ IsTable(built.dic, built.maxid) /\ IsWithin(index.dic, built.dic)
        /\ DOMAIN built.dic = DOMAIN index.dic \cup ToSet(features)
        /\ built.vec = [i \in 1..Len(features) |-> built.dic[features[i]]]
    BY TemplatesAre, NumberedFeatures DEF IsIndex
  <2> HIDE DEF now, built, features
  <2>4. IsIndex(next)
    <3>1. \A i \in 1..Len(features) : features[i] \in DOMAIN built.dic
      BY <2>3, TemplatesAre, SequencesAre DEF features
    <3>2. IsVector(built.vec, built.dic, features)
      BY <2>3, <3>1 DEF IsVector
    <3>3. \A other \in DOMAIN now :
            /\ now[other] = [vec |-> now[other].vec, count |-> now[other].count]
            /\ now[other].count \in Nat
            /\ IsVector(now[other].vec, built.dic, Templates[other])
      <4> TAKE other \in DOMAIN now
      <4>1. CASE other = key
        BY <2>2, <3>2, <4>1 DEF features
      <4>2. CASE other # key
        <5>1. other \in DOMAIN held /\ now[other] = held[other]
          BY <2>2, <4>2
        <5>2. /\ held[other] = [vec |-> held[other].vec, count |-> held[other].count]
              /\ held[other].count \in Nat
              /\ IsVector(held[other].vec, index.dic, Templates[other])
          BY <5>1 DEF IsIndex
        <5>3. IsVector(held[other].vec, built.dic, Templates[other])
          BY <2>3, <5>2, VectorStays
        <5> QED
          BY <5>1, <5>2, <5>3
      <4> QED
        BY <4>1, <4>2
    <3>4. DOMAIN built.dic \subseteq AllFeatures
      BY <2>3, TemplatesAre DEF IsIndex, features
    <3>5. IsFiniteSet(DOMAIN now) /\ DOMAIN now \subseteq DOMAIN Templates
      BY <2>2, FS_AddElement DEF IsIndex
    <3> QED
      BY <2>1, <2>2, <2>3, <3>3, <3>4, <3>5 DEF IsIndex
  <2>5. ASSUME NEW feature
        PROVE  AskedSoFar(next, feature) = AskedSoFar(index, feature) + Times(Templates[key], feature)
    <3> DEFINE before == Terms(held, feature)
               after == Terms(now, feature)
               times == Times(Templates[key], feature)
    <3>1. Summable(after, DOMAIN held \cup {key})
      <4>1. next.cache = now
        BY <2>1
      <4> QED
        BY <2>2, <2>4, <4>1, TermsSum
    <3>2. \A other \in DOMAIN held : before[other] = after[other]
      BY <2>2 DEF Terms
    <3>3. times \in Nat
      BY TemplatesAre
    <3>4. after[key] = times
      <4>1. after[key] = 1 * times
        BY <2>2 DEF Terms
      <4> HIDE DEF after, times
      <4> QED
        BY <3>3, <4>1
    <3>5. AskedSoFar(index, feature) \in Int /\ Summable(before, DOMAIN held)
      BY TermsSum
    <3> HIDE DEF before, after, times
    <3>6. SumFunctionOnSet(after, DOMAIN held \cup {key}) = after[key] + SumFunctionOnSet(after, DOMAIN held)
      BY <1>2, <3>1, SumAdds
    <3>7. SumFunctionOnSet(before, DOMAIN held) = SumFunctionOnSet(after, DOMAIN held)
      BY <3>2, <3>5, SumSame
    <3>8. AskedSoFar(next, feature) = SumFunctionOnSet(after, DOMAIN held \cup {key})
      BY <2>1, <2>2 DEF AskedSoFar, after
    <3>9. AskedSoFar(index, feature) = SumFunctionOnSet(before, DOMAIN held)
      BY DEF AskedSoFar, before
    <3> QED
      BY <3>3, <3>4, <3>5, <3>6, <3>7, <3>8, <3>9 DEF times
  <2> QED
    BY <2>1, <2>2, <2>3, <2>4, <2>5
<1> QED
  BY <1>1, <1>2

(* The two vectors of a path.                                               *)
LEMMA BuildFeatureIs ==
  ASSUME NEW index, IsIndex(index),
         NEW path, path.uni \in DOMAIN Templates, path.bi \in DOMAIN Templates
  PROVE  LET next == BuildFeature(index, path) IN
         /\ IsIndex(next) /\ IsWithin(index.dic, next.dic)
         /\ DOMAIN next.cache = DOMAIN index.cache \cup {path.uni, path.bi}
         /\ \A feature : AskedSoFar(next, feature) = AskedSoFar(index, feature) + Asks(path, feature)
         /\ \A feature : Asks(path, feature) \in Nat
<1> DEFINE between == BuildVector(index, path.uni)
           next == BuildVector(between, path.bi)
<1>1. /\ IsIndex(between) /\ IsWithin(index.dic, between.dic)
      /\ DOMAIN between.cache = DOMAIN index.cache \cup {path.uni}
      /\ \A feature :
           AskedSoFar(between, feature) = AskedSoFar(index, feature) + Times(Templates[path.uni], feature)
  BY BuildVectorIs
<1> HIDE DEF between
<1>2. /\ IsIndex(next) /\ IsWithin(between.dic, next.dic)
      /\ DOMAIN next.cache = DOMAIN between.cache \cup {path.bi}
      /\ \A feature :
           AskedSoFar(next, feature) = AskedSoFar(between, feature) + Times(Templates[path.bi], feature)
  BY <1>1, BuildVectorIs
<1>3. BuildFeature(index, path) = next
  BY DEF BuildFeature, between
<1> HIDE DEF next
<1>4. ASSUME NEW feature
      PROVE  /\ AskedSoFar(next, feature) = AskedSoFar(index, feature) + Asks(path, feature)
             /\ Asks(path, feature) \in Nat
  <2>1. /\ AskedSoFar(index, feature) \in Int
        /\ Times(Templates[path.uni], feature) \in Nat /\ Times(Templates[path.bi], feature) \in Nat
    BY TermsSum, TemplatesAre
  <2>2. /\ AskedSoFar(between, feature) = AskedSoFar(index, feature) + Times(Templates[path.uni], feature)
        /\ AskedSoFar(next, feature) = AskedSoFar(between, feature) + Times(Templates[path.bi], feature)
    BY <1>1, <1>2
  <2> QED
    BY <2>1, <2>2 DEF Asks
<1>5. IsWithin(index.dic, next.dic)
  BY <1>1, <1>2 DEF IsWithin
<1> QED
  BY <1>1, <1>2, <1>3, <1>4, <1>5
(* The indices are a set. *)
Tables == UNION {[A -> Nat] : A \in SUBSET AllFeatures}
Entries == [vec : Seq(Nat), count : Nat]
Caches == UNION {[B -> Entries] : B \in SUBSET DOMAIN Templates}
Indices == {index \in [dic : Tables, maxid : Nat, cache : Caches] : IsIndex(index)}

LEMMA IndexInSet ==
  ASSUME NEW index, IsIndex(index)
  PROVE  index \in Indices
<1>1. index.maxid \in Nat /\ index.dic \in [DOMAIN index.dic -> Nat]
  BY DEF IsIndex, IsTable
<1>2. index.dic \in Tables
  <2>1. DOMAIN index.dic \in SUBSET AllFeatures
    BY DEF IsIndex
  <2> QED
    BY <1>1, <2>1 DEF Tables
<1>3. ASSUME NEW key \in DOMAIN index.cache PROVE index.cache[key] \in Entries
  <2> DEFINE entry == index.cache[key]
             n == Len(Templates[key])
  <2>1. /\ entry = [vec |-> entry.vec, count |-> entry.count] /\ entry.count \in Nat
        /\ IsVector(entry.vec, index.dic, Templates[key])
    BY DEF IsIndex
  <2>2. n \in Nat
    BY TemplatesAre, SequencesAre DEF IsIndex
  <2>3. entry.vec \in [1..n -> Nat]
    BY <1>1, <2>1 DEF IsVector
  <2>4. entry.vec \in Seq(Nat)
    BY <2>2, <2>3, SeqDef
  <2> HIDE DEF entry
  <2> QED
    BY <2>1, <2>4 DEF Entries, entry
<1>4. index.cache \in Caches
  <2>1. index.cache \in [DOMAIN index.cache -> Entries] /\ DOMAIN index.cache \in SUBSET DOMAIN Templates
    BY <1>3 DEF IsIndex
  <2> QED
    BY <2>1 DEF Caches
<1> QED
  BY <1>1, <1>2, <1>4 DEF Indices, IsIndex

(* read() of one sentence: every path of its lattice asks for its features. *)
LEMMA BuiltIs ==
  ASSUME IsIndex(Index), NEW paths, ArePaths(paths)
  PROVE  LET next == Built(paths) IN
         /\ IsIndex(next) /\ IsWithin(dic, next.dic)
         /\ DOMAIN cache \subseteq DOMAIN next.cache
         /\ \A i \in 1..Len(paths) : {paths[i].uni, paths[i].bi} \subseteq DOMAIN next.cache
         /\ \A feature :
              AskedSoFar(next, feature) = AskedSoFar(Index, feature)
                + SumFunction([i \in DOMAIN paths |-> Asks(paths[i], feature)])
<1> DEFINE n == Len(paths)
           step == [z \in (1..n) \X Indices |-> BuildFeature(z[2], paths[z[1]])]
           rec(i, h) == IF i = 0 THEN Index ELSE BuildFeature(h[i - 1], paths[i])
           F == CHOOSE h : h = [i \in 0..n |-> rec(i, h)]
<1>1. n \in Nat /\ DOMAIN paths = 1..n
  BY LenProperties DEF ArePaths
<1> HIDE DEF n
<1>2. \A i \in 1..n : paths[i].uni \in DOMAIN Templates /\ paths[i].bi \in DOMAIN Templates
  BY DEF ArePaths, n
<1>3. Index \in Indices
  BY IndexInSet
<1>4. ASSUME NEW i \in 1..n, NEW index \in Indices PROVE BuildFeature(index, paths[i]) \in Indices
  <2>1. IsIndex(index)
    BY DEF Indices
  <2>2. IsIndex(BuildFeature(index, paths[i]))
    BY <1>2, <2>1, BuildFeatureIs
  <2> QED
    BY <2>2, IndexInSet
<1>5. step \in [(1..n) \X Indices -> Indices]
  BY <1>4
<1>6. PICK f : Iteration(f, n, Indices, Index, step)
  <2> HIDE DEF step
  <2> QED
    BY <1>1, <1>3, <1>5, IterationExists
<1>7. f = [i \in 0..n |-> rec(i, f)]
  <2>1. f \in [0..n -> Indices] /\ f[0] = Index /\ \A i \in 1..n : f[i] = step[<<i, f[i - 1]>>]
    <3> HIDE DEF step
    <3> QED
      BY <1>6 DEF Iteration
  <2>2. ASSUME NEW i \in 1..n PROVE f[i] = BuildFeature(f[i - 1], paths[i])
    <3>1. f[i - 1] \in Indices
      BY <1>1, <2>1
    <3>2. \A h \in Indices : step[<<i, h>>] = BuildFeature(h, paths[i])
      OBVIOUS
    <3> HIDE DEF step
    <3> QED
      BY <2>1, <3>1, <3>2
  <2>3. ASSUME NEW i \in 0..n PROVE f[i] = rec(i, f)
    <3>1. i = 0 \/ i \in 1..n
      BY <1>1
    <3> HIDE DEF step
    <3> QED
      BY <1>1, <2>1, <2>2, <3>1
  <2> HIDE DEF rec
  <2> QED
    BY <2>1, <2>3
<1>8. F = [i \in 0..n |-> rec(i, F)]
  <2> HIDE DEF rec
  <2> QED
    BY <1>7
<1>9. Built(paths) = F[n]
  BY DEF Built, F, n
<1> HIDE DEF F
<1>10. F[0] = Index /\ \A i \in 1..n : F[i] = BuildFeature(F[i - 1], paths[i])
  <2>1. \A i \in 0..n : F[i] = rec(i, F)
    <3> HIDE DEF rec
    <3> QED
      BY <1>8
  <2>2. 0 \in 0..n /\ \A i \in 1..n : i \in 0..n /\ i # 0
    BY <1>1
  <2> QED
    BY <2>1, <2>2
<1> DEFINE asks(feature) == [i \in DOMAIN paths |-> Asks(paths[i], feature)]
           Fine(i) ==
             /\ IsIndex(F[i]) /\ IsWithin(dic, F[i].dic)
             /\ DOMAIN F[i].cache = DOMAIN cache \cup UNION {{paths[j].uni, paths[j].bi} : j \in 1..i}
             /\ \A feature :
                  /\ AskedSoFar(F[i], feature)
                       = AskedSoFar(Index, feature) + SumFunctionOnSet(asks(feature), 1..i)
           U == {i \in Nat : i <= n => Fine(i)}
<1>11. \A feature : \A i \in 1..n : asks(feature)[i] = Asks(paths[i], feature) /\ asks(feature)[i] \in Nat
  <2> TAKE feature
  <2> TAKE i \in 1..n
  <2>1. Asks(paths[i], feature) \in Nat
    BY <1>2, <1>3, BuildFeatureIs DEF Indices
  <2> QED
    BY <1>1, <2>1
<1> HIDE DEF asks
<1>12. Fine(0)
  <2>1. 1..0 = {} /\ Index.dic = dic /\ Index.cache = cache
    BY DEF Index
  <2>2. \A feature : SumFunctionOnSet(asks(feature), 1..0) = 0
    BY <2>1, SumOfNone
  <2>3. \A feature : AskedSoFar(Index, feature) \in Int
    BY TermsSum
  <2> QED
    BY <1>10, <2>1, <2>2, <2>3 DEF IsWithin
<1>13. ASSUME NEW i \in Nat, i + 1 <= n, Fine(i) PROVE Fine(i + 1)
  <2> DEFINE path == paths[i + 1]
             index == F[i]
             next == F[i + 1]
  <2>1. i + 1 \in 1..n /\ (i + 1) - 1 = i
    BY <1>1, <1>13
  <2>2. next = BuildFeature(index, path) /\ path.uni \in DOMAIN Templates /\ path.bi \in DOMAIN Templates
    BY <1>2, <1>10, <2>1
  <2>3. /\ IsIndex(index) /\ IsWithin(dic, index.dic)
        /\ DOMAIN index.cache = DOMAIN cache \cup UNION {{paths[j].uni, paths[j].bi} : j \in 1..i}
        /\ \A feature : AskedSoFar(index, feature)
             = AskedSoFar(Index, feature) + SumFunctionOnSet(asks(feature), 1..i)
    BY <1>13
  <2> HIDE DEF index, next
  <2>4. /\ IsIndex(next) /\ IsWithin(index.dic, next.dic)
        /\ DOMAIN next.cache = DOMAIN index.cache \cup {path.uni, path.bi}
        /\ \A feature : AskedSoFar(next, feature) = AskedSoFar(index, feature) + Asks(path, feature)
    BY <2>2, <2>3, BuildFeatureIs
  <2>5. IsWithin(dic, next.dic)
    BY <2>3, <2>4 DEF IsWithin
  <2>6. DOMAIN next.cache = DOMAIN cache \cup UNION {{paths[j].uni, paths[j].bi} : j \in 1..i + 1}
    <3> HIDE DEF path
    <3>1. UNION {{paths[j].uni, paths[j].bi} : j \in 1..i + 1}
            = (UNION {{paths[j].uni, paths[j].bi} : j \in 1..i}) \cup {path.uni, path.bi}
      <4>1. \A j : j \in 1..i + 1 <=> j \in 1..i \/ j = i + 1
        OBVIOUS
      <4> QED
        BY <4>1 DEF path
    <3> QED
      BY <2>3, <2>4, <3>1
  <2>7. ASSUME NEW feature
        PROVE  AskedSoFar(next, feature)
                 = AskedSoFar(Index, feature) + SumFunctionOnSet(asks(feature), 1..i + 1)
    <3>1. \A j \in 1..i + 1 : asks(feature)[j] \in Int
      BY <1>1, <1>11, <2>1
    <3>2. /\ SumFunctionOnSet(asks(feature), 1..i) \in Int
          /\ SumFunctionOnSet(asks(feature), 1..i + 1)
               = asks(feature)[i + 1] + SumFunctionOnSet(asks(feature), 1..i)
      BY <3>1, SumOfOneMore
    <3>3. asks(feature)[i + 1] = Asks(path, feature) /\ Asks(path, feature) \in Nat
      BY <1>1, <1>11, <2>1
    <3>4. AskedSoFar(Index, feature) \in Int
      BY TermsSum
    <3>5. AskedSoFar(next, feature) = AskedSoFar(index, feature) + Asks(path, feature)
      BY <2>4
    <3>6. AskedSoFar(index, feature) = AskedSoFar(Index, feature) + SumFunctionOnSet(asks(feature), 1..i)
      BY <2>3
    <3> QED
      BY <3>2, <3>3, <3>4, <3>5, <3>6
  <2> QED
    BY <2>4, <2>5, <2>6, <2>7 DEF next
<1>14. Fine(n)
  <2> HIDE DEF Fine
  <2>1. 0 \in U /\ \A i \in Nat : i \in U => i + 1 \in U
    BY <1>1, <1>12, <1>13
  <2>2. n \in U
    <3> HIDE DEF U
    <3> QED
      BY <1>1, <2>1, NatSetInduction
  <2> QED
    BY <1>1, <2>2
<1>15. \A feature : SumFunction([i \in DOMAIN paths |-> Asks(paths[i], feature)])
                      = SumFunctionOnSet(asks(feature), 1..n)
  BY <1>1 DEF SumFunction, asks
<1> QED
  BY <1>9, <1>14, <1>15 DEF n

-----------------------------------------------------------------------------
(***************************************************************************)
(* Part III: the counts.  A vector counts for the features that have a     *)
(* number, and what is added up for a path is what the path holds.         *)
(***************************************************************************)
IsFaithful(vec, d, features) ==
  /\ vec \in Seq(Nat)
  /\ \A feature \in DOMAIN d : Times(vec, d[feature]) = Times(features, feature)

LEMMA VectorIsFaithful ==
  ASSUME NEW d, NEW n, IsTable(d, n), NEW features, IsSequence(features),
         NEW vec, IsVector(vec, d, features)
  PROVE  IsFaithful(vec, d, features)
<1>1. Len(features) \in Nat /\ DOMAIN features = 1..Len(features)
  BY SequencesAre
<1>2. vec \in [1..Len(features) -> Nat]
  BY DEF IsVector, IsTable
<1>3. vec \in Seq(Nat)
  BY <1>1, <1>2, SeqDef
<1>4. ASSUME NEW feature \in DOMAIN d PROVE Times(vec, d[feature]) = Times(features, feature)
  <2>1. \A i \in 1..Len(features) : vec[i] = d[feature] <=> features[i] = feature
    BY DEF IsVector, IsTable
  <2>2. DOMAIN vec = DOMAIN features
    BY <1>1, <1>2
  <2>3. {i \in DOMAIN vec : vec[i] = d[feature]} = {i \in DOMAIN features : features[i] = feature}
    BY <1>1, <2>1, <2>2
  <2> QED
    BY <2>3 DEF Times
<1> QED
  BY <1>3, <1>4 DEF IsFaithful

(* The paths ask for vectors that are in a cache.                           *)
HasKeys(paths, keys) == \A i \in 1..Len(paths) : {paths[i].uni, paths[i].bi} \subseteq keys

LEMMA HasIs ==
  ASSUME NEW paths, ArePaths(paths), NEW feature
  PROVE  /\ Len(paths) \in Nat /\ DOMAIN paths = 1..Len(paths)
         /\ \A i \in 1..Len(paths) : Has(paths[i], feature) \in Nat
         /\ Held(paths, feature) \in Int
<1>1. Len(paths) \in Nat /\ DOMAIN paths = 1..Len(paths)
  BY LenProperties DEF ArePaths
<1>2. \A i \in 1..Len(paths) : Has(paths[i], feature) \in Nat
  <2> TAKE i \in 1..Len(paths)
  <2>1. Times(Templates[paths[i].uni], feature) \in Nat /\ Times(Templates[paths[i].bi], feature) \in Nat
    BY TemplatesAre DEF ArePaths
  <2> QED
    BY <2>1 DEF Has, Asks
<1> DEFINE has == [i \in DOMAIN paths |-> Has(paths[i], feature)]
<1>3. Summable(has, 1..Len(paths))
  <2>1. IsFiniteSet(1..Len(paths))
    BY <1>1, FS_Interval
  <2> QED
    BY <1>1, <1>2, <2>1 DEF Summable
<1>4. Held(paths, feature) = SumFunctionOnSet(has, 1..Len(paths))
  BY <1>1 DEF Held, SumFunction
<1> HIDE DEF has
<1>5. SumFunctionOnSet(has, 1..Len(paths)) \in Int
  BY <1>3, SumFacts
<1> QED
  BY <1>1, <1>2, <1>4, <1>5

LEMMA PathsHold ==
  ASSUME NEW vectors, NEW d, NEW feature \in DOMAIN d,
         \A key \in DOMAIN vectors : IsFaithful(vectors[key].vec, d, Templates[key]),
         NEW paths, ArePaths(paths), HasKeys(paths, DOMAIN vectors)
  PROVE  Times(FlattenSeq([i \in DOMAIN paths |-> VectorsOf(vectors, paths[i])]), d[feature])
           = Held(paths, feature)
<1> DEFINE n == Len(paths)
           seqs == [i \in DOMAIN paths |-> VectorsOf(vectors, paths[i])]
<1>1. n \in Nat /\ DOMAIN paths = 1..n
  BY HasIs
<1>2. ASSUME NEW i \in 1..n
      PROVE  /\ VectorsOf(vectors, paths[i]) \in Seq(Nat)
             /\ Times(VectorsOf(vectors, paths[i]), d[feature]) = Has(paths[i], feature)
  <2> DEFINE uni == vectors[paths[i].uni].vec
             bi == vectors[paths[i].bi].vec
             eos == paths[i].eos
             tail == IF eos THEN <<>> ELSE uni
  <2>1. /\ uni \in Seq(Nat) /\ Times(uni, d[feature]) = Times(Templates[paths[i].uni], feature)
        /\ bi \in Seq(Nat) /\ Times(bi, d[feature]) = Times(Templates[paths[i].bi], feature)
    BY DEF HasKeys, IsFaithful
  <2>2. Times(uni, d[feature]) \in Nat /\ Times(bi, d[feature]) \in Nat
    BY <2>1, TimesFacts
  <2>3. VectorsOf(vectors, paths[i]) = bi \o tail
    BY DEF VectorsOf
  <2> HIDE DEF uni, bi, eos
  <2>4. tail \in Seq(Nat) /\ Times(tail, d[feature]) = (IF eos THEN 0 ELSE Times(uni, d[feature]))
    <3>1. CASE eos
      <4> DEFINE empty == <<>>
      <4>1. empty \in Seq(Nat) /\ \A j \in 1..Len(empty) : empty[j] # d[feature]
        OBVIOUS
      <4> HIDE DEF empty
      <4>2. Times(empty, d[feature]) = 0
        BY <4>1, TimesFacts
      <4> QED
        BY <3>1, <4>1, <4>2 DEF empty
    <3>2. CASE ~eos
      BY <2>1, <3>2
    <3> QED
      BY <3>1, <3>2
  <2> HIDE DEF tail
  <2>5. bi \o tail \in Seq(Nat)
        /\ Times(bi \o tail, d[feature]) = Times(bi, d[feature]) + Times(tail, d[feature])
    BY <2>1, <2>4, TimesConcat, ConcatProperties
  <2>6. Times(bi \o tail, d[feature]) = Has(paths[i], feature)
    <3>1. Has(paths[i], feature)
            = IF eos THEN Times(bi, d[feature]) ELSE Times(uni, d[feature]) + Times(bi, d[feature])
      BY <2>1 DEF Has, Asks, eos
    <3> QED
      BY <2>2, <2>4, <2>5, <3>1
  <2> QED
    BY <2>3, <2>5, <2>6
<1>3. seqs \in Seq(Seq(Nat)) /\ DOMAIN seqs = DOMAIN paths
  <2>1. seqs \in [1..n -> Seq(Nat)]
    BY <1>1, <1>2
  <2> QED
    BY <1>1, <2>1, SeqDef
<1>4. [i \in DOMAIN seqs |-> Times(seqs[i], d[feature])] = [i \in DOMAIN paths |-> Has(paths[i], feature)]
  BY <1>1, <1>2, <1>3
<1> HIDE DEF seqs
<1>5. Times(FlattenSeq(seqs), d[feature]) = SumFunction([i \in DOMAIN seqs |-> Times(seqs[i], d[feature])])
  BY <1>3, TimesFlattened
<1> QED
  BY <1>4, <1>5 DEF seqs, Held

(* A feature that no vector asked for has is on none of the paths.          *)
LEMMA NoneHeld ==
  ASSUME NEW index, IsIndex(index), NEW feature, feature \notin DOMAIN index.dic,
         NEW paths, ArePaths(paths), HasKeys(paths, DOMAIN index.cache)
  PROVE  Held(paths, feature) = 0
<1>1. ASSUME NEW key \in DOMAIN index.cache PROVE Times(Templates[key], feature) = 0
  <2>1. key \in DOMAIN Templates
    BY DEF IsIndex
  <2>2. \A i \in 1..Len(Templates[key]) : Templates[key][i] # feature
    BY DEF IsIndex, IsVector
  <2> QED
    BY <2>1, <2>2, TemplatesAre, TimesFacts
<1>2. \A i \in 1..Len(paths) : Has(paths[i], feature) = 0
  <2> TAKE i \in 1..Len(paths)
  <2>1. Times(Templates[paths[i].uni], feature) = 0 /\ Times(Templates[paths[i].bi], feature) = 0
    BY <1>1 DEF HasKeys
  <2> QED
    BY <2>1 DEF Has, Asks
<1> DEFINE has == [i \in DOMAIN paths |-> Has(paths[i], feature)]
<1>3. Len(paths) \in Nat /\ DOMAIN paths = 1..Len(paths)
  BY HasIs
<1>4. \A i \in 1..Len(paths) : has[i] = 0
  BY <1>2, <1>3
<1>5. IsFiniteSet(1..Len(paths))
  BY <1>3, FS_Interval
<1>6. Held(paths, feature) = SumFunctionOnSet(has, 1..Len(paths))
  BY <1>3 DEF Held, SumFunction
<1> HIDE DEF has
<1> QED
  BY <1>4, <1>5, <1>6, SumOfZeros

(* A sum over the corpus, with one more sentence.                           *)
LEMMA OneMoreSentence ==
  ASSUME NEW corpus \in Seq(Sentences), NEW counts \in [Sentences \X AllFeatures -> Int],
         NEW feature \in AllFeatures
  PROVE  /\ SumFunction([i \in DOMAIN corpus |-> counts[<<corpus[i], feature>>]]) \in Int
         /\ \A sentence \in Sentences :
              SumFunction([i \in DOMAIN Append(corpus, sentence) |->
                             counts[<<Append(corpus, sentence)[i], feature>>]])
                = SumFunction([i \in DOMAIN corpus |-> counts[<<corpus[i], feature>>]])
                    + counts[<<sentence, feature>>]
<1> DEFINE n == Len(corpus)
           f == [i \in DOMAIN corpus |-> counts[<<corpus[i], feature>>]]
<1>1. n \in Nat /\ DOMAIN corpus = 1..n /\ \A i \in 1..n : corpus[i] \in Sentences
  BY LenProperties, ElementOfSeq
<1>2. Summable(f, 1..n)
  <2>1. IsFiniteSet(1..n)
    BY <1>1, FS_Interval
  <2>2. \A i \in 1..n : f[i] \in Int
    BY <1>1
  <2> HIDE DEF f
  <2> QED
    BY <2>1, <2>2 DEF Summable
<1>3. SumFunction(f) = SumFunctionOnSet(f, 1..n) /\ SumFunctionOnSet(f, 1..n) \in Int
  <2>1. DOMAIN f = 1..n
    BY <1>1
  <2> HIDE DEF f
  <2> QED
    BY <1>2, <2>1, SumFacts DEF SumFunction
<1>4. ASSUME NEW sentence \in Sentences
      PROVE  SumFunction([i \in DOMAIN Append(corpus, sentence) |->
                            counts[<<Append(corpus, sentence)[i], feature>>]])
               = SumFunction(f) + counts[<<sentence, feature>>]
  <2> DEFINE longer == Append(corpus, sentence)
             g == [i \in DOMAIN longer |-> counts[<<longer[i], feature>>]]
  <2>1. /\ DOMAIN longer = 1..n + 1 /\ longer[n + 1] = sentence
        /\ \A i \in 1..n : longer[i] = corpus[i]
    BY <1>1
  <2> HIDE DEF longer
  <2>2. /\ DOMAIN g = 1..n + 1 /\ g[n + 1] = counts[<<sentence, feature>>]
        /\ \A i \in 1..n : f[i] = g[i]
    <3>1. n + 1 \in DOMAIN longer /\ \A i \in 1..n : i \in DOMAIN longer /\ i \in DOMAIN corpus
      BY <1>1, <2>1
    <3>2. g[n + 1] = counts[<<longer[n + 1], feature>>]
      BY <3>1
    <3>3. \A i \in 1..n : f[i] = counts[<<corpus[i], feature>>] /\ g[i] = counts[<<longer[i], feature>>]
      BY <3>1
    <3>4. DOMAIN g = 1..n + 1
      BY <2>1
    <3> HIDE DEF f, g
    <3> QED
      BY <2>1, <3>2, <3>3, <3>4
  <2>3. counts[<<sentence, feature>>] \in Int /\ \A i \in 1..n + 1 : i \in 1..n \/ i = n + 1
    BY <1>1
  <2>4. \A i \in 1..n + 1 : g[i] \in Int
    BY <1>2, <2>2, <2>3 DEF Summable
  <2> HIDE DEF g, f
  <2>5. SumFunctionOnSet(g, 1..n + 1) = g[n + 1] + SumFunctionOnSet(g, 1..n)
    BY <1>1, <2>4, SumOfOneMore
  <2>6. SumFunctionOnSet(f, 1..n) = SumFunctionOnSet(g, 1..n)
    BY <1>2, <2>2, SumSame
  <2>7. SumFunction(g) = SumFunction(f) + counts[<<sentence, feature>>]
    BY <1>3, <2>2, <2>3, <2>5, <2>6 DEF SumFunction
  <2> QED
    BY <2>7 DEF g, longer
<1> QED
  BY <1>3, <1>4

-----------------------------------------------------------------------------
(***************************************************************************)
(* Part IV: the corpus is read.                                            *)
(***************************************************************************)
AnswersIn == [of \in Sentences \X AllFeatures |-> Held(AnswerPaths(of[1]), of[2])]
SharesIn == [of \in Sentences \X AllFeatures |-> Held(Shares(of[1]), of[2])]

LEMMA AsksIs ==
  ASSUME NEW paths, ArePaths(paths), NEW feature
  PROVE  SumFunction([i \in DOMAIN paths |-> Asks(paths[i], feature)]) \in Int
<1> DEFINE asks == [i \in DOMAIN paths |-> Asks(paths[i], feature)]
<1>1. Len(paths) \in Nat /\ DOMAIN paths = 1..Len(paths)
  BY LenProperties DEF ArePaths
<1>2. \A i \in 1..Len(paths) : asks[i] \in Int
  <2> TAKE i \in 1..Len(paths)
  <2>1. Times(Templates[paths[i].uni], feature) \in Nat /\ Times(Templates[paths[i].bi], feature) \in Nat
    BY TemplatesAre DEF ArePaths
  <2> QED
    BY <1>1, <2>1 DEF Asks
<1>3. IsFiniteSet(1..Len(paths))
  BY <1>1, FS_Interval
<1>4. DOMAIN asks = 1..Len(paths)
  BY <1>1
<1> HIDE DEF asks
<1>5. Summable(asks, DOMAIN asks)
  BY <1>2, <1>3, <1>4 DEF Summable
<1>6. SumFunction(asks) \in Int
  BY <1>5, SumFacts DEF SumFunction
<1> QED
  BY <1>6 DEF asks

LEMMA CountsAre ==
  /\ AskedIn \in [Sentences \X AllFeatures -> Int]
  /\ AnswersIn \in [Sentences \X AllFeatures -> Int]
  /\ SharesIn \in [Sentences \X AllFeatures -> Int]
  /\ GradientIn \in [Sentences \X AllFeatures -> Int]
  /\ \A sentence \in Sentences, feature \in AllFeatures :
       /\ AskedIn[<<sentence, feature>>] = Asked(sentence, feature)
       /\ AnswersIn[<<sentence, feature>>] = Held(AnswerPaths(sentence), feature)
       /\ SharesIn[<<sentence, feature>>] = Held(Shares(sentence), feature)
       /\ SharesIn[<<sentence, feature>>]
            = GradientIn[<<sentence, feature>>] + AnswersIn[<<sentence, feature>>]
<1>1. ASSUME NEW sentence \in Sentences, NEW feature \in AllFeatures
      PROVE  /\ Asked(sentence, feature) \in Int
             /\ Held(AnswerPaths(sentence), feature) \in Int
             /\ Held(Shares(sentence), feature) \in Int
  BY PathsAre, AsksIs, HasIs DEF Asked
<1>2. \A of \in Sentences \X AllFeatures : of[1] \in Sentences /\ of[2] \in AllFeatures
  OBVIOUS
<1> QED
  BY <1>1, <1>2 DEF AskedIn, AnswersIn, SharesIn, GradientIn

ReadSoFar ==
  /\ IsIndex(Index) /\ x \in Seq(Sentences)
  /\ \A feature \in AllFeatures : AskedSoFar(Index, feature) = InCorpus(AskedIn, feature)
  /\ \A i \in 1..Len(x) : HasKeys(PathsOf(x[i]), DOMAIN cache)
  /\ DOMAIN observed = 0..maxid - 1
  /\ \A feature \in AllFeatures :
       InCorpus(AnswersIn, feature) = IF feature \in DOMAIN dic THEN observed[dic[feature]] ELSE 0
  /\ oldModel \in OldModels
  /\ \A i \in DOMAIN oldModel : oldModel[i] \in DOMAIN dic /\ dic[oldModel[i]] = i - 1
  /\ oldAlpha = [id \in 0..Len(oldModel) - 1 |-> oldModel[id + 1]]

LEMMA OldModelsAre ==
  ASSUME NEW model \in OldModels
  PROVE  /\ Len(model) \in Nat /\ DOMAIN model = 1..Len(model)
         /\ \A i \in 1..Len(model) : model[i] # NoWeight /\ model[i] \in AllFeatures
         /\ \A i, j \in 1..Len(model) : model[i] = model[j] => i = j
<1>1. IsSequence(model)
  BY OldModelAssumption
<1>2. Len(model) \in Nat /\ DOMAIN model = 1..Len(model) /\ \A i \in 1..Len(model) : model[i] \in ToSet(model)
  BY <1>1, SequencesAre
<1>3. ToSet(model) \subseteq AllFeatures
  BY DEF AllFeatures
<1> QED
  BY <1>2, <1>3, OldModelAssumption DEF NoWeight

LEMMA InitReading == Init => ReadSoFar
<1> SUFFICES ASSUME Init PROVE ReadSoFar
  OBVIOUS
<1> DEFINE n == Len(oldModel)
           names == {oldModel[i] : i \in DOMAIN oldModel}
<1>1. /\ oldModel \in OldModels /\ maxid = n /\ x = <<>> /\ cache = [key \in {} |-> {}]
      /\ dic = [feature \in names |-> (CHOOSE i \in DOMAIN oldModel : oldModel[i] = feature) - 1]
      /\ oldAlpha = [id \in 0..n - 1 |-> oldModel[id + 1]]
      /\ observed = [id \in 0..n - 1 |-> 0]
  BY DEF Init
<1>2. /\ n \in Nat /\ DOMAIN oldModel = 1..n
      /\ \A i \in 1..n : oldModel[i] # NoWeight /\ oldModel[i] \in AllFeatures
      /\ \A i, j \in 1..n : oldModel[i] = oldModel[j] => i = j
  BY <1>1, OldModelsAre
<1> HIDE DEF n
<1>3. \A i \in 1..n : oldModel[i] \in DOMAIN dic /\ dic[oldModel[i]] = i - 1
  BY <1>1, <1>2
<1>4. \A f \in DOMAIN dic : \E i \in 1..n : f = oldModel[i]
  BY <1>1, <1>2
<1>5. IsTable(dic, maxid) /\ DOMAIN dic \subseteq AllFeatures
  <2>1. \A f \in DOMAIN dic : dic[f] \in 0..n - 1 /\ f \in AllFeatures
    <3> TAKE f \in DOMAIN dic
    <3>1. PICK i \in 1..n : f = oldModel[i]
      BY <1>4
    <3> QED
      BY <1>2, <1>3, <3>1
  <2>2. \A m \in 0..n - 1 : \E f \in DOMAIN dic : dic[f] = m
    <3> TAKE m \in 0..n - 1
    <3>1. m + 1 \in 1..n /\ (m + 1) - 1 = m
      BY <1>2
    <3> QED
      BY <1>3, <3>1
  <2>3. \A f, g \in DOMAIN dic : dic[f] = dic[g] => f = g
    <3> SUFFICES ASSUME NEW f \in DOMAIN dic, NEW g \in DOMAIN dic, dic[f] = dic[g] PROVE f = g
      OBVIOUS
    <3>1. PICK i \in 1..n : f = oldModel[i]
      BY <1>4
    <3>2. PICK j \in 1..n : g = oldModel[j]
      BY <1>4
    <3>3. i = j
      BY <1>2, <1>3, <3>1, <3>2
    <3> QED
      BY <3>1, <3>2, <3>3
  <2>4. dic \in [DOMAIN dic -> 0..n - 1]
    <3>1. dic = [feature \in DOMAIN dic |-> dic[feature]]
      BY <1>1
    <3> QED
      BY <2>1, <3>1
  <2> QED
    BY <1>1, <1>2, <2>1, <2>2, <2>3, <2>4 DEF IsTable
<1>6. DOMAIN cache = {} /\ cache = [key \in DOMAIN cache |-> cache[key]]
  BY <1>1
<1>7. IsIndex(Index)
  BY <1>5, <1>6, FS_EmptySet DEF IsIndex, Index
<1>8. x \in Seq(Sentences) /\ Len(x) = 0 /\ DOMAIN x = {}
  BY <1>1
<1>9. ASSUME NEW counts, NEW feature PROVE InCorpus(counts, feature) = 0
  <2> DEFINE f == [i \in DOMAIN x |-> counts[<<x[i], feature>>]]
  <2>1. DOMAIN f = {}
    BY <1>8
  <2>2. InCorpus(counts, feature) = SumFunctionOnSet(f, DOMAIN f)
    BY DEF InCorpus, SumFunction
  <2> HIDE DEF f
  <2> QED
    BY <2>1, <2>2, SumOfNone
<1>10. ASSUME NEW feature PROVE AskedSoFar(Index, feature) = 0
  BY <1>6, SumOfNone DEF AskedSoFar, Index
<1>11. \A feature \in DOMAIN dic : observed[dic[feature]] = 0
  BY <1>1, <1>5 DEF IsTable
<1> QED
  BY <1>1, <1>2, <1>3, <1>7, <1>8, <1>9, <1>10, <1>11 DEF ReadSoFar, n

(* read() of one more sentence.                                             *)
LEMMA ReadReads ==
  ASSUME ReadSoFar, NEW sentence \in Sentences, Read(sentence)
  PROVE  ReadSoFar'
<1> DEFINE paths == PathsOf(sentence)
           answer == AnswerPaths(sentence)
           next == Built(paths)
           older == Resized(observed, next.maxid)
<1>1. /\ dic' = next.dic /\ maxid' = next.maxid /\ cache' = next.cache
      /\ observed' = AddVectors(older, next.cache, answer)
      /\ x' = Append(x, sentence) /\ UNCHANGED <<oldModel, oldAlpha>>
  BY DEF Read, ReadPaths, Lattices, optionVars
<1>2. ArePaths(paths) /\ ArePaths(answer) /\ ToSet(answer) \subseteq ToSet(paths)
  BY PathsAre
<1>3. /\ IsIndex(next) /\ IsWithin(dic, next.dic)
      /\ DOMAIN cache \subseteq DOMAIN next.cache
      /\ HasKeys(paths, DOMAIN next.cache)
      /\ \A feature :
           AskedSoFar(next, feature) = AskedSoFar(Index, feature)
             + SumFunction([i \in DOMAIN paths |-> Asks(paths[i], feature)])
  BY <1>2, BuiltIs DEF ReadSoFar, HasKeys
<1> HIDE DEF next, paths
<1>4. Index' = next
  BY <1>1, <1>3 DEF Index, IsIndex
<1>5. x \in Seq(Sentences) /\ x' \in Seq(Sentences) /\ Len(x) \in Nat
      /\ Len(x') = Len(x) + 1 /\ x'[Len(x) + 1] = sentence /\ \A i \in 1..Len(x) : x'[i] = x[i]
  BY <1>1 DEF ReadSoFar
<1>6. ASSUME NEW counts \in [Sentences \X AllFeatures -> Int], NEW feature \in AllFeatures
      PROVE  /\ InCorpus(counts, feature) \in Int
             /\ InCorpus(counts, feature)' = InCorpus(counts, feature) + counts[<<sentence, feature>>]
  BY <1>1, <1>5, OneMoreSentence DEF InCorpus
<1>7. ASSUME NEW feature \in AllFeatures
      PROVE  AskedSoFar(next, feature) = InCorpus(AskedIn, feature)'
  <2>1. InCorpus(AskedIn, feature)' = InCorpus(AskedIn, feature) + AskedIn[<<sentence, feature>>]
    BY <1>6, CountsAre
  <2>2. AskedIn[<<sentence, feature>>] = SumFunction([i \in DOMAIN paths |-> Asks(paths[i], feature)])
    BY CountsAre DEF Asked, paths
  <2>3. AskedSoFar(Index, feature) = InCorpus(AskedIn, feature)
    BY DEF ReadSoFar
  <2> QED
    BY <1>3, <2>1, <2>2, <2>3
<1>8. \A i \in 1..Len(x') : HasKeys(PathsOf(x'[i]), DOMAIN next.cache)
  <2> TAKE i \in 1..Len(x')
  <2>1. CASE i = Len(x) + 1
    BY <1>3, <1>5, <2>1 DEF paths
  <2>2. CASE i # Len(x) + 1
    <3>1. i \in 1..Len(x) /\ x'[i] = x[i]
      BY <1>5, <2>2
    <3>2. HasKeys(PathsOf(x[i]), DOMAIN cache)
      BY <3>1 DEF ReadSoFar
    <3> QED
      BY <1>3, <3>1, <3>2 DEF HasKeys
  <2> QED
    BY <2>1, <2>2
<1>9. HasKeys(answer, DOMAIN next.cache)
  <2>1. \A i \in 1..Len(answer) : \E j \in 1..Len(paths) : answer[i] = paths[j]
    <3>1. Len(answer) \in Nat /\ DOMAIN answer = 1..Len(answer)
          /\ Len(paths) \in Nat /\ DOMAIN paths = 1..Len(paths)
      BY <1>2, HasIs
    <3> QED
      BY <1>2, <3>1 DEF ToSet
  <2> QED
    BY <1>3, <2>1 DEF HasKeys
<1>10. IsTable(next.dic, next.maxid)
  BY <1>3 DEF IsIndex
<1>11. DOMAIN observed' = 0..maxid' - 1
  BY <1>1 DEF AddVectors, Resized
<1>12. \A key \in DOMAIN next.cache : IsFaithful(next.cache[key].vec, next.dic, Templates[key])
  <2> TAKE key \in DOMAIN next.cache
  <2>1. key \in DOMAIN Templates /\ IsVector(next.cache[key].vec, next.dic, Templates[key])
    BY <1>3 DEF IsIndex
  <2> QED
    BY <1>10, <2>1, TemplatesAre, VectorIsFaithful
<1>13. ASSUME NEW feature \in AllFeatures
       PROVE  InCorpus(AnswersIn, feature)'
                = IF feature \in DOMAIN next.dic THEN observed'[next.dic[feature]] ELSE 0
  <2>1. /\ InCorpus(AnswersIn, feature) \in Int
        /\ InCorpus(AnswersIn, feature)' = InCorpus(AnswersIn, feature) + Held(answer, feature)
    BY <1>6, CountsAre
  <2>2. InCorpus(AnswersIn, feature) = IF feature \in DOMAIN dic THEN observed[dic[feature]] ELSE 0
    BY DEF ReadSoFar
  <2>3. CASE feature \notin DOMAIN next.dic
    <3>1. Held(answer, feature) = 0
      BY <1>2, <1>3, <1>9, <2>3, NoneHeld
    <3>2. feature \notin DOMAIN dic
      BY <1>3, <2>3 DEF IsWithin
    <3> QED
      BY <2>1, <2>2, <2>3, <3>1, <3>2
  <2>4. CASE feature \in DOMAIN next.dic
    <3> DEFINE id == next.dic[feature]
               held == FlattenSeq([i \in DOMAIN answer |-> VectorsOf(next.cache, answer[i])])
    <3>1. id \in 0..next.maxid - 1
      BY <1>10, <2>4 DEF IsTable
    <3>2. Times(held, id) = Held(answer, feature)
      BY <1>2, <1>9, <1>12, <2>4, PathsHold
    <3>3. observed'[id] = older[id] + Times(held, id)
      <4>1. DOMAIN older = 0..next.maxid - 1
        BY DEF Resized
      <4>2. observed' = [number \in DOMAIN older |-> older[number] + Times(held, number)]
        BY <1>1 DEF AddVectors
      <4> HIDE DEF older, held, id
      <4> QED
        BY <3>1, <4>1, <4>2
    <3>4. older[id] = InCorpus(AnswersIn, feature)
      <4>1. older[id] = IF id \in 0..maxid - 1 THEN observed[id] ELSE 0
        BY <3>1 DEF Resized, ReadSoFar
      <4>2. IsTable(dic, maxid)
        BY DEF ReadSoFar, IsIndex, Index
      <4>3. CASE feature \in DOMAIN dic
        <5>1. id = dic[feature] /\ id \in 0..maxid - 1
          BY <1>3, <4>2, <4>3 DEF IsWithin, IsTable
        <5> HIDE DEF id, older
        <5> QED
          BY <2>2, <4>1, <4>3, <5>1
      <4>4. CASE feature \notin DOMAIN dic
        <5>1. ASSUME id \in 0..maxid - 1 PROVE FALSE
          <6>1. PICK f \in DOMAIN dic : dic[f] = id
            BY <4>2, <5>1 DEF IsTable
          <6>2. next.dic[f] = next.dic[feature] /\ f \in DOMAIN next.dic
            BY <1>3, <6>1 DEF IsWithin
          <6> QED
            BY <1>10, <2>4, <4>4, <6>2 DEF IsTable
        <5> HIDE DEF id, older
        <5> QED
          BY <2>2, <4>1, <4>4, <5>1
      <4> QED
        BY <4>3, <4>4
    <3> HIDE DEF id, older, held
    <3> QED
      BY <2>1, <2>4, <3>2, <3>3, <3>4 DEF id
  <2> QED
    BY <2>3, <2>4
<1>14. \A i \in DOMAIN oldModel : oldModel[i] \in DOMAIN next.dic /\ next.dic[oldModel[i]] = i - 1
  BY <1>3 DEF ReadSoFar, IsWithin
<1> QED
  BY <1>1, <1>3, <1>4, <1>5, <1>7, <1>8, <1>11, <1>13, <1>14 DEF ReadSoFar

-----------------------------------------------------------------------------
(***************************************************************************)
(* Part V: the cut-off.  The numbers that stay close up and keep their     *)
(* order.                                                                  *)
(***************************************************************************)
Ids(n) == 0..n - 1

LEMMA NewIdIs ==
  ASSUME NEW n \in Nat, NEW K, K \subseteq Ids(n)
  PROVE  /\ IsFiniteSet(K) /\ Cardinality(K) \in Nat /\ \A id \in K : id \in Nat
         /\ \A id \in K : NewId(K, id) \in 0..Cardinality(K) - 1
         /\ \A a, b \in K : a < b => NewId(K, a) < NewId(K, b)
         /\ \A a, b \in K : NewId(K, a) = NewId(K, b) => a = b
         /\ \A m \in 0..Cardinality(K) - 1 : \E id \in K : NewId(K, id) = m
         /\ \A id \in K : NewId(K, id) <= id /\ (NewId(K, id) = id <=> 0..id - 1 \subseteq K)
<1> DEFINE Below(id) == {other \in K : other < id}
           size == Cardinality(K)
<1>1. IsFiniteSet(0..n - 1)
  BY FS_Interval
<1>2. IsFiniteSet(K) /\ size \in Nat /\ \A id \in K : id \in Nat
  <2>1. \A id \in K : id \in Nat
    BY DEF Ids
  <2>2. K \in SUBSET (0..n - 1)
    BY DEF Ids
  <2>3. IsFiniteSet(K)
    BY <1>1, <2>2, FS_Subset
  <2>4. size \in Nat
    BY <2>3, FS_CardinalityType
  <2> QED
    BY <2>1, <2>3, <2>4
<1>3. \A id : IsFiniteSet(Below(id)) /\ Cardinality(Below(id)) \in Nat
  BY <1>2, FS_Subset, FS_CardinalityType
<1>4. \A id : NewId(K, id) = Cardinality(Below(id))
  BY DEF NewId
<1>5. ASSUME NEW id \in Nat, id \in K PROVE NewId(K, id) \in 0..size - 1
  <2>1. Below(id) \in SUBSET K /\ Below(id) # K
    <3>1. id \notin Below(id)
      OBVIOUS
    <3> QED
      BY <1>5, <3>1
  <2> HIDE DEF Below
  <2>2. Cardinality(Below(id)) <= size /\ Cardinality(Below(id)) # size
    BY <1>2, <2>1, FS_Subset
  <2> QED
    BY <1>2, <1>3, <1>4, <2>2
<1>6. ASSUME NEW a \in Nat, NEW b \in Nat, a \in K, b \in K, a < b PROVE NewId(K, a) < NewId(K, b)
  <2>1. Below(a) \in SUBSET Below(b) /\ a \in Below(b) /\ a \notin Below(a)
    <3>1. \A other \in Nat : other < a => other < b
      BY <1>6
    <3>2. ~(a < a)
      OBVIOUS
    <3> QED
      BY <1>2, <1>6, <3>1, <3>2
  <2> HIDE DEF Below
  <2>2. Cardinality(Below(a)) <= Cardinality(Below(b)) /\ Cardinality(Below(a)) # Cardinality(Below(b))
    BY <1>3, <2>1, FS_Subset
  <2> QED
    BY <1>3, <1>4, <2>2
<1>7. \A a, b \in K : NewId(K, a) = NewId(K, b) => a = b
  <2> TAKE a, b \in K
  <2>1. a \in Nat /\ b \in Nat /\ NewId(K, a) \in Nat /\ NewId(K, b) \in Nat
    BY <1>2, <1>5 
  <2>2. a < b \/ b < a \/ a = b
    BY <2>1
  <2> QED
    BY <1>6, <2>1, <2>2
<1>8. \A m \in 0..size - 1 : \E id \in K : NewId(K, id) = m
  <2> DEFINE f == [id \in K |-> NewId(K, id)]
             T == 0..size - 1
  <2>1. f \in Injection(K, T)
    BY <1>2, <1>5, <1>7 DEF Injection, IsInjective
  <2>2. IsFiniteSet(T) /\ Cardinality(T) = size
    BY <1>2, FS_Interval
  <2>3. f \in Surjection(K, T)
    <3> HIDE DEF f, T
    <3> QED
      BY <2>1, <2>2, FS_Injection
  <2> QED
    BY <2>3 DEF Surjection
<1>9. ASSUME NEW id \in Nat, id \in K
      PROVE  NewId(K, id) <= id /\ (NewId(K, id) = id <=> 0..id - 1 \subseteq K)
  <2> DEFINE all == 0..id - 1
  <2>1. IsFiniteSet(all) /\ Cardinality(all) = id
    <3>1. 0 \in Int /\ id - 1 \in Int /\ (0 > id - 1 => id = 0) /\ (id - 1) - 0 + 1 = id
      BY <1>9
    <3> QED
      BY <3>1, FS_Interval
  <2>2. \A other \in Nat : other \in all <=> other < id
    BY <1>9
  <2>3. all \subseteq Nat
    OBVIOUS
  <2> HIDE DEF all
  <2>4. Below(id) \in SUBSET all /\ (all \subseteq K => Below(id) = all) /\ (Below(id) = all => all \subseteq K)
    BY <1>2, <2>2, <2>3
  <2> HIDE DEF Below
  <2>5. Cardinality(Below(id)) <= id /\ (Cardinality(Below(id)) = id => Below(id) = all)
    BY <2>1, <2>4, FS_Subset
  <2> QED
    BY <1>4, <2>1, <2>4, <2>5 DEF all
<1>10. \A id \in K : NewId(K, id) <= id /\ (NewId(K, id) = id <=> 0..id - 1 \subseteq K)
  BY <1>2, <1>9
<1>11. \A id \in K : NewId(K, id) \in 0..size - 1
  BY <1>2, <1>5
<1>12. \A a, b \in K : a < b => NewId(K, a) < NewId(K, b)
  BY <1>2, <1>6
<1> QED
  BY <1>2, <1>7, <1>8, <1>10, <1>11, <1>12

Closed(old, K) == [feature \in {f \in DOMAIN old : old[f] \in K} |-> NewId(K, old[feature])]

LEMMA ClosedTable ==
  ASSUME NEW old, NEW n, IsTable(old, n), NEW K, K \subseteq Ids(n)
  PROVE  /\ IsTable(Closed(old, K), Cardinality(K))
         /\ \A f : f \in DOMAIN Closed(old, K) <=> f \in DOMAIN old /\ old[f] \in K
         /\ \A f \in DOMAIN Closed(old, K) : Closed(old, K)[f] = NewId(K, old[f])
<1> DEFINE d == Closed(old, K)
           size == Cardinality(K)
<1>1. n \in Nat
  BY DEF IsTable
<1>2. /\ size \in Nat /\ \A id \in K : NewId(K, id) \in 0..size - 1
      /\ \A a, b \in K : NewId(K, a) = NewId(K, b) => a = b
      /\ \A m \in 0..size - 1 : \E id \in K : NewId(K, id) = m
  BY <1>1, NewIdIs
<1> HIDE DEF size
<1>3. /\ \A f : f \in DOMAIN d <=> f \in DOMAIN old /\ old[f] \in K
      /\ \A f \in DOMAIN d : d[f] = NewId(K, old[f])
      /\ d = [f \in DOMAIN d |-> d[f]]
  BY DEF Closed
<1> HIDE DEF d
<1>4. d \in [DOMAIN d -> 0..size - 1]
  <2>1. \A f \in DOMAIN d : d[f] \in 0..size - 1
    BY <1>2, <1>3
  <2> QED
    BY <1>3, <2>1
<1>5. \A m \in 0..size - 1 : \E f \in DOMAIN d : d[f] = m
  <2> TAKE m \in 0..size - 1
  <2>1. PICK id \in K : NewId(K, id) = m
    BY <1>2
  <2>2. PICK f \in DOMAIN old : old[f] = id
    <3>1. id \in 0..n - 1
      BY DEF Ids
    <3> QED
      BY <3>1 DEF IsTable
  <2> QED
    BY <1>3, <2>1, <2>2
<1>6. \A f, g \in DOMAIN d : d[f] = d[g] => f = g
  BY <1>2, <1>3 DEF IsTable
<1>7. IsTable(d, size)
  BY <1>2, <1>4, <1>5, <1>6 DEF IsTable
<1> QED
  BY <1>3, <1>7 DEF d, size

(* A vector of the cache holds the numbers of the features that are left.   *)
Left(features, d) == Select(features, {i \in DOMAIN features : features[i] \in DOMAIN d})
LeftIn(vec, d, features) ==
  vec = [i \in DOMAIN Left(features, d) |-> d[Left(features, d)[i]]]

LEMMA ClosedVector ==
  ASSUME NEW old, NEW n, IsTable(old, n), NEW K, K \subseteq Ids(n),
         NEW features, IsSequence(features), NEW vec, IsVector(vec, old, features)
  PROVE  LET staying == Select(vec, {i \in DOMAIN vec : vec[i] \in K})
             now == [i \in DOMAIN staying |-> NewId(K, staying[i])]
             d == Closed(old, K)
         IN  LeftIn(now, d, features) /\ IsFaithful(now, d, features)
<1> DEFINE d == Closed(old, K)
           size == Cardinality(K)
           kept == {i \in DOMAIN vec : vec[i] \in K}
           staying == Select(vec, kept)
           now == [i \in DOMAIN staying |-> NewId(K, staying[i])]
           left == Left(features, d)
<1>1. /\ IsTable(d, size)
      /\ \A f : f \in DOMAIN d <=> f \in DOMAIN old /\ old[f] \in K
      /\ \A f \in DOMAIN d : d[f] = NewId(K, old[f])
  BY ClosedTable
<1> HIDE DEF d, size
<1>2. Len(features) \in Nat /\ DOMAIN features = 1..Len(features)
  BY SequencesAre
<1>3. features \in Seq(DOMAIN old) /\ old \in [DOMAIN old -> Nat]
  <2>1. features \in [1..Len(features) -> ToSet(features)]
    BY LenProperties DEF IsSequence
  <2>2. features \in [1..Len(features) -> DOMAIN old]
    BY <2>1 DEF IsVector
  <2>3. old \in [DOMAIN old -> Nat]
    BY DEF IsTable
  <2> QED
    BY <1>2, <2>2, <2>3, SeqDef
<1>4. vec = [i \in DOMAIN features |-> old[features[i]]]
  BY <1>2 DEF IsVector
<1>5. kept = {i \in DOMAIN features : features[i] \in DOMAIN d}
  BY <1>1, <1>2, <1>4 DEF IsVector
<1> HIDE DEF kept
<1>6. left = Select(features, kept)
  BY <1>5 DEF Left
<1> HIDE DEF left
<1> DEFINE S == DOMAIN old
           T == Nat
<1>7. features \in Seq(S)
  BY <1>3
<1>8. old \in [S -> T]
  BY <1>3
<1> HIDE DEF S, T
<1>9. staying = [j \in DOMAIN left |-> old[left[j]]]
  <2>1. Select(ValuesOf(old, features), kept) = ValuesOf(old, Select(features, kept))
    BY <1>3, SelectMapped
  <2> QED
    BY <1>4, <1>6, <2>1 DEF ValuesOf
<1>10. /\ left \in Seq(S) /\ Len(left) \in Nat /\ DOMAIN left = 1..Len(left)
      /\ \A j \in 1..Len(left) : left[j] \in DOMAIN d
  <2>1. /\ left \in Seq(S)
        /\ \A j \in 1..Len(left) : \E i \in 1..Len(features) : i \in kept /\ left[j] = features[i]
    BY <1>7, <1>6, SelectFacts
  <2> QED
    BY <1>5, <2>1
<1> HIDE DEF staying
<1>11. now = [j \in DOMAIN left |-> d[left[j]]]
  BY <1>1, <1>9, <1>10
<1> HIDE DEF now
<1>12. LeftIn(now, d, features)
  BY <1>11 DEF LeftIn, left
<1>13. IsFaithful(now, d, left)
  <2>1. IsVector(now, d, left)
    BY <1>10, <1>11 DEF IsVector
  <2>2. IsSequence(left)
    <3>1. left \in [1..Len(left) -> ToSet(left)]
      BY <1>10 DEF ToSet
    <3> QED
      BY <1>10, <3>1, SeqDef DEF IsSequence
  <2> QED
    BY <1>1, <2>1, <2>2, VectorIsFaithful
<1>14. \A feature \in DOMAIN d : Times(left, feature) = Times(features, feature)
  <2> TAKE feature \in DOMAIN d
  <2>1. \A i \in 1..Len(features) : features[i] = feature => i \in kept
    BY <1>2, <1>5
  <2> QED
    BY <1>7, <1>6, <2>1, TimesSelected
<1>15. IsFaithful(now, d, features)
  BY <1>13, <1>14 DEF IsFaithful
<1> QED
  BY <1>12, <1>15 DEF now, staying, kept, d

(* When the old weights are in place.                                       *)
InPlace(alpha, d, model) ==
  \A f \in DOMAIN d :
    alpha[d[f]] = IF \E i \in DOMAIN model : model[i] = f THEN f ELSE NoWeight

NoneStaysBehind(d, model) ==
  \A i \in DOMAIN model :
    model[i] \notin DOMAIN d => \A f \in DOMAIN d : \E j \in 1..i - 1 : model[j] = f

LEMMA InPlaceWhen ==
  ASSUME NEW old, NEW n, IsTable(old, n), NEW K, K \subseteq Ids(n),
         NEW model, Len(model) \in Nat, DOMAIN model = 1..Len(model),
         \A i \in 1..Len(model) :
           model[i] \in DOMAIN old /\ old[model[i]] = i - 1 /\ model[i] # NoWeight,
         NEW alpha,
         \A id \in 0..Cardinality(K) - 1 :
           alpha[id] = IF id \in 0..Len(model) - 1 THEN model[id + 1] ELSE NoWeight
  PROVE  InPlace(alpha, Closed(old, K), model) <=> NoneStaysBehind(Closed(old, K), model)
<1> DEFINE d == Closed(old, K)
           size == Cardinality(K)
           l == Len(model)
           IsOld(f) == \E i \in 1..l : model[i] = f
<1>1. /\ IsTable(d, size)
      /\ \A f : f \in DOMAIN d <=> f \in DOMAIN old /\ old[f] \in K
      /\ \A f \in DOMAIN d : d[f] = NewId(K, old[f])
  BY ClosedTable
<1>2. n \in Nat
  BY DEF IsTable
<1>3. /\ size \in Nat /\ \A id \in K : id \in Nat
      /\ \A id \in K : NewId(K, id) \in 0..size - 1
      /\ \A a, b \in K : a < b => NewId(K, a) < NewId(K, b)
      /\ \A id \in K : NewId(K, id) <= id /\ (NewId(K, id) = id <=> 0..id - 1 \subseteq K)
  BY <1>2, NewIdIs
<1>4. /\ l \in Nat
      /\ \A i \in 1..l : model[i] \in DOMAIN old /\ old[model[i]] = i - 1 /\ model[i] # NoWeight
      /\ \A id \in 0..size - 1 : alpha[id] = IF id \in 0..l - 1 THEN model[id + 1] ELSE NoWeight
  OBVIOUS
<1> HIDE DEF d, size, l
<1>5. \A f \in DOMAIN d : old[f] \in K /\ f \in DOMAIN old /\ old[f] \in Nat
  BY <1>1 DEF IsTable
<1>6. \A f \in DOMAIN old : IsOld(f) <=> old[f] < l
  <2> TAKE f \in DOMAIN old
  <2>1. old[f] \in Nat
    BY DEF IsTable
  <2>2. ASSUME old[f] < l PROVE IsOld(f)
    <3>1. old[f] + 1 \in 1..l /\ (old[f] + 1) - 1 = old[f]
      BY <1>4, <2>1, <2>2
    <3>2. model[old[f] + 1] = f
      BY <1>4, <3>1 DEF IsTable
    <3> QED
      BY <3>1, <3>2
  <2>3. ASSUME NEW i \in 1..l, model[i] = f PROVE old[f] < l
    BY <1>4, <2>3
  <2> QED
    BY <2>2, <2>3
<1>7. \A i \in 1..l : model[i] \in DOMAIN d <=> i - 1 \in K
  BY <1>1, <1>4
<1>8. ASSUME NoneStaysBehind(d, model), NEW f \in DOMAIN d
      PROVE  alpha[d[f]] = IF IsOld(f) THEN f ELSE NoWeight
  <2>1. d[f] = NewId(K, old[f]) /\ d[f] \in 0..size - 1
    BY <1>1, <1>3, <1>5
  <2>2. CASE IsOld(f)
    <3>1. PICK i \in 1..l : model[i] = f
      BY <2>2
    <3>2. old[f] = i - 1
      BY <1>4, <3>1
    <3>3. 0..(i - 1) - 1 \subseteq K
      <4> SUFFICES ASSUME NEW m \in 0..(i - 1) - 1, m \notin K PROVE FALSE
        OBVIOUS
      <4>1. m + 1 \in 1..l /\ (m + 1) - 1 = m /\ m + 1 < i
        BY <1>4
      <4>2. model[m + 1] \notin DOMAIN d
        BY <1>7, <4>1
      <4>3. PICK j \in 1..(m + 1) - 1 : model[j] = f
        BY <1>8, <4>1, <4>2 DEF NoneStaysBehind, l
      <4>4. j \in 1..l /\ j < i
        BY <1>4, <4>1
      <4> QED
        BY <1>4, <3>1, <3>2, <4>3, <4>4
    <3>4. d[f] = i - 1
      BY <1>3, <1>5, <2>1, <3>2, <3>3
    <3>5. i - 1 \in 0..l - 1 /\ (i - 1) + 1 = i
      BY <1>4
    <3> QED
      BY <1>4, <2>1, <2>2, <3>1, <3>4, <3>5
  <2>3. CASE ~IsOld(f)
    <3>1. \A i \in 1..l : i - 1 \in K
      <4> SUFFICES ASSUME NEW i \in 1..l, i - 1 \notin K PROVE FALSE
        OBVIOUS
      <4>1. PICK j \in 1..i - 1 : model[j] = f
        BY <1>7, <1>8 DEF NoneStaysBehind, l
      <4>2. j \in 1..l
        BY <1>4
      <4> QED
        BY <2>3, <4>1, <4>2
    <3>2. 0..l - 1 \subseteq K
      <4> SUFFICES ASSUME NEW m \in 0..l - 1 PROVE m \in K
        OBVIOUS
      <4>1. m + 1 \in 1..l /\ (m + 1) - 1 = m
        BY <1>4
      <4> QED
        BY <3>1, <4>1
    <3>3. old[f] >= l
      BY <1>4, <1>5, <1>6, <2>3
    <3>4. d[f] \notin 0..l - 1
      <4>1. CASE l = 0
        BY <4>1
      <4>2. CASE l # 0
        <5>1. l - 1 \in K /\ l - 1 < old[f] /\ 0..(l - 1) - 1 \subseteq K
          BY <1>4, <1>5, <3>2, <3>3, <4>2
        <5>2. NewId(K, l - 1) = l - 1 /\ NewId(K, l - 1) < NewId(K, old[f])
          BY <1>3, <1>5, <5>1
        <5> QED
          BY <1>4, <2>1, <5>2
      <4> QED
        BY <4>1, <4>2
    <3> QED
      BY <1>4, <2>1, <2>3, <3>4
  <2> QED
    BY <2>2, <2>3
<1>9. ASSUME \A f \in DOMAIN d : alpha[d[f]] = IF IsOld(f) THEN f ELSE NoWeight,
             NEW i \in 1..l, model[i] \notin DOMAIN d, NEW f \in DOMAIN d
      PROVE  \E j \in 1..i - 1 : model[j] = f
  <2>1. PICK b \in Nat : b = old[f]
    BY <1>5
  <2>2. PICK new \in Nat : new = NewId(K, b)
    BY <1>3, <1>5, <2>1
  <2>3. b \in K /\ new \in 0..size - 1 /\ d[f] = new /\ new <= b
    BY <1>1, <1>3, <1>5, <2>1, <2>2
  <2>4. i - 1 \notin K
    BY <1>7, <1>9
  <2>5. CASE b < i - 1
    <3>1. b + 1 \in 1..i - 1 /\ b + 1 \in 1..l /\ (b + 1) - 1 = b
      BY <1>4, <2>3, <2>5
    <3>2. model[b + 1] = f
      BY <1>4, <1>5, <2>1, <3>1 DEF IsTable
    <3> QED
      BY <3>1, <3>2
  <2>6. ASSUME ~(b < i - 1) PROVE FALSE
    <3>1. i - 1 < b
      BY <1>4, <2>3, <2>4, <2>6
    <3>2. i - 1 \in 0..b - 1
      BY <1>4, <2>3, <3>1
    <3>3. new < b
      BY <1>3, <2>3, <2>4, <2>2, <3>2
    <3>4. CASE IsOld(f)
      <4>1. b < l
        BY <1>5, <1>6, <2>1, <3>4
      <4>2. new \in 0..l - 1 /\ new + 1 \in 1..l /\ (new + 1) - 1 = new
        BY <1>3, <1>4, <2>3, <3>3, <4>1
      <4>3. model[new + 1] = f
        BY <1>4, <1>9, <2>3, <3>4, <4>2
      <4>4. b = new
        BY <1>4, <2>1, <4>2, <4>3
      <4> QED
        BY <2>3, <3>3, <4>4
    <3>5. CASE ~IsOld(f)
      <4>1. new \notin 0..l - 1
        <5>1. ASSUME new \in 0..l - 1 PROVE FALSE
          <6>1. new + 1 \in 1..l /\ alpha[new] = model[new + 1]
            BY <1>4, <2>3, <5>1
          <6>2. alpha[new] = NoWeight
            BY <1>9, <2>3, <3>5
          <6> QED
            BY <1>4, <6>1, <6>2
        <5> QED
          BY <5>1
      <4>2. i - 1 \in 0..size - 1 /\ i - 1 \in 0..l - 1 /\ (i - 1) + 1 = i
        BY <1>3, <1>4, <2>3, <4>1
      <4>3. PICK g \in DOMAIN d : d[g] = i - 1
        BY <1>1, <4>2 DEF IsTable
      <4>4. alpha[i - 1] = model[i] /\ model[i] # NoWeight
        BY <1>4, <4>2
      <4>5. model[i] = g
        BY <1>9, <4>3, <4>4
      <4> QED
        BY <1>9, <4>3, <4>5
    <3> QED
      BY <3>4, <3>5
  <2> QED
    BY <2>5, <2>6
<1>10. DOMAIN model = 1..l
  BY DEF l
<1>11. InPlace(alpha, d, model) <=> \A f \in DOMAIN d : alpha[d[f]] = IF IsOld(f) THEN f ELSE NoWeight
  BY <1>10 DEF InPlace
<1>12. NoneStaysBehind(d, model)
         <=> \A i \in 1..l : model[i] \notin DOMAIN d => \A f \in DOMAIN d : \E j \in 1..i - 1 : model[j] = f
  BY <1>10 DEF NoneStaysBehind
<1> HIDE DEF IsOld
<1> QED
  BY <1>8, <1>9, <1>11, <1>12 DEF d
Staying(vec, K) == Select(vec, {i \in DOMAIN vec : vec[i] \in K})
Renumbered(vec, K) == [i \in DOMAIN Staying(vec, K) |-> NewId(K, Staying(vec, K)[i])]

(* When every number stays, nothing changes.                                *)
LEMMA AllStay ==
  ASSUME NEW old, NEW n, IsTable(old, n)
  PROVE  /\ Cardinality(Ids(n)) = n /\ Closed(old, Ids(n)) = old
         /\ \A vec \in Seq(Ids(n)) : Renumbered(vec, Ids(n)) = vec
<1>1. n \in Nat /\ old = [f \in DOMAIN old |-> old[f]] /\ \A f \in DOMAIN old : old[f] \in Ids(n)
  BY DEF IsTable, Ids
<1>2. Cardinality(Ids(n)) = n
  <2>1. 0 \in Int /\ n - 1 \in Int /\ (0 > n - 1 => n = 0) /\ (n - 1) - 0 + 1 = n
    BY <1>1
  <2> QED
    BY <2>1, FS_Interval DEF Ids
<1>3. \A id \in Ids(n) : NewId(Ids(n), id) = id
  <2>1. \A id \in Ids(n) : NewId(Ids(n), id) = id <=> 0..id - 1 \subseteq Ids(n)
    BY <1>1, NewIdIs
  <2>2. \A id \in Ids(n) : 0..id - 1 \subseteq Ids(n)
    BY <1>1 DEF Ids
  <2> QED
    BY <2>1, <2>2
<1>4. Closed(old, Ids(n)) = old
  <2>1. {f \in DOMAIN old : old[f] \in Ids(n)} = DOMAIN old
    BY <1>1
  <2>2. Closed(old, Ids(n)) = [f \in DOMAIN old |-> NewId(Ids(n), old[f])]
    BY <2>1 DEF Closed
  <2> QED
    BY <1>1, <1>3, <2>2
<1>5. ASSUME NEW vec \in Seq(Ids(n)) PROVE Renumbered(vec, Ids(n)) = vec
  <2>1. Len(vec) \in Nat /\ DOMAIN vec = 1..Len(vec) /\ vec = [i \in DOMAIN vec |-> vec[i]]
        /\ \A i \in 1..Len(vec) : vec[i] \in Ids(n)
    BY LenProperties, ElementOfSeq
  <2>2. {i \in DOMAIN vec : vec[i] \in Ids(n)} = 1..Len(vec)
    BY <2>1
  <2>3. Staying(vec, Ids(n)) = vec
    BY <2>2, SelectAll DEF Staying
  <2>4. \A i \in DOMAIN vec : NewId(Ids(n), vec[i]) = vec[i]
    BY <1>3, <2>1
  <2> QED
    BY <2>1, <2>3, <2>4 DEF Renumbered
<1> QED
  BY <1>2, <1>4, <1>5

(* The frequency shrink() works from is how often the corpus asks.          *)
LEMMA UsesAre ==
  ASSUME ReadSoFar, NEW feature \in DOMAIN dic
  PROVE  Uses(dic[feature]) = InCorpus(AskedIn, feature) /\ Uses(dic[feature]) \in Int
<1>1. IsIndex(Index) /\ IsTable(dic, maxid) /\ feature \in AllFeatures
  BY DEF ReadSoFar, IsIndex, Index
<1>2. \A key \in DOMAIN cache : key \in DOMAIN Templates /\ IsVector(cache[key].vec, dic, Templates[key])
  BY <1>1 DEF IsIndex, Index
<1>3. \A key \in DOMAIN cache : Times(cache[key].vec, dic[feature]) = Times(Templates[key], feature)
  <2> TAKE key \in DOMAIN cache
  <2>1. IsFaithful(cache[key].vec, dic, Templates[key])
    BY <1>1, <1>2, TemplatesAre, VectorIsFaithful
  <2> QED
    BY <2>1 DEF IsFaithful
<1>4. [key \in DOMAIN cache |-> cache[key].count * Times(cache[key].vec, dic[feature])]
        = Terms(cache, feature)
  BY <1>3 DEF Terms
<1>5. DOMAIN Terms(cache, feature) = DOMAIN cache
  BY DEF Terms
<1>6. Uses(dic[feature]) = AskedSoFar(Index, feature)
  BY <1>4, <1>5 DEF Uses, SumFunction, AskedSoFar, Index
<1>7. AskedSoFar(Index, feature) \in Int
  BY <1>1, TermsSum
<1> QED
  BY <1>1, <1>6, <1>7 DEF ReadSoFar

(* What holds from the cut-off on, until the training ends.                 *)
Settled ==
  /\ x \in Seq(Sentences) /\ x # <<>>
  /\ IsTable(dic, maxid) /\ DOMAIN dic \subseteq AllFeatures
  /\ \A key \in DOMAIN cache :
       /\ LeftIn(cache[key].vec, dic, Templates[key])
       /\ IsFaithful(cache[key].vec, dic, Templates[key])
  /\ \A i \in 1..Len(x) : HasKeys(PathsOf(x[i]), DOMAIN cache)
  /\ DOMAIN observed = 0..maxid - 1
  /\ \A feature \in DOMAIN dic : observed[dic[feature]] = InCorpus(AnswersIn, feature)
  /\ \A f \in Features : f \in DOMAIN dic <=> freq <= 1 \/ InCorpus(AskedIn, f) >= freq
  /\ InPlace(oldAlpha, dic, oldModel) <=> NoneStaysBehind(dic, oldModel)

LEMMA CutOffSettles ==
  ASSUME ReadSoFar, CutOff, freq \in Nat
  PROVE  Settled'
<1> DEFINE K == IF freq <= 1 THEN Ids(maxid) ELSE Kept(freq)
           size == Cardinality(K)
           d == Closed(dic, K)
<1>1. /\ Shrink(freq) /\ UNCHANGED <<x, freq, oldModel>> /\ x # <<>>
      /\ oldAlpha' = [id \in 0..maxid' - 1 |->
                        IF id \in DOMAIN oldAlpha THEN oldAlpha[id] ELSE NoWeight]
  BY DEF CutOff, optionVars
<1>2. /\ IsIndex(Index) /\ IsTable(dic, maxid) /\ DOMAIN dic \subseteq AllFeatures
      /\ \A key \in DOMAIN cache :
           /\ key \in DOMAIN Templates /\ IsVector(cache[key].vec, dic, Templates[key])
           /\ cache[key] = [vec |-> cache[key].vec, count |-> cache[key].count]
      /\ DOMAIN observed = 0..maxid - 1
  BY DEF ReadSoFar, IsIndex, Index
<1>3. K \subseteq Ids(maxid) /\ maxid \in Nat
  BY <1>2 DEF Kept, Ids, IsTable
<1>4. /\ size \in Nat /\ \A id \in K : NewId(K, id) \in 0..size - 1
      /\ \A a, b \in K : NewId(K, a) = NewId(K, b) => a = b
  BY <1>3, NewIdIs
<1>5. /\ IsTable(d, size)
      /\ \A f : f \in DOMAIN d <=> f \in DOMAIN dic /\ dic[f] \in K
      /\ \A f \in DOMAIN d : d[f] = NewId(K, dic[f])
  BY <1>2, <1>3, ClosedTable
<1>6. \A key \in DOMAIN cache : cache[key].vec \in Seq(Ids(maxid))
  <2> TAKE key \in DOMAIN cache
  <2>1. IsSequence(Templates[key])
    BY <1>2, TemplatesAre
  <2>2. Len(Templates[key]) \in Nat
    BY <2>1, SequencesAre
  <2>3. \A f \in DOMAIN dic : dic[f] \in Ids(maxid)
    BY <1>2 DEF IsTable, Ids
  <2>4. cache[key].vec \in [1..Len(Templates[key]) -> Ids(maxid)]
    BY <1>2, <2>3 DEF IsVector
  <2> QED
    BY <2>2, <2>4, SeqDef
<1>7. /\ dic' = d /\ maxid' = size /\ DOMAIN cache' = DOMAIN cache
      /\ \A key \in DOMAIN cache : cache'[key].vec = Renumbered(cache[key].vec, K)
      /\ DOMAIN observed' = 0..size - 1
      /\ \A id \in K : observed'[NewId(K, id)] = observed[id]
  <2>1. CASE freq <= 1
    <3>1. UNCHANGED <<dic, maxid, cache, observed>> /\ K = Ids(maxid)
      BY <1>1, <2>1 DEF Shrink, indexVars
    <3>2. size = maxid /\ d = dic /\ \A key \in DOMAIN cache : Renumbered(cache[key].vec, K) = cache[key].vec
      BY <1>2, <1>6, <3>1, AllStay
    <3>3. \A id \in K : NewId(K, id) = id
      <4>1. \A id \in K : NewId(K, id) = id <=> 0..id - 1 \subseteq K
        BY <1>3, NewIdIs
      <4>2. \A id \in K : 0..id - 1 \subseteq K
        BY <1>3, <3>1 DEF Ids
      <4> QED
        BY <4>1, <4>2
    <3> HIDE DEF K, d, size
    <3> QED
      BY <1>2, <3>1, <3>2, <3>3
  <2>2. CASE freq > 1
    <3>1. K = Kept(freq) /\ ~(freq <= 1)
      BY <2>2
    <3>2. /\ maxid' = size /\ dic' = d
          /\ cache' = [key \in DOMAIN cache |->
                         [cache[key] EXCEPT !.vec = Renumbered(cache[key].vec, K)]]
          /\ observed' = [new \in 0..size - 1 |-> observed[CHOOSE id \in K : NewId(K, id) = new]]
      <4>1. Keep(K)
        <5> HIDE DEF K
        <5> QED
          BY <1>1, <3>1 DEF Shrink
      <4> HIDE DEF K
      <4> QED
        BY <4>1, Zenon DEF Keep, Closed, Renumbered, Staying
    <3> HIDE DEF K, d, size
    <3>3. ASSUME NEW key \in DOMAIN cache PROVE cache'[key].vec = Renumbered(cache[key].vec, K)
      BY <1>2, <3>2
    <3>4. ASSUME NEW id \in K PROVE observed'[NewId(K, id)] = observed[id]
      <4>1. (CHOOSE other \in K : NewId(K, other) = NewId(K, id)) = id
        BY <1>4
      <4>2. NewId(K, id) \in 0..size - 1
        BY <1>4
      <4> QED
        BY <3>2, <4>1, <4>2
    <3> QED
      BY <3>2, <3>3, <3>4
  <2> QED
    BY <2>1, <2>2
<1>8. \A f \in DOMAIN dic : dic[f] \in K <=> freq <= 1 \/ InCorpus(AskedIn, f) >= freq
  <2> TAKE f \in DOMAIN dic
  <2>1. dic[f] \in 0..maxid - 1
    BY <1>2 DEF IsTable
  <2>2. Uses(dic[f]) = InCorpus(AskedIn, f)
    BY UsesAre
  <2> QED
    BY <2>1, <2>2 DEF Kept, Ids
<1> HIDE DEF K
<1>9. ASSUME NEW key \in DOMAIN cache
      PROVE  LeftIn(cache'[key].vec, d, Templates[key]) /\ IsFaithful(cache'[key].vec, d, Templates[key])
  <2>1. IsSequence(Templates[key]) /\ IsVector(cache[key].vec, dic, Templates[key])
    BY <1>2, TemplatesAre
  <2> HIDE DEF d
  <2>2. /\ LeftIn(Renumbered(cache[key].vec, K), d, Templates[key])
        /\ IsFaithful(Renumbered(cache[key].vec, K), d, Templates[key])
    BY <1>2, <1>3, <2>1, ClosedVector DEF Renumbered, Staying, d
  <2> QED
    BY <1>7, <2>2
<1>10. InPlace(oldAlpha', d, oldModel) <=> NoneStaysBehind(d, oldModel)
  <2> HIDE DEF d, size
  <2>1. /\ Len(oldModel) \in Nat /\ DOMAIN oldModel = 1..Len(oldModel)
        /\ \A i \in 1..Len(oldModel) : oldModel[i] # NoWeight
    BY OldModelsAre DEF ReadSoFar
  <2>2. \A i \in 1..Len(oldModel) :
          oldModel[i] \in DOMAIN dic /\ dic[oldModel[i]] = i - 1 /\ oldModel[i] # NoWeight
    BY <2>1 DEF ReadSoFar
  <2>3. \A id \in 0..size - 1 :
          oldAlpha'[id] = IF id \in 0..Len(oldModel) - 1 THEN oldModel[id + 1] ELSE NoWeight
    BY <1>1, <1>7, <2>1 DEF ReadSoFar
  <2> QED
    BY <1>2, <1>3, <2>1, <2>2, <2>3, InPlaceWhen DEF d, size
<1> HIDE DEF d, size
<1>11. Features' = Features /\ \A f \in Features : f \in DOMAIN dic
  <2>1. Features' = Features
    BY <1>7 DEF Features
  <2>2. ASSUME NEW key \in DOMAIN cache, NEW i \in DOMAIN Templates[key] PROVE Templates[key][i] \in DOMAIN dic
    <3>1. DOMAIN Templates[key] = 1..Len(Templates[key])
      BY <1>2, TemplatesAre, SequencesAre
    <3> QED
      BY <1>2, <3>1 DEF IsVector
  <2> QED
    BY <2>1, <2>2 DEF Features
<1>12. \A f \in Features : f \in DOMAIN d <=> freq <= 1 \/ InCorpus(AskedIn, f) >= freq
  BY <1>5, <1>8, <1>11
<1>13. \A f \in DOMAIN d : observed'[d[f]] = InCorpus(AnswersIn, f)
  <2> TAKE f \in DOMAIN d
  <2>1. f \in DOMAIN dic /\ dic[f] \in K /\ f \in AllFeatures
    BY <1>2, <1>5
  <2>2. observed[dic[f]] = InCorpus(AnswersIn, f)
    BY <2>1 DEF ReadSoFar
  <2> QED
    BY <1>5, <1>7, <2>1, <2>2
<1>14. \A f \in AllFeatures : InCorpus(AskedIn, f)' = InCorpus(AskedIn, f)
                             /\ InCorpus(AnswersIn, f)' = InCorpus(AnswersIn, f)
  BY <1>1 DEF InCorpus
<1>15. \A f \in Features : f \in AllFeatures
  BY <1>2, <1>11
<1>16. DOMAIN d \subseteq AllFeatures
  BY <1>2, <1>5
<1> QED
  BY <1>1, <1>5, <1>7, <1>9, <1>10, <1>11, <1>12, <1>13, <1>14, <1>15, <1>16 DEF ReadSoFar, Settled

-----------------------------------------------------------------------------
(***************************************************************************)
(* Part VI: the rounds.  Every threadNum-th sentence is a thread's own.    *)
(***************************************************************************)
LEMMA Division ==
  ASSUME NEW a \in Nat, NEW d \in Nat \ {0}
  PROVE  a = (d * (a \div d)) + (a % d) /\ a \div d \in Nat /\ a % d \in 0..d - 1
OBVIOUS

LEMMA DivisionUnique ==
  ASSUME NEW d \in Nat \ {0}, NEW p \in Nat, NEW q \in Nat, NEW r \in 0..d - 1, NEW t \in 0..d - 1,
         (d * p) + r = (d * q) + t
  PROVE  p = q /\ r = t
<1>1. ASSUME NEW b \in Nat, NEW c \in Nat, b < c PROVE (d * b) + d <= d * c
  <2>1. c = b + 1 + (c - b - 1) /\ c - b - 1 \in Nat
    BY <1>1
  <2>2. d * (b + 1) = (d * b) + d
    OBVIOUS
  <2>3. \A g \in Nat : d * (b + 1 + g) = (d * (b + 1)) + (d * g) /\ d * g >= 0
    OBVIOUS
  <2> QED
    BY <2>1, <2>2, <2>3
<1>2. d * p \in Nat /\ d * q \in Nat
  OBVIOUS
<1>3. p = q
  BY <1>1, <1>2
<1> QED
  BY <1>2, <1>3

(* A counter that starts below d and moves by d comes past the numbers with *)
(* its rest, and past no other.                                             *)
LEMMA RestIs ==
  ASSUME NEW a \in Nat, NEW d \in Nat \ {0}
  PROVE  /\ a % d \in 0..d - 1 /\ (a < d => a % d = a) /\ d % d = 0
         /\ (a + d) % d = a % d
         /\ \A b \in Nat : a <= b /\ b < a + d /\ b % d = a % d => a = b
<1>1. a % d \in 0..d - 1 /\ (a < d => a % d = a) /\ d % d = 0
  OBVIOUS
<1>2. (a + d) % d = a % d
  <2>1. a = (d * (a \div d)) + (a % d) /\ a \div d \in Nat
    BY Division
  <2>2. a + d = (d * ((a \div d) + 1)) + (a % d)
    BY <1>1, <2>1
  <2>3. PICK c \in Nat : c = a + d
    OBVIOUS
  <2>4. c = (d * (c \div d)) + (c % d) /\ c \div d \in Nat /\ c % d \in 0..d - 1
    BY Division
  <2>5. PICK p \in Nat, q \in Nat, r \in 0..d - 1, t \in 0..d - 1 :
          c = (d * p) + r /\ c = (d * q) + t /\ r = c % d /\ t = a % d
    <3>1. (a \div d) + 1 \in Nat
      BY <2>1
    <3> QED
      BY <1>1, <2>2, <2>3, <2>4, <3>1
  <2>6. (d * p) + r = (d * q) + t
    BY <2>5
  <2>7. r = t
    BY <2>6, DivisionUnique
  <2> QED
    BY <2>3, <2>5, <2>7
<1>3. ASSUME NEW b \in Nat, a <= b, b < a + d, b % d = a % d PROVE a = b
  <2>1. a = (d * (a \div d)) + (a % d) /\ a \div d \in Nat
    BY Division
  <2>2. b = (d * (b \div d)) + (b % d) /\ b \div d \in Nat /\ b % d \in 0..d - 1
    BY Division
  <2>3. PICK p \in Nat, q \in Nat, r \in 0..d - 1 : a = (d * p) + r /\ b = (d * q) + r
    BY <1>1, <1>3, <2>1, <2>2
  <2>4. p <= q /\ q < p + 1
    BY <1>3, <2>3
  <2> QED
    BY <2>3, <2>4
<1> QED
  BY <1>1, <1>2, <1>3

(* The sentences of thread t before sentence i, all of them, and those of   *)
(* the threads before t.                                                    *)
Turn(j, threads) == (j - 1) % threads
Before(n, threads, t, i) == {j \in 1..n : Turn(j, threads) = t /\ j - 1 < i}
Turns(n, threads, t) == {j \in 1..n : Turn(j, threads) = t}
OfFirst(n, threads, t) == {j \in 1..n : Turn(j, threads) < t}

LEMMA TurnsAre ==
  ASSUME NEW n \in Nat, NEW threads \in Nat \ {0}
  PROVE  /\ \A j \in 1..n : Turn(j, threads) \in 0..threads - 1
         /\ OfFirst(n, threads, 0) = {} /\ OfFirst(n, threads, threads) = 1..n
         /\ \A t \in 0..threads - 1 :
              /\ Before(n, threads, t, t) = {}
              /\ OfFirst(n, threads, t + 1) = OfFirst(n, threads, t) \cup Turns(n, threads, t)
              /\ OfFirst(n, threads, t) \cap Turns(n, threads, t) = {}
<1>1. \A j \in 1..n : Turn(j, threads) \in 0..threads - 1 /\ (j - 1 < threads => Turn(j, threads) = j - 1)
  <2> TAKE j \in 1..n
  <2>1. PICK a \in Nat : a = j - 1
    OBVIOUS
  <2> QED
    BY <2>1, RestIs DEF Turn
<1>2. OfFirst(n, threads, 0) = {} /\ OfFirst(n, threads, threads) = 1..n
  BY <1>1 DEF OfFirst
<1>3. ASSUME NEW t \in 0..threads - 1
      PROVE  /\ Before(n, threads, t, t) = {}
             /\ OfFirst(n, threads, t + 1) = OfFirst(n, threads, t) \cup Turns(n, threads, t)
             /\ OfFirst(n, threads, t) \cap Turns(n, threads, t) = {}
  BY <1>1 DEF Before, OfFirst, Turns
<1> QED
  BY <1>1, <1>2, <1>3

LEMMA TurnTaken ==
  ASSUME NEW n \in Nat, NEW threads \in Nat \ {0}, NEW t \in 0..threads - 1,
         NEW i \in Nat, i % threads = t
  PROVE  /\ (i + threads) % threads = t
         /\ i >= n => Before(n, threads, t, i) = Turns(n, threads, t)
         /\ i < n => /\ i + 1 \in 1..n /\ i + 1 \notin Before(n, threads, t, i)
                     /\ Before(n, threads, t, i + threads) = Before(n, threads, t, i) \cup {i + 1}
<1>1. /\ (i + threads) % threads = t
      /\ \A b \in Nat : i <= b /\ b < i + threads /\ b % threads = t => i = b
  BY RestIs
<1>2. i >= n => Before(n, threads, t, i) = Turns(n, threads, t)
  BY DEF Before, Turns
<1>3. ASSUME i < n
      PROVE  /\ i + 1 \in 1..n /\ i + 1 \notin Before(n, threads, t, i)
             /\ Before(n, threads, t, i + threads) = Before(n, threads, t, i) \cup {i + 1}
  <2>1. i + 1 \in 1..n /\ (i + 1) - 1 = i /\ Turn(i + 1, threads) = t
    BY <1>3 DEF Turn
  <2>2. ASSUME NEW j \in 1..n, Turn(j, threads) = t, j - 1 < i + threads, ~(j - 1 < i) PROVE j = i + 1
    <3>1. PICK b \in Nat : b = j - 1
      OBVIOUS
    <3>2. b % threads = t /\ i <= b /\ b < i + threads
      BY <2>2, <3>1 DEF Turn
    <3>3. i = b
      BY <1>1, <3>2
    <3> QED
      BY <3>1, <3>3
  <2>3. \A j \in 1..n : j - 1 < i => j - 1 < i + threads
    OBVIOUS
  <2>4. i < i + threads /\ ~(i < i)
    OBVIOUS
  <2> QED
    BY <2>1, <2>2, <2>3, <2>4 DEF Before
<1> QED
  BY <1>1, <1>2, <1>3
(***************************************************************************)
(* What a thread, or the sum of all, holds: for every feature that has a   *)
(* number, the shares of the sentences in S.                               *)
(***************************************************************************)
IsCorpus(corpus) == corpus \in Seq(Sentences)
ShareOf(corpus, feature) == [i \in 1..Len(corpus) |-> SharesIn[<<corpus[i], feature>>]]
ShareIn(corpus, feature, S) == SumFunctionOnSet(ShareOf(corpus, feature), S)

HasCounts(corpus, d, size, sum, S) ==
  /\ sum = [v |-> sum.v, obj |-> sum.obj, score |-> sum.score]
  /\ DOMAIN sum.v = 0..size - 1
  /\ \A feature \in DOMAIN d : sum.v[d[feature]] = ShareIn(corpus, feature, S)
  /\ sum.obj = Cardinality(S)

LEMMA SharesAre ==
  ASSUME NEW corpus, IsCorpus(corpus), NEW feature \in AllFeatures, NEW part, part \subseteq 1..Len(corpus)
  PROVE  /\ Summable(ShareOf(corpus, feature), part) /\ IsFiniteSet(part)
         /\ ShareIn(corpus, feature, part) \in Int
         /\ \A i \in 1..Len(corpus) :
              ShareOf(corpus, feature)[i] = Held(Shares(corpus[i]), feature)
<1> DEFINE f == ShareOf(corpus, feature)
<1>1. Len(corpus) \in Nat /\ \A i \in 1..Len(corpus) : corpus[i] \in Sentences
  BY LenProperties, ElementOfSeq DEF IsCorpus
<1>2. \A i \in 1..Len(corpus) : f[i] = Held(Shares(corpus[i]), feature) /\ f[i] \in Int
  <2> TAKE i \in 1..Len(corpus)
  <2>1. SharesIn[<<corpus[i], feature>>] = Held(Shares(corpus[i]), feature)
        /\ SharesIn[<<corpus[i], feature>>] \in Int
    BY <1>1, CountsAre
  <2> QED
    BY <2>1 DEF ShareOf
<1> HIDE DEF f
<1>3. IsFiniteSet(part)
  <2>1. IsFiniteSet(1..Len(corpus))
    BY <1>1, FS_Interval
  <2> QED
    BY <2>1, FS_Subset
<1>4. Summable(f, part)
  BY <1>2, <1>3 DEF Summable
<1>5. ShareIn(corpus, feature, part) = SumFunctionOnSet(f, part)
  BY DEF ShareIn, f
<1>6. SumFunctionOnSet(f, part) \in Int
  BY <1>4, SumFacts
<1> QED
  BY <1>2, <1>3, <1>4, <1>5, <1>6 DEF f

LEMMA ShareAdded ==
  ASSUME NEW corpus, IsCorpus(corpus), NEW feature \in AllFeatures,
         NEW part, part \subseteq 1..Len(corpus), NEW i \in 1..Len(corpus), i \notin part
  PROVE  ShareIn(corpus, feature, part \cup {i})
           = Held(Shares(corpus[i]), feature) + ShareIn(corpus, feature, part)
<1> DEFINE f == ShareOf(corpus, feature)
           more == part \cup {i}
<1>1. more \subseteq 1..Len(corpus)
  OBVIOUS
<1> HIDE DEF more
<1>2. Summable(f, more) /\ f[i] = Held(Shares(corpus[i]), feature)
  BY <1>1, SharesAre
<1> HIDE DEF f
<1>3. SumFunctionOnSet(f, part \cup {i}) = f[i] + SumFunctionOnSet(f, part)
  BY <1>2, SumAdds DEF more
<1> QED
  BY <1>2, <1>3 DEF ShareIn, f

AreParts(corpus, one, other) ==
  one \subseteq 1..Len(corpus) /\ other \subseteq 1..Len(corpus) /\ one \cap other = {}

LEMMA SharesOfParts ==
  ASSUME NEW corpus, IsCorpus(corpus), NEW feature \in AllFeatures,
         NEW one, NEW other, AreParts(corpus, one, other)
  PROVE  ShareIn(corpus, feature, one \cup other)
           = ShareIn(corpus, feature, one) + ShareIn(corpus, feature, other)
<1> DEFINE f == ShareOf(corpus, feature)
           both == one \cup other
<1>1. both \subseteq 1..Len(corpus) /\ one \cap other = {}
  BY DEF AreParts
<1> HIDE DEF both
<1>2. Summable(f, both)
  BY <1>1, SharesAre
<1> HIDE DEF f
<1>3. SumFunctionOnSet(f, one \cup other) = SumFunctionOnSet(f, one) + SumFunctionOnSet(f, other)
  BY <1>1, <1>2, SumOfParts DEF both
<1> QED
  BY <1>3 DEF ShareIn, f

(* Every share of the corpus is in the gradient, or in an answer.           *)
LEMMA SharesOfCorpus ==
  ASSUME NEW corpus, IsCorpus(corpus), NEW feature \in AllFeatures
  PROVE  LET Sum(counts) == SumFunction([i \in DOMAIN corpus |-> counts[<<corpus[i], feature>>]])
         IN  /\ ShareIn(corpus, feature, 1..Len(corpus)) = Sum(GradientIn) + Sum(AnswersIn)
             /\ Sum(GradientIn) \in Int /\ Sum(AnswersIn) \in Int
<1> DEFINE R == 1..Len(corpus)
           h == ShareOf(corpus, feature)
           f == [i \in DOMAIN corpus |-> GradientIn[<<corpus[i], feature>>]]
           g == [i \in DOMAIN corpus |-> AnswersIn[<<corpus[i], feature>>]]
<1>1. Len(corpus) \in Nat /\ DOMAIN corpus = R /\ \A i \in R : corpus[i] \in Sentences
  BY LenProperties, ElementOfSeq DEF IsCorpus
<1>2. IsFiniteSet(R)
  BY <1>1, FS_Interval
<1>3. \A i \in R : f[i] \in Int /\ g[i] \in Int /\ h[i] = f[i] + g[i]
  <2> TAKE i \in R
  <2>1. /\ GradientIn[<<corpus[i], feature>>] \in Int /\ AnswersIn[<<corpus[i], feature>>] \in Int
        /\ SharesIn[<<corpus[i], feature>>]
             = GradientIn[<<corpus[i], feature>>] + AnswersIn[<<corpus[i], feature>>]
    BY <1>1, CountsAre
  <2> QED
    BY <1>1, <2>1 DEF ShareOf
<1>4. DOMAIN f = R /\ DOMAIN g = R
  BY <1>1
<1>5. SumFunction(f) = SumFunctionOnSet(f, R) /\ SumFunction(g) = SumFunctionOnSet(g, R)
  <2> HIDE DEF f, g
  <2> QED
    BY <1>4 DEF SumFunction
<1>6. ShareIn(corpus, feature, R) = SumFunctionOnSet(h, R)
  BY DEF ShareIn
<1> HIDE DEF f, g, h, R
<1>7. Summable(f, R) /\ Summable(g, R) /\ \A i \in R : h[i] = f[i] + g[i]
  BY <1>2, <1>3 DEF Summable
<1>8. SumFunctionOnSet(f, R) \in Int /\ SumFunctionOnSet(g, R) \in Int
  BY <1>7, SumFacts
<1>9. SumFunctionOnSet(h, R) = SumFunctionOnSet(f, R) + SumFunctionOnSet(g, R)
  BY <1>7, SumOfBoth
<1> QED
  BY <1>5, <1>6, <1>8, <1>9 DEF R, f, g

(* gradient() and eval() of one more sentence.                              *)
LEMMA AddedCounts ==
  ASSUME Settled, NEW S, S \subseteq 1..Len(x), NEW i \in Nat, i + 1 \in 1..Len(x), i + 1 \notin S,
         NEW sum, HasCounts(x, dic, maxid, sum, S), NEW chain
  PROVE  HasCounts(x, dic, maxid, Added(sum, i, chain), S \cup {i + 1})
<1> DEFINE j == i + 1
           paths == Shares(x[j])
           held == FlattenSeq([place \in DOMAIN paths |-> VectorsOf(cache, paths[place])])
           next == Added(sum, i, chain)
           scores == AddScore(sum.score, Lattices[x[j]].scores[chain])
<1>1. Len(x) \in Nat /\ IsCorpus(x) /\ x[j] \in Sentences
  BY LenProperties, ElementOfSeq DEF Settled, IsCorpus
<1>2. Lattices[x[j]].shares = paths
  BY <1>1 DEF Lattices
<1>3. next = [v |-> AddVectors(sum.v, cache, paths), obj |-> sum.obj + 1, score |-> scores]
  BY <1>2 DEF Added
<1>4. AddVectors(sum.v, cache, paths) = [id \in DOMAIN sum.v |-> sum.v[id] + Times(held, id)]
  BY DEF AddVectors
<1>5. ArePaths(paths) /\ HasKeys(paths, DOMAIN cache)
  <2>1. ArePaths(paths) /\ ArePaths(PathsOf(x[j])) /\ ToSet(paths) \subseteq ToSet(PathsOf(x[j]))
    BY <1>1, PathsAre
  <2>2. /\ Len(paths) \in Nat /\ DOMAIN paths = 1..Len(paths)
        /\ Len(PathsOf(x[j])) \in Nat /\ DOMAIN PathsOf(x[j]) = 1..Len(PathsOf(x[j]))
    BY <2>1, HasIs
  <2>3. HasKeys(PathsOf(x[j]), DOMAIN cache)
    BY DEF Settled
  <2>4. \A place \in 1..Len(paths) : \E other \in 1..Len(PathsOf(x[j])) : paths[place] = PathsOf(x[j])[other]
    BY <2>1, <2>2 DEF ToSet
  <2> QED
    BY <2>1, <2>3, <2>4 DEF HasKeys
<1> HIDE DEF scores, held, next, paths
<1>6. DOMAIN next.v = 0..maxid - 1 /\ next = [v |-> next.v, obj |-> next.obj, score |-> next.score]
  BY <1>3, <1>4 DEF HasCounts
<1>7. ASSUME NEW feature \in DOMAIN dic
      PROVE  next.v[dic[feature]] = ShareIn(x, feature, S \cup {j})
  <2>1. dic[feature] \in 0..maxid - 1 /\ feature \in AllFeatures
    BY DEF Settled, IsTable
  <2>2. Times(held, dic[feature]) = Held(paths, feature)
    BY <1>5, PathsHold DEF Settled, held
  <2>3. next.v[dic[feature]] = sum.v[dic[feature]] + Times(held, dic[feature])
    BY <1>3, <1>4, <2>1 DEF HasCounts
  <2>4. sum.v[dic[feature]] = ShareIn(x, feature, S)
    BY DEF HasCounts
  <2>5. /\ ShareIn(x, feature, S) \in Int
        /\ ShareIn(x, feature, S \cup {j}) = Held(paths, feature) + ShareIn(x, feature, S)
    BY <1>1, <2>1, SharesAre, ShareAdded DEF paths
  <2>6. Held(paths, feature) \in Int
    BY <1>5, HasIs
  <2> QED
    BY <2>2, <2>3, <2>4, <2>5, <2>6
<1>8. next.obj = Cardinality(S \cup {j})
  <2>1. IsFiniteSet(1..Len(x))
    BY <1>1, FS_Interval
  <2>2. IsFiniteSet(S)
    BY <2>1, FS_Subset
  <2>3. Cardinality(S \cup {j}) = Cardinality(S) + 1
    BY <2>2, FS_AddElement
  <2> QED
    BY <1>3, <2>3 DEF HasCounts
<1> QED
  BY <1>6, <1>7, <1>8 DEF HasCounts, next

(* The sums of a thread are added to the sums of others.                    *)
LEMMA BothCounts ==
  ASSUME Settled, NEW these, NEW those, AreParts(x, these, those),
         NEW a, HasCounts(x, dic, maxid, a, these), NEW b, HasCounts(x, dic, maxid, b, those), NEW scores
  PROVE  HasCounts(x, dic, maxid,
                   [v |-> [id \in DOMAIN a.v |-> a.v[id] + b.v[id]], obj |-> a.obj + b.obj, score |-> scores],
                   these \cup those)
<1> DEFINE next == [v |-> [id \in DOMAIN a.v |-> a.v[id] + b.v[id]], obj |-> a.obj + b.obj, score |-> scores]
<1>1. Len(x) \in Nat /\ IsCorpus(x)
  BY LenProperties DEF Settled, IsCorpus
<1>2. ASSUME NEW feature \in DOMAIN dic
      PROVE  next.v[dic[feature]] = ShareIn(x, feature, these \cup those)
  <2>1. dic[feature] \in 0..maxid - 1 /\ feature \in AllFeatures
    BY DEF Settled, IsTable
  <2>2. ShareIn(x, feature, these \cup those) = ShareIn(x, feature, these) + ShareIn(x, feature, those)
    BY <1>1, <2>1, SharesOfParts
  <2> QED
    BY <2>1, <2>2 DEF HasCounts
<1>3. IsFiniteSet(these) /\ IsFiniteSet(those)
  <2>1. IsFiniteSet(1..Len(x))
    BY <1>1, FS_Interval
  <2> QED
    BY <2>1, FS_Subset DEF AreParts
<1>4. Cardinality(these \cup those) = Cardinality(these) + Cardinality(those)
  <2>1. Cardinality(these \cap those) = 0 /\ Cardinality(these) \in Nat /\ Cardinality(those) \in Nat
    BY <1>3, FS_EmptySet, FS_CardinalityType DEF AreParts
  <2>2. Cardinality(these \cup those) = Cardinality(these) + Cardinality(those) - Cardinality(these \cap those)
    BY <1>3, FS_Union
  <2> QED
    BY <2>1, <2>2
<1>5. DOMAIN next.v = 0..maxid - 1
  BY DEF HasCounts
<1>6. next.obj = Cardinality(these \cup those)
  BY <1>4 DEF HasCounts
<1> QED
  BY <1>2, <1>5, <1>6 DEF HasCounts

-----------------------------------------------------------------------------
(***************************************************************************)
(* Part VII: the invariant of the training.  A thread that has begun holds *)
(* the shares of its sentences so far, whatever the phase it was left in.  *)
(***************************************************************************)
ThreadIs(corpus, d, size, threads, one, t) ==
  /\ one = [at |-> one.at, i |-> one.i, sum |-> one.sum]
  /\ one.at \in {"idle", "begin", "loop", "done"}
  /\ one.at = "loop" =>
       /\ one.i \in Nat /\ one.i % threads = t
       /\ HasCounts(corpus, d, size, one.sum, Before(Len(corpus), threads, t, one.i))
  /\ one.at = "done" => HasCounts(corpus, d, size, one.sum, Turns(Len(corpus), threads, t))

ThreadsAre ==
  /\ thread = [t \in 0..threadNum - 1 |-> thread[t]]
  /\ \A t \in 0..threadNum - 1 : ThreadIs(x, dic, maxid, threadNum, thread[t], t)

(* Where a thread can be in a phase of the main thread.                     *)
MayBe(at, t, during, turn) ==
  /\ at \in {"begin", "loop"} => during \in {"starting", "joining"}
  /\ during = "reading" => at = "idle"
  /\ during = "starting" => (t < turn => at # "idle")
  /\ during = "joining" => at # "idle" /\ (t < turn => at = "done")
  /\ during = "summing" => at = "done"

ThreadsAreWhere == \A t \in 0..threadNum - 1 : MayBe(thread[t].at, t, phase, k)

(* What the main thread has added up.                                       *)
SumIs(corpus, d, size, threads, sum, during, turn) ==
  /\ during = "alone" => turn \in 0..Len(corpus) - 1 /\ HasCounts(corpus, d, size, sum, 1..turn)
  /\ during \in {"starting", "joining", "summing"} => turn \in 0..threads - 1
  /\ during \in {"starting", "joining"} => HasCounts(corpus, d, size, sum, {})
  /\ during = "summing" => HasCounts(corpus, d, size, sum, OfFirst(Len(corpus), threads, turn))
  /\ during = "objective" => HasCounts(corpus, d, size, sum, 1..Len(corpus))

SumSoFar == SumIs(x, dic, maxid, threadNum, total, phase, k)

TrainingInv ==
  /\ freq \in Nat /\ threadNum \in Nat \ {0}
  /\ phase = "reading" => ReadSoFar
  /\ phase # "reading" => Settled
  /\ ThreadsAre /\ ThreadsAreWhere /\ SumSoFar
  /\ GradientComplete

LEMMA IdleIs ==
  \A corpus, d, size, threads, one, t :
    one = [at |-> one.at, i |-> one.i, sum |-> one.sum] /\ one.at \in {"idle", "begin"}
      => ThreadIs(corpus, d, size, threads, one, t)
BY DEF ThreadIs

LEMMA InitTraining == Init => TrainingInv
<1> SUFFICES ASSUME Init PROVE TrainingInv
  OBVIOUS
<1>1. ReadSoFar
  BY InitReading
<1>2. /\ freq \in 1..MaxFreq /\ threadNum \in 1..MaxThreads /\ phase = "reading" /\ k = 0
      /\ thread = [t \in 0..threadNum - 1 |-> Idle]
  BY DEF Init
<1>3. freq \in Nat /\ threadNum \in Nat \ {0}
  BY <1>2, TrainingAssumption
<1>4. \A t \in 0..threadNum - 1 : thread[t] = Idle
  BY <1>2
<1>5. Idle = [at |-> Idle.at, i |-> Idle.i, sum |-> Idle.sum] /\ Idle.at = "idle"
  BY DEF Idle
<1>6. ThreadsAre
  BY <1>2, <1>4, <1>5, IdleIs DEF ThreadsAre
<1>7. ThreadsAreWhere
  BY <1>2, <1>4, <1>5 DEF ThreadsAreWhere, MayBe
<1>8. SumSoFar /\ GradientComplete
  BY <1>2 DEF SumSoFar, SumIs, GradientComplete
<1> QED
  BY <1>1, <1>2, <1>3, <1>6, <1>7, <1>8 DEF TrainingInv

(* While the corpus is read, every thread is idle.                          *)
LEMMA StillIdle ==
  ASSUME TrainingInv, phase = "reading", UNCHANGED <<thread, threadNum>>,
         phase' \in {"reading", "round"}
  PROVE  ThreadsAre' /\ ThreadsAreWhere' /\ SumSoFar' /\ GradientComplete'
<1>1. \A t \in 0..threadNum - 1 : thread[t].at = "idle"
  BY DEF TrainingInv, ThreadsAreWhere, MayBe
<1>2. \A t \in 0..threadNum - 1 : thread[t] = [at |-> thread[t].at, i |-> thread[t].i, sum |-> thread[t].sum]
  BY DEF TrainingInv, ThreadsAre, ThreadIs
<1>3. ThreadsAre'
  <2>1. \A t \in 0..threadNum - 1 : ThreadIs(x', dic', maxid', threadNum, thread[t], t)
    BY <1>1, <1>2, IdleIs
  <2>2. thread = [t \in 0..threadNum - 1 |-> thread[t]]
    BY DEF TrainingInv, ThreadsAre
  <2> QED
    BY <2>1, <2>2 DEF ThreadsAre
<1>4. ThreadsAreWhere'
  BY <1>1 DEF ThreadsAreWhere, MayBe
<1>5. SumSoFar' /\ GradientComplete'
  BY DEF SumSoFar, SumIs, GradientComplete
<1> QED
  BY <1>3, <1>4, <1>5

LEMMA ReadKeeps ==
  ASSUME TrainingInv, NEW sentence \in Sentences, Read(sentence)
  PROVE  TrainingInv'
<1>1. phase = "reading" /\ phase' = "reading" /\ UNCHANGED <<thread, threadNum, freq>>
  BY DEF Read, roundVars, optionVars
<1>2. ReadSoFar'
  BY <1>1, ReadReads DEF TrainingInv
<1>3. ThreadsAre' /\ ThreadsAreWhere' /\ SumSoFar' /\ GradientComplete'
  BY <1>1, StillIdle
<1> QED
  BY <1>1, <1>2, <1>3 DEF TrainingInv

LEMMA CutOffKeeps ==
  ASSUME TrainingInv, CutOff
  PROVE  TrainingInv'
<1>1. phase = "reading" /\ phase' = "round" /\ UNCHANGED <<thread, threadNum, freq>>
  BY DEF CutOff, roundVars, optionVars
<1>2. Settled'
  BY <1>1, CutOffSettles DEF TrainingInv
<1>3. ThreadsAre' /\ ThreadsAreWhere' /\ SumSoFar' /\ GradientComplete'
  BY <1>1, StillIdle
<1> QED
  BY <1>1, <1>2, <1>3 DEF TrainingInv

(* Nothing moves the table, the vectors or the old weights after that.      *)
LEMMA SettledStays ==
  ASSUME Settled, UNCHANGED Main
  PROVE  Settled'
<1>1. UNCHANGED <<dic, maxid, cache, observed, freq, oldModel, x, oldAlpha>>
  BY DEF Main, indexVars, optionVars
<1>2. Features' = Features
  BY <1>1 DEF Features
<1> QED
  BY <1>1, <1>2 DEF Settled, InCorpus
(* What every step of a round starts from.                                  *)
LEMMA RoundStarts ==
  ASSUME TrainingInv, phase # "reading"
  PROVE  /\ Settled /\ freq \in Nat /\ threadNum \in Nat \ {0}
         /\ Len(x) \in Nat /\ Len(x) > 0 /\ DOMAIN x = 1..Len(x)
         /\ \A t \in 0..threadNum - 1 :
              /\ thread[t] = [at |-> thread[t].at, i |-> thread[t].i, sum |-> thread[t].sum]
              /\ ThreadIs(x, dic, maxid, threadNum, thread[t], t)
              /\ MayBe(thread[t].at, t, phase, k)
         /\ SumIs(x, dic, maxid, threadNum, total, phase, k)
<1>1. Settled /\ freq \in Nat /\ threadNum \in Nat \ {0}
  BY DEF TrainingInv
<1>2. Len(x) \in Nat /\ Len(x) > 0 /\ DOMAIN x = 1..Len(x)
  <2>1. x \in Seq(Sentences) /\ x # <<>>
    BY <1>1 DEF Settled
  <2> QED
    BY <2>1, LenProperties, EmptySeq
<1>3. \A t \in 0..threadNum - 1 :
        /\ ThreadIs(x, dic, maxid, threadNum, thread[t], t)
        /\ MayBe(thread[t].at, t, phase, k)
  BY DEF TrainingInv, ThreadsAre, ThreadsAreWhere
<1>4. \A t \in 0..threadNum - 1 :
        thread[t] = [at |-> thread[t].at, i |-> thread[t].i, sum |-> thread[t].sum]
  BY <1>3 DEF ThreadIs
<1>5. SumIs(x, dic, maxid, threadNum, total, phase, k)
  BY DEF TrainingInv, SumSoFar
<1> QED
  BY <1>1, <1>2, <1>3, <1>4, <1>5

(* A step of the main thread that leaves the threads alone.                 *)
LEMMA MainKeeps ==
  ASSUME TrainingInv, phase # "reading", phase' # "reading", UNCHANGED <<Main, thread>>,
         \A t \in 0..threadNum - 1 : MayBe(thread[t].at, t, phase', k'),
         SumIs(x, dic, maxid, threadNum, total', phase', k'), GradientComplete'
  PROVE  TrainingInv'
<1>1. Settled'
  BY SettledStays DEF TrainingInv
<1>2. UNCHANGED <<dic, maxid, freq, threadNum, x, thread>>
  BY DEF Main, indexVars, optionVars
<1>3. ThreadsAre'
  BY <1>2 DEF TrainingInv, ThreadsAre
<1>4. ThreadsAreWhere'
  BY <1>2 DEF ThreadsAreWhere
<1>5. SumSoFar'
  BY <1>2 DEF SumSoFar
<1> QED
  BY <1>1, <1>2, <1>3, <1>4, <1>5 DEF TrainingInv

(* A step that changes one thread.                                          *)
LEMMA ThreadKeeps ==
  ASSUME TrainingInv, phase # "reading", phase' \notin {"reading", "optimizing"},
         UNCHANGED <<Main, total>>,
         NEW t \in 0..threadNum - 1, NEW one, thread' = [thread EXCEPT ![t] = one],
         ThreadIs(x, dic, maxid, threadNum, one, t), MayBe(one.at, t, phase', k'),
         \A other \in 0..threadNum - 1 : other # t => MayBe(thread[other].at, other, phase', k'),
         SumIs(x, dic, maxid, threadNum, total, phase', k')
  PROVE  TrainingInv'
<1>1. Settled'
  BY SettledStays DEF TrainingInv
<1>2. UNCHANGED <<dic, maxid, freq, threadNum, x, total>>
  BY DEF Main, indexVars, optionVars
<1>3. thread = [other \in 0..threadNum - 1 |-> thread[other]]
  BY DEF TrainingInv, ThreadsAre
<1>4. thread' = [other \in 0..threadNum - 1 |-> IF other = t THEN one ELSE thread[other]]
  BY <1>3
<1>5. thread'[t] = one /\ \A other \in 0..threadNum - 1 : other # t => thread'[other] = thread[other]
  BY <1>4
<1>6. ThreadsAre'
  <2>1. \A other \in 0..threadNum - 1 : ThreadIs(x, dic, maxid, threadNum, thread'[other], other)
    BY <1>5 DEF TrainingInv, ThreadsAre
  <2>2. thread' = [other \in 0..threadNum - 1 |-> thread'[other]]
    BY <1>4
  <2> QED
    BY <1>2, <2>1, <2>2 DEF ThreadsAre
<1>7. ThreadsAreWhere'
  BY <1>2, <1>5 DEF ThreadsAreWhere
<1>8. SumSoFar' /\ GradientComplete'
  BY <1>2 DEF SumSoFar, GradientComplete
<1> QED
  BY <1>1, <1>2, <1>6, <1>7, <1>8 DEF TrainingInv

(* The next of the main thread's turns; after the last one, 0.              *)
LEMMA NextTurn ==
  ASSUME NEW threads \in Nat \ {0}, NEW turn \in 0..threads - 1
  PROVE  /\ (turn + 1) % threads \in 0..threads - 1
         /\ turn + 1 < threads => (turn + 1) % threads = turn + 1
         /\ turn + 1 = threads => (turn + 1) % threads = 0
<1>1. PICK a \in Nat : a = turn + 1
  OBVIOUS
<1>2. a % threads \in 0..threads - 1 /\ (a < threads => a % threads = a) /\ threads % threads = 0
  BY RestIs
<1> QED
  BY <1>1, <1>2

LEMMA BeginRoundKeeps ==
  ASSUME TrainingInv, BeginRound
  PROVE  TrainingInv'
<1>1. /\ phase = "round" /\ total' = Nothing /\ k' = 0 /\ UNCHANGED <<Main, thread>>
      /\ phase' \in {"starting", "alone"}
  BY DEF BeginRound
<1>2. /\ Settled /\ threadNum \in Nat \ {0} /\ Len(x) \in Nat /\ Len(x) > 0
      /\ \A t \in 0..threadNum - 1 : MayBe(thread[t].at, t, phase, k)
  BY <1>1, RoundStarts
<1>3. HasCounts(x, dic, maxid, Nothing, {})
  <2>1. \A feature \in DOMAIN dic : dic[feature] \in 0..maxid - 1
    BY <1>2 DEF Settled, IsTable
  <2>2. \A feature : ShareIn(x, feature, {}) = 0
    BY SumOfNone DEF ShareIn
  <2>3. Cardinality({}) = 0
    BY FS_EmptySet
  <2> QED
    BY <2>1, <2>2, <2>3 DEF HasCounts, Nothing
<1>4. \A t \in 0..threadNum - 1 : MayBe(thread[t].at, t, phase', k')
  BY <1>1, <1>2 DEF MayBe
<1>5. SumIs(x, dic, maxid, threadNum, total', phase', k')
  <2>1. 1..0 = {}
    OBVIOUS
  <2> QED
    BY <1>1, <1>2, <1>3, <2>1 DEF SumIs
<1>6. GradientComplete'
  BY <1>1 DEF GradientComplete
<1> QED
  BY <1>1, <1>4, <1>5, <1>6, MainKeeps

LEMMA AloneKeeps ==
  ASSUME TrainingInv, Alone
  PROVE  TrainingInv'
<1>1. PICK chain : total' = Added(total, k, chain)
  BY DEF Alone
<1>2. /\ phase = "alone" /\ k' = k + 1 /\ UNCHANGED <<Main, thread>>
      /\ phase' = IF k' = Len(x) THEN "objective" ELSE phase
  BY DEF Alone
<1>3. /\ Settled /\ Len(x) \in Nat
      /\ \A t \in 0..threadNum - 1 : MayBe(thread[t].at, t, phase, k)
      /\ k \in 0..Len(x) - 1 /\ HasCounts(x, dic, maxid, total, 1..k)
  BY <1>2, RoundStarts DEF SumIs
<1>4. HasCounts(x, dic, maxid, total', 1..k + 1)
  <2>1. 1..k \subseteq 1..Len(x) /\ k \in Nat /\ k + 1 \in 1..Len(x) /\ k + 1 \notin 1..k
    BY <1>3
  <2>2. HasCounts(x, dic, maxid, Added(total, k, chain), (1..k) \cup {k + 1})
    BY <1>3, <2>1, AddedCounts
  <2>3. (1..k) \cup {k + 1} = 1..k + 1
    BY <2>1
  <2> QED
    BY <1>1, <2>2, <2>3
<1>5. \A t \in 0..threadNum - 1 : MayBe(thread[t].at, t, phase', k')
  BY <1>2, <1>3 DEF MayBe
<1>6. SumIs(x, dic, maxid, threadNum, total', phase', k')
  BY <1>2, <1>3, <1>4 DEF SumIs
<1>7. GradientComplete'
  BY <1>2 DEF GradientComplete
<1>8. phase' # "reading"
  BY <1>2
<1> QED
  BY <1>2, <1>5, <1>6, <1>7, <1>8, MainKeeps
LEMMA StartThreadKeeps ==
  ASSUME TrainingInv, StartThread
  PROVE  TrainingInv'
<1> DEFINE one == [thread[k] EXCEPT !.at = "begin"]
<1>1. /\ phase = "starting" /\ k' = (k + 1) % threadNum /\ UNCHANGED <<Main, total>>
      /\ thread' = [thread EXCEPT ![k] = one]
      /\ phase' = IF k' = 0 THEN "joining" ELSE phase
  BY DEF StartThread
<1>2. /\ threadNum \in Nat \ {0}
      /\ \A t \in 0..threadNum - 1 : MayBe(thread[t].at, t, phase, k)
      /\ k \in 0..threadNum - 1 /\ HasCounts(x, dic, maxid, total, {})
  BY <1>1, RoundStarts DEF SumIs
<1>3. thread[k] = [at |-> thread[k].at, i |-> thread[k].i, sum |-> thread[k].sum]
  BY <1>1, <1>2, RoundStarts
<1>4. one = [at |-> "begin", i |-> thread[k].i, sum |-> thread[k].sum]
  BY <1>3
<1> HIDE DEF one
<1>5. one.at = "begin" /\ ThreadIs(x, dic, maxid, threadNum, one, k)
  BY <1>4, IdleIs
<1>6. /\ k' \in 0..threadNum - 1
      /\ phase' = "starting" => k' = k + 1
      /\ phase' = "joining" => k' = 0 /\ k = threadNum - 1
      /\ phase' \in {"starting", "joining"}
  <2>1. /\ (k + 1) % threadNum \in 0..threadNum - 1
        /\ k + 1 < threadNum => (k + 1) % threadNum = k + 1
        /\ k + 1 = threadNum => (k + 1) % threadNum = 0
    BY <1>2, NextTurn
  <2>2. k + 1 < threadNum \/ k + 1 = threadNum
    BY <1>2
  <2> QED
    BY <1>1, <1>2, <2>1, <2>2
<1>7. MayBe(one.at, k, phase', k')
  BY <1>5, <1>6, <1>2 DEF MayBe
<1>8. ASSUME NEW t \in 0..threadNum - 1, t # k PROVE MayBe(thread[t].at, t, phase', k')
  <2>1. t < k => thread[t].at # "idle"
    BY <1>1, <1>2 DEF MayBe
  <2>2. phase' = "starting" => (t < k' => t < k)
    BY <1>2, <1>6, <1>8
  <2>3. phase' = "joining" => t < k /\ ~(t < k')
    BY <1>2, <1>6, <1>8
  <2> QED
    BY <1>6, <2>1, <2>2, <2>3 DEF MayBe
<1>9. SumIs(x, dic, maxid, threadNum, total', phase', k')
  BY <1>1, <1>2, <1>6 DEF SumIs
<1>10. UNCHANGED Main /\ total' = total
  BY <1>1
<1>11. phase # "reading" /\ phase' \notin {"reading", "optimizing"}
  BY <1>1, <1>6
<1>12. SumIs(x, dic, maxid, threadNum, total, phase', k')
  BY <1>9, <1>10
<1> QED
  BY <1>1, <1>2, <1>5, <1>7, <1>8, <1>10, <1>11, <1>12, ThreadKeeps

LEMMA ThreadBeginsKeeps ==
  ASSUME TrainingInv, NEW t \in DOMAIN thread, ThreadBegins(t)
  PROVE  TrainingInv'
<1> DEFINE one == Reset(t)
<1>1. /\ thread[t].at = "begin" /\ thread' = [thread EXCEPT ![t] = one]
      /\ UNCHANGED <<Main, phase, k, total>>
  BY DEF ThreadBegins
<1>2. t \in 0..threadNum - 1
  BY DEF TrainingInv, ThreadsAre
<1>3. phase \in {"starting", "joining"}
  BY <1>1, <1>2 DEF TrainingInv, ThreadsAreWhere, MayBe
<1>4. /\ Settled /\ threadNum \in Nat \ {0} /\ Len(x) \in Nat
      /\ \A other \in 0..threadNum - 1 : MayBe(thread[other].at, other, phase, k)
      /\ SumIs(x, dic, maxid, threadNum, total, phase, k)
  BY <1>3, RoundStarts
<1>5. HasCounts(x, dic, maxid, Nothing, {})
  <2>1. \A feature \in DOMAIN dic : dic[feature] \in 0..maxid - 1
    BY <1>4 DEF Settled, IsTable
  <2>2. \A feature : ShareIn(x, feature, {}) = 0
    BY SumOfNone DEF ShareIn
  <2>3. Cardinality({}) = 0
    BY FS_EmptySet
  <2> QED
    BY <2>1, <2>2, <2>3 DEF HasCounts, Nothing
<1>6. t \in Nat /\ t % threadNum = t /\ Before(Len(x), threadNum, t, t) = {}
  <2>1. t \in Nat /\ t < threadNum
    BY <1>2, <1>4
  <2> QED
    BY <1>2, <1>4, <2>1, RestIs, TurnsAre
<1>7. one = [at |-> "loop", i |-> t, sum |-> Nothing]
  BY DEF Reset
<1> HIDE DEF one
<1>8. one.at = "loop" /\ ThreadIs(x, dic, maxid, threadNum, one, t)
  BY <1>5, <1>6, <1>7 DEF ThreadIs
<1>9. MayBe(one.at, t, phase, k)
  BY <1>1, <1>2, <1>3, <1>4, <1>8 DEF MayBe
<1>10. phase' = phase /\ k' = k /\ total' = total /\ UNCHANGED Main
  BY <1>1
<1> QED
  BY <1>1, <1>2, <1>3, <1>4, <1>8, <1>9, <1>10, ThreadKeeps

(* The step of a thread's loop, as one change of the thread. *)
InLoop(f, threads, t) ==
  /\ f = [other \in threads |-> f[other]] /\ t \in threads
  /\ f[t] = [at |-> "loop", i |-> f[t].i, sum |-> f[t].sum]

Looped(f, t, sum, then) == [f EXCEPT ![t].sum = sum, ![t].i = then]

LEMMA OneSentence ==
  ASSUME NEW threads, NEW f, NEW t, InLoop(f, threads, t), NEW sum, NEW then
  PROVE  Looped(f, t, sum, then) = [f EXCEPT ![t] = [at |-> "loop", i |-> then, sum |-> sum]]
<1> DEFINE summed == [f EXCEPT ![t].sum = sum]
           one == [at |-> "loop", i |-> then, sum |-> sum]
<1>1. /\ DOMAIN f = threads /\ f = [other \in threads |-> f[other]] /\ t \in threads
      /\ f[t] = [at |-> "loop", i |-> f[t].i, sum |-> f[t].sum]
  BY DEF InLoop
<1>2. summed = [f EXCEPT ![t] = [at |-> "loop", i |-> f[t].i, sum |-> sum]]
  <2>1. [f[t] EXCEPT !.sum = sum] = [at |-> "loop", i |-> f[t].i, sum |-> sum]
    BY <1>1
  <2>2. summed = [other \in threads |-> IF other = t THEN [f[t] EXCEPT !.sum = sum] ELSE f[other]]
    BY <1>1
  <2>3. [f EXCEPT ![t] = [at |-> "loop", i |-> f[t].i, sum |-> sum]]
          = [other \in threads |->
               IF other = t THEN [at |-> "loop", i |-> f[t].i, sum |-> sum] ELSE f[other]]
    BY <1>1
  <2> QED
    BY <2>1, <2>2, <2>3
<1>3. /\ summed[t] = [at |-> "loop", i |-> f[t].i, sum |-> sum]
      /\ DOMAIN summed = threads /\ summed = [other \in DOMAIN summed |-> summed[other]]
      /\ \A other \in threads : other # t => summed[other] = f[other]
  BY <1>1, <1>2
<1> HIDE DEF summed
<1>4. [summed EXCEPT ![t].i = then]
        = [other \in threads |-> IF other = t THEN one ELSE f[other]]
  <2>1. [summed EXCEPT ![t].i = then]
          = [other \in DOMAIN summed |->
               IF other = t THEN [summed[t] EXCEPT !.i = then] ELSE summed[other]]
    BY <1>3
  <2>2. [summed[t] EXCEPT !.i = then] = one
    BY <1>3
  <2> QED
    BY <1>3, <2>1, <2>2
<1>5. [f EXCEPT ![t] = one] = [other \in threads |-> IF other = t THEN one ELSE f[other]]
  BY <1>1
<1>6. Looped(f, t, sum, then) = [summed EXCEPT ![t].i = then]
  BY DEF summed, Looped
<1> QED
  BY <1>4, <1>5, <1>6

LEMMA ThreadSentenceKeeps ==
  ASSUME TrainingInv, NEW t \in DOMAIN thread, ThreadSentence(t)
  PROVE  TrainingInv'
<1>1. /\ thread[t].at = "loop" /\ thread[t].i < Len(x) /\ UNCHANGED <<Main, phase, k, total>>
  BY DEF ThreadSentence
<1>2. PICK chain : thread' = [thread EXCEPT ![t].sum = Added(thread[t].sum, thread[t].i, chain),
                                            ![t].i = thread[t].i + threadNum]
  BY DEF ThreadSentence
<1>3. t \in 0..threadNum - 1 /\ thread = [other \in 0..threadNum - 1 |-> thread[other]]
  BY DEF TrainingInv, ThreadsAre
<1>4. phase \in {"starting", "joining"}
  BY <1>1, <1>3 DEF TrainingInv, ThreadsAreWhere, MayBe
<1>5. /\ Settled /\ threadNum \in Nat \ {0} /\ Len(x) \in Nat
      /\ thread[t] = [at |-> thread[t].at, i |-> thread[t].i, sum |-> thread[t].sum]
      /\ ThreadIs(x, dic, maxid, threadNum, thread[t], t)
      /\ \A other \in 0..threadNum - 1 : MayBe(thread[other].at, other, phase, k)
      /\ SumIs(x, dic, maxid, threadNum, total, phase, k)
  BY <1>3, <1>4, RoundStarts
<1> DEFINE i == thread[t].i
           so == Before(Len(x), threadNum, t, i)
           one == [at |-> "loop", i |-> i + threadNum, sum |-> Added(thread[t].sum, i, chain)]
<1>6. i \in Nat /\ i % threadNum = t /\ HasCounts(x, dic, maxid, thread[t].sum, so)
  BY <1>1, <1>5 DEF ThreadIs
<1>7. thread' = [thread EXCEPT ![t] = one]
  <2> DEFINE sum == Added(thread[t].sum, i, chain)
             then == i + threadNum
  <2>1. /\ InLoop(thread, 0..threadNum - 1, t)
        /\ thread' = [thread EXCEPT ![t].sum = sum, ![t].i = then]
    BY <1>1, <1>2, <1>3, <1>5 DEF InLoop
  <2> HIDE DEF sum, then, i
  <2>2. Looped(thread, t, sum, then) = [thread EXCEPT ![t] = [at |-> "loop", i |-> then, sum |-> sum]]
    BY <2>1, OneSentence
  <2>3. thread' = Looped(thread, t, sum, then)
    BY <2>1 DEF Looped
  <2> QED
    BY <2>2, <2>3 DEF sum, then
<1> HIDE DEF i, so
<1>8. /\ (i + threadNum) % threadNum = t /\ i + 1 \in 1..Len(x) /\ i + 1 \notin so
      /\ Before(Len(x), threadNum, t, i + threadNum) = so \cup {i + 1}
      /\ so \subseteq 1..Len(x)
  <2>1. i < Len(x)
    BY <1>1 DEF i
  <2>2. so \subseteq 1..Len(x)
    BY DEF so, Before
  <2> QED
    BY <1>3, <1>5, <1>6, <2>1, <2>2, TurnTaken DEF so
<1>9. HasCounts(x, dic, maxid, Added(thread[t].sum, i, chain), so \cup {i + 1})
  BY <1>5, <1>6, <1>8, AddedCounts
<1>10. one.at = "loop" /\ ThreadIs(x, dic, maxid, threadNum, one, t)
  <2>1. i + threadNum \in Nat
    BY <1>5, <1>6
  <2> QED
    BY <1>8, <1>9, <2>1 DEF ThreadIs
<1> HIDE DEF one
<1>11. MayBe(one.at, t, phase, k)
  BY <1>1, <1>3, <1>5, <1>10 
<1>12. phase' = phase /\ k' = k /\ total' = total /\ UNCHANGED Main
  BY <1>1
<1> QED
  BY <1>3, <1>4, <1>5, <1>7, <1>10, <1>11, <1>12, ThreadKeeps

LEMMA ThreadEndsKeeps ==
  ASSUME TrainingInv, NEW t \in DOMAIN thread, ThreadEnds(t)
  PROVE  TrainingInv'
<1> DEFINE one == [thread[t] EXCEPT !.at = "done"]
<1>1. /\ thread[t].at = "loop" /\ thread[t].i >= Len(x) /\ UNCHANGED <<Main, phase, k, total>>
      /\ thread' = [thread EXCEPT ![t] = one]
  BY DEF ThreadEnds
<1>2. t \in 0..threadNum - 1
  BY DEF TrainingInv, ThreadsAre
<1>3. phase \in {"starting", "joining"}
  BY <1>1, <1>2 DEF TrainingInv, ThreadsAreWhere, MayBe
<1>4. /\ threadNum \in Nat \ {0} /\ Len(x) \in Nat
      /\ thread[t] = [at |-> thread[t].at, i |-> thread[t].i, sum |-> thread[t].sum]
      /\ ThreadIs(x, dic, maxid, threadNum, thread[t], t)
      /\ \A other \in 0..threadNum - 1 : MayBe(thread[other].at, other, phase, k)
      /\ SumIs(x, dic, maxid, threadNum, total, phase, k)
  BY <1>2, <1>3, RoundStarts
<1>5. one = [at |-> "done", i |-> thread[t].i, sum |-> thread[t].sum]
  BY <1>4
<1> HIDE DEF one
<1>6. /\ thread[t].i \in Nat /\ thread[t].i % threadNum = t
      /\ HasCounts(x, dic, maxid, thread[t].sum, Before(Len(x), threadNum, t, thread[t].i))
  BY <1>1, <1>4 DEF ThreadIs
<1>7. Before(Len(x), threadNum, t, thread[t].i) = Turns(Len(x), threadNum, t)
  <2>1. PICK i \in Nat : i = thread[t].i
    BY <1>6
  <2>2. i % threadNum = t /\ i >= Len(x) /\ Len(x) \in Nat /\ threadNum \in Nat \ {0}
    BY <1>1, <1>4, <1>6, <2>1
  <2>3. Before(Len(x), threadNum, t, i) = Turns(Len(x), threadNum, t)
    BY <1>2, <2>2, TurnTaken
  <2> QED
    BY <2>1, <2>3
<1>8. one.at = "done" /\ ThreadIs(x, dic, maxid, threadNum, one, t)
  BY <1>5, <1>6, <1>7 DEF ThreadIs
<1>9. MayBe(one.at, t, phase, k)
  BY <1>1, <1>2, <1>3, <1>4, <1>8 DEF MayBe
<1>10. phase' = phase /\ k' = k /\ total' = total /\ UNCHANGED Main
  BY <1>1
<1> QED
  BY <1>1, <1>2, <1>3, <1>4, <1>8, <1>9, <1>10, ThreadKeeps
LEMMA JoinThreadKeeps ==
  ASSUME TrainingInv, JoinThread
  PROVE  TrainingInv'
<1>1. /\ phase = "joining" /\ thread[k].at = "done" /\ k' = (k + 1) % threadNum
      /\ phase' = IF k' = 0 THEN "summing" ELSE phase
      /\ UNCHANGED Main /\ thread' = thread /\ total' = total
  BY DEF JoinThread
<1>2. /\ threadNum \in Nat \ {0} /\ Len(x) \in Nat
      /\ \A t \in 0..threadNum - 1 : MayBe(thread[t].at, t, phase, k)
      /\ k \in 0..threadNum - 1 /\ HasCounts(x, dic, maxid, total, {})
  BY <1>1, RoundStarts DEF SumIs
<1>3. /\ k' \in 0..threadNum - 1
      /\ phase' = "joining" => k' = k + 1
      /\ phase' = "summing" => k' = 0 /\ k = threadNum - 1
      /\ phase' \in {"joining", "summing"}
  <2>1. /\ (k + 1) % threadNum \in 0..threadNum - 1
        /\ k + 1 < threadNum => (k + 1) % threadNum = k + 1
        /\ k + 1 = threadNum => (k + 1) % threadNum = 0
    BY <1>2, NextTurn
  <2>2. k + 1 < threadNum \/ k + 1 = threadNum
    BY <1>2
  <2> QED
    BY <1>1, <1>2, <2>1, <2>2
<1>4. \A t \in 0..threadNum - 1 : t <= k => thread[t].at = "done"
  <2> TAKE t \in 0..threadNum - 1
  <2>1. t < k => thread[t].at = "done"
    BY <1>1, <1>2 DEF MayBe
  <2> QED
    BY <1>1, <1>2, <2>1
<1>5. ASSUME NEW t \in 0..threadNum - 1 PROVE MayBe(thread[t].at, t, phase', k')
  <2>1. thread[t].at # "idle"
    BY <1>1, <1>2 DEF MayBe
  <2>2. phase' = "joining" => (t < k' => t <= k)
    BY <1>2, <1>3
  <2>3. phase' = "summing" => t <= k
    BY <1>2, <1>3
  <2>4. phase' = "summing" => thread[t].at = "done"
    BY <1>4, <2>3
  <2>5. phase' = "joining" => (t < k' => thread[t].at = "done")
    BY <1>4, <2>2
  <2> QED
    BY <1>3, <2>1, <2>4, <2>5 DEF MayBe
<1>6. SumIs(x, dic, maxid, threadNum, total, phase', k')
  <2>1. OfFirst(Len(x), threadNum, 0) = {}
    BY <1>2, TurnsAre
  <2> QED
    BY <1>2, <1>3, <2>1 DEF SumIs
<1>7. GradientComplete' /\ phase' # "reading"
  BY <1>3 DEF GradientComplete
<1>8. SumIs(x, dic, maxid, threadNum, total', phase', k')
  BY <1>1, <1>6
<1> QED
  BY <1>1, <1>5, <1>7, <1>8, MainKeeps

LEMMA SumThreadKeeps ==
  ASSUME TrainingInv, SumThread
  PROVE  TrainingInv'
<1>1. /\ phase = "summing" /\ k' = (k + 1) % threadNum
      /\ phase' = IF k' = 0 THEN "objective" ELSE phase
      /\ UNCHANGED Main /\ thread' = thread
      /\ total' = [v     |-> [id \in DOMAIN total.v |-> total.v[id] + thread[k].sum.v[id]],
                   obj   |-> total.obj + thread[k].sum.obj,
                   score |-> AddScore(total.score, thread[k].sum.score)]
  BY DEF SumThread
<1>2. /\ Settled /\ threadNum \in Nat \ {0} /\ Len(x) \in Nat
      /\ \A t \in 0..threadNum - 1 : MayBe(thread[t].at, t, phase, k)
      /\ k \in 0..threadNum - 1
      /\ HasCounts(x, dic, maxid, total, OfFirst(Len(x), threadNum, k))
  BY <1>1, RoundStarts DEF SumIs
<1>3. HasCounts(x, dic, maxid, thread[k].sum, Turns(Len(x), threadNum, k))
  <2>1. ThreadIs(x, dic, maxid, threadNum, thread[k], k) /\ thread[k].at = "done"
    BY <1>1, <1>2, RoundStarts DEF MayBe
  <2> QED
    BY <2>1 DEF ThreadIs
<1> DEFINE before == OfFirst(Len(x), threadNum, k)
           turns == Turns(Len(x), threadNum, k)
<1>4. AreParts(x, before, turns) /\ OfFirst(Len(x), threadNum, k + 1) = before \cup turns
  <2>1. before \cap turns = {} /\ OfFirst(Len(x), threadNum, k + 1) = before \cup turns
    BY <1>2, TurnsAre
  <2> QED
    BY <2>1 DEF AreParts, OfFirst, Turns
<1>5. HasCounts(x, dic, maxid, total', OfFirst(Len(x), threadNum, k + 1))
  <2> HIDE DEF before, turns
  <2>1. HasCounts(x, dic, maxid, total, before) /\ HasCounts(x, dic, maxid, thread[k].sum, turns)
    BY <1>2, <1>3 DEF before, turns
  <2>2. HasCounts(x, dic, maxid, total', before \cup turns)
    BY <1>1, <1>2, <1>4, <2>1, BothCounts
  <2> QED
    BY <1>4, <2>2
<1>6. /\ k' \in 0..threadNum - 1
      /\ phase' = "summing" => k' = k + 1
      /\ phase' = "objective" => k + 1 = threadNum
      /\ phase' \in {"summing", "objective"}
  <2>1. /\ (k + 1) % threadNum \in 0..threadNum - 1
        /\ k + 1 < threadNum => (k + 1) % threadNum = k + 1
        /\ k + 1 = threadNum => (k + 1) % threadNum = 0
    BY <1>2, NextTurn
  <2>2. k + 1 < threadNum \/ k + 1 = threadNum
    BY <1>2
  <2> QED
    BY <1>1, <1>2, <2>1, <2>2
<1>7. SumIs(x, dic, maxid, threadNum, total', phase', k')
  <2>1. OfFirst(Len(x), threadNum, threadNum) = 1..Len(x)
    BY <1>2, TurnsAre
  <2> QED
    BY <1>5, <1>6, <2>1 DEF SumIs
<1>8. \A t \in 0..threadNum - 1 : MayBe(thread[t].at, t, phase', k')
  <2>1. \A t \in 0..threadNum - 1 : thread[t].at = "done"
    BY <1>1, <1>2 DEF MayBe
  <2> QED
    BY <1>6, <2>1 DEF MayBe
<1>9. GradientComplete' /\ phase' # "reading"
  BY <1>6 DEF GradientComplete
<1> QED
  BY <1>1, <1>7, <1>8, <1>9, MainKeeps

(* The answers are taken off: what is left is the gradient.                 *)
LEMMA ObjectiveKeeps ==
  ASSUME TrainingInv, NEW small \in BOOLEAN, Objective(small)
  PROVE  TrainingInv'
<1>1. /\ phase = "objective" /\ phase' \in {"writing", "optimizing"}
      /\ total' = [total EXCEPT !.v = [id \in DOMAIN total.v |-> total.v[id] - observed[id]]]
      /\ UNCHANGED Main /\ thread' = thread /\ k' = k
  BY DEF Objective
<1>2. /\ Settled /\ threadNum \in Nat \ {0} /\ Len(x) \in Nat
      /\ \A t \in 0..threadNum - 1 : MayBe(thread[t].at, t, phase, k)
      /\ HasCounts(x, dic, maxid, total, 1..Len(x))
  BY <1>1, RoundStarts DEF SumIs
<1>3. /\ total' = [v |-> [id \in 0..maxid - 1 |-> total.v[id] - observed[id]],
                   obj |-> total.obj, score |-> total.score]
      /\ total.obj = Len(x)
  <2>1. Cardinality(1..Len(x)) = Len(x)
    BY <1>2, FS_Interval
  <2> QED
    BY <1>1, <1>2, <2>1 DEF HasCounts
<1>4. ASSUME NEW feature \in DOMAIN dic
      PROVE  total'.v[dic[feature]] = InCorpus(GradientIn, feature)
  <2>1. dic[feature] \in 0..maxid - 1 /\ feature \in AllFeatures
    BY <1>2 DEF Settled, IsTable
  <2>2. /\ total.v[dic[feature]] = ShareIn(x, feature, 1..Len(x))
        /\ observed[dic[feature]] = InCorpus(AnswersIn, feature)
    BY <1>2 DEF HasCounts, Settled
  <2>3. /\ ShareIn(x, feature, 1..Len(x)) = InCorpus(GradientIn, feature) + InCorpus(AnswersIn, feature)
        /\ InCorpus(GradientIn, feature) \in Int /\ InCorpus(AnswersIn, feature) \in Int
    <3>1. IsCorpus(x)
      BY <1>2 DEF Settled, IsCorpus
    <3> QED
      BY <2>1, <3>1, SharesOfCorpus DEF InCorpus
  <2>4. total'.v[dic[feature]] = total.v[dic[feature]] - observed[dic[feature]]
    BY <1>3, <2>1
  <2> QED
    BY <2>2, <2>3, <2>4
<1>5. GradientComplete'
  <2>1. UNCHANGED <<dic, x>>
    BY <1>1 DEF Main, indexVars
  <2>2. \A feature \in DOMAIN dic : InCorpus(GradientIn, feature)' = InCorpus(GradientIn, feature)
    BY <2>1 DEF InCorpus
  <2> QED
    BY <1>3, <1>4, <2>1, <2>2 DEF GradientComplete
<1>6. \A t \in 0..threadNum - 1 : MayBe(thread[t].at, t, phase', k')
  BY <1>1, <1>2 DEF MayBe
<1>7. SumIs(x, dic, maxid, threadNum, total', phase', k') /\ phase' # "reading"
  BY <1>1 DEF SumIs
<1> QED
  BY <1>1, <1>5, <1>6, <1>7, MainKeeps

(* The optimizer's step, and the model's being written.                     *)
LEMMA EndKeeps ==
  ASSUME TrainingInv, phase \in {"optimizing", "writing"},
         phase' \in {"round", "writing", "died", "saved"}, UNCHANGED <<Main, roundVars>>
  PROVE  TrainingInv'
<1>1. thread' = thread /\ total' = total /\ k' = k /\ UNCHANGED Main
  BY DEF roundVars
<1>2. /\ \A t \in 0..threadNum - 1 : MayBe(thread[t].at, t, phase, k)
  BY RoundStarts
<1>3. \A t \in 0..threadNum - 1 : MayBe(thread[t].at, t, phase', k')
  BY <1>2 DEF MayBe
<1>4. SumIs(x, dic, maxid, threadNum, total', phase', k') /\ GradientComplete'
  BY DEF SumIs, GradientComplete
<1> QED
  BY <1>1, <1>3, <1>4, MainKeeps

LEMMA TrainingStutters ==
  ASSUME TrainingInv, UNCHANGED vars
  PROVE  TrainingInv'
<1>1. /\ UNCHANGED <<dic, maxid, cache, observed, freq, threadNum, oldModel, x, oldAlpha>>
      /\ UNCHANGED <<phase, k, thread, total>> /\ UNCHANGED Main
  BY DEF vars, indexVars, optionVars, roundVars, Main
<1>2. phase # "reading" => Settled'
  BY <1>1, SettledStays DEF TrainingInv
<1>3. phase = "reading" => ReadSoFar'
  <2>1. Index' = Index
    BY <1>1 DEF Index
  <2> QED
    BY <1>1, <2>1 DEF TrainingInv, ReadSoFar, InCorpus
<1>4. ThreadsAre' /\ ThreadsAreWhere' /\ SumSoFar'
  BY <1>1 DEF TrainingInv, ThreadsAre, ThreadsAreWhere, SumSoFar
<1>5. GradientComplete'
  BY <1>1 DEF TrainingInv, GradientComplete, InCorpus
<1> QED
  BY <1>1, <1>2, <1>3, <1>4, <1>5 DEF TrainingInv

(* The invariant holds in every state of the training.                      *)
THEOREM TrainingIsConsistent == Spec => []TrainingInv
<1>1. Init => TrainingInv
  BY InitTraining
<1>2. TrainingInv /\ [Next]_vars => TrainingInv'
  <2> SUFFICES ASSUME TrainingInv, [Next]_vars PROVE TrainingInv'
    OBVIOUS
  <2>1. ASSUME NEW sentence \in Sentences, Read(sentence) PROVE TrainingInv'
    BY <2>1, ReadKeeps
  <2>2. CASE CutOff
    BY <2>2, CutOffKeeps
  <2>3. CASE BeginRound
    BY <2>3, BeginRoundKeeps
  <2>4. CASE Alone
    BY <2>4, AloneKeeps
  <2>5. CASE StartThread
    BY <2>5, StartThreadKeeps
  <2>6. ASSUME NEW t \in DOMAIN thread, ThreadBegins(t) \/ ThreadSentence(t) \/ ThreadEnds(t)
        PROVE  TrainingInv'
    BY <2>6, ThreadBeginsKeeps, ThreadSentenceKeeps, ThreadEndsKeeps
  <2>7. CASE JoinThread
    BY <2>7, JoinThreadKeeps
  <2>8. CASE SumThread
    BY <2>8, SumThreadKeeps
  <2>9. ASSUME NEW small \in BOOLEAN, Objective(small) PROVE TrainingInv'
    BY <2>9, ObjectiveKeeps
  <2>10. CASE Optimize
    <3>1. phase = "optimizing" /\ phase' \in {"round", "writing", "died"} /\ UNCHANGED <<Main, roundVars>>
      BY <2>10 DEF Optimize
    <3> QED
      BY <3>1, EndKeeps
  <2>11. CASE Save
    <3>1. phase = "writing" /\ phase' = "saved" /\ UNCHANGED <<Main, roundVars>>
      BY <2>11 DEF Save
    <3> QED
      BY <3>1, EndKeeps
  <2>12. CASE UNCHANGED vars
    BY <2>12, TrainingStutters
  <2> QED
    BY <2>1, <2>2, <2>3, <2>4, <2>5, <2>6, <2>7, <2>8, <2>9, <2>10, <2>11, <2>12 DEF Next
<1> QED
  BY <1>1, <1>2, PTL DEF Spec
(***************************************************************************)
(* What the invariant says of the properties the runs check.               *)
(***************************************************************************)
LEMMA TableIsFull ==
  ASSUME NEW d, NEW n, IsTable(d, n)
  PROVE  {d[f] : f \in DOMAIN d} = 0..n - 1 /\ Cardinality(DOMAIN d) = n
<1> DEFINE K == 0..n - 1
           S == DOMAIN d
           g == [m \in K |-> CHOOSE f \in S : d[f] = m]
<1>1. n \in Nat /\ \A f \in S : d[f] \in K
  BY DEF IsTable
<1>2. \A m \in K : g[m] \in S /\ d[g[m]] = m
  BY DEF IsTable
<1>3. \A f, h \in S : d[f] = d[h] => f = h
  BY DEF IsTable
<1>4. IsFiniteSet(K) /\ Cardinality(K) = n
  <2>1. 0 \in Int /\ n - 1 \in Int /\ (0 > n - 1 => n = 0) /\ (n - 1) - 0 + 1 = n
    BY <1>1
  <2> QED
    BY <2>1, FS_Interval
<1>5. {d[f] : f \in S} = K
  <2>1. \A m \in K : \E f \in S : d[f] = m
    BY <1>2
  <2> HIDE DEF K, S
  <2> QED
    BY <1>1, <2>1
<1> HIDE DEF K, S
<1>6. g \in Bijection(K, S)
  <2>1. g \in [K -> S]
    BY <1>2
  <2>2. \A a, b \in K : g[a] = g[b] => a = b
    BY <1>2
  <2>3. \A f \in S : \E m \in K : g[m] = f
    BY <1>1, <1>2, <1>3
  <2> HIDE DEF g
  <2> QED
    BY <2>1, <2>2, <2>3 DEF Bijection, Injection, Surjection, IsInjective
<1>7. Cardinality(S) = n
  <2> HIDE DEF g
  <2>1. ExistsBijection(K, S)
    BY <1>6 DEF ExistsBijection
  <2> QED
    BY <1>4, <2>1, FS_Bijection
<1> QED
  BY <1>5, <1>7 DEF K, S

LEMMA VectorIsLeft ==
  ASSUME NEW features, IsSequence(features), NEW vec, NEW d, IsVector(vec, d, features)
  PROVE  LeftIn(vec, d, features)
<1>1. features \in Seq(ToSet(features)) /\ DOMAIN features = 1..Len(features)
  BY SequencesAre DEF IsSequence
<1>2. \A i \in 1..Len(features) : features[i] \in DOMAIN d
  BY DEF IsVector
<1>3. 1..Len(features) \subseteq {i \in DOMAIN features : features[i] \in DOMAIN d}
  BY <1>1, <1>2
<1>4. Left(features, d) = features
  BY <1>1, <1>3, SelectAll DEF Left
<1> QED
  BY <1>1, <1>4 DEF LeftIn, IsVector

LEMMA NumberedWhen == TrainingInv => FeaturesNumbered
<1> SUFFICES ASSUME TrainingInv, phase \in {"reading", "round"}
             PROVE  /\ {dic[feature] : feature \in DOMAIN dic} = 0..maxid - 1
                    /\ Cardinality(DOMAIN dic) = maxid
                    /\ \A key \in DOMAIN cache : LeftIn(cache[key].vec, dic, Templates[key])
                    /\ phase # "reading" =>
                         Features \cap DOMAIN dic
                           = {f \in Features : freq <= 1 \/ InCorpus(AskedIn, f) >= freq}
  BY DEF FeaturesNumbered, LeftIn, Left
<1>1. IsTable(dic, maxid)
  BY DEF TrainingInv, ReadSoFar, Settled, IsIndex, Index
<1>2. \A key \in DOMAIN cache : LeftIn(cache[key].vec, dic, Templates[key])
  <2>1. CASE phase = "reading"
    <3> TAKE key \in DOMAIN cache
    <3>1. IsSequence(Templates[key]) /\ IsVector(cache[key].vec, dic, Templates[key])
      <4>1. IsIndex(Index)
        BY <2>1 DEF TrainingInv, ReadSoFar
      <4>2. key \in DOMAIN Templates /\ IsVector(cache[key].vec, dic, Templates[key])
        BY <4>1 DEF IsIndex, Index
      <4> QED
        BY <4>2, TemplatesAre
    <3> QED
      BY <3>1, VectorIsLeft
  <2>2. CASE phase # "reading"
    BY <2>2 DEF TrainingInv, Settled
  <2> QED
    BY <2>1, <2>2
<1>3. phase # "reading" =>
        Features \cap DOMAIN dic = {f \in Features : freq <= 1 \/ InCorpus(AskedIn, f) >= freq}
  <2> SUFFICES ASSUME phase # "reading"
               PROVE  \A f \in Features : f \in DOMAIN dic <=> freq <= 1 \/ InCorpus(AskedIn, f) >= freq
    OBVIOUS
  <2> QED
    BY DEF TrainingInv, Settled
<1> QED
  BY <1>1, <1>2, <1>3, TableIsFull

LEMMA InPlaceWhenSettled == TrainingInv => OldWeightsInPlace
<1> SUFFICES ASSUME TrainingInv, phase = "round"
             PROVE  InPlace(oldAlpha, dic, oldModel) <=> NoneStaysBehind(dic, oldModel)
  BY DEF OldWeightsInPlace, InPlace, NoneStaysBehind
<1> QED
  BY DEF TrainingInv, Settled

(* The features are numbered without a gap, the ones that are left are the  *)
(* ones asked for often enough, and every vector of the cache holds the     *)
(* numbers of its key's features: while id() numbers them as the corpus is  *)
(* read, and after shrink() has moved all of them down.                     *)
THEOREM FeaturesAreNumbered == Spec => []FeaturesNumbered
BY TrainingIsConsistent, NumberedWhen, PTL

(* What the optimizer is given is, for every feature that is left, what the *)
(* lattices hold of it less what the answers hold: gradient() of every      *)
(* sentence is in it once, however many threads there are, in whatever      *)
(* order they run, and in every round.                                      *)
THEOREM GradientIsComplete == Spec => []GradientComplete
<1>1. TrainingInv => GradientComplete
  BY DEF TrainingInv
<1> QED
  BY <1>1, TrainingIsConsistent, PTL

(* The weights of the model that -M names are in place after the cut-off    *)
(* exactly when no feature the cut-off took out of that model has one that  *)
(* stays behind it.                                                         *)
THEOREM OldWeightsAreInPlace == Spec => []OldWeightsInPlace
BY TrainingIsConsistent, InPlaceWhenSettled, PTL

(***************************************************************************)
(* Part VIII: the scores.  The nodes of a lattice are pieces of the text,  *)
(* with the answer among them, so that two ways through it that are alike  *)
(* as far as the shorter one goes are as long as each other; that is why   *)
(* the cursors of eval(), which move by the lengths of the nodes they move *)
(* to, find every difference.  ScoreInv then says whose scores a thread    *)
(* and the sum hold, for the analyses viterbi() has left in the lattices.  *)
(***************************************************************************)
(* Equal surfaces have equal lengths. *)
IsIn(piece, n) == piece.from \in Nat /\ piece.to \in piece.from + 1..n

LEMMA EqualLengths ==
  ASSUME NEW sentence, Len(sentence.text) \in Nat, IsSequence(sentence.text),
         NEW a, NEW b, IsIn(a, Len(sentence.text)), IsIn(b, Len(sentence.text)),
         CmpEq(sentence, a, b)
  PROVE  a.to - a.from = b.to - b.from
<1> DEFINE n == Len(sentence.text)
<1>1. PICK i \in Nat, j \in Nat, m \in Nat, l \in Nat :
        i = a.from /\ j = a.to /\ m = b.from /\ l = b.to
  BY DEF IsIn
<1>2. i + 1 <= j /\ j <= n /\ m + 1 <= l /\ l <= n
  BY <1>1 DEF IsIn
<1> DEFINE T == ToSet(sentence.text)
<1>3. PICK chars \in Seq(T) : chars = sentence.text
  BY DEF IsSequence
<1> HIDE DEF T
<1>4. SubSeq(chars, i + 1, j) = SubSeq(chars, m + 1, l)
  BY <1>1, <1>3 DEF CmpEq, Surface
<1>5. Len(SubSeq(chars, i + 1, j)) = j - i /\ Len(SubSeq(chars, m + 1, l)) = l - m
  <2>1. i + 1 \in 1..Len(chars) + 1 /\ j \in i..Len(chars) /\ m + 1 \in 1..Len(chars) + 1 /\ l \in m..Len(chars)
    BY <1>2, <1>3
  <2> QED
    BY <2>1
<1> QED
  BY <1>1, <1>4, <1>5

(* What read() and lookup() have of a sentence. *)
LEMMA SentenceIs ==
  ASSUME NEW sentence \in Sentences
  PROVE  LET n == Len(sentence.text)  answer == sentence.answer IN
         /\ n \in Nat /\ IsSequence(sentence.text)
         /\ Len(answer) \in Nat \ {0} /\ DOMAIN answer = 1..Len(answer)
         /\ \A p \in 1..n : \A i \in DOMAIN sentence.words[p] : IsPiece(sentence.words[p][i], p - 1, n)
         /\ answer[1].from = 0 /\ answer[Len(answer)].to = n
         /\ \A i \in 1..Len(answer) : IsIn(answer[i], n)
         /\ \A i \in 2..Len(answer) : answer[i].from = answer[i - 1].to
<1> DEFINE n == Len(sentence.text)
           answer == sentence.answer
<1>1. /\ \A p \in 1..n : \A i \in DOMAIN sentence.words[p] : IsPiece(sentence.words[p][i], p - 1, n)
      /\ answer # <<>> /\ answer[Len(answer)].to = n
      /\ \A i \in DOMAIN answer : IsPiece(answer[i], IF i = 1 THEN 0 ELSE answer[i - 1].to, n)
  BY SentenceAssumption
<1>2. IsSequence(sentence.text) /\ IsSequence(answer)
  BY CorpusAssumption
<1>3. n \in Nat /\ Len(answer) \in Nat \ {0} /\ DOMAIN answer = 1..Len(answer)
  <2>1. n \in Nat /\ Len(answer) \in Nat /\ DOMAIN answer = 1..Len(answer)
    BY <1>2, SequencesAre
  <2>2. Len(answer) # 0
    BY <1>1, <1>2, EmptySeq DEF IsSequence
  <2> QED
    BY <2>1, <2>2
<1> HIDE DEF n, answer
<1>4. answer[1].from = 0 /\ answer[1].to \in 1..n /\ \A i \in 2..Len(answer) : answer[i].from = answer[i - 1].to
  <2>1. 1 \in DOMAIN answer /\ \A i \in 2..Len(answer) : i \in DOMAIN answer /\ i # 1
    BY <1>3
  <2> QED
    BY <1>1, <2>1 DEF IsPiece
<1> DEFINE T == {i \in Nat : i \in 1..Len(answer) => IsIn(answer[i], n)}
<1>5. 1 \in T
  BY <1>4 DEF IsIn
<1>6. ASSUME NEW i \in 1..Len(answer) - 1, i \in T PROVE i + 1 \in T
  <2>1. i \in 1..Len(answer) /\ i + 1 \in DOMAIN answer /\ i + 1 # 1 /\ (i + 1) - 1 = i
    BY <1>3
  <2>2. IsIn(answer[i], n)
    BY <1>6, <2>1
  <2>3. IsPiece(answer[i + 1], answer[i].to, n)
    BY <1>1, <2>1
  <2>4. answer[i].to \in Nat
    BY <1>3, <2>2 DEF IsIn
  <2> QED
    BY <2>1, <2>3, <2>4 DEF IsPiece, IsIn
<1>7. 1..Len(answer) \subseteq T
  <2> HIDE DEF T
  <2> QED
    BY <1>3, <1>5, <1>6, IntervalInduction
<1>8. \A i \in 1..Len(answer) : IsIn(answer[i], n)
  BY <1>7
<1> QED
  BY <1>1, <1>2, <1>3, <1>4, <1>8 DEF n, answer

(* A node that has what a line of the answer has, at its place. *)
IsLike(sentence, line, node) == node.from = line.from /\ CmpEq(sentence, line, node)

(* The words and the lines that begin at a position. *)
LEMMA WithVirtualFacts ==
  ASSUME NEW sentence \in Sentences, NEW W, NEW F, NodesGrow(sentence, W, F),
         NEW p \in 0..Len(sentence.text) - 1
  PROVE  LET here == WithVirtual(sentence, p) IN
         /\ here \in Seq(W)
         /\ \A j \in 1..Len(here) : IsPiece(here[j], p, Len(sentence.text))
         /\ \A i \in 1..Len(sentence.answer) : sentence.answer[i].from = p =>
              \E j \in 1..Len(here) : IsLike(sentence, sentence.answer[i], here[j])
<1> DEFINE n == Len(sentence.text)
           answer == sentence.answer
           found == sentence.words[p + 1]
           IsMissing(line) == line.from = p /\ \A i \in DOMAIN found : ~CmpEq(sentence, line, found[i])
           K == {i \in DOMAIN answer : IsMissing(answer[i])}
           added == Select(answer, K)
           here == added \o found
<1>1. WithVirtual(sentence, p) = here
  BY DEF WithVirtual
<1>2. n \in Nat /\ answer \in Seq(W) /\ found \in Seq(W) /\ p + 1 \in 1..n /\ (p + 1) - 1 = p
  BY DEF NodesGrow
<1>3. /\ DOMAIN answer = 1..Len(answer) /\ \A i \in 1..Len(answer) : IsIn(answer[i], n)
      /\ DOMAIN found = 1..Len(found) /\ Len(found) \in Nat
      /\ \A j \in 1..Len(found) : IsPiece(found[j], p, n)
  <2>1. DOMAIN found = 1..Len(found) /\ Len(found) \in Nat
    BY <1>2
  <2> QED
    BY <1>2, <2>1, SentenceIs
<1>4. /\ added \in Seq(W) /\ Len(added) \in Nat
      /\ \A j \in 1..Len(added) : \E i \in 1..Len(answer) : i \in K /\ added[j] = answer[i]
      /\ \A i \in 1..Len(answer) : i \in K => \E j \in 1..Len(added) : added[j] = answer[i]
  <2>1. PICK seq \in Seq(W) : seq = answer
    BY <1>2
  <2>2. PICK sel, L : L = K /\ sel = Select(seq, L)
    OBVIOUS
  <2> HIDE DEF K, answer, found, added, here
  <2>3. /\ sel \in Seq(W)
        /\ \A j \in 1..Len(sel) : \E i \in 1..Len(seq) : i \in K /\ sel[j] = seq[i]
        /\ \A i \in 1..Len(seq) : i \in K => \E j \in 1..Len(sel) : sel[j] = seq[i]
    <3>1. /\ Select(seq, L) \in Seq(W)
          /\ \A j \in 1..Len(Select(seq, L)) :
               \E i \in 1..Len(seq) : i \in L /\ Select(seq, L)[j] = seq[i]
          /\ \A i \in 1..Len(seq) : i \in L =>
               \E j \in 1..Len(Select(seq, L)) : Select(seq, L)[j] = seq[i]
      BY SelectFacts
    <3> QED
      BY <2>2, <3>1
  <2>4. added = sel
    BY <2>1, <2>2 DEF added
  <2>5. Len(sel) \in Nat
    BY <2>3, LenProperties
  <2> HIDE DEF added
  <2> QED
    BY <2>1, <2>3, <2>4, <2>5
<1> HIDE DEF added, found
<1>5. /\ here \in Seq(W) /\ Len(here) = Len(added) + Len(found)
      /\ \A j \in 1..Len(added) : here[j] = added[j]
      /\ \A j \in 1..Len(found) : here[Len(added) + j] = found[j]
  BY <1>2, <1>4, ConcatProperties
<1> HIDE DEF here
<1>6. ASSUME NEW j \in 1..Len(here) PROVE IsPiece(here[j], p, n)
  <2>1. CASE j \in 1..Len(added)
    <3>1. PICK i \in 1..Len(answer) : i \in K /\ added[j] = answer[i]
      BY <1>4, <2>1
    <3>2. answer[i].from = p /\ IsIn(answer[i], n)
      BY <1>3, <3>1
    <3> QED
      BY <1>5, <2>1, <3>1, <3>2 DEF IsPiece, IsIn
  <2>2. CASE j \notin 1..Len(added)
    <3>1. PICK i \in 1..Len(found) : j = Len(added) + i
      <4>1. PICK a \in Nat, b \in Nat, h \in Nat, m \in Int :
              a = Len(added) /\ b = Len(found) /\ h = Len(here) /\ m = j
        <5>1. Len(here) \in Nat
          BY <1>5, LenProperties
        <5>2. j \in Int /\ Len(added) \in Nat /\ Len(found) \in Nat
          BY <1>3, <1>4
        <5> QED
          BY <5>1, <5>2
      <4>2. m \in 1..h /\ m \notin 1..a /\ h = a + b
        BY <1>5, <2>2, <4>1
      <4>3. m - a \in 1..b /\ m = a + (m - a)
        BY <4>2
      <4> QED
        BY <4>1, <4>3
    <3> QED
      BY <1>3, <1>5, <3>1
  <2> QED
    BY <2>1, <2>2
<1>7. ASSUME NEW i \in 1..Len(answer), answer[i].from = p
      PROVE  \E j \in 1..Len(here) : IsLike(sentence, answer[i], here[j])
  <2>1. CASE i \in K
    <3>1. PICK j \in 1..Len(added) : added[j] = answer[i]
      BY <1>4, <2>1
    <3>2. j \in 1..Len(here) /\ here[j] = answer[i]
      BY <1>3, <1>4, <1>5, <3>1
    <3> QED
      BY <3>2 DEF IsLike, CmpEq
  <2>2. CASE i \notin K
    <3>1. PICK j \in 1..Len(found) : CmpEq(sentence, answer[i], found[j])
      BY <1>3, <1>7, <2>2
    <3>2. Len(added) + j \in 1..Len(here) /\ here[Len(added) + j] = found[j]
      BY <1>3, <1>4, <1>5
    <3>3. found[j].from = p
      BY <1>3 DEF IsPiece
    <3> QED
      BY <1>7, <3>1, <3>2, <3>3 DEF IsLike
  <2> QED
    BY <2>1, <2>2
<1> QED
  BY <1>1, <1>5, <1>6, <1>7

(* What the nodes up to a position are: behind BOS pieces of the text, and   *)
(* among them one for every line of the answer that begins before it.        *)
GrownTo(sentence, nodes, p) ==
  /\ Len(nodes) \in Nat \ {0} /\ nodes[1] = Boundary(0)
  /\ \A r \in 2..Len(nodes) : IsIn(nodes[r], Len(sentence.text))
  /\ \A i \in 1..Len(sentence.answer) : sentence.answer[i].from < p =>
       \E r \in 2..Len(nodes) : IsLike(sentence, sentence.answer[i], nodes[r])

LEMMA NodesAdded ==
  ASSUME NEW sentence \in Sentences, NEW W, NEW F, NodesGrow(sentence, W, F),
         NEW p \in 0..Len(sentence.text) - 1, GrownTo(sentence, F[p], p)
  PROVE  GrownTo(sentence, F[p + 1], p + 1)
<1> DEFINE n == Len(sentence.text)
           answer == sentence.answer
           nodes == F[p]
           new == F[p + 1]
           here == WithVirtual(sentence, p)
<1>1. /\ n \in Nat /\ nodes \in Seq(W) /\ new = AddNodes(sentence, nodes, p)
      /\ p \in Nat
  <2>1. n \in Nat /\ p \in 0..n /\ p + 1 \in 1..n /\ (p + 1) - 1 = p
    BY DEF NodesGrow
  <2> QED
    BY <2>1 DEF NodesGrow
<1>2. /\ Len(answer) \in Nat \ {0} /\ answer[1].from = 0 /\ IsSequence(sentence.text)
      /\ \A i \in 1..Len(answer) : IsIn(answer[i], n)
      /\ \A i \in 2..Len(answer) : answer[i].from = answer[i - 1].to
  BY SentenceIs
<1>3. /\ here \in Seq(W) /\ Len(here) \in Nat /\ \A j \in 1..Len(here) : IsPiece(here[j], p, n)
      /\ \A i \in 1..Len(answer) : answer[i].from = p =>
           \E j \in 1..Len(here) : IsLike(sentence, answer[i], here[j])
  BY WithVirtualFacts, LenProperties
<1>4. /\ Len(nodes) \in Nat \ {0} /\ nodes[1] = Boundary(0)
      /\ \A r \in 2..Len(nodes) : IsIn(nodes[r], n)
      /\ \A i \in 1..Len(answer) : answer[i].from < p =>
           \E r \in 2..Len(nodes) : IsLike(sentence, answer[i], nodes[r])
  BY DEF GrownTo
<1> HIDE DEF n, answer, nodes, new, here
<1>5. ASSUME NEW i \in 1..Len(answer), answer[i].from = p
      PROVE  \E r \in 1..Len(nodes) : nodes[r].to = p
  <2>1. CASE i = 1
    BY <1>2, <1>4, <1>5, <2>1 DEF Boundary
  <2>2. CASE i # 1
    <3>1. PICK j \in 1..Len(answer) : j = i - 1 /\ answer[j].to = p
      BY <1>2, <1>5, <2>2
    <3>2. IsIn(answer[j], n)
      BY <1>2
    <3>3. answer[j].from < p
      BY <1>1, <3>1, <3>2 DEF IsIn
    <3>4. PICK r \in 2..Len(nodes) : IsLike(sentence, answer[j], nodes[r])
      BY <1>4, <3>3
    <3>5. answer[j].to - answer[j].from = nodes[r].to - nodes[r].from /\ IsIn(nodes[r], n)
      BY <1>1, <1>2, <1>4, <3>2, <3>4, EqualLengths DEF IsLike, n
    <3>6. nodes[r].from = answer[j].from
      BY <3>4 DEF IsLike
    <3>7. nodes[r].to = p
      BY <1>1, <3>1, <3>2, <3>5, <3>6 DEF IsIn
    <3>8. r \in 1..Len(nodes)
      BY <1>4
    <3> QED
      BY <3>7, <3>8
  <2> QED
    BY <2>1, <2>2
<1>6. CASE \E r \in 1..Len(nodes) : nodes[r].to = p
  <2>1. new = nodes \o here
    BY <1>1, <1>6 DEF AddNodes, here
  <2>2. /\ Len(new) = Len(nodes) + Len(here)
        /\ \A r \in 1..Len(nodes) : new[r] = nodes[r]
        /\ \A j \in 1..Len(here) : new[Len(nodes) + j] = here[j]
    BY <1>1, <1>3, <2>1, ConcatProperties
  <2>3. Len(new) \in Nat \ {0} /\ new[1] = Boundary(0)
    BY <1>3, <1>4, <2>2
  <2>4. ASSUME NEW r \in 2..Len(new) PROVE IsIn(new[r], n)
    <3>1. CASE r \in 2..Len(nodes)
      <4>1. r \in 1..Len(nodes)
        BY <1>4, <3>1
      <4> QED
        BY <1>4, <2>2, <3>1, <4>1
    <3>2. CASE r \notin 2..Len(nodes)
      <4>1. PICK j \in 1..Len(here) : r = Len(nodes) + j
        <5>1. PICK a \in Nat \ {0}, b \in Nat, h \in Nat, m \in Int :
                a = Len(nodes) /\ b = Len(here) /\ h = Len(new) /\ m = r
          BY <1>3, <1>4, <2>2
        <5>2. m \in 2..h /\ m \notin 2..a /\ h = a + b
          BY <2>2, <3>2, <5>1
        <5>3. m - a \in 1..b /\ m = a + (m - a)
          BY <5>2
        <5> QED
          BY <5>1, <5>3
      <4> QED
        BY <1>1, <1>3, <2>2, <4>1 DEF IsPiece, IsIn
    <3> QED
      BY <3>1, <3>2
  <2>5. ASSUME NEW i \in 1..Len(answer), answer[i].from < p + 1
        PROVE  \E r \in 2..Len(new) : IsLike(sentence, answer[i], new[r])
    <3>1. answer[i].from \in Nat
      BY <1>2 DEF IsIn
    <3>2. CASE answer[i].from < p
      <4>1. PICK r \in 2..Len(nodes) : IsLike(sentence, answer[i], nodes[r])
        BY <1>4, <3>2
      <4>2. r \in 2..Len(new) /\ new[r] = nodes[r]
        BY <1>3, <1>4, <2>2
      <4> QED
        BY <4>1, <4>2
    <3>3. CASE answer[i].from = p
      <4>1. PICK j \in 1..Len(here) : IsLike(sentence, answer[i], here[j])
        BY <1>3, <3>3
      <4>2. Len(nodes) + j \in 2..Len(new) /\ new[Len(nodes) + j] = here[j]
        BY <1>3, <1>4, <2>2
      <4> QED
        BY <4>1, <4>2
    <3> QED
      BY <1>1, <2>5, <3>1, <3>2, <3>3
  <2> QED
    BY <2>3, <2>4, <2>5 DEF GrownTo, new, answer, n
<1>7. CASE ~\E r \in 1..Len(nodes) : nodes[r].to = p
  <2>1. new = nodes
    <3>1. DOMAIN nodes = 1..Len(nodes)
      BY <1>1
    <3> QED
      BY <1>1, <1>7, <3>1 DEF AddNodes
  <2>2. \A i \in 1..Len(answer) : answer[i].from < p + 1 => answer[i].from < p
    <3> SUFFICES ASSUME NEW i \in 1..Len(answer), answer[i].from < p + 1 PROVE answer[i].from < p
      OBVIOUS
    <3>1. answer[i].from # p
      BY <1>5, <1>7
    <3>2. answer[i].from \in Nat
      BY <1>2 DEF IsIn
    <3> QED
      BY <1>1, <3>1, <3>2
  <2> QED
    BY <1>4, <2>1, <2>2 DEF GrownTo, new, nodes, answer, n
<1> QED
  BY <1>6, <1>7

(* The lattice of a sentence, and the answer in it. *)
IsLattice(sentence, nodes) ==
  /\ Len(nodes) \in Nat /\ Len(nodes) > 2
  /\ nodes[Len(nodes)] = Boundary(Len(sentence.text))
  /\ \A r \in 2..Len(nodes) - 1 : IsIn(nodes[r], Len(sentence.text))

LEMMA LatticeIs ==
  ASSUME NEW sentence \in Sentences
  PROVE  LET nodes == NodesOf(sentence) IN
         /\ IsLattice(sentence, nodes)
         /\ \A i \in 1..Len(sentence.answer) :
              \E r \in 2..Len(nodes) - 1 : IsLike(sentence, sentence.answer[i], nodes[r])
<1> DEFINE n == Len(sentence.text)
           answer == sentence.answer
<1>1. PICK W, F : NodesGrow(sentence, W, F)
  BY NodesGrowUp
<1> DEFINE T == {p \in Nat : p <= n => GrownTo(sentence, F[p], p)}
<1>2. /\ n \in Nat /\ F[0] = <<Boundary(0)>> /\ F[n] \in Seq(W) /\ Boundary(n) \in W
      /\ NodesOf(sentence) = Append(F[n], Boundary(n))
  <2>1. n \in Nat
    BY <1>1 DEF NodesGrow
  <2>2. n \in 0..n
    BY <2>1
  <2> QED
    BY <1>1, <2>1, <2>2 DEF NodesGrow
<1>3. /\ Len(answer) \in Nat \ {0} /\ \A i \in 1..Len(answer) : IsIn(answer[i], n)
  BY SentenceIs
<1> HIDE DEF n, answer
<1>4. 0 \in T
  <2>1. Len(F[0]) = 1 /\ F[0][1] = Boundary(0) /\ \A r \in 2..Len(F[0]) : FALSE
    BY <1>2
  <2>2. \A i \in 1..Len(answer) : ~(answer[i].from < 0)
    BY <1>3 DEF IsIn
  <2> QED
    BY <2>1, <2>2 DEF GrownTo, answer
<1>5. ASSUME NEW p \in Nat, p \in T PROVE p + 1 \in T
  <2> SUFFICES ASSUME p + 1 <= n PROVE GrownTo(sentence, F[p + 1], p + 1)
    OBVIOUS
  <2>1. p \in 0..n - 1 /\ GrownTo(sentence, F[p], p)
    BY <1>2, <1>5
  <2> QED
    BY <1>1, <2>1, NodesAdded DEF n
<1>6. GrownTo(sentence, F[n], n)
  <2> HIDE DEF T
  <2>1. Nat \subseteq T
    BY <1>4, <1>5, NatSetInduction
  <2> USE DEF T
  <2> QED
    BY <1>2, <2>1
<1> DEFINE nodes == NodesOf(sentence)
           m == Len(F[n])
<1>7. /\ m \in Nat \ {0} /\ Len(nodes) = m + 1 /\ nodes[m + 1] = Boundary(n)
      /\ \A r \in 1..m : nodes[r] = F[n][r]
  BY <1>2, <1>6, AppendProperties DEF GrownTo
<1>8. /\ \A r \in 2..m : IsIn(F[n][r], n)
      /\ \A i \in 1..Len(answer) : answer[i].from < n =>
           \E r \in 2..m : IsLike(sentence, answer[i], F[n][r])
  BY <1>6 DEF GrownTo, n, answer
<1> HIDE DEF nodes, m
<1>9. \A r \in 2..Len(nodes) - 1 : r \in 1..m /\ r \in 2..m
  BY <1>7
<1>10. ASSUME NEW i \in 1..Len(answer)
       PROVE  \E r \in 2..Len(nodes) - 1 : IsLike(sentence, answer[i], nodes[r])
  <2>1. answer[i].from < n
    BY <1>2, <1>3 DEF IsIn
  <2>2. PICK r \in 2..m : IsLike(sentence, answer[i], F[n][r])
    BY <1>8, <2>1
  <2>3. r \in 2..Len(nodes) - 1 /\ r \in 1..m
    BY <1>7
  <2> QED
    BY <1>7, <2>2, <2>3
<1>11. Len(nodes) > 2
  <2>1. 1 \in 1..Len(answer)
    BY <1>3
  <2> QED
    BY <1>7, <1>10, <2>1
<1>12. \A r \in 2..Len(nodes) - 1 : IsIn(nodes[r], n)
  BY <1>7, <1>8, <1>9
<1> QED
  BY <1>7, <1>10, <1>11, <1>12 DEF IsLattice, nodes, n, answer

(* The answer in the lattice has the pieces of the lines, in their order. *)
LEMMA AnswerIs ==
  ASSUME NEW sentence \in Sentences
  PROVE  LET nodes == NodesOf(sentence)  answer == AnswerOf(sentence) IN
         /\ DOMAIN answer = 1..Len(sentence.answer) /\ Len(answer) = Len(sentence.answer)
         /\ \A i \in 1..Len(sentence.answer) :
              answer[i] \in 2..Len(nodes) - 1 /\ IsLike(sentence, sentence.answer[i], nodes[answer[i]])
<1> DEFINE nodes == NodesOf(sentence)
           Like(line) == {r \in 2..Len(nodes) - 1 : IsLike(sentence, line, nodes[r])}
           lines == sentence.answer
<1>1. AnswerOf(sentence) = [i \in DOMAIN lines |-> Max(Like(lines[i]))]
  BY DEF AnswerOf, IsLike
<1>2. DOMAIN lines = 1..Len(lines) /\ Len(lines) \in Nat
  BY SentenceIs
<1>3. Len(nodes) \in Nat /\ \A i \in 1..Len(lines) : \E r \in 2..Len(nodes) - 1 : IsLike(sentence, lines[i], nodes[r])
  BY LatticeIs DEF IsLattice
<1> HIDE DEF nodes, lines
<1>4. ASSUME NEW i \in 1..Len(lines) PROVE Max(Like(lines[i])) \in Like(lines[i])
  <2>0. \A r \in 2..Len(nodes) - 1 : r \in Nat /\ r <= Len(nodes)
    BY <1>3
  <2>1. Like(lines[i]) \in SUBSET Nat /\ Like(lines[i]) # {} /\ \A r \in Like(lines[i]) : r <= Len(nodes)
    <3>1. \A r \in Like(lines[i]) : r \in 2..Len(nodes) - 1
      OBVIOUS
    <3>2. PICK r \in 2..Len(nodes) - 1 : IsLike(sentence, lines[i], nodes[r])
      BY <1>3
    <3>3. r \in Like(lines[i])
      BY <3>2
    <3> HIDE DEF Like
    <3> QED
      BY <2>0, <3>1, <3>3
  <2> HIDE DEF Like
  <2> QED
    BY <1>3, <2>1, MaxOfBounded
<1>5. Len(AnswerOf(sentence)) = Len(lines)
  BY <1>1, <1>2
<1> QED
  BY <1>1, <1>2, <1>4, <1>5 DEF nodes, lines

(* A way through the text and EOS behind it. *)
IsChain(sentence, way, R) ==
  /\ R \in Nat /\ R > 1 /\ Len(way) = R
  /\ \A i \in 1..R - 1 : IsIn(way[i], Len(sentence.text))
  /\ way[1].from = 0 /\ \A i \in 2..R : way[i].from = way[i - 1].to
  /\ way[R] = Boundary(Len(sentence.text))

Length(node) == node.to - node.from

LEMMA LengthsAre ==
  ASSUME NEW sentence, Len(sentence.text) \in Nat, NEW way, NEW R, IsChain(sentence, way, R)
  PROVE  \A i \in 1..R : Length(way[i]) \in Nat
<1> SUFFICES ASSUME NEW i \in 1..R PROVE Length(way[i]) \in Nat
  OBVIOUS
<1>1. CASE i = R
  BY <1>1 DEF IsChain, Boundary, Length
<1>2. CASE i # R
  <2>1. i \in 1..R - 1
    BY <1>2 DEF IsChain
  <2>2. IsIn(way[i], Len(sentence.text))
    BY <2>1 DEF IsChain
  <2> QED
    BY <2>2 DEF IsIn, Length
<1> QED
  BY <1>1, <1>2

Cursors(R, A) ==
  [r : 1..R, a : 1..A, resp : Nat, ansp : Nat,
   score : [crr : Nat, prec : Nat, recall : Nat, err : Nat]]

FirstCursor == [r |-> 1, a |-> 1, resp |-> 0, ansp |-> 0, score |-> NoScore]

(* What a step of eval() does, without the records. *)
StepIs(sentence, res, ans, R, A, c, d) ==
  LET both == c.r < R /\ c.a < A
      resMoves == c.r < R /\ (both => c.resp <= c.ansp)
      ansMoves == c.a < A /\ (both => c.ansp <= c.resp)
      same == both /\ c.resp = c.ansp /\ CmpEq(sentence, ans[c.a], res[c.r])
  IN  /\ d.r = c.r + One(resMoves) /\ d.a = c.a + One(ansMoves)
      /\ d.resp = IF resMoves THEN c.resp + Length(res[c.r + 1]) ELSE c.resp
      /\ d.ansp = IF ansMoves THEN c.ansp + Length(ans[c.a + 1]) ELSE c.ansp
      /\ d.score.crr = c.score.crr + One(same)
      /\ d.score.prec = c.score.prec + One(ansMoves)
      /\ d.score.recall = c.score.recall + One(resMoves)
      /\ d.score.err = IF both /\ ~same THEN 1 ELSE c.score.err

LEMMA EvalStepIs ==
  ASSUME NEW sentence, Len(sentence.text) \in Nat, NEW res, NEW R, IsChain(sentence, res, R),
         NEW ans, NEW A, IsChain(sentence, ans, A), NEW c \in Cursors(R, A)
  PROVE  /\ EvalStep(sentence, res, ans, c) \in Cursors(R, A)
         /\ StepIs(sentence, res, ans, R, A, c, EvalStep(sentence, res, ans, c))
<1> DEFINE both == c.r < R /\ c.a < A
           resMoves == c.r < R /\ (both => c.resp <= c.ansp)
           ansMoves == c.a < A /\ (both => c.ansp <= c.resp)
           same == both /\ c.resp = c.ansp /\ CmpEq(sentence, ans[c.a], res[c.r])
           resp == IF resMoves THEN c.resp + Length(res[c.r + 1]) ELSE c.resp
           ansp == IF ansMoves THEN c.ansp + Length(ans[c.a + 1]) ELSE c.ansp
           score == [crr    |-> c.score.crr + One(same),
                     prec   |-> c.score.prec + One(ansMoves),
                     recall |-> c.score.recall + One(resMoves),
                     err    |-> IF both /\ ~same THEN 1 ELSE c.score.err]
           d == [r |-> c.r + One(resMoves), a |-> c.a + One(ansMoves),
                 resp |-> resp, ansp |-> ansp, score |-> score]
<1>1. /\ R \in Nat /\ A \in Nat /\ Len(res) = R /\ Len(ans) = A
      /\ c.r \in 1..R /\ c.a \in 1..A /\ c.resp \in Nat /\ c.ansp \in Nat
      /\ c.score \in [crr : Nat, prec : Nat, recall : Nat, err : Nat]
  BY DEF IsChain, Cursors
<1>2. c.score.crr \in Nat /\ c.score.prec \in Nat /\ c.score.recall \in Nat /\ c.score.err \in Nat
  BY <1>1
<1>3. resMoves => c.r + 1 \in 1..R /\ Length(res[c.r + 1]) \in Nat
  <2>1. resMoves => c.r + 1 \in 1..R
    BY <1>1
  <2>2. \A i \in 1..R : Length(res[i]) \in Nat
    BY LengthsAre
  <2> QED
    BY <2>1, <2>2
<1>4. ansMoves => c.a + 1 \in 1..A /\ Length(ans[c.a + 1]) \in Nat
  <2>1. ansMoves => c.a + 1 \in 1..A
    BY <1>1
  <2>2. \A i \in 1..A : Length(ans[i]) \in Nat
    BY LengthsAre
  <2> QED
    BY <2>1, <2>2
<1>5. resMoves => c.resp + res[c.r + 1].to - res[c.r + 1].from = c.resp + Length(res[c.r + 1])
  <2> SUFFICES ASSUME resMoves
               PROVE  c.resp + res[c.r + 1].to - res[c.r + 1].from = c.resp + Length(res[c.r + 1])
    OBVIOUS
  <2>1. res[c.r + 1].to \in Int /\ res[c.r + 1].from \in Int
    <3>1. CASE c.r + 1 = R
      BY <3>1 DEF IsChain, Boundary
    <3>2. CASE c.r + 1 # R
      <4>1. c.r + 1 \in 1..R - 1
        BY <1>1, <1>3, <3>2
      <4>2. IsIn(res[c.r + 1], Len(sentence.text))
        BY <4>1 DEF IsChain
      <4> QED
        BY <4>2 DEF IsIn
    <3> QED
      BY <3>1, <3>2
  <2> QED
    BY <1>1, <2>1 DEF Length
<1>6. ansMoves => c.ansp + ans[c.a + 1].to - ans[c.a + 1].from = c.ansp + Length(ans[c.a + 1])
  <2> SUFFICES ASSUME ansMoves
               PROVE  c.ansp + ans[c.a + 1].to - ans[c.a + 1].from = c.ansp + Length(ans[c.a + 1])
    OBVIOUS
  <2>1. ans[c.a + 1].to \in Int /\ ans[c.a + 1].from \in Int
    <3>1. CASE c.a + 1 = A
      BY <3>1 DEF IsChain, Boundary
    <3>2. CASE c.a + 1 # A
      <4>1. c.a + 1 \in 1..A - 1
        BY <1>1, <1>4, <3>2
      <4>2. IsIn(ans[c.a + 1], Len(sentence.text))
        BY <4>1 DEF IsChain
      <4> QED
        BY <4>2 DEF IsIn
    <3> QED
      BY <3>1, <3>2
  <2> QED
    BY <1>1, <2>1 DEF Length
<1>7. EvalStep(sentence, res, ans, c) = d
  <2>1. EvalStep(sentence, res, ans, c) =
          [r |-> c.r + One(resMoves), a |-> c.a + One(ansMoves),
           resp |-> IF resMoves THEN c.resp + res[c.r + 1].to - res[c.r + 1].from ELSE c.resp,
           ansp |-> IF ansMoves THEN c.ansp + ans[c.a + 1].to - ans[c.a + 1].from ELSE c.ansp,
           score |-> score]
    BY <1>1 DEF EvalStep, Wrong
  <2> QED
    BY <1>5, <1>6, <2>1
<1>8. One(resMoves) \in Nat /\ One(ansMoves) \in Nat /\ One(same) \in Nat
  BY DEF One
<1>9. c.r + One(resMoves) \in 1..R /\ c.a + One(ansMoves) \in 1..A
  BY <1>1, <1>3, <1>4 DEF One
<1>10. resp \in Nat /\ ansp \in Nat
  <2>1. resp \in Nat
    <3>1. CASE resMoves
      <4> HIDE DEF resMoves
      <4> QED
        BY <1>1, <1>3, <3>1
    <3>2. CASE ~resMoves
      <4> HIDE DEF resMoves
      <4> QED
        BY <1>1, <3>2
    <3> QED
      BY <3>1, <3>2
  <2>2. ansp \in Nat
    <3>1. CASE ansMoves
      <4> HIDE DEF ansMoves
      <4> QED
        BY <1>1, <1>4, <3>1
    <3>2. CASE ~ansMoves
      <4> HIDE DEF ansMoves
      <4> QED
        BY <1>1, <3>2
    <3> QED
      BY <3>1, <3>2
  <2> QED
    BY <2>1, <2>2
<1>11. score \in [crr : Nat, prec : Nat, recall : Nat, err : Nat]
  <2> HIDE DEF both, resMoves, ansMoves, same
  <2>1. c.score.crr + One(same) \in Nat
    BY <1>2, <1>8
  <2>2. c.score.prec + One(ansMoves) \in Nat
    BY <1>2, <1>8
  <2>3. c.score.recall + One(resMoves) \in Nat
    BY <1>2, <1>8
  <2>4. (IF both /\ ~same THEN 1 ELSE c.score.err) \in Nat
    BY <1>2
  <2> QED
    BY <2>1, <2>2, <2>3, <2>4
<1>12. d \in Cursors(R, A)
  <2> HIDE DEF both, resMoves, ansMoves, same, resp, ansp, score
  <2> QED
    BY <1>9, <1>10, <1>11 DEF Cursors
<1>13. StepIs(sentence, res, ans, R, A, c, d)
  BY DEF StepIs
<1> HIDE DEF d
<1> QED
  BY <1>7, <1>12, <1>13

(* What is true of the cursors after m steps. *)
Reached(sentence, res, ans, R, A, m, c) ==
  /\ c \in Cursors(R, A)
  /\ c.score.prec = c.a - 1 /\ c.score.recall = c.r - 1
  /\ c.score.crr <= c.a - 1 /\ c.score.crr <= c.r - 1
  /\ c.score.err \in {0, 1}
  /\ (c.r = R /\ c.a = A) \/ c.r + c.a >= m + 2
  /\ c.score.err = 0 =>
       /\ c.r = c.a \/ (c.r = R /\ R <= c.a) \/ (c.a = A /\ A <= c.r)
       /\ \A i \in Nat \ {0} : i < c.r /\ i < c.a => CmpEq(sentence, ans[i], res[i])

LEMMA StepReaches ==
  ASSUME NEW sentence, NEW res, NEW ans, NEW R \in Nat, NEW A \in Nat, NEW m \in Nat, NEW c, NEW d,
         Reached(sentence, res, ans, R, A, m, c), d \in Cursors(R, A),
         StepIs(sentence, res, ans, R, A, c, d)
  PROVE  Reached(sentence, res, ans, R, A, m + 1, d)
<1> DEFINE both == c.r < R /\ c.a < A
           resMoves == c.r < R /\ (both => c.resp <= c.ansp)
           ansMoves == c.a < A /\ (both => c.ansp <= c.resp)
           same == both /\ c.resp = c.ansp /\ CmpEq(sentence, ans[c.a], res[c.r])
<1>1. /\ c.r \in 1..R /\ c.a \in 1..A /\ c.resp \in Nat /\ c.ansp \in Nat
      /\ c.score.crr \in Nat /\ c.score.prec \in Nat /\ c.score.recall \in Nat /\ c.score.err \in {0, 1}
      /\ c.score.prec = c.a - 1 /\ c.score.recall = c.r - 1
      /\ c.score.crr <= c.a - 1 /\ c.score.crr <= c.r - 1
      /\ (c.r = R /\ c.a = A) \/ c.r + c.a >= m + 2
  BY DEF Reached, Cursors
<1>2. c.score.err = 0 =>
        /\ c.r = c.a \/ (c.r = R /\ R <= c.a) \/ (c.a = A /\ A <= c.r)
        /\ \A i \in Nat \ {0} : i < c.r /\ i < c.a => CmpEq(sentence, ans[i], res[i])
  BY DEF Reached
<1>3. /\ d.r = c.r + One(resMoves) /\ d.a = c.a + One(ansMoves)
      /\ d.score.crr = c.score.crr + One(same)
      /\ d.score.prec = c.score.prec + One(ansMoves)
      /\ d.score.recall = c.score.recall + One(resMoves)
      /\ d.score.err = IF both /\ ~same THEN 1 ELSE c.score.err
  BY DEF StepIs
<1>4. /\ One(resMoves) = (IF resMoves THEN 1 ELSE 0) /\ One(ansMoves) = (IF ansMoves THEN 1 ELSE 0)
      /\ One(same) = (IF same THEN 1 ELSE 0)
  BY DEF One
<1>5. same => both /\ resMoves /\ ansMoves /\ CmpEq(sentence, ans[c.a], res[c.r])
  BY <1>1
<1>6. both => resMoves \/ ansMoves
  BY <1>1
<1>7. ~both => (resMoves <=> c.r < R) /\ (ansMoves <=> c.a < A)
  OBVIOUS
<1>8. both => c.r < R /\ c.a < A
  OBVIOUS
<1>9. ~both => c.r = R \/ c.a = A
  BY <1>1
<1>10. (resMoves => c.r < R) /\ (ansMoves => c.a < A)
  OBVIOUS
<1> HIDE DEF both, resMoves, ansMoves, same
<1>11. d.score.prec = d.a - 1 /\ d.score.recall = d.r - 1
  BY <1>1, <1>3, <1>4
<1>12. d.score.crr <= d.a - 1 /\ d.score.crr <= d.r - 1
  BY <1>1, <1>3, <1>4, <1>5
<1>13. d.score.err \in {0, 1}
  BY <1>1, <1>3
<1>14. (d.r = R /\ d.a = A) \/ d.r + d.a >= m + 1 + 2
  BY <1>1, <1>3, <1>4, <1>6, <1>7, <1>8, <1>9
<1>15. ASSUME d.score.err = 0
       PROVE  /\ d.r = d.a \/ (d.r = R /\ R <= d.a) \/ (d.a = A /\ A <= d.r)
              /\ \A i \in Nat \ {0} : i < d.r /\ i < d.a => CmpEq(sentence, ans[i], res[i])
  <2>1. c.score.err = 0 /\ (both => same)
    BY <1>1, <1>3, <1>15
  <2>2. c.r = c.a \/ (c.r = R /\ R <= c.a) \/ (c.a = A /\ A <= c.r)
    BY <1>2, <2>1
  <2>3. CASE both
    <3>1. c.r = c.a /\ d.r = c.r + 1 /\ d.a = c.a + 1
      BY <1>1, <1>3, <1>4, <1>5, <1>8, <2>1, <2>2, <2>3
    <3>2. ASSUME NEW i \in Nat \ {0}, i < d.r, i < d.a PROVE CmpEq(sentence, ans[i], res[i])
      <4>1. CASE i = c.r
        BY <1>5, <2>1, <2>3, <3>1, <4>1
      <4>2. CASE i # c.r
        <5>1. i < c.r /\ i < c.a
          BY <1>1, <3>1, <3>2, <4>2
        <5> QED
          BY <1>2, <2>1, <5>1
      <4> QED
        BY <4>1, <4>2
    <3>3. d.r = d.a
      BY <3>1
    <3> QED
      BY <3>2, <3>3
  <2>4. CASE ~both
    <3>1. d.r = d.a \/ (d.r = R /\ R <= d.a) \/ (d.a = A /\ A <= d.r)
      BY <1>1, <1>3, <1>4, <1>7, <1>9, <2>2, <2>4
    <3>2. ASSUME NEW i \in Nat \ {0}, i < d.r, i < d.a PROVE CmpEq(sentence, ans[i], res[i])
      <4>1. i < c.r /\ i < c.a
        BY <1>1, <1>3, <1>4, <1>7, <1>9, <2>2, <2>4, <3>2
      <4> QED
        BY <1>2, <2>1, <4>1
    <3> QED
      BY <3>1, <3>2
  <2> QED
    BY <2>3, <2>4
<1> QED
  BY <1>11, <1>12, <1>13, <1>14, <1>15 DEF Reached

(* The two cursors of chains that are alike move together. *)
AreAlike(sentence, res, ans, R, A) ==
  R = A /\ \A i \in 1..R - 1 : CmpEq(sentence, ans[i], res[i])

Together(c) == c.r = c.a /\ c.resp = c.ansp /\ c.score.err = 0

LEMMA AlikeStep ==
  ASSUME NEW sentence, NEW res, NEW ans, NEW R, NEW A,
         Len(sentence.text) \in Nat, IsSequence(sentence.text),
         IsChain(sentence, res, R), IsChain(sentence, ans, A),
         AreAlike(sentence, res, ans, R, A), NEW c \in Cursors(R, A), Together(c),
         NEW d, StepIs(sentence, res, ans, R, A, c, d)
  PROVE  Together(d)
<1>1. /\ R \in Nat /\ A = R /\ c.r \in 1..R /\ c.a = c.r /\ c.resp \in Nat /\ c.ansp = c.resp
      /\ c.score.err = 0
  BY DEF IsChain, AreAlike, Cursors, Together
<1>2. CASE c.r = R
  BY <1>1, <1>2 DEF StepIs, One, Together
<1>3. CASE c.r # R
  <2>1. c.r \in 1..R - 1 /\ c.r < R /\ c.r + 1 \in 1..R
    BY <1>1, <1>3
  <2>2. CmpEq(sentence, ans[c.r], res[c.r])
    BY <2>1 DEF AreAlike
  <2>3. Length(res[c.r + 1]) = Length(ans[c.r + 1])
    <3>1. CASE c.r + 1 = R
      BY <1>1, <3>1 DEF IsChain
    <3>2. CASE c.r + 1 # R
      <4>1. c.r + 1 \in 1..R - 1
        BY <1>1, <2>1, <3>2
      <4>2. /\ CmpEq(sentence, ans[c.r + 1], res[c.r + 1])
            /\ IsIn(res[c.r + 1], Len(sentence.text)) /\ IsIn(ans[c.r + 1], Len(sentence.text))
        BY <1>1, <4>1 DEF IsChain, AreAlike
      <4> QED
        BY <4>2, EqualLengths DEF Length
    <3> QED
      BY <3>1, <3>2
  <2>4. /\ d.r = c.r + 1 /\ d.a = c.a + 1 /\ d.resp = c.resp + Length(res[c.r + 1])
        /\ d.ansp = c.ansp + Length(ans[c.a + 1]) /\ d.score.err = c.score.err
    BY <1>1, <2>1, <2>2 DEF StepIs, One
  <2> QED
    BY <1>1, <2>3, <2>4 DEF Together
<1> QED
  BY <1>2, <1>3

(* Two chains whose common part is alike have the same number of nodes. *)
LEMMA NotShorter ==
  ASSUME NEW sentence, NEW way, NEW t, NEW R, NEW A,
         Len(sentence.text) \in Nat, IsSequence(sentence.text),
         IsChain(sentence, way, R), IsChain(sentence, t, A), R < A,
         \A i \in 1..R - 1 : Length(way[i]) = Length(t[i])
  PROVE  FALSE
<1> DEFINE n == Len(sentence.text)
           T == {i \in Nat : i \in 1..R - 1 => way[i].to = t[i].to}
<1>1. /\ R \in Nat /\ R > 1 /\ A \in Nat
      /\ \A i \in 1..R - 1 : IsIn(way[i], n) /\ i \in 1..A - 1
      /\ \A i \in 1..A - 1 : IsIn(t[i], n)
      /\ way[1].from = 0 /\ t[1].from = 0 /\ way[R].from = n
      /\ \A i \in 2..R : way[i].from = way[i - 1].to
      /\ \A i \in 2..A : t[i].from = t[i - 1].to
  BY DEF IsChain, Boundary
<1>2. ASSUME NEW i \in 1..R - 1, way[i].from = t[i].from PROVE way[i].to = t[i].to
  <2>1. IsIn(way[i], n) /\ IsIn(t[i], n) /\ Length(way[i]) = Length(t[i])
    BY <1>1
  <2> QED
    BY <1>2, <2>1 DEF IsIn, Length
<1> HIDE DEF n
<1>3. 1 \in T
  BY <1>1, <1>2
<1>4. ASSUME NEW i \in 1..(R - 1) - 1, i \in T PROVE i + 1 \in T
  <2>1. i \in 1..R - 1 /\ i + 1 \in 1..R - 1 /\ i + 1 \in 2..R /\ i + 1 \in 2..A /\ (i + 1) - 1 = i
    BY <1>1
  <2>2. way[i + 1].from = t[i + 1].from
    BY <1>1, <1>4, <2>1
  <2> QED
    BY <1>2, <2>1, <2>2
<1>5. 1..R - 1 \subseteq T
  <2>1. R - 1 \in Nat \ {0}
    BY <1>1
  <2> HIDE DEF T
  <2> QED
    BY <1>3, <1>4, <2>1, IntervalInduction
<1>6. R - 1 \in 1..R - 1 /\ R \in 2..R /\ R \in 2..A /\ R \in 1..A - 1
  BY <1>1
<1>7. t[R].from = n
  <2>1. way[R - 1].to = t[R - 1].to
    BY <1>5, <1>6
  <2> QED
    BY <1>1, <1>6, <2>1
<1>8. IsIn(t[R], n) /\ n \in Nat
  BY <1>1, <1>6 DEF n
<1> QED
  BY <1>7, <1>8 DEF IsIn

(* eval() of two chains. *)
LEMMA EvalOfChains ==
  ASSUME NEW sentence, NEW res, NEW ans, NEW R, NEW A,
         Len(sentence.text) \in Nat, IsSequence(sentence.text),
         IsChain(sentence, res, R), IsChain(sentence, ans, A)
  PROVE  LET c[n \in 0..Len(res) + Len(ans)] ==
               IF n = 0 THEN [r |-> 1, a |-> 1, resp |-> 0, ansp |-> 0, score |-> NoScore]
               ELSE EvalStep(sentence, res, ans, c[n - 1])
             score == c[Len(res) + Len(ans)].score
         IN  /\ score \in [crr : Nat, prec : Nat, recall : Nat, err : Nat]
             /\ score.prec = A - 1 /\ score.recall = R - 1
             /\ score.crr <= A - 1 /\ score.crr <= R - 1
             /\ score.err = One(~AreAlike(sentence, res, ans, R, A))
<1> DEFINE n == R + A
           V == Cursors(R, A)
           rec(i, h) == IF i = 0 THEN [r |-> 1, a |-> 1, resp |-> 0, ansp |-> 0, score |-> NoScore]
                        ELSE EvalStep(sentence, res, ans, h[i - 1])
           F == CHOOSE h : h = [i \in 0..n |-> rec(i, h)]
           step == [z \in (1..n) \X V |-> EvalStep(sentence, res, ans, z[2])]
<1>1. R \in Nat /\ A \in Nat /\ R > 1 /\ A > 1 /\ n \in Nat /\ Len(res) = R /\ Len(ans) = A
  BY DEF IsChain
<1>2. FirstCursor \in V
  <2>1. 1 \in 1..R /\ 1 \in 1..A
    BY <1>1
  <2> QED
    BY <2>1 DEF Cursors, FirstCursor, NoScore
<1>3. ASSUME NEW c \in V PROVE EvalStep(sentence, res, ans, c) \in V
  BY <1>3, EvalStepIs
<1> HIDE DEF n, V
<1>4. step \in [(1..n) \X V -> V]
  <2>1. ASSUME NEW z \in (1..n) \X V PROVE EvalStep(sentence, res, ans, z[2]) \in V
    BY <1>3
  <2> QED
    BY <2>1
<1>5. PICK f : Iteration(f, n, V, FirstCursor, step)
  <2> HIDE DEF step
  <2> QED
    BY <1>1, <1>2, <1>4, IterationExists
<1>6. /\ f \in [0..n -> V] /\ f[0] = FirstCursor
      /\ \A i \in 1..n : f[i] = EvalStep(sentence, res, ans, f[i - 1])
  <2>1. f \in [0..n -> V] /\ f[0] = FirstCursor /\ \A i \in 1..n : f[i] = step[<<i, f[i - 1]>>]
    BY <1>5 DEF Iteration
  <2>2. ASSUME NEW i \in 1..n PROVE f[i] = EvalStep(sentence, res, ans, f[i - 1])
    <3>1. f[i - 1] \in V
      BY <1>1, <2>1
    <3>2. \A h \in V : step[<<i, h>>] = EvalStep(sentence, res, ans, h)
      OBVIOUS
    <3> HIDE DEF step
    <3> QED
      BY <2>1, <3>1, <3>2
  <2> QED
    BY <2>1, <2>2
<1>7. f = [i \in 0..n |-> rec(i, f)]
  <2>1. ASSUME NEW i \in 0..n PROVE f[i] = rec(i, f)
    <3>1. i = 0 \/ i \in 1..n
      BY <1>1
    <3> QED
      BY <1>6, <3>1 DEF FirstCursor
  <2> HIDE DEF rec
  <2> QED
    BY <1>6, <2>1
<1>8. F = [i \in 0..n |-> rec(i, F)]
  <2> HIDE DEF rec
  <2> QED
    BY <1>7
<1> HIDE DEF F
<1>9. F[0] = FirstCursor /\ \A i \in 1..n : F[i] = EvalStep(sentence, res, ans, F[i - 1])
  <2>1. \A i \in 0..n : F[i] = rec(i, F)
    <3> HIDE DEF rec
    <3> QED
      BY <1>8
  <2>2. 0 \in 0..n /\ \A i \in 1..n : i \in 0..n /\ i # 0
    BY <1>1
  <2> QED
    BY <2>1, <2>2 DEF FirstCursor
<1> HIDE DEF rec
<1> DEFINE U == {m \in Nat : m <= n => Reached(sentence, res, ans, R, A, m, F[m])}
           W == {m \in Nat : m <= n => F[m] \in V /\ Together(F[m])}
<1>10. 0 \in U
  <2>1. Reached(sentence, res, ans, R, A, 0, FirstCursor)
    <3>1. \A i \in Nat \ {0} : ~(i < 1)
      OBVIOUS
    <3> QED
      BY <1>1, <1>2, <3>1 DEF Reached, FirstCursor, NoScore, V
  <2> QED
    BY <1>9, <2>1
<1>11. ASSUME NEW m \in Nat, m \in U PROVE m + 1 \in U
  <2> SUFFICES ASSUME m + 1 <= n PROVE Reached(sentence, res, ans, R, A, m + 1, F[m + 1])
    OBVIOUS
  <2>1. m + 1 \in 1..n /\ (m + 1) - 1 = m /\ Reached(sentence, res, ans, R, A, m, F[m])
    BY <1>1, <1>11
  <2>2. F[m + 1] = EvalStep(sentence, res, ans, F[m]) /\ F[m] \in Cursors(R, A)
    BY <1>9, <2>1 DEF Reached
  <2> QED
    BY <1>1, <2>1, <2>2, EvalStepIs, StepReaches
<1>12. Reached(sentence, res, ans, R, A, n, F[n])
  <2>1. Nat \subseteq U
    <3> HIDE DEF U
    <3> QED
      BY <1>10, <1>11, NatSetInduction
  <2> QED
    BY <1>1, <2>1
<1>13. ASSUME AreAlike(sentence, res, ans, R, A) PROVE F[n].score.err = 0
  <2>1. 0 \in W
    BY <1>2, <1>9 DEF Together, FirstCursor, NoScore
  <2>2. ASSUME NEW m \in Nat, m \in W PROVE m + 1 \in W
    <3> SUFFICES ASSUME m + 1 <= n PROVE F[m + 1] \in V /\ Together(F[m + 1])
      OBVIOUS
    <3>1. m + 1 \in 1..n /\ (m + 1) - 1 = m /\ F[m] \in V /\ Together(F[m])
      BY <1>1, <2>2
    <3>2. F[m + 1] = EvalStep(sentence, res, ans, F[m])
      BY <1>9, <3>1
    <3>3. F[m + 1] \in V /\ StepIs(sentence, res, ans, R, A, F[m], F[m + 1])
      BY <3>1, <3>2, EvalStepIs DEF V
    <3> QED
      BY <1>13, <3>1, <3>3, AlikeStep DEF V
  <2>3. Nat \subseteq W
    <3> HIDE DEF W
    <3> QED
      BY <2>1, <2>2, NatSetInduction
  <2> QED
    BY <1>1, <2>3 DEF Together
<1> DEFINE c == F[n]
<1>14. /\ c \in Cursors(R, A) /\ c.score.prec = c.a - 1 /\ c.score.recall = c.r - 1
       /\ c.score.crr <= c.a - 1 /\ c.score.crr <= c.r - 1 /\ c.score.err \in {0, 1}
       /\ (c.r = R /\ c.a = A) \/ c.r + c.a >= n + 2
       /\ c.score.err = 0 =>
            \A i \in Nat \ {0} : i < c.r /\ i < c.a => CmpEq(sentence, ans[i], res[i])
  BY <1>12 DEF Reached
<1> HIDE DEF c
<1>15. c.r = R /\ c.a = A
  <2>1. c.r \in 1..R /\ c.a \in 1..A
    BY <1>14 DEF Cursors
  <2> QED
    BY <1>1, <1>14, <2>1 DEF n
<1>16. ASSUME c.score.err = 0 PROVE AreAlike(sentence, res, ans, R, A)
  <2>1. \A i \in Nat \ {0} : i < R /\ i < A => CmpEq(sentence, ans[i], res[i])
    BY <1>14, <1>15, <1>16
  <2>2. ASSUME NEW i \in Nat \ {0}, i < R, i < A PROVE Length(res[i]) = Length(ans[i])
    <3>1. i \in 1..R - 1 /\ i \in 1..A - 1
      BY <1>1, <2>2
    <3>2. IsIn(res[i], Len(sentence.text)) /\ IsIn(ans[i], Len(sentence.text))
      BY <3>1 DEF IsChain
    <3> QED
      BY <2>1, <2>2, <3>2, EqualLengths DEF Length
  <2>3. ~(R < A)
    <3> SUFFICES ASSUME R < A PROVE FALSE
      OBVIOUS
    <3>1. \A i \in 1..R - 1 : Length(res[i]) = Length(ans[i])
      BY <1>1, <2>2
    <3> QED
      BY <3>1, NotShorter
  <2>4. ~(A < R)
    <3> SUFFICES ASSUME A < R PROVE FALSE
      OBVIOUS
    <3>1. \A i \in 1..A - 1 : Length(ans[i]) = Length(res[i])
      BY <1>1, <2>2
    <3> QED
      BY <3>1, NotShorter
  <2>5. R = A
    BY <1>1, <2>3, <2>4
  <2> QED
    BY <1>1, <2>1, <2>5 DEF AreAlike
<1>17. c.score.err = One(~AreAlike(sentence, res, ans, R, A))
  BY <1>13, <1>14, <1>16 DEF One, c
<1>18. c.score \in [crr : Nat, prec : Nat, recall : Nat, err : Nat]
  BY <1>14 DEF Cursors
<1>19. Len(res) + Len(ans) = n
  BY <1>1 DEF n
<1>20. c.score.prec = A - 1 /\ c.score.recall = R - 1 /\ c.score.crr <= A - 1 /\ c.score.crr <= R - 1
  BY <1>14, <1>15
<1> QED
  BY <1>17, <1>18, <1>19, <1>20 DEF c, F, rec

ChainOf(nodes, inner) ==
  [i \in 1..Len(inner) + 1 |-> IF i <= Len(inner) THEN nodes[inner[i]] ELSE nodes[Len(nodes)]]

LEMMA ChainOfIs ==
  ASSUME NEW nodes, NEW inner, NEW m \in Nat, Len(inner) = m
  PROVE  /\ Len(ChainOf(nodes, inner)) = m + 1 /\ ChainOf(nodes, inner)[m + 1] = nodes[Len(nodes)]
         /\ \A i \in 1..m : ChainOf(nodes, inner)[i] = nodes[inner[i]]
<1>1. m + 1 \in Nat /\ m + 1 \in 1..m + 1 /\ ~(m + 1 <= m) /\ \A i \in 1..m : i \in 1..m + 1 /\ i <= m
  OBVIOUS
<1> QED
  BY <1>1 DEF ChainOf

(* The nodes of a way through the lattice, and of the answer. *)
LEMMA WayIsChain ==
  ASSUME NEW sentence \in Sentences, NEW chain \in WaysThrough(sentence)
  PROVE  /\ IsChain(sentence, ChainOf(NodesOf(sentence), chain), Len(chain) + 1)
         /\ Len(chain) \in Nat \ {0} /\ DOMAIN chain = 1..Len(chain)
<1> DEFINE n == Len(sentence.text)
           nodes == NodesOf(sentence)
           way == ChainOf(nodes, chain)
<1>1. PICK last \in 1..n : chain \in [1..last -> 2..Len(nodes) - 1]
  BY DEF WaysThrough, EndOfText
<1>2. /\ nodes[chain[1]].from = 0 /\ nodes[chain[Len(chain)]].to = n
      /\ \A i \in 1..Len(chain) - 1 : nodes[chain[i]].to = nodes[chain[i + 1]].from
  BY DEF WaysThrough, EndOfText
<1>3. n \in Nat /\ IsLattice(sentence, nodes)
  BY SentenceIs, LatticeIs
<1>4. last \in Nat \ {0} /\ Len(chain) = last /\ DOMAIN chain = 1..last
  <2>1. last \in Nat \ {0}
    BY <1>1, <1>3
  <2> HIDE DEF n, nodes
  <2> QED
    BY <1>1, <2>1
<1>5. \A i \in 1..last : IsIn(nodes[chain[i]], n)
  <2>1. \A i \in 1..last : chain[i] \in 2..Len(nodes) - 1
    BY <1>1
  <2> QED
    BY <1>3, <2>1 DEF IsLattice
<1>6. Len(way) = last + 1 /\ way[last + 1] = Boundary(n) /\ \A i \in 1..last : way[i] = nodes[chain[i]]
  <2>1. Len(way) = last + 1 /\ way[last + 1] = nodes[Len(nodes)] /\ \A i \in 1..last : way[i] = nodes[chain[i]]
    BY <1>4, ChainOfIs
  <2> QED
    BY <1>3, <2>1 DEF IsLattice
<1> HIDE DEF way, nodes, n
<1>7. way[1].from = 0
  BY <1>2, <1>4, <1>6
<1>8. ASSUME NEW i \in 2..last + 1 PROVE way[i].from = way[i - 1].to
  <2>1. CASE i = last + 1
    <3>1. i - 1 = last /\ last \in 1..last
      BY <1>4, <2>1
    <3> QED
      BY <1>2, <1>4, <1>6, <2>1, <3>1 DEF Boundary
  <2>2. CASE i # last + 1
    <3>1. i \in 1..last /\ i - 1 \in 1..last /\ i - 1 \in 1..last - 1 /\ (i - 1) + 1 = i
      BY <1>4, <2>2
    <3> QED
      BY <1>2, <1>4, <1>6, <3>1
  <2> QED
    BY <2>1, <2>2
<1>9. last + 1 \in Nat /\ last + 1 > 1 /\ (last + 1) - 1 = last
  BY <1>4
<1>10. \A i \in 1..(last + 1) - 1 : IsIn(way[i], n)
  BY <1>5, <1>6, <1>9
<1> QED
  BY <1>4, <1>6, <1>7, <1>8, <1>9, <1>10 DEF IsChain, way, nodes, n

LEMMA AnswerIsChain ==
  ASSUME NEW sentence \in Sentences
  PROVE  IsChain(sentence, ChainOf(NodesOf(sentence), AnswerOf(sentence)), Len(sentence.answer) + 1)
<1> DEFINE n == Len(sentence.text)
           nodes == NodesOf(sentence)
           answer == sentence.answer
           inner == AnswerOf(sentence)
           last == Len(answer)
           way == ChainOf(nodes, inner)
<1>1. /\ n \in Nat /\ IsSequence(sentence.text) /\ last \in Nat \ {0}
      /\ answer[1].from = 0 /\ answer[last].to = n
      /\ \A i \in 1..last : IsIn(answer[i], n)
      /\ \A i \in 2..last : answer[i].from = answer[i - 1].to
  BY SentenceIs
<1>2. IsLattice(sentence, nodes)
  BY LatticeIs
<1>3. /\ Len(inner) = last
      /\ \A i \in 1..last : inner[i] \in 2..Len(nodes) - 1 /\ IsLike(sentence, answer[i], nodes[inner[i]])
  BY AnswerIs
<1>4. Len(way) = last + 1 /\ way[last + 1] = Boundary(n) /\ \A i \in 1..last : way[i] = nodes[inner[i]]
  <2>1. Len(way) = last + 1 /\ way[last + 1] = nodes[Len(nodes)] /\ \A i \in 1..last : way[i] = nodes[inner[i]]
    BY <1>1, <1>3, ChainOfIs
  <2> QED
    BY <1>2, <2>1 DEF IsLattice
<1> HIDE DEF way, inner, nodes, answer, last
<1>5. ASSUME NEW i \in 1..last
      PROVE  IsIn(way[i], n) /\ way[i].from = answer[i].from /\ way[i].to = answer[i].to
  <2>1. IsIn(way[i], n) /\ way[i].from = answer[i].from /\ CmpEq(sentence, answer[i], way[i])
    BY <1>2, <1>3, <1>4 DEF IsLattice, IsLike
  <2>2. answer[i].to - answer[i].from = way[i].to - way[i].from
    BY <1>1, <2>1, EqualLengths
  <2> QED
    BY <1>1, <2>1, <2>2 DEF IsIn
<1>6. 1 \in 1..last /\ way[1].from = 0
  BY <1>1, <1>5
<1>7. ASSUME NEW i \in 2..last + 1 PROVE way[i].from = way[i - 1].to
  <2>1. CASE i = last + 1
    <3>1. i - 1 = last /\ last \in 1..last
      BY <1>1, <2>1
    <3> QED
      BY <1>1, <1>4, <1>5, <2>1, <3>1 DEF Boundary
  <2>2. CASE i # last + 1
    <3>1. i \in 1..last /\ i \in 2..last /\ i - 1 \in 1..last
      BY <1>1, <2>2
    <3> QED
      BY <1>1, <1>5, <3>1
  <2> QED
    BY <2>1, <2>2
<1>8. last + 1 \in Nat /\ last + 1 > 1 /\ (last + 1) - 1 = last
  BY <1>1
<1>9. \A i \in 1..(last + 1) - 1 : IsIn(way[i], n)
  BY <1>5, <1>8
<1> QED
  BY <1>4, <1>6, <1>7, <1>8, <1>9 DEF IsChain, way, inner, nodes, answer, last

ScoreSet == [crr : Nat, prec : Nat, recall : Nat, err : Nat]

IsScoreOf(sentence, chain, score) ==
  /\ score \in ScoreSet
  /\ score.prec = Len(sentence.answer) /\ score.recall = Len(chain)
  /\ score.crr <= score.prec /\ score.crr <= score.recall
  /\ score.err = One(~HasAnswer(sentence, chain))

LEMMA EvalIs ==
  ASSUME NEW sentence \in Sentences, NEW chain \in WaysThrough(sentence)
  PROVE  IsScoreOf(sentence, chain, Eval(sentence, chain))
<1> DEFINE nodes == NodesOf(sentence)
           answer == sentence.answer
           inner == AnswerOf(sentence)
           res == ChainOf(nodes, chain)
           ans == ChainOf(nodes, inner)
           R == Len(chain) + 1
           A == Len(answer) + 1
           score == Eval(sentence, chain)
<1>1. IsChain(sentence, res, R) /\ IsChain(sentence, ans, A)
  BY WayIsChain, AnswerIsChain
<1>2. Len(sentence.text) \in Nat /\ IsSequence(sentence.text) /\ Len(answer) \in Nat
  BY SentenceIs
<1>3. Len(chain) \in Nat /\ DOMAIN chain = 1..Len(chain)
  BY WayIsChain
<1>4. /\ score \in ScoreSet
      /\ score.prec = A - 1 /\ score.recall = R - 1
      /\ score.crr <= A - 1 /\ score.crr <= R - 1
      /\ score.err = One(~AreAlike(sentence, res, ans, R, A))
  <2> DEFINE c == CHOOSE c : c = [n \in 0..Len(res) + Len(ans) |->
               IF n = 0 THEN [r |-> 1, a |-> 1, resp |-> 0, ansp |-> 0, score |-> NoScore]
               ELSE EvalStep(sentence, res, ans, c[n - 1])]
  <2>1. score = c[Len(res) + Len(ans)].score
    BY DEF Eval, ChainOf
  <2> HIDE DEF res, ans, R, A, score
  <2> QED
    BY <1>1, <1>2, <2>1, EvalOfChains DEF ScoreSet
<1>5. AreAlike(sentence, res, ans, R, A) <=> HasAnswer(sentence, chain)
  <2>1. /\ Len(inner) = Len(answer)
        /\ \A i \in 1..Len(answer) : CmpEq(sentence, answer[i], nodes[inner[i]])
    BY AnswerIs DEF IsLike
  <2>2. \A i \in 1..Len(answer) : ans[i] = nodes[inner[i]]
    BY <1>2, <2>1, ChainOfIs
  <2>3. \A i \in 1..Len(chain) : res[i] = nodes[chain[i]]
    BY <1>3, ChainOfIs
  <2>4. NodesIn[sentence] = nodes
    BY DEF NodesIn
  <2>5. /\ R - 1 = Len(chain) /\ (R = A <=> Len(chain) = Len(answer))
    BY <1>2, <1>3
  <2> HIDE DEF res, ans, R, A, nodes, inner
  <2>6. ASSUME NEW i \in 1..Len(chain), Len(chain) = Len(answer)
        PROVE  CmpEq(sentence, ans[i], res[i]) <=> CmpEq(sentence, answer[i], nodes[chain[i]])
    <3>1. ans[i] = nodes[inner[i]] /\ CmpEq(sentence, answer[i], nodes[inner[i]]) /\ res[i] = nodes[chain[i]]
      BY <2>1, <2>2, <2>3, <2>6
    <3> QED
      BY <3>1 DEF CmpEq
  <2> QED
    BY <1>3, <2>4, <2>5, <2>6 DEF AreAlike, HasAnswer, answer
<1>6. A - 1 = Len(answer) /\ R - 1 = Len(chain)
  BY <1>2, <1>3
<1> HIDE DEF score, res, ans, R, A
<1> QED
  BY <1>4, <1>5, <1>6 DEF IsScoreOf, score, answer

(* What scores count: for every sentence of S, the score of the analysis it has. *)
Fields == {"crr", "prec", "recall", "err"}

ScoreOn(corpus, chains, field) ==
  [j \in 1..Len(corpus) |-> Lattices[corpus[j]].scores[chains[j]][field]]

HasScores(corpus, chains, score, S) ==
  /\ \A j \in S : chains[j] \in WaysThrough(corpus[j])
  /\ DOMAIN score = Fields
  /\ \A field \in Fields : score[field] = SumFunctionOnSet(ScoreOn(corpus, chains, field), S)

LEMMA ScoreIs ==
  ASSUME NEW sentence \in Sentences, NEW chain \in WaysThrough(sentence)
  PROVE  LET score == Lattices[sentence].scores[chain] IN
         /\ IsScoreOf(sentence, chain, score)
         /\ DOMAIN score = Fields /\ \A field \in Fields : score[field] \in Nat
<1>1. Lattices[sentence].scores[chain] = Eval(sentence, chain)
  BY DEF Lattices
<1>2. IsScoreOf(sentence, chain, Eval(sentence, chain))
  BY EvalIs
<1>3. ASSUME NEW score \in ScoreSet PROVE DOMAIN score = Fields /\ \A field \in Fields : score[field] \in Nat
  BY DEF ScoreSet, Fields
<1> QED
  BY <1>1, <1>2, <1>3 DEF IsScoreOf

LEMMA WaysAreScored ==
  ASSUME NEW sentence \in Sentences
  PROVE  DOMAIN Lattices[sentence].scores = WaysThrough(sentence)
BY DEF Lattices

(* Every analysis of a sentence of S is one of its lattice. *)
LEMMA ScoresSum ==
  ASSUME NEW corpus, IsCorpus(corpus), NEW chains, NEW S, S \subseteq 1..Len(corpus),
         \A j \in S : chains[j] \in WaysThrough(corpus[j]), NEW field \in Fields
  PROVE  /\ Summable(ScoreOn(corpus, chains, field), S)
         /\ SumFunctionOnSet(ScoreOn(corpus, chains, field), S) \in Int
<1>1. Len(corpus) \in Nat /\ \A j \in 1..Len(corpus) : corpus[j] \in Sentences
  BY LenProperties, ElementOfSeq DEF IsCorpus
<1>2. IsFiniteSet(S)
  <2>1. IsFiniteSet(1..Len(corpus))
    BY <1>1, FS_Interval
  <2> QED
    BY <2>1, FS_Subset
<1>3. ASSUME NEW j \in S PROVE ScoreOn(corpus, chains, field)[j] \in Int
  <2>1. j \in 1..Len(corpus) /\ corpus[j] \in Sentences /\ chains[j] \in WaysThrough(corpus[j])
    BY <1>1
  <2>2. Lattices[corpus[j]].scores[chains[j]][field] \in Nat
    BY <2>1, ScoreIs
  <2> QED
    BY <2>1, <2>2 DEF ScoreOn
<1>4. Summable(ScoreOn(corpus, chains, field), S)
  BY <1>2, <1>3 DEF Summable
<1> QED
  BY <1>4, SumFacts

LEMMA ScoresOfNone ==
  ASSUME NEW corpus, NEW chains
  PROVE  HasScores(corpus, chains, NoScore, {})
<1>1. DOMAIN NoScore = Fields /\ \A field \in Fields : NoScore[field] = 0
  BY DEF NoScore, Fields
<1> QED
  BY <1>1, SumOfNone DEF HasScores

(* Analyses of other sentences do not matter. *)
LEMMA ScoresStay ==
  ASSUME NEW corpus, IsCorpus(corpus), NEW chains, NEW others, NEW score, NEW S,
         S \subseteq 1..Len(corpus), HasScores(corpus, chains, score, S),
         \A j \in S : others[j] = chains[j]
  PROVE  HasScores(corpus, others, score, S)
<1>1. \A j \in S : chains[j] \in WaysThrough(corpus[j]) /\ others[j] \in WaysThrough(corpus[j])
  BY DEF HasScores
<1>2. ASSUME NEW field \in Fields
      PROVE  SumFunctionOnSet(ScoreOn(corpus, chains, field), S)
               = SumFunctionOnSet(ScoreOn(corpus, others, field), S)
  <2> DEFINE f == ScoreOn(corpus, chains, field)
             g == ScoreOn(corpus, others, field)
  <2>1. Summable(f, S)
    BY <1>1, ScoresSum
  <2>2. \A j \in S : f[j] = g[j]
    BY DEF ScoreOn
  <2> HIDE DEF f, g
  <2> QED
    BY <2>1, <2>2, SumSame DEF f, g
<1> QED
  BY <1>1, <1>2 DEF HasScores

LEMMA ScoresAdded ==
  ASSUME NEW corpus, IsCorpus(corpus), NEW chains, NEW score, NEW S, NEW j \in 1..Len(corpus),
         S \subseteq 1..Len(corpus), j \notin S, HasScores(corpus, chains, score, S),
         chains[j] \in WaysThrough(corpus[j])
  PROVE  HasScores(corpus, chains, AddScore(score, Lattices[corpus[j]].scores[chains[j]]), S \cup {j})
<1> DEFINE one == Lattices[corpus[j]].scores[chains[j]]
           next == AddScore(score, one)
<1>1. \A i \in S \cup {j} : chains[i] \in WaysThrough(corpus[i])
  BY DEF HasScores
<1>2. /\ DOMAIN score = Fields
      /\ \A field \in Fields : score[field] = SumFunctionOnSet(ScoreOn(corpus, chains, field), S)
  BY DEF HasScores
<1> HIDE DEF one
<1>3. DOMAIN next = Fields /\ \A field \in Fields : next[field] = score[field] + one[field]
  BY <1>2 DEF AddScore
<1> HIDE DEF next
<1>4. ASSUME NEW field \in Fields
      PROVE  next[field] = SumFunctionOnSet(ScoreOn(corpus, chains, field), S \cup {j})
  <2> DEFINE f == ScoreOn(corpus, chains, field)
  <2>1. Summable(f, S \cup {j})
    BY <1>1, ScoresSum
  <2>2. f[j] = one[field]
    BY DEF ScoreOn, one
  <2>3. SumFunctionOnSet(f, S) \in Int /\ f[j] \in Int
    <3>1. \A i \in S : chains[i] \in WaysThrough(corpus[i])
      BY <1>1
    <3> QED
      BY <2>1, <3>1, ScoresSum DEF Summable
  <2> HIDE DEF f
  <2>4. SumFunctionOnSet(f, S \cup {j}) = f[j] + SumFunctionOnSet(f, S)
    BY <2>1, SumAdds
  <2>5. score[field] = SumFunctionOnSet(f, S) /\ next[field] = score[field] + one[field]
    BY <1>2, <1>3 DEF f
  <2>6. next[field] = SumFunctionOnSet(f, S \cup {j})
    BY <2>2, <2>3, <2>4, <2>5
  <2> QED
    BY <2>6 DEF f
<1> QED
  BY <1>1, <1>3, <1>4 DEF HasScores, next, one

LEMMA ScoresOfBoth ==
  ASSUME NEW corpus, IsCorpus(corpus), NEW chains, NEW these, NEW those, AreParts(corpus, these, those),
         NEW a, NEW b, HasScores(corpus, chains, a, these), HasScores(corpus, chains, b, those)
  PROVE  HasScores(corpus, chains, AddScore(a, b), these \cup those)
<1> DEFINE next == AddScore(a, b)
<1>1. these \subseteq 1..Len(corpus) /\ those \subseteq 1..Len(corpus) /\ these \cap those = {}
  BY DEF AreParts
<1>2. \A j \in these \cup those : chains[j] \in WaysThrough(corpus[j])
  BY DEF HasScores
<1>3. DOMAIN next = Fields /\ \A field \in Fields : next[field] = a[field] + b[field]
  BY DEF AddScore, HasScores
<1> HIDE DEF next
<1>4. ASSUME NEW field \in Fields
      PROVE  next[field] = SumFunctionOnSet(ScoreOn(corpus, chains, field), these \cup those)
  <2> DEFINE f == ScoreOn(corpus, chains, field)
  <2>1. Summable(f, these \cup those)
    <3>1. these \cup those \subseteq 1..Len(corpus)
      BY <1>1
    <3> QED
      BY <1>2, <3>1, ScoresSum
  <2>2. a[field] = SumFunctionOnSet(f, these) /\ b[field] = SumFunctionOnSet(f, those)
    BY DEF HasScores
  <2> HIDE DEF f
  <2>3. SumFunctionOnSet(f, these \cup those) = SumFunctionOnSet(f, these) + SumFunctionOnSet(f, those)
    BY <1>1, <2>1, SumOfParts
  <2> QED
    BY <1>3, <2>2, <2>3 DEF f
<1> QED
  BY <1>2, <1>3, <1>4 DEF HasScores, next

(* Whose scores are summed up, where.  A thread that is done before its turn *)
(* to be started was left so by the last round.                              *)
ScoredThread(corpus, chains, threads, one, t, during, turn) ==
  /\ one.at = "loop" =>
       HasScores(corpus, chains, one.sum.score, Before(Len(corpus), threads, t, one.i))
  /\ one.at = "done" /\ during \in {"starting", "joining", "summing"} /\ (during = "starting" => t < turn) =>
       HasScores(corpus, chains, one.sum.score, Turns(Len(corpus), threads, t))

ScoredSum(corpus, chains, threads, score, during, turn) ==
  /\ during = "alone" => HasScores(corpus, chains, score, 1..turn)
  /\ during \in {"starting", "joining"} => HasScores(corpus, chains, score, {})
  /\ during = "summing" => HasScores(corpus, chains, score, OfFirst(Len(corpus), threads, turn))
  /\ during = "objective" => HasScores(corpus, chains, score, 1..Len(corpus))

BestAre(corpus, chains) == chains = [j \in 1..Len(corpus) |-> chains[j]]

(* The invariant of the scores. *)
ScoreInv ==
  /\ phase \in {"alone", "starting", "joining", "summing"} => BestAre(x, best)
  /\ \A t \in 0..threadNum - 1 : ScoredThread(x, best, threadNum, thread[t], t, phase, k)
  /\ ScoredSum(x, best, threadNum, total.score, phase, k)

(* Outside a round there is nothing to say. *)
LEMMA NotScored ==
  ASSUME TrainingInv', phase' \notin {"alone", "starting", "joining", "summing", "objective"}
  PROVE  ScoreInv'
<1>1. ASSUME NEW t \in 0..threadNum' - 1
      PROVE  ScoredThread(x', best', threadNum', thread'[t], t, phase', k')
  <2>1. MayBe(thread'[t].at, t, phase', k')
    BY DEF TrainingInv, ThreadsAreWhere
  <2> QED
    BY <2>1 DEF MayBe, ScoredThread
<1>2. ScoredSum(x', best', threadNum', total'.score, phase', k')
  BY DEF ScoredSum
<1> QED
  BY <1>1, <1>2 DEF ScoreInv

LEMMA BeginRoundScores ==
  ASSUME TrainingInv, BeginRound
  PROVE  ScoreInv'
<1>1. /\ phase = "round" /\ total' = Nothing /\ k' = 0 /\ UNCHANGED <<Main, thread>>
      /\ phase' \in {"starting", "alone"} /\ best' = [j \in DOMAIN x |-> <<>>]
  BY DEF BeginRound
<1>2. /\ DOMAIN x = 1..Len(x) /\ \A t \in 0..threadNum - 1 : MayBe(thread[t].at, t, phase, k)
  BY <1>1, RoundStarts
<1>3. UNCHANGED <<x, threadNum, thread>>
  BY <1>1 DEF Main, optionVars
<1>4. ASSUME NEW t \in 0..threadNum - 1 PROVE ScoredThread(x, best', threadNum, thread[t], t, phase', k')
  <2>1. thread[t].at # "loop"
    BY <1>1, <1>2 DEF MayBe
  <2>2. ~(t < k')
    BY <1>1
  <2> QED
    BY <1>1, <2>1, <2>2 DEF ScoredThread
<1>5. ScoredSum(x, best', threadNum, total'.score, phase', k')
  <2>1. 1..0 = {} /\ total'.score = NoScore
    BY <1>1 DEF Nothing
  <2>2. HasScores(x, best', NoScore, {})
    BY ScoresOfNone
  <2> QED
    BY <1>1, <2>1, <2>2 DEF ScoredSum
<1>6. BestAre(x, best')
  BY <1>1, <1>2 DEF BestAre
<1> QED
  BY <1>3, <1>4, <1>5, <1>6 DEF ScoreInv

LEMMA AloneScores ==
  ASSUME TrainingInv, ScoreInv, Alone
  PROVE  ScoreInv'
<1>1. PICK chain \in DOMAIN Lattices[x[k + 1]].scores :
        total' = Added(total, k, chain) /\ best' = [best EXCEPT ![k + 1] = chain]
  BY DEF Alone
<1>2. /\ phase = "alone" /\ k' = k + 1 /\ UNCHANGED <<Main, thread>>
      /\ phase' = IF k' = Len(x) THEN "objective" ELSE phase
  BY DEF Alone
<1>3. /\ Settled /\ Len(x) \in Nat
      /\ \A t \in 0..threadNum - 1 : MayBe(thread[t].at, t, phase, k)
      /\ k \in 0..Len(x) - 1
  BY <1>2, RoundStarts DEF SumIs
<1>4. UNCHANGED <<x, threadNum, thread>>
  BY <1>2 DEF Main, optionVars
<1>5. IsCorpus(x) /\ k + 1 \in 1..Len(x) /\ x[k + 1] \in Sentences
  BY <1>3, ElementOfSeq DEF Settled, IsCorpus
<1>6. BestAre(x, best) /\ HasScores(x, best, total.score, 1..k)
  BY <1>2 DEF ScoreInv, ScoredSum
<1>7. chain \in WaysThrough(x[k + 1])
  BY <1>1, <1>5, WaysAreScored
<1>8. best'[k + 1] = chain /\ \A j \in 1..k : best'[j] = best[j] /\ j # k + 1
  BY <1>1, <1>3, <1>5, <1>6 DEF BestAre
<1>9. HasScores(x, best', total'.score, 1..k + 1)
  <2>1. 1..k \subseteq 1..Len(x) /\ k + 1 \notin 1..k /\ (1..k) \cup {k + 1} = 1..k + 1
    BY <1>3
  <2>2. HasScores(x, best', total.score, 1..k)
    BY <1>5, <1>6, <1>8, <2>1, ScoresStay
  <2>3. total'.score = AddScore(total.score, Lattices[x[k + 1]].scores[best'[k + 1]])
    BY <1>1, <1>8 DEF Added
  <2>4. HasScores(x, best', AddScore(total.score, Lattices[x[k + 1]].scores[best'[k + 1]]), (1..k) \cup {k + 1})
    BY <1>5, <1>7, <1>8, <2>1, <2>2, ScoresAdded
  <2> QED
    BY <2>1, <2>3, <2>4
<1>10. ScoredSum(x, best', threadNum, total'.score, phase', k')
  BY <1>2, <1>9 DEF ScoredSum
<1>11. \A t \in 0..threadNum - 1 : ScoredThread(x, best', threadNum, thread[t], t, phase', k')
  BY <1>2, <1>3 DEF ScoredThread, MayBe
<1>12. BestAre(x, best')
  BY <1>1, <1>6 DEF BestAre
<1> QED
  BY <1>4, <1>10, <1>11, <1>12 DEF ScoreInv

(* What a step of a thread, or of the main thread, starts from. *)
LEMMA ScoresFrom ==
  ASSUME TrainingInv, ScoreInv, phase \in {"starting", "joining", "summing"}
  PROVE  /\ threadNum \in Nat \ {0} /\ Len(x) \in Nat /\ IsCorpus(x) /\ BestAre(x, best)
         /\ \A j \in 1..Len(x) : x[j] \in Sentences
         /\ thread = [t \in 0..threadNum - 1 |-> thread[t]]
         /\ k \in 0..threadNum - 1
         /\ \A t \in 0..threadNum - 1 :
              /\ thread[t] = [at |-> thread[t].at, i |-> thread[t].i, sum |-> thread[t].sum]
              /\ MayBe(thread[t].at, t, phase, k)
              /\ ScoredThread(x, best, threadNum, thread[t], t, phase, k)
         /\ ScoredSum(x, best, threadNum, total.score, phase, k)
<1>1. /\ Settled /\ threadNum \in Nat \ {0} /\ Len(x) \in Nat
      /\ \A t \in 0..threadNum - 1 :
           /\ thread[t] = [at |-> thread[t].at, i |-> thread[t].i, sum |-> thread[t].sum]
           /\ MayBe(thread[t].at, t, phase, k)
      /\ SumIs(x, dic, maxid, threadNum, total, phase, k)
  BY RoundStarts
<1>2. IsCorpus(x) /\ \A j \in 1..Len(x) : x[j] \in Sentences
  BY <1>1, ElementOfSeq DEF Settled, IsCorpus
<1>3. k \in 0..threadNum - 1
  BY <1>1 DEF SumIs
<1>4. thread = [t \in 0..threadNum - 1 |-> thread[t]]
  BY DEF TrainingInv, ThreadsAre
<1>5. /\ BestAre(x, best)
      /\ \A t \in 0..threadNum - 1 : ScoredThread(x, best, threadNum, thread[t], t, phase, k)
      /\ ScoredSum(x, best, threadNum, total.score, phase, k)
  BY DEF ScoreInv
<1> QED
  BY <1>1, <1>2, <1>3, <1>4, <1>5

(* One thread changes, and perhaps the analyses of its sentences. *)
LEMMA ThreadScores ==
  ASSUME phase' \in {"starting", "joining"}, UNCHANGED <<x, threadNum, total>>,
         NEW t \in 0..threadNum - 1, thread = [other \in 0..threadNum - 1 |-> thread[other]],
         NEW one, thread' = [thread EXCEPT ![t] = one], BestAre(x, best'),
         ScoredThread(x, best', threadNum, one, t, phase', k'),
         \A other \in 0..threadNum - 1 : other # t =>
           ScoredThread(x, best', threadNum, thread[other], other, phase', k'),
         HasScores(x, best', total.score, {})
  PROVE  ScoreInv'
<1>1. thread'[t] = one /\ \A other \in 0..threadNum - 1 : other # t => thread'[other] = thread[other]
  OBVIOUS
<1>2. \A other \in 0..threadNum - 1 : ScoredThread(x, best', threadNum, thread'[other], other, phase', k')
  BY <1>1
<1>3. ScoredSum(x, best', threadNum, total.score, phase', k')
  BY DEF ScoredSum
<1> QED
  BY <1>2, <1>3 DEF ScoreInv

LEMMA StartThreadScores ==
  ASSUME TrainingInv, ScoreInv, StartThread
  PROVE  ScoreInv'
<1> DEFINE one == [thread[k] EXCEPT !.at = "begin"]
<1>1. /\ phase = "starting" /\ k' = (k + 1) % threadNum /\ UNCHANGED <<Main, total>>
      /\ thread' = [thread EXCEPT ![k] = one] /\ best' = best
      /\ phase' = IF k' = 0 THEN "joining" ELSE phase
  BY DEF StartThread
<1>2. /\ threadNum \in Nat \ {0} /\ k \in 0..threadNum - 1 /\ BestAre(x, best)
      /\ thread = [t \in 0..threadNum - 1 |-> thread[t]]
      /\ \A t \in 0..threadNum - 1 :
           /\ thread[t] = [at |-> thread[t].at, i |-> thread[t].i, sum |-> thread[t].sum]
           /\ ScoredThread(x, best, threadNum, thread[t], t, phase, k)
      /\ HasScores(x, best, total.score, {})
  BY <1>1, ScoresFrom DEF ScoredSum
<1>3. one = [at |-> "begin", i |-> thread[k].i, sum |-> thread[k].sum]
  BY <1>2
<1> HIDE DEF one
<1>4. ScoredThread(x, best, threadNum, one, k, phase', k')
  BY <1>3 DEF ScoredThread
<1>5. /\ phase' = "starting" => k' = k + 1
      /\ phase' = "joining" => k = threadNum - 1
      /\ phase' \in {"starting", "joining"}
  <2>1. /\ k + 1 < threadNum => (k + 1) % threadNum = k + 1
        /\ k + 1 = threadNum => (k + 1) % threadNum = 0
    BY <1>2, NextTurn
  <2>2. k + 1 < threadNum \/ k + 1 = threadNum
    BY <1>2
  <2> QED
    BY <1>1, <1>2, <2>1, <2>2
<1>6. ASSUME NEW t \in 0..threadNum - 1, t # k
      PROVE  ScoredThread(x, best, threadNum, thread[t], t, phase', k')
  <2>1. phase' = "starting" => (t < k' => t < k)
    BY <1>2, <1>5, <1>6
  <2>2. phase' = "joining" => t < k
    BY <1>2, <1>5, <1>6
  <2>3. ScoredThread(x, best, threadNum, thread[t], t, phase, k)
    BY <1>2
  <2> QED
    BY <1>1, <1>5, <2>1, <2>2, <2>3 DEF ScoredThread
<1>7. UNCHANGED <<x, threadNum, total>>
  BY <1>1 DEF Main, optionVars
<1> QED
  BY <1>1, <1>2, <1>4, <1>5, <1>6, <1>7, ThreadScores

LEMMA ThreadBeginsScores ==
  ASSUME TrainingInv, ScoreInv, NEW t \in DOMAIN thread, ThreadBegins(t)
  PROVE  ScoreInv'
<1> DEFINE one == Reset(t)
<1>1. /\ thread[t].at = "begin" /\ thread' = [thread EXCEPT ![t] = one]
      /\ UNCHANGED <<Main, phase, k, total, best>>
  BY DEF ThreadBegins
<1>2. t \in 0..threadNum - 1
  BY DEF TrainingInv, ThreadsAre
<1>3. phase \in {"starting", "joining"}
  BY <1>1, <1>2 DEF TrainingInv, ThreadsAreWhere, MayBe
<1>4. /\ threadNum \in Nat \ {0} /\ Len(x) \in Nat /\ BestAre(x, best)
      /\ thread = [other \in 0..threadNum - 1 |-> thread[other]]
      /\ \A other \in 0..threadNum - 1 : ScoredThread(x, best, threadNum, thread[other], other, phase, k)
      /\ HasScores(x, best, total.score, {})
  BY <1>3, ScoresFrom DEF ScoredSum
<1>5. one = [at |-> "loop", i |-> t, sum |-> Nothing] /\ Nothing.score = NoScore
  BY DEF Reset, Nothing
<1> HIDE DEF one
<1>6. ScoredThread(x, best, threadNum, one, t, phase, k)
  <2>1. Before(Len(x), threadNum, t, t) = {}
    BY <1>2, <1>4, TurnsAre
  <2>2. HasScores(x, best, NoScore, {})
    BY ScoresOfNone
  <2> QED
    BY <1>5, <2>1, <2>2 DEF ScoredThread
<1>7. UNCHANGED <<x, threadNum, total, phase, k, best>>
  BY <1>1 DEF Main, optionVars
<1> QED
  BY <1>1, <1>2, <1>3, <1>4, <1>6, <1>7, ThreadScores

LEMMA ThreadSentenceScores ==
  ASSUME TrainingInv, ScoreInv, NEW t \in DOMAIN thread, ThreadSentence(t)
  PROVE  ScoreInv'
<1> DEFINE i == thread[t].i
           so == Before(Len(x), threadNum, t, i)
<1>1. /\ thread[t].at = "loop" /\ i < Len(x) /\ UNCHANGED <<Main, phase, k, total>>
  BY DEF ThreadSentence
<1>2. PICK chain \in DOMAIN Lattices[x[i + 1]].scores :
        /\ thread' = [thread EXCEPT ![t].sum = Added(thread[t].sum, i, chain), ![t].i = i + threadNum]
        /\ best' = [best EXCEPT ![i + 1] = chain]
  BY DEF ThreadSentence
<1>3. t \in 0..threadNum - 1
  BY DEF TrainingInv, ThreadsAre
<1>4. phase \in {"starting", "joining"}
  BY <1>1, <1>3 DEF TrainingInv, ThreadsAreWhere, MayBe
<1>5. /\ threadNum \in Nat \ {0} /\ Len(x) \in Nat /\ IsCorpus(x) /\ BestAre(x, best)
      /\ \A j \in 1..Len(x) : x[j] \in Sentences
      /\ thread = [other \in 0..threadNum - 1 |-> thread[other]]
      /\ thread[t] = [at |-> "loop", i |-> i, sum |-> thread[t].sum]
      /\ \A other \in 0..threadNum - 1 : ScoredThread(x, best, threadNum, thread[other], other, phase, k)
      /\ HasScores(x, best, total.score, {})
  BY <1>1, <1>3, <1>4, ScoresFrom DEF ScoredSum
<1>6. i \in Nat /\ i % threadNum = t /\ HasScores(x, best, thread[t].sum.score, so)
  <2>1. ThreadIs(x, dic, maxid, threadNum, thread[t], t) /\ ScoredThread(x, best, threadNum, thread[t], t, phase, k)
    BY <1>3, <1>5 DEF TrainingInv, ThreadsAre
  <2> QED
    BY <1>1, <2>1 DEF ThreadIs, ScoredThread
<1> DEFINE one == [at |-> "loop", i |-> i + threadNum, sum |-> Added(thread[t].sum, i, chain)]
<1>7. thread' = [thread EXCEPT ![t] = one]
  <2> DEFINE sum == Added(thread[t].sum, i, chain)
             then == i + threadNum
  <2>1. /\ InLoop(thread, 0..threadNum - 1, t)
        /\ thread' = [thread EXCEPT ![t].sum = sum, ![t].i = then]
    BY <1>2, <1>3, <1>5 DEF InLoop
  <2> HIDE DEF sum, then, i
  <2>2. Looped(thread, t, sum, then) = [thread EXCEPT ![t] = [at |-> "loop", i |-> then, sum |-> sum]]
    BY <2>1, OneSentence
  <2>3. thread' = Looped(thread, t, sum, then)
    BY <2>1 DEF Looped
  <2> QED
    BY <2>2, <2>3 DEF sum, then
<1>8. /\ i + 1 \in 1..Len(x) /\ i + 1 \notin so /\ Turn(i + 1, threadNum) = t
      /\ Before(Len(x), threadNum, t, i + threadNum) = so \cup {i + 1}
      /\ so \subseteq 1..Len(x)
  <2>1. so \subseteq 1..Len(x)
    BY DEF Before
  <2>2. PICK a \in Nat : a = i
    BY <1>6
  <2>3. /\ a + 1 \in 1..Len(x) /\ a + 1 \notin Before(Len(x), threadNum, t, a)
        /\ Before(Len(x), threadNum, t, a + threadNum) = Before(Len(x), threadNum, t, a) \cup {a + 1}
    <3>1. a % threadNum = t /\ a < Len(x)
      BY <1>1, <1>6, <2>2
    <3>2. Len(x) \in Nat /\ threadNum \in Nat \ {0}
      BY <1>5
    <3> QED
      BY <1>3, <3>1, <3>2, TurnTaken
  <2>4. (a + 1) - 1 = a
    OBVIOUS
  <2>5. Turn(a + 1, threadNum) = t
    BY <1>6, <2>2, <2>4 DEF Turn
  <2> HIDE DEF i
  <2> QED
    BY <2>1, <2>2, <2>3, <2>5
<1> HIDE DEF i, so
<1>9. chain \in WaysThrough(x[i + 1])
  BY <1>2, <1>5, <1>8, WaysAreScored
<1>10. /\ best'[i + 1] = chain /\ BestAre(x, best')
       /\ \A j \in 1..Len(x) : j # i + 1 => best'[j] = best[j]
  BY <1>2, <1>5, <1>8 DEF BestAre
<1>11. HasScores(x, best', one.sum.score, so \cup {i + 1})
  <2>1. HasScores(x, best', thread[t].sum.score, so)
    BY <1>5, <1>6, <1>8, <1>10, ScoresStay
  <2>2. one.sum.score = AddScore(thread[t].sum.score, Lattices[x[i + 1]].scores[best'[i + 1]])
    BY <1>10 DEF Added
  <2>3. HasScores(x, best', AddScore(thread[t].sum.score, Lattices[x[i + 1]].scores[best'[i + 1]]), so \cup {i + 1})
    BY <1>5, <1>8, <1>9, <1>10, <2>1, ScoresAdded
  <2> QED
    BY <2>2, <2>3
<1>12. ScoredThread(x, best', threadNum, one, t, phase, k)
  BY <1>8, <1>11 DEF ScoredThread
<1>13. ASSUME NEW other \in 0..threadNum - 1, other # t
       PROVE  ScoredThread(x, best', threadNum, thread[other], other, phase, k)
  <2> DEFINE them == thread[other]
  <2>1. ScoredThread(x, best, threadNum, them, other, phase, k)
    BY <1>5
  <2>2. ASSUME NEW S, S \subseteq Turns(Len(x), threadNum, other), NEW score, HasScores(x, best, score, S)
        PROVE  HasScores(x, best', score, S)
    <3>1. S \subseteq 1..Len(x) /\ \A j \in S : best'[j] = best[j]
      BY <1>8, <1>10, <1>13, <2>2 DEF Turns
    <3> QED
      BY <1>5, <2>2, <3>1, ScoresStay
  <2>3. Before(Len(x), threadNum, other, them.i) \subseteq Turns(Len(x), threadNum, other)
    BY DEF Before, Turns
  <2> HIDE DEF them
  <2> QED
    BY <2>1, <2>2, <2>3 DEF ScoredThread, them
<1>14. HasScores(x, best', total.score, {})
  BY <1>5, ScoresStay
<1>15. UNCHANGED <<x, threadNum, total, phase, k>>
  BY <1>1 DEF Main, optionVars
<1> HIDE DEF one
<1> QED
  BY <1>3, <1>4, <1>5, <1>7, <1>10, <1>12, <1>13, <1>14, <1>15, ThreadScores

LEMMA ThreadEndsScores ==
  ASSUME TrainingInv, ScoreInv, NEW t \in DOMAIN thread, ThreadEnds(t)
  PROVE  ScoreInv'
<1> DEFINE one == [thread[t] EXCEPT !.at = "done"]
<1>1. /\ thread[t].at = "loop" /\ thread[t].i >= Len(x) /\ UNCHANGED <<Main, phase, k, total, best>>
      /\ thread' = [thread EXCEPT ![t] = one]
  BY DEF ThreadEnds
<1>2. t \in 0..threadNum - 1
  BY DEF TrainingInv, ThreadsAre
<1>3. phase \in {"starting", "joining"}
  BY <1>1, <1>2 DEF TrainingInv, ThreadsAreWhere, MayBe
<1>4. /\ threadNum \in Nat \ {0} /\ Len(x) \in Nat /\ BestAre(x, best)
      /\ thread = [other \in 0..threadNum - 1 |-> thread[other]]
      /\ thread[t] = [at |-> thread[t].at, i |-> thread[t].i, sum |-> thread[t].sum]
      /\ \A other \in 0..threadNum - 1 : ScoredThread(x, best, threadNum, thread[other], other, phase, k)
      /\ HasScores(x, best, total.score, {})
  BY <1>2, <1>3, ScoresFrom DEF ScoredSum
<1>5. one = [at |-> "done", i |-> thread[t].i, sum |-> thread[t].sum]
  BY <1>4
<1> HIDE DEF one
<1>6. /\ thread[t].i \in Nat /\ thread[t].i % threadNum = t
      /\ HasScores(x, best, thread[t].sum.score, Before(Len(x), threadNum, t, thread[t].i))
  <2>1. ThreadIs(x, dic, maxid, threadNum, thread[t], t) /\ ScoredThread(x, best, threadNum, thread[t], t, phase, k)
    BY <1>2, <1>4 DEF TrainingInv, ThreadsAre
  <2> QED
    BY <1>1, <2>1 DEF ThreadIs, ScoredThread
<1>7. Before(Len(x), threadNum, t, thread[t].i) = Turns(Len(x), threadNum, t)
  <2>1. PICK i \in Nat : i = thread[t].i
    BY <1>6
  <2>2. i % threadNum = t /\ i >= Len(x) /\ Len(x) \in Nat /\ threadNum \in Nat \ {0}
    BY <1>1, <1>4, <1>6, <2>1
  <2>3. Before(Len(x), threadNum, t, i) = Turns(Len(x), threadNum, t)
    BY <1>2, <2>2, TurnTaken
  <2> QED
    BY <2>1, <2>3
<1>8. ScoredThread(x, best, threadNum, one, t, phase, k)
  BY <1>5, <1>6, <1>7 DEF ScoredThread
<1>9. UNCHANGED <<x, threadNum, total, phase, k, best>>
  BY <1>1 DEF Main, optionVars
<1> QED
  BY <1>1, <1>2, <1>3, <1>4, <1>8, <1>9, ThreadScores

LEMMA JoinThreadScores ==
  ASSUME TrainingInv, ScoreInv, JoinThread
  PROVE  ScoreInv'
<1>1. /\ phase = "joining" /\ k' = (k + 1) % threadNum
      /\ phase' = IF k' = 0 THEN "summing" ELSE phase
      /\ UNCHANGED Main /\ thread' = thread /\ total' = total /\ best' = best
  BY DEF JoinThread
<1>2. /\ threadNum \in Nat \ {0} /\ Len(x) \in Nat /\ BestAre(x, best)
      /\ \A t \in 0..threadNum - 1 : ScoredThread(x, best, threadNum, thread[t], t, phase, k)
      /\ HasScores(x, best, total.score, {})
  BY <1>1, ScoresFrom DEF ScoredSum
<1>3. phase' = "joining" \/ (phase' = "summing" /\ k' = 0)
  BY <1>1
<1>4. \A t \in 0..threadNum - 1 : ScoredThread(x, best, threadNum, thread[t], t, phase', k')
  BY <1>1, <1>2, <1>3 DEF ScoredThread
<1>5. ScoredSum(x, best, threadNum, total.score, phase', k')
  <2>1. OfFirst(Len(x), threadNum, 0) = {}
    BY <1>2, TurnsAre
  <2> QED
    BY <1>2, <1>3, <2>1 DEF ScoredSum
<1>6. UNCHANGED <<x, threadNum, thread, total, best>>
  BY <1>1 DEF Main, optionVars
<1> QED
  BY <1>2, <1>4, <1>5, <1>6 DEF ScoreInv

LEMMA SumThreadScores ==
  ASSUME TrainingInv, ScoreInv, SumThread
  PROVE  ScoreInv'
<1>1. /\ phase = "summing" /\ k' = (k + 1) % threadNum
      /\ phase' = IF k' = 0 THEN "objective" ELSE phase
      /\ UNCHANGED Main /\ thread' = thread /\ best' = best
      /\ total'.score = AddScore(total.score, thread[k].sum.score)
  BY DEF SumThread
<1>2. /\ threadNum \in Nat \ {0} /\ Len(x) \in Nat /\ IsCorpus(x) /\ BestAre(x, best)
      /\ k \in 0..threadNum - 1
      /\ \A t \in 0..threadNum - 1 :
           MayBe(thread[t].at, t, phase, k) /\ ScoredThread(x, best, threadNum, thread[t], t, phase, k)
      /\ HasScores(x, best, total.score, OfFirst(Len(x), threadNum, k))
  BY <1>1, ScoresFrom DEF ScoredSum
<1>3. HasScores(x, best, thread[k].sum.score, Turns(Len(x), threadNum, k))
  BY <1>1, <1>2 DEF MayBe, ScoredThread
<1>4. HasScores(x, best, total'.score, OfFirst(Len(x), threadNum, k + 1))
  <2> DEFINE before == OfFirst(Len(x), threadNum, k)
             turns == Turns(Len(x), threadNum, k)
  <2>1. before \cap turns = {} /\ OfFirst(Len(x), threadNum, k + 1) = before \cup turns
    BY <1>2, TurnsAre
  <2>2. AreParts(x, before, turns)
    BY <2>1 DEF AreParts, OfFirst, Turns
  <2> HIDE DEF before, turns
  <2>3. HasScores(x, best, AddScore(total.score, thread[k].sum.score), before \cup turns)
    BY <1>2, <1>3, <2>2, ScoresOfBoth DEF before, turns
  <2> QED
    BY <1>1, <2>1, <2>3
<1>5. /\ phase' = "summing" => k' = k + 1
      /\ phase' = "objective" => k + 1 = threadNum
      /\ phase' \in {"summing", "objective"}
  <2>1. /\ k + 1 < threadNum => (k + 1) % threadNum = k + 1
        /\ k + 1 = threadNum => (k + 1) % threadNum = 0
    BY <1>2, NextTurn
  <2>2. k + 1 < threadNum \/ k + 1 = threadNum
    BY <1>2
  <2> QED
    BY <1>1, <1>2, <2>1, <2>2
<1>6. ScoredSum(x, best, threadNum, total'.score, phase', k')
  <2>1. OfFirst(Len(x), threadNum, threadNum) = 1..Len(x)
    BY <1>2, TurnsAre
  <2> QED
    BY <1>4, <1>5, <2>1 DEF ScoredSum
<1>7. \A t \in 0..threadNum - 1 : ScoredThread(x, best, threadNum, thread[t], t, phase', k')
  <2>1. \A t \in 0..threadNum - 1 : thread[t].at = "done"
    BY <1>1, <1>2 DEF MayBe
  <2> QED
    BY <1>1, <1>2, <1>5, <2>1 DEF ScoredThread
<1>8. UNCHANGED <<x, threadNum, thread, best>>
  BY <1>1 DEF Main, optionVars
<1> QED
  BY <1>2, <1>6, <1>7, <1>8 DEF ScoreInv

LEMMA ScoresStutter ==
  ASSUME ScoreInv, UNCHANGED vars
  PROVE  ScoreInv'
<1>1. UNCHANGED <<phase, x, best, threadNum, thread, k, total>>
  BY DEF vars, optionVars, roundVars
<1> QED
  BY <1>1 DEF ScoreInv

LEMMA ScoresAreSums == Spec => []ScoreInv
<1>1. Init => ScoreInv
  <2> SUFFICES ASSUME Init PROVE ScoreInv
    OBVIOUS
  <2>1. phase = "reading" /\ \A t \in 0..threadNum - 1 : thread[t] = Idle
    BY DEF Init
  <2>2. Idle.at = "idle"
    BY DEF Idle
  <2>3. \A t \in 0..threadNum - 1 : ScoredThread(x, best, threadNum, thread[t], t, phase, k)
    BY <2>1, <2>2 DEF ScoredThread
  <2>4. ScoredSum(x, best, threadNum, total.score, phase, k)
    BY <2>1 DEF ScoredSum
  <2> QED
    BY <2>1, <2>3, <2>4 DEF ScoreInv
<1>2. TrainingInv /\ TrainingInv' /\ ScoreInv /\ [Next]_vars => ScoreInv'
  <2> SUFFICES ASSUME TrainingInv, TrainingInv', ScoreInv, [Next]_vars PROVE ScoreInv'
    OBVIOUS
  <2>1. ASSUME NEW sentence \in Sentences, Read(sentence) PROVE ScoreInv'
    BY <2>1, NotScored DEF Read
  <2>2. CASE CutOff
    BY <2>2, NotScored DEF CutOff
  <2>3. CASE BeginRound
    BY <2>3, BeginRoundScores
  <2>4. CASE Alone
    BY <2>4, AloneScores
  <2>5. CASE StartThread
    BY <2>5, StartThreadScores
  <2>6. ASSUME NEW t \in DOMAIN thread, ThreadBegins(t) \/ ThreadSentence(t) \/ ThreadEnds(t)
        PROVE  ScoreInv'
    BY <2>6, ThreadBeginsScores, ThreadSentenceScores, ThreadEndsScores
  <2>7. CASE JoinThread
    BY <2>7, JoinThreadScores
  <2>8. CASE SumThread
    BY <2>8, SumThreadScores
  <2>9. ASSUME NEW small \in BOOLEAN, Objective(small) PROVE ScoreInv'
    BY <2>9, NotScored DEF Objective
  <2>10. CASE Optimize
    BY <2>10, NotScored DEF Optimize
  <2>11. CASE Save
    BY <2>11, NotScored DEF Save
  <2>12. CASE UNCHANGED vars
    BY <2>12, ScoresStutter
  <2> QED
    BY <2>1, <2>2, <2>3, <2>4, <2>5, <2>6, <2>7, <2>8, <2>9, <2>10, <2>11, <2>12 DEF Next
<1> QED
  BY <1>1, <1>2, TrainingIsConsistent, PTL DEF Spec

(* The scores of the whole corpus, as the property states them. *)
LEMMA ExactWhenScored == TrainingInv /\ ScoreInv => ScoresExact
<1> SUFFICES ASSUME TrainingInv, ScoreInv, phase = "objective"
             PROVE  /\ total.score.err = Cardinality({i \in DOMAIN x : ~HasAnswer(x[i], best[i])})
                    /\ total.score.prec = SumFunction([i \in DOMAIN x |-> Len(x[i].answer)])
                    /\ total.score.recall = SumFunction([i \in DOMAIN x |-> Len(best[i])])
                    /\ total.score.crr <= total.score.prec /\ total.score.crr <= total.score.recall
  BY DEF ScoresExact
<1> DEFINE R == DOMAIN x
           f(field) == ScoreOn(x, best, field)
           sum(field) == SumFunctionOnSet(f(field), R)
           wrong == {i \in R : ~HasAnswer(x[i], best[i])}
           lines == [i \in R |-> Len(x[i].answer)]
           found == [i \in R |-> Len(best[i])]
<1>1. R = 1..Len(x) /\ Len(x) \in Nat /\ IsCorpus(x) /\ HasScores(x, best, total.score, R)
  <2>1. Settled /\ Len(x) \in Nat /\ R = 1..Len(x)
    BY RoundStarts
  <2> QED
    BY <2>1 DEF Settled, IsCorpus, ScoreInv, ScoredSum
<1>2. \A j \in R : x[j] \in Sentences /\ best[j] \in WaysThrough(x[j])
  BY <1>1, ElementOfSeq DEF IsCorpus, HasScores
<1>3. \A field \in Fields : Summable(f(field), R) /\ total.score[field] = sum(field) /\ sum(field) \in Int
  BY <1>1, <1>2, ScoresSum DEF HasScores
<1>4. ASSUME NEW j \in R
      PROVE  /\ f("err")[j] = One(~HasAnswer(x[j], best[j]))
             /\ f("prec")[j] = Len(x[j].answer) /\ f("recall")[j] = Len(best[j])
             /\ f("crr")[j] <= f("prec")[j] /\ f("crr")[j] <= f("recall")[j]
  <2> DEFINE score == Lattices[x[j]].scores[best[j]]
  <2>1. IsScoreOf(x[j], best[j], score)
    BY <1>2, ScoreIs
  <2>2. \A field : f(field)[j] = score[field]
    BY <1>1 DEF ScoreOn
  <2> HIDE DEF score, f
  <2>3. f("err")[j] = score.err /\ f("prec")[j] = score.prec /\ f("recall")[j] = score.recall /\ f("crr")[j] = score.crr
    BY <2>2
  <2> QED
    BY <2>1, <2>3 DEF IsScoreOf
<1>5. total.score.err = sum("err") /\ total.score.prec = sum("prec")
      /\ total.score.recall = sum("recall") /\ total.score.crr = sum("crr")
  <2> HIDE DEF sum, f
  <2> QED
    BY <1>3 DEF Fields
<1>6. /\ Summable(f("err"), R) /\ Summable(f("prec"), R) /\ Summable(f("recall"), R) /\ Summable(f("crr"), R)
  <2> HIDE DEF f
  <2> QED
    BY <1>3 DEF Fields
<1>7. sum("err") = Cardinality(wrong)
  <2>1. IsFiniteSet(R) /\ R \cap wrong = wrong
    BY <1>1, FS_Interval
  <2>2. \A j \in R : f("err")[j] = IF j \in wrong THEN 1 ELSE 0
    BY <1>4 DEF One
  <2> HIDE DEF wrong, f, R
  <2>3. SumFunctionOnSet(f("err"), R) = Cardinality(R \cap wrong)
    BY <2>1, <2>2, SumOfOnes
  <2> QED
    BY <2>1, <2>3
<1>8. sum("prec") = SumFunction(lines)
  <2>1. DOMAIN lines = R /\ \A j \in R : f("prec")[j] = lines[j]
    BY <1>4
  <2> HIDE DEF lines, f, R
  <2>2. SumFunctionOnSet(f("prec"), R) = SumFunctionOnSet(lines, R)
    BY <1>6, <2>1, SumSame
  <2> QED
    BY <2>1, <2>2 DEF SumFunction
<1>9. sum("recall") = SumFunction(found)
  <2>1. DOMAIN found = R /\ \A j \in R : f("recall")[j] = found[j]
    BY <1>4
  <2> HIDE DEF found, f, R
  <2>2. SumFunctionOnSet(f("recall"), R) = SumFunctionOnSet(found, R)
    BY <1>6, <2>1, SumSame
  <2> QED
    BY <2>1, <2>2 DEF SumFunction
<1>10. sum("crr") <= sum("prec") /\ sum("crr") <= sum("recall")
  <2> HIDE DEF f, R
  <2> QED
    BY <1>4, <1>6, SumNotMore
<1> QED
  BY <1>5, <1>7, <1>8, <1>9, <1>10

(* err is the number of the sentences whose analysis is not the answer,     *)
(* prec and recall are the numbers of all morphemes of the answers and of   *)
(* the analyses, and crr is at most either, with every sentence counted     *)
(* once: whatever way viterbi() left in its lattice, however many threads   *)
(* score how many sentences in whatever order, and although eval() moves a  *)
(* cursor by the length of the node it moves to and not of the one it has   *)
(* compared.                                                                *)
THEOREM ScoresAreExact == Spec => []ScoresExact
BY TrainingIsConsistent, ScoresAreSums, ExactWhenScored, PTL

-----------------------------------------------------------------------------
(***************************************************************************)
(* Part IX: the counts of mecab-system-eval, for files of any number of    *)
(* sentences and any segmentation of them into surfaces that are not       *)
(* empty, the first level being the surfaces.                              *)
(*                                                                         *)
(* Each cursor is at the place where its morpheme begins, and whatever it  *)
(* has passed begins before the other one's place (Walked): no pair of     *)
(* morphemes at one place is missed.                                       *)
(***************************************************************************)
IsOutput(r) ==
  /\ Len(r) \in Nat /\ DOMAIN r = 1..Len(r)
  /\ \A j \in 1..Len(r) : Len(r[j].surface) \in Nat \ {0} /\ IsSequence(r[j].fields)

Lens(r) == [i \in 1..Len(r) |-> Len(r[i].surface)]

(* Where a morpheme begins, the place behind the last one among them. *)
At(r, j) == SumFunctionOnSet(Lens(r), 1..j - 1)

LEMMA PlacesGrow ==
  ASSUME NEW r, IsOutput(r)
  PROVE  /\ At(r, 1) = 0
         /\ \A j \in 1..Len(r) + 1 : At(r, j) \in Nat
         /\ \A j \in 1..Len(r) : At(r, j + 1) = At(r, j) + Len(r[j].surface)
         /\ \A i, j \in 1..Len(r) + 1 : i < j => At(r, i) < At(r, j)
<1> DEFINE R == Len(r)
<1>1. R \in Nat /\ \A j \in 1..R : Lens(r)[j] = Len(r[j].surface) /\ Lens(r)[j] \in Nat \ {0}
  BY DEF IsOutput, Lens
<1> HIDE DEF R
<1>2. At(r, 1) = 0
  <2>1. 1..1 - 1 = {}
    OBVIOUS
  <2> QED
    BY <2>1, SumOfNone DEF At
<1>3. ASSUME NEW j \in 1..R, At(r, j) \in Nat
      PROVE  At(r, j + 1) = At(r, j) + Len(r[j].surface) /\ At(r, j + 1) \in Nat
  <2>1. PICK m \in Nat : m = j - 1 /\ m + 1 = j
    BY <1>1
  <2>2. \A i \in 1..m + 1 : Lens(r)[i] \in Int
    BY <1>1, <2>1
  <2>3. SumFunctionOnSet(Lens(r), 1..m + 1) = Lens(r)[m + 1] + SumFunctionOnSet(Lens(r), 1..m)
    BY <2>2, SumOfOneMore
  <2>4. (j + 1) - 1 = j
    OBVIOUS
  <2>5. At(r, j + 1) = Lens(r)[j] + At(r, j)
    BY <2>1, <2>3, <2>4 DEF At
  <2>6. Lens(r)[j] \in Nat /\ Lens(r)[j] = Len(r[j].surface)
    BY <1>1
  <2> QED
    BY <1>3, <2>5, <2>6
<1> DEFINE U == {j \in Nat : j \in 1..R + 1 => At(r, j) \in Nat}
           V == {j \in Nat : j \in 1..R + 1 => \A i \in 1..j - 1 : At(r, i) < At(r, j)}
<1>4. \A j \in 1..R + 1 : At(r, j) \in Nat
  <2>1. 1 \in U
    BY <1>2
  <2>2. ASSUME NEW j \in 1..(R + 1) - 1, j \in U PROVE j + 1 \in U
    <3>1. j \in 1..R /\ j \in 1..R + 1 /\ j + 1 \in Nat
      BY <1>1
    <3> QED
      BY <1>3, <2>2, <3>1
  <2>3. 1..R + 1 \subseteq U
    <3> HIDE DEF U
    <3>1. PICK m \in Nat : m = R + 1
      BY <1>1
    <3>2. \A j \in 1..m - 1 : j \in U => j + 1 \in U
      BY <2>2, <3>1
    <3>3. 1..m \subseteq U
      BY <2>1, <3>2, IntervalInduction
    <3> QED
      BY <3>1, <3>3
  <2> QED
    BY <2>3
<1>5. \A i, j \in 1..R + 1 : i < j => At(r, i) < At(r, j)
  <2>1. 1 \in V
    OBVIOUS
  <2>2. ASSUME NEW j \in 1..(R + 1) - 1, j \in V PROVE j + 1 \in V
    <3>1. j \in 1..R /\ j \in 1..R + 1 /\ j + 1 \in Nat /\ (j + 1) - 1 = j
      BY <1>1
    <3>2. At(r, j) \in Nat /\ At(r, j + 1) = At(r, j) + Len(r[j].surface) /\ Len(r[j].surface) \in Nat \ {0}
      BY <1>1, <1>3, <1>4, <3>1
    <3>3. At(r, j) < At(r, j + 1)
      BY <3>2
    <3>4. ASSUME NEW i \in 1..j PROVE At(r, i) < At(r, j + 1)
      <4>1. CASE i = j
        BY <3>3, <4>1
      <4>2. CASE i # j
        <5>1. i \in 1..j - 1 /\ i \in 1..R + 1
          BY <1>1, <4>2
        <5>2. At(r, i) < At(r, j) /\ At(r, i) \in Nat
          BY <1>4, <2>2, <3>1, <5>1
        <5>3. At(r, j + 1) \in Nat
          BY <1>3, <1>4, <3>1
        <5> QED
          BY <3>2, <3>3, <5>2, <5>3
      <4> QED
        BY <4>1, <4>2
    <3> QED
      BY <3>1, <3>4
  <2>3. 1..R + 1 \subseteq V
    <3> HIDE DEF V
    <3>1. PICK m \in Nat : m = R + 1
      BY <1>1
    <3>2. \A j \in 1..m - 1 : j \in V => j + 1 \in V
      BY <2>2, <3>1
    <3>3. 1..m \subseteq V
      BY <2>1, <3>2, IntervalInduction
    <3> QED
      BY <3>1, <3>3
  <2>4. \A i, j \in 1..R + 1 : i < j => i \in 1..j - 1
    BY <1>1
  <2> QED
    BY <2>3, <2>4
<1> QED
  BY <1>2, <1>3, <1>4, <1>5 DEF R

(* A column of the surface alone is as long as the surface. *)
LEMMA AdvanceIs ==
  ASSUME NEW morpheme, IsSequence(morpheme.fields), Len(morpheme.surface) \in Nat,
         NEW levels, levels[1] = 0
  PROVE  Advance(morpheme, levels) = Len(morpheme.surface)
<1> DEFINE T == ToSet(morpheme.fields)
<1>1. PICK f \in Seq(T) : f = morpheme.fields
  BY DEF IsSequence
<1> HIDE DEF T
<1>2. Len(SubSeq(f, 1, 0)) = 0
  OBVIOUS
<1> QED
  BY <1>1, <1>2 DEF Advance, Bytes, Column

(* The morphemes a cursor has passed. *)
Placing(r, j, level) == [at |-> At(r, j), is |-> Column(r[j], level)]
Upto(r, j, level) == {Placing(r, i, level) : i \in 1..j - 1}
Both(r1, r2, i1, i2, level) == Upto(r1, i1, level) \cap Upto(r2, i2, level)

LEMMA PlacedIs ==
  ASSUME NEW r, IsOutput(r), NEW level
  PROVE  Placed(r, level) = Upto(r, Len(r) + 1, level)
<1>1. Len(r) \in Nat /\ DOMAIN r = 1..Len(r) /\ (Len(r) + 1) - 1 = Len(r)
  BY DEF IsOutput
<1>2. ASSUME NEW j \in 1..Len(r)
      PROVE  SumFunction([i \in 1..j - 1 |-> Len(r[i].surface)]) = At(r, j)
  <2> DEFINE f == [i \in 1..j - 1 |-> Len(r[i].surface)]
  <2>1. IsFiniteSet(1..j - 1)
    BY <1>1, FS_Interval
  <2>2. ASSUME NEW i \in 1..j - 1 PROVE f[i] \in Int /\ f[i] = Lens(r)[i]
    <3>1. i \in 1..Len(r)
      BY <1>1
    <3> QED
      BY <3>1 DEF IsOutput, Lens
  <2>3. SumFunction(f) = SumFunctionOnSet(f, 1..j - 1)
    BY DEF SumFunction
  <2> HIDE DEF f
  <2>4. Summable(f, 1..j - 1)
    BY <2>1, <2>2 DEF Summable
  <2>5. SumFunctionOnSet(f, 1..j - 1) = SumFunctionOnSet(Lens(r), 1..j - 1)
    BY <2>2, <2>4, SumSame
  <2> QED
    BY <2>3, <2>5 DEF f, At
<1>3. Placed(r, level) = {[at |-> SumFunction([i \in 1..j - 1 |-> Len(r[i].surface)]),
                           is |-> Column(r[j], level)] : j \in 1..Len(r)}
  BY <1>1 DEF Placed
<1> QED
  BY <1>1, <1>2, <1>3 DEF Upto, Placing

LEMMA UptoNext ==
  ASSUME NEW r, NEW j \in Nat \ {0}, NEW level
  PROVE  Upto(r, j + 1, level) = Upto(r, j, level) \cup {Placing(r, j, level)}
<1>1. 1..(j + 1) - 1 = (1..j - 1) \cup {j}
  OBVIOUS
<1> QED
  BY <1>1 DEF Upto

NoneAt(r, j, place) == \A i \in 1..j - 1 : At(r, i) # place

LEMMA UptoPlaces ==
  ASSUME NEW r, NEW j, NEW level, NEW place, NoneAt(r, j, place)
  PROVE  \A e \in Upto(r, j, level) : e.at # place
BY DEF Upto, Placing, NoneAt

LEMMA UptoFinite ==
  ASSUME NEW r, NEW j \in Nat \ {0}, NEW level
  PROVE  IsFiniteSet(Upto(r, j, level))
<1> DEFINE T == {i \in Nat : IsFiniteSet(Upto(r, i + 1, level))}
<1>1. 0 \in T
  <2>1. Upto(r, 0 + 1, level) = {}
    BY DEF Upto
  <2> QED
    BY <2>1, FS_EmptySet
<1>2. ASSUME NEW i \in Nat, i \in T PROVE i + 1 \in T
  <2>1. Upto(r, (i + 1) + 1, level) = Upto(r, i + 1, level) \cup {Placing(r, i + 1, level)}
    BY UptoNext
  <2>2. IsFiniteSet(Upto(r, (i + 1) + 1, level))
    BY <1>2, <2>1, FS_AddElement
  <2> QED
    BY <2>2
<1>3. Nat \subseteq T
  <2> HIDE DEF T
  <2> QED
    BY <1>1, <1>2, NatSetInduction
<1>4. j - 1 \in T /\ (j - 1) + 1 = j
  BY <1>3
<1> QED
  BY <1>4

(* A cursor alone moves on where the other one has passed nothing, *)
LEMMA BothStay ==
  ASSUME NEW r1, NEW r2, NEW i1 \in Nat \ {0}, NEW i2, NEW level,
         NoneAt(r2, i2, At(r1, i1))
  PROVE  Both(r1, r2, i1 + 1, i2, level) = Both(r1, r2, i1, i2, level)
<1>1. Upto(r1, i1 + 1, level) = Upto(r1, i1, level) \cup {Placing(r1, i1, level)}
  BY UptoNext
<1>2. Placing(r1, i1, level) \notin Upto(r2, i2, level)
  <2>1. \A e \in Upto(r2, i2, level) : e.at # At(r1, i1)
    BY UptoPlaces
  <2> QED
    BY <2>1 DEF Placing
<1> QED
  BY <1>1, <1>2 DEF Both

LEMMA BothCommute ==
  ASSUME NEW r1, NEW r2, NEW i1, NEW i2, NEW level
  PROVE  Both(r1, r2, i1, i2, level) = Both(r2, r1, i2, i1, level)
BY DEF Both

(* and both find a morpheme in common if it is alike. *)
LEMMA BothGrow ==
  ASSUME NEW r1, NEW r2, NEW i1 \in Nat \ {0}, NEW i2 \in Nat \ {0}, NEW level,
         At(r1, i1) = At(r2, i2), NoneAt(r1, i1, At(r2, i2)), NoneAt(r2, i2, At(r1, i1))
  PROVE  LET new == Cardinality(Both(r1, r2, i1 + 1, i2 + 1, level))
             old == Cardinality(Both(r1, r2, i1, i2, level))
         IN  /\ Column(r1[i1], level) = Column(r2[i2], level) => new = old + 1
             /\ Column(r1[i1], level) # Column(r2[i2], level) => new = old
<1> DEFINE A == Upto(r1, i1, level)
           B == Upto(r2, i2, level)
           a == Placing(r1, i1, level)
           b == Placing(r2, i2, level)
<1>1. Upto(r1, i1 + 1, level) = A \cup {a} /\ Upto(r2, i2 + 1, level) = B \cup {b}
  BY UptoNext
<1>2. a \notin B /\ b \notin A
  <2>1. (\A e \in B : e.at # At(r1, i1)) /\ (\A e \in A : e.at # At(r2, i2))
    BY UptoPlaces
  <2>2. a.at = At(r1, i1) /\ b.at = At(r2, i2)
    BY DEF Placing
  <2> HIDE DEF A, B, a, b
  <2> QED
    BY <2>1, <2>2
<1>3. a = b <=> Column(r1[i1], level) = Column(r2[i2], level)
  BY DEF Placing
<1>4. IsFiniteSet(A \cap B)
  <2>1. IsFiniteSet(A)
    BY UptoFinite
  <2> HIDE DEF A, B
  <2> QED
    BY <2>1, FS_Intersection
<1> HIDE DEF A, B, a, b
<1>5. CASE a = b
  <2>1. (A \cup {a}) \cap (B \cup {b}) = (A \cap B) \cup {a} /\ a \notin A \cap B
    BY <1>2, <1>5
  <2>2. Cardinality((A \cap B) \cup {a}) = Cardinality(A \cap B) + 1
    BY <1>4, <2>1, FS_AddElement
  <2> QED
    BY <1>1, <1>3, <1>5, <2>1, <2>2 DEF Both, A, B
<1>6. CASE a # b
  <2>1. (A \cup {a}) \cap (B \cup {b}) = A \cap B
    BY <1>2, <1>6
  <2> QED
    BY <1>1, <1>3, <1>6, <2>1 DEF Both, A, B
<1> QED
  BY <1>5, <1>6

-----------------------------------------------------------------------------
(* The walk over a pair of sentences. *)
Counts(D) == [table : [D -> Nat], prec : Nat, recall : Nat]

Walks(r1, r2, D) ==
  [i1 : 1..Len(r1) + 1, i2 : 1..Len(r2) + 1, p1 : Nat, p2 : Nat,
   table : [D -> Nat], prec : Nat, recall : Nat]

LEMMA WalkIs ==
  ASSUME NEW r1, IsOutput(r1), NEW r2, IsOutput(r2), NEW levels, levels[1] = 0,
         NEW c \in Walks(r1, r2, DOMAIN levels), c.i1 <= Len(r1), c.i2 <= Len(r2)
  PROVE  LET d == Walk(r1, r2, levels, c)
             same(l) == Column(r1[c.i1], levels[l]) = Column(r2[c.i2], levels[l])
         IN  /\ d \in Walks(r1, r2, DOMAIN levels)
             /\ IF c.p1 <= c.p2
                THEN d.i1 = c.i1 + 1 /\ d.p1 = c.p1 + Len(r1[c.i1].surface) /\ d.prec = c.prec + 1
                ELSE d.i1 = c.i1 /\ d.p1 = c.p1 /\ d.prec = c.prec
             /\ IF c.p2 <= c.p1
                THEN d.i2 = c.i2 + 1 /\ d.p2 = c.p2 + Len(r2[c.i2].surface) /\ d.recall = c.recall + 1
                ELSE d.i2 = c.i2 /\ d.p2 = c.p2 /\ d.recall = c.recall
             /\ \A l \in DOMAIN levels :
                  d.table[l] = IF c.p1 = c.p2 /\ same(l) THEN c.table[l] + 1 ELSE c.table[l]
<1> DEFINE D == DOMAIN levels
           first == c.p1 <= c.p2
           second == c.p2 <= c.p1
           same(l) == Column(r1[c.i1], levels[l]) = Column(r2[c.i2], levels[l])
           q1 == IF first THEN c.p1 + Len(r1[c.i1].surface) ELSE c.p1
           q2 == IF second THEN c.p2 + Len(r2[c.i2].surface) ELSE c.p2
           j1 == IF first THEN c.i1 + 1 ELSE c.i1
           j2 == IF second THEN c.i2 + 1 ELSE c.i2
           table == [l \in D |-> IF first /\ second /\ same(l) THEN c.table[l] + 1 ELSE c.table[l]]
           prec == IF first THEN c.prec + 1 ELSE c.prec
           recall == IF second THEN c.recall + 1 ELSE c.recall
<1>1. /\ Len(r1) \in Nat /\ Len(r2) \in Nat
      /\ c.i1 \in 1..Len(r1) /\ c.i2 \in 1..Len(r2) /\ c.p1 \in Nat /\ c.p2 \in Nat
      /\ c.table \in [D -> Nat] /\ c.prec \in Nat /\ c.recall \in Nat
  BY DEF IsOutput, Walks
<1>2. /\ Len(r1[c.i1].surface) \in Nat /\ IsSequence(r1[c.i1].fields)
      /\ Len(r2[c.i2].surface) \in Nat /\ IsSequence(r2[c.i2].fields)
  BY <1>1 DEF IsOutput
<1>3. /\ Advance(r1[c.i1], levels) = Len(r1[c.i1].surface)
      /\ Advance(r2[c.i2], levels) = Len(r2[c.i2].surface)
  BY <1>2, AdvanceIs
<1>4. Walk(r1, r2, levels, c) =
        [i1 |-> j1, i2 |-> j2, p1 |-> q1, p2 |-> q2, table |-> table, prec |-> prec, recall |-> recall]
  BY <1>3 DEF Walk
<1>5. q1 \in Nat /\ q2 \in Nat
  <2>1. c.p1 + Len(r1[c.i1].surface) \in Nat
    BY <1>1, <1>2
  <2>2. c.p2 + Len(r2[c.i2].surface) \in Nat
    BY <1>1, <1>2
  <2> HIDE DEF first, second
  <2> QED
    BY <1>1, <2>1, <2>2
<1>6. j1 \in 1..Len(r1) + 1 /\ j2 \in 1..Len(r2) + 1
  <2>1. c.i1 \in 1..Len(r1) + 1 /\ c.i1 + 1 \in 1..Len(r1) + 1
    BY <1>1
  <2>2. c.i2 \in 1..Len(r2) + 1 /\ c.i2 + 1 \in 1..Len(r2) + 1
    BY <1>1
  <2> HIDE DEF first, second
  <2> QED
    BY <2>1, <2>2
<1>7. prec \in Nat /\ recall \in Nat
  BY <1>1
<1>8. table \in [D -> Nat]
  <2>1. ASSUME NEW l \in D
        PROVE  (IF first /\ second /\ same(l) THEN c.table[l] + 1 ELSE c.table[l]) \in Nat
    <3>1. c.table[l] \in Nat
      BY <1>1
    <3> QED
      BY <3>1
  <2> HIDE DEF first, second, same
  <2> QED
    BY <2>1
<1>9. Walk(r1, r2, levels, c) \in Walks(r1, r2, D)
  <2> HIDE DEF j1, j2, q1, q2, table, prec, recall
  <2> QED
    BY <1>4, <1>5, <1>6, <1>7, <1>8 DEF Walks
<1>10. first /\ second <=> c.p1 = c.p2
  BY <1>1
<1>11. ASSUME NEW l \in D
       PROVE  table[l] = IF c.p1 = c.p2 /\ same(l) THEN c.table[l] + 1 ELSE c.table[l]
  <2> HIDE DEF same
  <2> QED
    BY <1>10
<1> DEFINE d == Walk(r1, r2, levels, c)
<1>12. /\ d.i1 = j1 /\ d.i2 = j2 /\ d.p1 = q1 /\ d.p2 = q2
       /\ d.table = table /\ d.prec = prec /\ d.recall = recall
  <2> HIDE DEF j1, j2, q1, q2, table, prec, recall
  <2> QED
    BY <1>4
<1> HIDE DEF d
<1>13. /\ IF c.p1 <= c.p2
          THEN d.i1 = c.i1 + 1 /\ d.p1 = c.p1 + Len(r1[c.i1].surface) /\ d.prec = c.prec + 1
          ELSE d.i1 = c.i1 /\ d.p1 = c.p1 /\ d.prec = c.prec
       /\ IF c.p2 <= c.p1
          THEN d.i2 = c.i2 + 1 /\ d.p2 = c.p2 + Len(r2[c.i2].surface) /\ d.recall = c.recall + 1
          ELSE d.i2 = c.i2 /\ d.p2 = c.p2 /\ d.recall = c.recall
  BY <1>12
<1>14. \A l \in D : d.table[l] = IF c.p1 = c.p2 /\ same(l) THEN c.table[l] + 1 ELSE c.table[l]
  <2> HIDE DEF same, table
  <2> QED
    BY <1>11, <1>12
<1> QED
  BY <1>9, <1>13, <1>14 DEF d

(* After m rounds: what each cursor has passed begins before the place of the *)
(* other one, and the common part of what they have passed has been counted.  *)
Walked(r1, r2, levels, from, m, c) ==
  /\ c \in Walks(r1, r2, DOMAIN levels)
  /\ c.p1 = At(r1, c.i1) /\ c.p2 = At(r2, c.i2)
  /\ \A j \in 1..c.i1 - 1 : At(r1, j) < c.p2
  /\ \A j \in 1..c.i2 - 1 : At(r2, j) < c.p1
  /\ \A l \in DOMAIN levels :
       c.table[l] = from.table[l] + Cardinality(Both(r1, r2, c.i1, c.i2, levels[l]))
  /\ c.prec = from.prec + (c.i1 - 1) /\ c.recall = from.recall + (c.i2 - 1)
  /\ c.i1 = Len(r1) + 1 \/ c.i2 = Len(r2) + 1 \/ c.i1 + c.i2 >= m + 2

(* What is known of a pair of cursors before a round. *)
LEMMA WalkedFacts ==
  ASSUME NEW r1, IsOutput(r1), NEW r2, IsOutput(r2), NEW levels,
         NEW from \in Counts(DOMAIN levels), NEW m \in Nat, NEW c, Walked(r1, r2, levels, from, m, c)
  PROVE  /\ Len(r1) \in Nat /\ Len(r2) \in Nat
         /\ c.i1 \in 1..Len(r1) + 1 /\ c.i2 \in 1..Len(r2) + 1
         /\ c.p1 = At(r1, c.i1) /\ c.p2 = At(r2, c.i2) /\ c.p1 \in Nat /\ c.p2 \in Nat
         /\ \A j \in 1..c.i1 - 1 : At(r1, j) \in Nat /\ At(r1, j) < c.p1 /\ At(r1, j) < c.p2
         /\ \A j \in 1..c.i2 - 1 : At(r2, j) \in Nat /\ At(r2, j) < c.p2 /\ At(r2, j) < c.p1
         /\ c.prec = from.prec + (c.i1 - 1) /\ c.recall = from.recall + (c.i2 - 1)
         /\ from.prec \in Nat /\ from.recall \in Nat
<1>1. /\ Len(r1) \in Nat /\ Len(r2) \in Nat
      /\ c.i1 \in 1..Len(r1) + 1 /\ c.i2 \in 1..Len(r2) + 1
      /\ c.p1 \in Nat /\ c.p2 \in Nat /\ from.prec \in Nat /\ from.recall \in Nat
  BY DEF Walked, Walks, IsOutput, Counts
<1>2. /\ c.p1 = At(r1, c.i1) /\ c.p2 = At(r2, c.i2)
      /\ \A j \in 1..c.i1 - 1 : At(r1, j) < c.p2
      /\ \A j \in 1..c.i2 - 1 : At(r2, j) < c.p1
      /\ c.prec = from.prec + (c.i1 - 1) /\ c.recall = from.recall + (c.i2 - 1)
  BY DEF Walked
<1>3. \A j \in 1..c.i1 - 1 : At(r1, j) \in Nat /\ At(r1, j) < At(r1, c.i1)
  <2>1. \A j \in 1..c.i1 - 1 : j \in 1..Len(r1) + 1 /\ j < c.i1
    BY <1>1
  <2> QED
    BY <1>1, <2>1, PlacesGrow
<1>4. \A j \in 1..c.i2 - 1 : At(r2, j) \in Nat /\ At(r2, j) < At(r2, c.i2)
  <2>1. \A j \in 1..c.i2 - 1 : j \in 1..Len(r2) + 1 /\ j < c.i2
    BY <1>1
  <2> QED
    BY <1>1, <2>1, PlacesGrow
<1> QED
  BY <1>1, <1>2, <1>3, <1>4

LEMMA WalkStep ==
  ASSUME NEW r1, IsOutput(r1), NEW r2, IsOutput(r2), NEW levels, levels[1] = 0,
         NEW from \in Counts(DOMAIN levels), NEW m \in Nat,
         NEW c, Walked(r1, r2, levels, from, m, c), c.i1 <= Len(r1), c.i2 <= Len(r2)
  PROVE  Walked(r1, r2, levels, from, m + 1, Walk(r1, r2, levels, c))
<1> DEFINE D == DOMAIN levels
           d == Walk(r1, r2, levels, c)
           same(l) == Column(r1[c.i1], levels[l]) = Column(r2[c.i2], levels[l])
           new(l) == Cardinality(Both(r1, r2, d.i1, d.i2, levels[l]))
           old(l) == Cardinality(Both(r1, r2, c.i1, c.i2, levels[l]))
<1>1. c \in Walks(r1, r2, D)
  BY DEF Walked
<1>2. /\ d \in Walks(r1, r2, D)
      /\ IF c.p1 <= c.p2
         THEN d.i1 = c.i1 + 1 /\ d.p1 = c.p1 + Len(r1[c.i1].surface) /\ d.prec = c.prec + 1
         ELSE d.i1 = c.i1 /\ d.p1 = c.p1 /\ d.prec = c.prec
      /\ IF c.p2 <= c.p1
         THEN d.i2 = c.i2 + 1 /\ d.p2 = c.p2 + Len(r2[c.i2].surface) /\ d.recall = c.recall + 1
         ELSE d.i2 = c.i2 /\ d.p2 = c.p2 /\ d.recall = c.recall
      /\ \A l \in D : d.table[l] = IF c.p1 = c.p2 /\ same(l) THEN c.table[l] + 1 ELSE c.table[l]
  BY <1>1, WalkIs
<1> HIDE DEF d
<1>3. /\ (c.p1 <= c.p2) =>
            (d.i1 = c.i1 + 1 /\ d.p1 = c.p1 + Len(r1[c.i1].surface) /\ d.prec = c.prec + 1)
      /\ ~(c.p1 <= c.p2) => (d.i1 = c.i1 /\ d.p1 = c.p1 /\ d.prec = c.prec)
  BY <1>2
<1>4. /\ (c.p2 <= c.p1) =>
            (d.i2 = c.i2 + 1 /\ d.p2 = c.p2 + Len(r2[c.i2].surface) /\ d.recall = c.recall + 1)
      /\ ~(c.p2 <= c.p1) => (d.i2 = c.i2 /\ d.p2 = c.p2 /\ d.recall = c.recall)
  BY <1>2
<1>5. /\ Len(r1) \in Nat /\ Len(r2) \in Nat
      /\ c.i1 \in 1..Len(r1) + 1 /\ c.i2 \in 1..Len(r2) + 1
      /\ c.p1 = At(r1, c.i1) /\ c.p2 = At(r2, c.i2) /\ c.p1 \in Nat /\ c.p2 \in Nat
      /\ c.prec = from.prec + (c.i1 - 1) /\ c.recall = from.recall + (c.i2 - 1)
      /\ from.prec \in Nat /\ from.recall \in Nat
  BY WalkedFacts
<1>6. /\ \A j \in 1..c.i1 - 1 : At(r1, j) \in Nat /\ At(r1, j) < c.p1 /\ At(r1, j) < c.p2
      /\ \A j \in 1..c.i2 - 1 : At(r2, j) \in Nat /\ At(r2, j) < c.p2 /\ At(r2, j) < c.p1
  BY WalkedFacts
<1>7. /\ c.i1 \in 1..Len(r1) /\ c.i2 \in 1..Len(r2)
      /\ Len(r1[c.i1].surface) \in Nat \ {0} /\ Len(r2[c.i2].surface) \in Nat \ {0}
  <2>1. c.i1 \in 1..Len(r1) /\ c.i2 \in 1..Len(r2)
    BY <1>5
  <2> QED
    BY <2>1 DEF IsOutput
<1>8. /\ At(r1, c.i1 + 1) = c.p1 + Len(r1[c.i1].surface)
      /\ At(r2, c.i2 + 1) = c.p2 + Len(r2[c.i2].surface)
  BY <1>5, <1>7, PlacesGrow
<1>9. d.p1 = At(r1, d.i1) /\ d.p2 = At(r2, d.i2)
  <2>1. d.p1 = At(r1, d.i1)
    BY <1>5, <1>8, <1>3
  <2>2. d.p2 = At(r2, d.i2)
    BY <1>5, <1>8, <1>4
  <2> QED
    BY <2>1, <2>2
<1> DEFINE len1 == Len(r1[c.i1].surface)
           len2 == Len(r2[c.i2].surface)
<1>10. /\ c.i1 \in Nat /\ c.i2 \in Nat /\ c.p1 \in Nat /\ c.p2 \in Nat
       /\ c.prec = from.prec + (c.i1 - 1) /\ c.recall = from.recall + (c.i2 - 1)
       /\ from.prec \in Nat /\ from.recall \in Nat
       /\ len1 \in Nat \ {0} /\ len2 \in Nat \ {0}
  <2>1. c.i1 \in Nat /\ c.i2 \in Nat
    BY <1>5
  <2>2. len1 \in Nat \ {0} /\ len2 \in Nat \ {0}
    BY <1>7
  <2> QED
    BY <1>5, <2>1, <2>2
<1>11. c.p1 <= c.p2 => d.i1 = c.i1 + 1 /\ d.p1 = c.p1 + len1 /\ d.prec = c.prec + 1
  BY <1>3
<1>12. c.p2 <= c.p1 => d.i2 = c.i2 + 1 /\ d.p2 = c.p2 + len2 /\ d.recall = c.recall + 1
  BY <1>4
<1>13. c.p2 < c.p1 => d.i1 = c.i1 /\ d.p1 = c.p1 /\ d.prec = c.prec
  <2>1. c.p1 \in Nat /\ c.p2 \in Nat
    BY <1>10
  <2>2. c.p2 < c.p1 => ~(c.p1 <= c.p2)
    BY <2>1
  <2> QED
    BY <1>3, <2>2
<1>14. c.p1 < c.p2 => d.i2 = c.i2 /\ d.p2 = c.p2 /\ d.recall = c.recall
  <2>1. c.p1 \in Nat /\ c.p2 \in Nat
    BY <1>10
  <2>2. c.p1 < c.p2 => ~(c.p2 <= c.p1)
    BY <2>1
  <2> QED
    BY <1>4, <2>2
<1> HIDE DEF len1, len2
<1>15. /\ d.prec = from.prec + (d.i1 - 1) /\ d.recall = from.recall + (d.i2 - 1)
       /\ c.i1 + c.i2 >= m + 2 => d.i1 + d.i2 >= (m + 1) + 2
       /\ d.p1 >= c.p1 /\ d.p2 >= c.p2 /\ d.p1 \in Nat /\ d.p2 \in Nat
  <2>1. PICK i1 \in Nat, i2 \in Nat, p1 \in Nat, p2 \in Nat, g1 \in Nat, g2 \in Nat :
          /\ c.i1 = i1 /\ c.i2 = i2 /\ c.p1 = p1 /\ c.p2 = p2 /\ from.prec = g1 /\ from.recall = g2
          /\ c.prec = g1 + (i1 - 1) /\ c.recall = g2 + (i2 - 1)
    BY <1>10
  <2>2. CASE p1 < p2
    <3>1. d.i1 = i1 + 1 /\ d.i2 = i2 /\ d.p1 = p1 + len1 /\ d.p2 = p2
      BY <1>11, <1>14, <2>1, <2>2
    <3>2. d.prec = (g1 + (i1 - 1)) + 1 /\ d.recall = g2 + (i2 - 1)
      BY <1>11, <1>14, <2>1, <2>2
    <3> QED
      BY <1>10, <2>1, <2>2, <3>1, <3>2
  <2>3. CASE p2 < p1
    <3>1. d.i1 = i1 /\ d.i2 = i2 + 1 /\ d.p1 = p1 /\ d.p2 = p2 + len2
      BY <1>12, <1>13, <2>1, <2>3
    <3>2. d.prec = g1 + (i1 - 1) /\ d.recall = (g2 + (i2 - 1)) + 1
      BY <1>12, <1>13, <2>1, <2>3
    <3> QED
      BY <1>10, <2>1, <2>3, <3>1, <3>2
  <2>4. CASE p1 = p2
    <3>1. d.i1 = i1 + 1 /\ d.i2 = i2 + 1 /\ d.p1 = p1 + len1 /\ d.p2 = p2 + len2
      BY <1>11, <1>12, <2>1, <2>4
    <3>2. d.prec = (g1 + (i1 - 1)) + 1 /\ d.recall = (g2 + (i2 - 1)) + 1
      BY <1>11, <1>12, <2>1, <2>4
    <3> QED
      BY <1>10, <2>1, <2>4, <3>1, <3>2
  <2> QED
    BY <2>2, <2>3, <2>4
<1>16. \A j \in 1..d.i1 - 1 : At(r1, j) < d.p2
  <2>1. ASSUME NEW j \in 1..c.i1 - 1 PROVE At(r1, j) < d.p2
    <3>1. At(r1, j) \in Nat /\ At(r1, j) < c.p2
      BY <1>6
    <3>2. c.p1 <= d.p1 /\ c.p2 <= d.p2 /\ d.p1 \in Nat /\ d.p2 \in Nat
      BY <1>10, <1>15
    <3> QED
      BY <1>10, <3>1, <3>2
  <2>2. ASSUME c.p1 <= c.p2 PROVE c.p1 < d.p2
    BY <1>10, <1>12, <1>14, <2>2
  <2>3. ASSUME NEW j \in 1..d.i1 - 1 PROVE j \in 1..c.i1 - 1 \/ (j = c.i1 /\ c.p1 <= c.p2)
    <3>1. c.i1 \in Nat /\ c.p1 \in Nat /\ c.p2 \in Nat
      BY <1>10
    <3>2. c.p1 <= c.p2 => d.i1 = c.i1 + 1
      BY <1>11
    <3>3. c.p2 < c.p1 => d.i1 = c.i1
      BY <1>13
    <3>4. CASE c.p1 <= c.p2
      BY <3>1, <3>2, <3>4
    <3>5. CASE c.p2 < c.p1
      BY <3>1, <3>3, <3>5
    <3> QED
      BY <3>1, <3>4, <3>5
  <2> QED
    BY <1>5, <2>1, <2>2, <2>3
<1>17. \A j \in 1..d.i2 - 1 : At(r2, j) < d.p1
  <2>1. ASSUME NEW j \in 1..c.i2 - 1 PROVE At(r2, j) < d.p1
    <3>1. At(r2, j) \in Nat /\ At(r2, j) < c.p1
      BY <1>6
    <3>2. c.p1 <= d.p1 /\ c.p2 <= d.p2 /\ d.p1 \in Nat /\ d.p2 \in Nat
      BY <1>10, <1>15
    <3> QED
      BY <1>10, <3>1, <3>2
  <2>2. ASSUME c.p2 <= c.p1 PROVE c.p2 < d.p1
    BY <1>10, <1>11, <1>13, <2>2
  <2>3. ASSUME NEW j \in 1..d.i2 - 1 PROVE j \in 1..c.i2 - 1 \/ (j = c.i2 /\ c.p2 <= c.p1)
    <3>1. c.i2 \in Nat /\ c.p1 \in Nat /\ c.p2 \in Nat
      BY <1>10
    <3>2. c.p2 <= c.p1 => d.i2 = c.i2 + 1
      BY <1>12
    <3>3. c.p1 < c.p2 => d.i2 = c.i2
      BY <1>14
    <3>4. CASE c.p2 <= c.p1
      BY <3>1, <3>2, <3>4
    <3>5. CASE c.p1 < c.p2
      BY <3>1, <3>3, <3>5
    <3> QED
      BY <3>1, <3>4, <3>5
  <2> QED
    BY <1>5, <2>1, <2>2, <2>3
<1>18. ASSUME NEW l \in D PROVE new(l) = IF c.p1 = c.p2 /\ same(l) THEN old(l) + 1 ELSE old(l)
  <2>1. c.i1 \in Nat \ {0} /\ c.i2 \in Nat \ {0}
    BY <1>5
  <2>2. NoneAt(r1, c.i1, c.p2) /\ NoneAt(r2, c.i2, c.p1)
    <3>1. ASSUME NEW j \in 1..c.i1 - 1 PROVE At(r1, j) # c.p2
      <4>1. At(r1, j) \in Nat /\ At(r1, j) < c.p2
        BY <1>6
      <4> QED
        BY <1>10, <4>1
    <3>2. ASSUME NEW j \in 1..c.i2 - 1 PROVE At(r2, j) # c.p1
      <4>1. At(r2, j) \in Nat /\ At(r2, j) < c.p1
        BY <1>6
      <4> QED
        BY <1>10, <4>1
    <3> QED
      BY <3>1, <3>2 DEF NoneAt
  <2>3. CASE c.p1 < c.p2
    <3>1. d.i1 = c.i1 + 1 /\ d.i2 = c.i2 /\ c.p1 # c.p2
      BY <1>10, <1>11, <1>12, <1>13, <1>14, <2>3
    <3>2. Both(r1, r2, c.i1 + 1, c.i2, levels[l]) = Both(r1, r2, c.i1, c.i2, levels[l])
      BY <1>5, <2>1, <2>2, BothStay
    <3> QED
      BY <3>1, <3>2
  <2>4. CASE c.p2 < c.p1
    <3>1. d.i1 = c.i1 /\ d.i2 = c.i2 + 1 /\ c.p1 # c.p2
      BY <1>10, <1>11, <1>12, <1>13, <1>14, <2>4
    <3>2. Both(r2, r1, c.i2 + 1, c.i1, levels[l]) = Both(r2, r1, c.i2, c.i1, levels[l])
      BY <1>5, <2>1, <2>2, BothStay
    <3>3. Both(r1, r2, c.i1, c.i2 + 1, levels[l]) = Both(r1, r2, c.i1, c.i2, levels[l])
      BY <3>2, BothCommute
    <3> QED
      BY <3>1, <3>3
  <2>5. CASE c.p1 = c.p2
    <3>1. d.i1 = c.i1 + 1 /\ d.i2 = c.i2 + 1
      BY <1>10, <1>11, <1>12, <2>5
    <3>2. Cardinality(Both(r1, r2, c.i1 + 1, c.i2 + 1, levels[l])) = IF same(l) THEN old(l) + 1 ELSE old(l)
      <4>1. At(r1, c.i1) = At(r2, c.i2)
        BY <1>5, <2>5
      <4>2. NoneAt(r1, c.i1, At(r2, c.i2)) /\ NoneAt(r2, c.i2, At(r1, c.i1))
        BY <1>5, <2>2
      <4>3. /\ same(l) => Cardinality(Both(r1, r2, c.i1 + 1, c.i2 + 1, levels[l])) = old(l) + 1
            /\ ~same(l) => Cardinality(Both(r1, r2, c.i1 + 1, c.i2 + 1, levels[l])) = old(l)
        BY <2>1, <4>1, <4>2, BothGrow
      <4> HIDE DEF same, old
      <4> QED
        BY <4>3
    <3> QED
      BY <2>5, <3>1, <3>2
  <2> QED
    BY <1>5, <2>3, <2>4, <2>5
<1>19. ASSUME NEW l \in D PROVE d.table[l] = from.table[l] + new(l)
  <2>1. c.table[l] = from.table[l] + old(l)
    BY DEF Walked
  <2>2. from.table[l] \in Nat /\ old(l) \in Nat
    <3>1. IsFiniteSet(Upto(r1, c.i1, levels[l]))
      BY <1>5, UptoFinite
    <3>2. IsFiniteSet(Both(r1, r2, c.i1, c.i2, levels[l]))
      BY <3>1, FS_Intersection DEF Both
    <3> QED
      BY <3>2, FS_CardinalityType DEF Counts
  <2>3. d.table[l] = IF c.p1 = c.p2 /\ same(l) THEN c.table[l] + 1 ELSE c.table[l]
    BY <1>2
  <2> HIDE DEF new, old, same
  <2> QED
    BY <1>18, <2>1, <2>2, <2>3
<1>20. d.i1 = Len(r1) + 1 \/ d.i2 = Len(r2) + 1 \/ d.i1 + d.i2 >= (m + 1) + 2
  <2>1. c.i1 # Len(r1) + 1 /\ c.i2 # Len(r2) + 1
    <3>1. Len(r1) \in Nat /\ Len(r2) \in Nat
      BY <1>5
    <3>2. c.i1 \in 1..Len(r1) /\ c.i2 \in 1..Len(r2)
      BY <1>7
    <3> QED
      BY <3>1, <3>2
  <2>2. c.i1 + c.i2 >= m + 2
    BY <2>1 DEF Walked
  <2>3. c.i1 + c.i2 >= m + 2 => d.i1 + d.i2 >= (m + 1) + 2
    BY <1>15
  <2> QED
    BY <2>2, <2>3
<1> QED
  BY <1>2, <1>9, <1>15, <1>16, <1>17, <1>19, <1>20 DEF Walked, d

LEMMA WalkOnStep ==
  ASSUME NEW r1, IsOutput(r1), NEW r2, IsOutput(r2), NEW levels, levels[1] = 0,
         NEW from \in Counts(DOMAIN levels), NEW m \in Nat, NEW c, Walked(r1, r2, levels, from, m, c)
  PROVE  Walked(r1, r2, levels, from, m + 1, WalkOn(r1, r2, levels, c))
<1>1. CASE c.i1 <= Len(r1) /\ c.i2 <= Len(r2)
  BY <1>1, WalkStep DEF WalkOn
<1>2. CASE ~(c.i1 <= Len(r1) /\ c.i2 <= Len(r2))
  <2>1. WalkOn(r1, r2, levels, c) = c
    BY <1>2 DEF WalkOn
  <2>2. c.i1 = Len(r1) + 1 \/ c.i2 = Len(r2) + 1
    <3>1. /\ Len(r1) \in Nat /\ Len(r2) \in Nat
          /\ c.i1 \in 1..Len(r1) + 1 /\ c.i2 \in 1..Len(r2) + 1
      BY WalkedFacts
    <3> QED
      BY <1>2, <3>1
  <2>3. Walked(r1, r2, levels, from, m + 1, c)
    BY <2>2 DEF Walked
  <2> QED
    BY <2>1, <2>3
<1> QED
  BY <1>1, <1>2

(* A cursor at its end has passed all there is in common. *)
LEMMA AllInCommon ==
  ASSUME NEW r1, IsOutput(r1), NEW r2, IsOutput(r2), NEW i2 \in 1..Len(r2) + 1, NEW level,
         \A j \in 1..Len(r1) : At(r1, j) < At(r2, i2)
  PROVE  Both(r1, r2, Len(r1) + 1, i2, level) = Placed(r1, level) \cap Placed(r2, level)
<1>1. Placed(r1, level) = Upto(r1, Len(r1) + 1, level) /\ Placed(r2, level) = Upto(r2, Len(r2) + 1, level)
  BY PlacedIs
<1>2. Len(r1) \in Nat /\ Len(r2) \in Nat /\ i2 \in Nat
  BY DEF IsOutput
<1>3. ASSUME NEW e \in Upto(r2, i2, level) PROVE e \in Upto(r2, Len(r2) + 1, level)
  <2>1. 1..i2 - 1 \subseteq 1..(Len(r2) + 1) - 1
    BY <1>2
  <2> QED
    BY <2>1 DEF Upto
<1>4. ASSUME NEW e \in Upto(r1, Len(r1) + 1, level), e \in Upto(r2, Len(r2) + 1, level)
      PROVE  e \in Upto(r2, i2, level)
  <2>1. PICK j \in 1..(Len(r1) + 1) - 1 : e = Placing(r1, j, level)
    BY DEF Upto
  <2>2. PICK i \in 1..(Len(r2) + 1) - 1 : e = Placing(r2, i, level)
    BY <1>4 DEF Upto
  <2>3. At(r1, j) = At(r2, i)
    BY <2>1, <2>2 DEF Placing
  <2>4. j \in 1..Len(r1) /\ i \in 1..Len(r2) + 1
    BY <1>2
  <2>5. At(r2, i) < At(r2, i2) /\ At(r2, i) \in Nat /\ At(r2, i2) \in Nat
    BY <2>3, <2>4, PlacesGrow
  <2>6. ~(i2 <= i)
    <3> SUFFICES ASSUME i2 <= i PROVE FALSE
      OBVIOUS
    <3>1. i2 = i \/ i2 < i
      BY <1>2, <2>4
    <3>2. i2 < i => At(r2, i2) < At(r2, i)
      BY <2>4, PlacesGrow
    <3> QED
      BY <2>5, <3>1, <3>2
  <2>7. i \in 1..i2 - 1
    BY <1>2, <2>4, <2>6
  <2> QED
    BY <2>2, <2>7 DEF Upto
<1> QED
  BY <1>1, <1>3, <1>4 DEF Both

LEMMA WalkEnds ==
  ASSUME NEW r1, IsOutput(r1), NEW r2, IsOutput(r2), NEW levels,
         NEW from \in Counts(DOMAIN levels), NEW c,
         Walked(r1, r2, levels, from, Len(r1) + Len(r2), c)
  PROVE  /\ \A l \in DOMAIN levels : c.table[l] = from.table[l] + Common(r1, r2, levels[l])
         /\ c.prec + (Len(r1) + 1 - c.i1) = from.prec + Len(r1)
         /\ c.recall + (Len(r2) + 1 - c.i2) = from.recall + Len(r2)
<1>1. Len(r1) \in Nat /\ Len(r2) \in Nat /\ Len(r1) + Len(r2) \in Nat
  BY DEF IsOutput
<1>2. /\ c.i1 \in 1..Len(r1) + 1 /\ c.i2 \in 1..Len(r2) + 1
      /\ c.p1 = At(r1, c.i1) /\ c.p2 = At(r2, c.i2)
      /\ \A j \in 1..c.i1 - 1 : At(r1, j) < c.p2
      /\ \A j \in 1..c.i2 - 1 : At(r2, j) < c.p1
      /\ c.prec = from.prec + (c.i1 - 1) /\ c.recall = from.recall + (c.i2 - 1)
      /\ from.prec \in Nat /\ from.recall \in Nat
  BY <1>1, WalkedFacts
<1>3. c.i1 = Len(r1) + 1 \/ c.i2 = Len(r2) + 1
  <2>1. c.i1 = Len(r1) + 1 \/ c.i2 = Len(r2) + 1 \/ c.i1 + c.i2 >= Len(r1) + Len(r2) + 2
    BY DEF Walked
  <2> QED
    BY <1>1, <1>2, <2>1
<1>4. ASSUME NEW level
      PROVE  Both(r1, r2, c.i1, c.i2, level) = Placed(r1, level) \cap Placed(r2, level)
  <2>1. CASE c.i1 = Len(r1) + 1
    <3>1. \A j \in 1..Len(r1) : At(r1, j) < At(r2, c.i2)
      BY <1>1, <1>2, <2>1
    <3> QED
      BY <1>2, <2>1, <3>1, AllInCommon
  <2>2. CASE c.i2 = Len(r2) + 1
    <3>1. \A j \in 1..Len(r2) : At(r2, j) < At(r1, c.i1)
      BY <1>1, <1>2, <2>2
    <3>2. Both(r2, r1, Len(r2) + 1, c.i1, level) = Placed(r2, level) \cap Placed(r1, level)
      BY <1>2, <3>1, AllInCommon
    <3> QED
      BY <2>2, <3>2 DEF Both
  <2> QED
    BY <1>3, <2>1, <2>2
<1>5. ASSUME NEW l \in DOMAIN levels PROVE c.table[l] = from.table[l] + Common(r1, r2, levels[l])
  BY <1>4 DEF Walked, Common
<1>6. ASSUME NEW g \in Nat, NEW i \in Nat, NEW len \in Nat
      PROVE  (g + (i - 1)) + (len + 1 - i) = g + len
  OBVIOUS
<1>7. /\ c.i1 \in Nat /\ c.i2 \in Nat
      /\ c.prec = from.prec + (c.i1 - 1) /\ c.recall = from.recall + (c.i2 - 1)
      /\ from.prec \in Nat /\ from.recall \in Nat
  BY <1>1, <1>2
<1>8. c.prec + (Len(r1) + 1 - c.i1) = from.prec + Len(r1)
  BY <1>1, <1>6, <1>7
<1>9. c.recall + (Len(r2) + 1 - c.i2) = from.recall + Len(r2)
  BY <1>1, <1>6, <1>7
<1> QED
  BY <1>5, <1>8, <1>9

LEMMA CommonIs ==
  ASSUME NEW r1, IsOutput(r1), NEW r2, NEW level
  PROVE  Common(r1, r2, level) \in Nat
<1>1. IsFiniteSet(Placed(r1, level))
  <2>1. Placed(r1, level) = Upto(r1, Len(r1) + 1, level) /\ Len(r1) + 1 \in Nat \ {0}
    BY PlacedIs DEF IsOutput
  <2> QED
    BY <2>1, UptoFinite
<1> QED
  BY <1>1, FS_Intersection, FS_CardinalityType DEF Common

LEMMA ComparePairIs ==
  ASSUME NEW r1, IsOutput(r1), NEW r2, IsOutput(r2), NEW levels, levels[1] = 0,
         NEW from \in Counts(DOMAIN levels)
  PROVE  LET to == ComparePair(r1, r2, levels, from) IN
         /\ to \in Counts(DOMAIN levels)
         /\ \A l \in DOMAIN levels : to.table[l] = from.table[l] + Common(r1, r2, levels[l])
         /\ to.prec = from.prec + Len(r1) /\ to.recall = from.recall + Len(r2)
<1> DEFINE n == Len(r1) + Len(r2)
           D == DOMAIN levels
           V == Walks(r1, r2, D)
           base == [i1 |-> 1, i2 |-> 1, p1 |-> 0, p2 |-> 0, table |-> from.table,
                    prec |-> from.prec, recall |-> from.recall]
           rec(i, h) == IF i = 0
                        THEN [i1 |-> 1, i2 |-> 1, p1 |-> 0, p2 |-> 0, table |-> from.table,
                              prec |-> from.prec, recall |-> from.recall]
                        ELSE WalkOn(r1, r2, levels, h[i - 1])
           F == CHOOSE h : h = [i \in 0..n |-> rec(i, h)]
           step == [z \in (1..n) \X V |-> WalkOn(r1, r2, levels, z[2])]
<1>1. Len(r1) \in Nat /\ Len(r2) \in Nat /\ n \in Nat
  BY DEF IsOutput
<1>2. from.table \in [D -> Nat] /\ from.prec \in Nat /\ from.recall \in Nat
  BY DEF Counts
<1>3. base \in V
  <2>1. 1 \in 1..Len(r1) + 1 /\ 1 \in 1..Len(r2) + 1
    BY <1>1
  <2> QED
    BY <1>2, <2>1 DEF Walks
<1>4. ASSUME NEW c \in V PROVE WalkOn(r1, r2, levels, c) \in V
  <2>1. CASE c.i1 <= Len(r1) /\ c.i2 <= Len(r2)
    BY <1>4, <2>1, WalkIs DEF WalkOn
  <2>2. CASE ~(c.i1 <= Len(r1) /\ c.i2 <= Len(r2))
    BY <1>4, <2>2 DEF WalkOn
  <2> QED
    BY <2>1, <2>2
<1>5. Walked(r1, r2, levels, from, 0, base)
  <2>1. At(r1, 1) = 0 /\ At(r2, 1) = 0
    BY PlacesGrow
  <2>2. 1..1 - 1 = {} /\ 1 + 1 >= 0 + 2
    OBVIOUS
  <2>3. ASSUME NEW l \in D PROVE base.table[l] = from.table[l] + Cardinality(Both(r1, r2, 1, 1, levels[l]))
    <3>1. Both(r1, r2, 1, 1, levels[l]) = {}
      BY <2>2 DEF Both, Upto
    <3>2. from.table[l] \in Nat
      BY <1>2
    <3> QED
      BY <3>1, <3>2, FS_EmptySet
  <2>4. base.prec = from.prec + (1 - 1) /\ base.recall = from.recall + (1 - 1)
    BY <1>2
  <2>5. base.i1 = 1 /\ base.i2 = 1 /\ base.p1 = 0 /\ base.p2 = 0
    OBVIOUS
  <2> HIDE DEF base
  <2> QED
    BY <1>3, <2>1, <2>2, <2>3, <2>4, <2>5 DEF Walked
<1> HIDE DEF n, V, base
<1>6. step \in [(1..n) \X V -> V]
  <2>1. ASSUME NEW z \in (1..n) \X V PROVE WalkOn(r1, r2, levels, z[2]) \in V
    BY <1>4
  <2> QED
    BY <2>1
<1>7. PICK f : Iteration(f, n, V, base, step)
  <2> HIDE DEF step
  <2> QED
    BY <1>1, <1>3, <1>6, IterationExists
<1>8. f[0] = base /\ \A i \in 1..n : f[i] = WalkOn(r1, r2, levels, f[i - 1])
  <2>1. f \in [0..n -> V] /\ f[0] = base /\ \A i \in 1..n : f[i] = step[<<i, f[i - 1]>>]
    BY <1>7 DEF Iteration
  <2>2. ASSUME NEW i \in 1..n PROVE f[i] = WalkOn(r1, r2, levels, f[i - 1])
    <3>1. f[i - 1] \in V
      BY <1>1, <2>1
    <3>2. \A h \in V : step[<<i, h>>] = WalkOn(r1, r2, levels, h)
      OBVIOUS
    <3> HIDE DEF step
    <3> QED
      BY <2>1, <3>1, <3>2
  <2> QED
    BY <2>1, <2>2
<1>9. f = [i \in 0..n |-> rec(i, f)]
  <2>1. f \in [0..n -> V]
    BY <1>7 DEF Iteration
  <2>2. ASSUME NEW i \in 0..n PROVE f[i] = rec(i, f)
    <3>1. i = 0 \/ i \in 1..n
      BY <1>1
    <3> QED
      BY <1>8, <3>1 DEF base
  <2> HIDE DEF rec
  <2> QED
    BY <2>1, <2>2
<1>10. F = [i \in 0..n |-> rec(i, F)]
  <2> HIDE DEF rec
  <2> QED
    BY <1>9
<1> HIDE DEF F
<1>11. F[0] = base /\ \A i \in 1..n : F[i] = WalkOn(r1, r2, levels, F[i - 1])
  <2>1. \A i \in 0..n : F[i] = rec(i, F)
    <3> HIDE DEF rec
    <3> QED
      BY <1>10
  <2>2. 0 \in 0..n /\ \A i \in 1..n : i \in 0..n /\ i # 0
    BY <1>1
  <2> QED
    BY <2>1, <2>2 DEF base
<1> HIDE DEF rec
<1> DEFINE U == {m \in Nat : m <= n => Walked(r1, r2, levels, from, m, F[m])}
<1>12. 0 \in U
  BY <1>5, <1>11
<1>13. ASSUME NEW m \in Nat, m \in U PROVE m + 1 \in U
  <2> SUFFICES ASSUME m + 1 <= n PROVE Walked(r1, r2, levels, from, m + 1, F[m + 1])
    OBVIOUS
  <2>1. m + 1 \in 1..n /\ (m + 1) - 1 = m /\ Walked(r1, r2, levels, from, m, F[m])
    BY <1>1, <1>13
  <2>2. F[m + 1] = WalkOn(r1, r2, levels, F[m])
    BY <1>11, <2>1
  <2> QED
    BY <2>1, <2>2, WalkOnStep
<1>14. Walked(r1, r2, levels, from, n, F[n])
  <2>1. Nat \subseteq U
    <3> HIDE DEF U
    <3> QED
      BY <1>12, <1>13, NatSetInduction
  <2> QED
    BY <1>1, <2>1
<1> DEFINE c == F[n]
           to == [table |-> c.table, prec |-> c.prec + (Len(r1) + 1 - c.i1),
                  recall |-> c.recall + (Len(r2) + 1 - c.i2)]
<1>15. ComparePair(r1, r2, levels, from) = to
  BY DEF ComparePair, c, F, rec, n
<1> HIDE DEF c
<1>16. /\ \A l \in D : c.table[l] = from.table[l] + Common(r1, r2, levels[l])
       /\ c.prec + (Len(r1) + 1 - c.i1) = from.prec + Len(r1)
       /\ c.recall + (Len(r2) + 1 - c.i2) = from.recall + Len(r2)
  BY <1>14, WalkEnds DEF c, n
<1>17. c.table \in [D -> Nat]
  BY <1>14 DEF Walked, Walks, c
<1>18. from.prec + Len(r1) \in Nat /\ from.recall + Len(r2) \in Nat
  BY <1>1, <1>2
<1>19. to \in Counts(D)
  BY <1>16, <1>17, <1>18 DEF Counts
<1> QED
  BY <1>15, <1>16, <1>19

-----------------------------------------------------------------------------
(* The rounds over the files: sums over as many sentences as there are. *)
IsOutputs(file) ==
  Len(file) \in Nat /\ DOMAIN file = 1..Len(file) /\ \A i \in 1..Len(file) : IsOutput(file[i])

Lesser(a, b) == IF a <= b THEN a ELSE b

LEMMA LesserIs ==
  ASSUME NEW a \in Nat, NEW b \in Nat
  PROVE  Min({a, b}) = Lesser(a, b) /\ Lesser(a, b) \in Nat /\ Lesser(a, b) <= a /\ Lesser(a, b) <= b
<1>1. {a, b} \in SUBSET Nat /\ {a, b} # {}
  OBVIOUS
<1>2. Min({a, b}) \in {a, b} /\ \A e \in {a, b} : Min({a, b}) <= e
  BY <1>1, MinOfNats
<1>3. Min({a, b}) <= a /\ Min({a, b}) <= b /\ (Min({a, b}) = a \/ Min({a, b}) = b)
  BY <1>2
<1> QED
  BY <1>3 DEF Lesser

SumTo(f, u, j) == SumFunctionOnSet(f, 1..Lesser(j, u))

LEMMA SumToIs ==
  ASSUME NEW u \in Nat, NEW f \in [1..u -> Nat], NEW j \in Nat
  PROVE  /\ SumTo(f, u, 0) = 0
         /\ SumTo(f, u, j) \in Int
         /\ j + 1 <= u => SumTo(f, u, j + 1) = SumTo(f, u, j) + f[j + 1]
         /\ j + 1 > u => SumTo(f, u, j + 1) = SumTo(f, u, j)
<1>1. SumTo(f, u, 0) = 0
  <2>1. 1..Lesser(0, u) = {}
    BY DEF Lesser
  <2> QED
    BY <2>1, SumOfNone DEF SumTo
<1>2. SumTo(f, u, j) \in Int
  <2>1. IsFiniteSet(1..Lesser(j, u)) /\ 1..Lesser(j, u) \subseteq 1..u
    BY FS_Interval DEF Lesser
  <2>2. Summable(f, 1..Lesser(j, u))
    BY <2>1 DEF Summable
  <2> QED
    BY <2>2, SumFacts DEF SumTo
<1>3. ASSUME j + 1 <= u PROVE SumTo(f, u, j + 1) = SumTo(f, u, j) + f[j + 1]
  <2>1. Lesser(j, u) = j /\ Lesser(j + 1, u) = j + 1
    BY <1>3 DEF Lesser
  <2>2. \A i \in 1..j + 1 : f[i] \in Int
    BY <1>3
  <2>3. SumFunctionOnSet(f, 1..j + 1) = f[j + 1] + SumFunctionOnSet(f, 1..j)
    BY <2>2, SumOfOneMore
  <2>4. f[j + 1] \in Int /\ SumFunctionOnSet(f, 1..j) \in Int
    BY <2>2, SumOfOneMore
  <2> QED
    BY <2>1, <2>3, <2>4 DEF SumTo
<1>4. ASSUME j + 1 > u PROVE SumTo(f, u, j + 1) = SumTo(f, u, j)
  <2>1. Lesser(j, u) = u /\ Lesser(j + 1, u) = u
    BY <1>4 DEF Lesser
  <2> QED
    BY <2>1 DEF SumTo
<1> QED
  BY <1>1, <1>2, <1>3, <1>4

Shared(system, answer, level) ==
  [i \in 1..Lesser(Len(system), Len(answer)) |-> Common(system[i], answer[i], level)]
Sizes(file, other) == [i \in 1..Lesser(Len(file), Len(other) + 1) |-> Len(file[i])]

LEMMA TermsAre ==
  ASSUME NEW system, IsOutputs(system), NEW answer, IsOutputs(answer), NEW level
  PROVE  /\ Shared(system, answer, level) \in [1..Lesser(Len(system), Len(answer)) -> Nat]
         /\ Sizes(system, answer) \in [1..Lesser(Len(system), Len(answer) + 1) -> Nat]
<1>1. Len(system) \in Nat /\ Len(answer) \in Nat
  BY DEF IsOutputs
<1>2. ASSUME NEW i \in 1..Lesser(Len(system), Len(answer))
      PROVE  Shared(system, answer, level)[i] \in Nat
  <2>1. i \in 1..Len(system)
    BY <1>1 DEF Lesser
  <2>2. Common(system[i], answer[i], level) \in Nat
    BY <2>1, CommonIs DEF IsOutputs
  <2> QED
    BY <2>2 DEF Shared
<1>3. ASSUME NEW i \in 1..Lesser(Len(system), Len(answer) + 1) PROVE Sizes(system, answer)[i] \in Nat
  <2>1. i \in 1..Len(system)
    BY <1>1 DEF Lesser
  <2>2. Len(system[i]) \in Nat
    BY <2>1 DEF IsOutputs, IsOutput
  <2> QED
    BY <2>2 DEF Sizes
<1> QED
  BY <1>2, <1>3 DEF Shared, Sizes

(* After j rounds. *)
Counted(system, answer, levels, j, to) ==
  LET n == Len(system)  m == Len(answer) IN
  /\ to \in Counts(DOMAIN levels)
  /\ \A l \in DOMAIN levels : to.table[l] = SumTo(Shared(system, answer, levels[l]), Lesser(n, m), j)
  /\ to.prec = SumTo(Sizes(system, answer), Lesser(n, m + 1), j)
  /\ to.recall = SumTo(Sizes(answer, system), Lesser(m, n + 1), j)

LEMMA NoOutput ==
  /\ IsOutput(<<>>)
  /\ \A r, level : Common(<<>>, r, level) = 0 /\ Common(r, <<>>, level) = 0
<1>1. Len(<<>>) = 0 /\ DOMAIN <<>> = 1..0 /\ 1..0 = {}
  OBVIOUS
<1>2. \A level : Placed(<<>>, level) = {}
  BY <1>1 DEF Placed
<1>3. Cardinality({}) = 0
  BY FS_EmptySet
<1> QED
  BY <1>1, <1>2, <1>3 DEF IsOutput, Common

LEMMA RoundCounts ==
  ASSUME NEW system, IsOutputs(system), NEW answer, IsOutputs(answer), NEW levels, levels[1] = 0,
         NEW j \in Nat, j + 1 <= Len(system) + 1, NEW from, Counted(system, answer, levels, j, from)
  PROVE  Counted(system, answer, levels, j + 1, EvaluateRound(system, answer, levels, from, j + 1))
<1> DEFINE n == Len(system)
           m == Len(answer)
           D == DOMAIN levels
           to == EvaluateRound(system, answer, levels, from, j + 1)
           r1 == SentenceAt(system, j + 1)
           r2 == SentenceAt(answer, j + 1)
           shared(l) == Shared(system, answer, levels[l])
<1>1. n \in Nat /\ m \in Nat
  BY DEF IsOutputs
<1>2. /\ Lesser(n, m) \in Nat /\ Lesser(n, m + 1) \in Nat /\ Lesser(m, n + 1) \in Nat
      /\ Sizes(system, answer) \in [1..Lesser(n, m + 1) -> Nat]
      /\ Sizes(answer, system) \in [1..Lesser(m, n + 1) -> Nat]
      /\ \A l \in D : shared(l) \in [1..Lesser(n, m) -> Nat]
  <2>1. Lesser(n, m) \in Nat /\ Lesser(n, m + 1) \in Nat /\ Lesser(m, n + 1) \in Nat
    BY <1>1 DEF Lesser
  <2> QED
    BY <2>1, TermsAre
<1>3. /\ from \in Counts(D)
      /\ \A l \in D : from.table[l] = SumTo(shared(l), Lesser(n, m), j)
      /\ from.prec = SumTo(Sizes(system, answer), Lesser(n, m + 1), j)
      /\ from.recall = SumTo(Sizes(answer, system), Lesser(m, n + 1), j)
  BY DEF Counted
<1>4. CASE j + 1 <= m + 1
  <2>1. IsOutput(r1) /\ IsOutput(r2)
    <3>1. IsOutput(r1)
      <4>1. CASE j + 1 <= n
        BY <1>1, <4>1 DEF IsOutputs, SentenceAt
      <4>2. CASE ~(j + 1 <= n)
        BY <4>2, NoOutput DEF SentenceAt
      <4> QED
        BY <4>1, <4>2
    <3>2. IsOutput(r2)
      <4>1. CASE j + 1 <= m
        BY <1>1, <4>1 DEF IsOutputs, SentenceAt
      <4>2. CASE ~(j + 1 <= m)
        BY <4>2, NoOutput DEF SentenceAt
      <4> QED
        BY <4>1, <4>2
    <3> QED
      BY <3>1, <3>2
  <2>2. to = ComparePair(r1, r2, levels, from)
    BY <1>4 DEF EvaluateRound, Readable
  <2> HIDE DEF to, r1, r2, n, m
  <2>3. /\ to \in Counts(D)
        /\ \A l \in D : to.table[l] = from.table[l] + Common(r1, r2, levels[l])
        /\ to.prec = from.prec + Len(r1) /\ to.recall = from.recall + Len(r2)
    BY <1>3, <2>1, <2>2, ComparePairIs
  <2>4. ASSUME NEW l \in D PROVE to.table[l] = SumTo(shared(l), Lesser(n, m), j + 1)
    <3>1. from.table[l] = SumTo(shared(l), Lesser(n, m), j) /\ from.table[l] \in Nat
      BY <1>3 DEF Counts
    <3>2. CASE j + 1 <= Lesser(n, m)
      <4>1. j + 1 <= n /\ j + 1 <= m /\ j + 1 \in 1..Lesser(n, m)
        BY <1>1, <1>2, <3>2 DEF Lesser
      <4>2. Common(r1, r2, levels[l]) = shared(l)[j + 1]
        BY <4>1 DEF r1, r2, SentenceAt, n, m, Shared
      <4>3. SumTo(shared(l), Lesser(n, m), j + 1) = SumTo(shared(l), Lesser(n, m), j) + shared(l)[j + 1]
        <5> HIDE DEF shared
        <5> QED
          BY <1>2, <3>2, SumToIs
      <4> HIDE DEF shared
      <4> QED
        BY <2>3, <3>1, <4>2, <4>3
    <3>3. CASE ~(j + 1 <= Lesser(n, m))
      <4>1. ~(j + 1 <= n) \/ ~(j + 1 <= m)
        BY <1>1, <3>3 DEF Lesser
      <4>2. Common(r1, r2, levels[l]) = 0
        BY <4>1, NoOutput DEF r1, r2, SentenceAt, n, m
      <4>3. SumTo(shared(l), Lesser(n, m), j + 1) = SumTo(shared(l), Lesser(n, m), j)
        <5>1. j + 1 > Lesser(n, m)
          BY <1>2, <3>3
        <5> HIDE DEF shared
        <5> QED
          BY <1>2, <5>1, SumToIs
      <4> HIDE DEF shared
      <4> QED
        BY <2>3, <3>1, <4>2, <4>3
    <3> QED
      BY <3>2, <3>3
  <2>5. to.prec = SumTo(Sizes(system, answer), Lesser(n, m + 1), j + 1)
    <3>1. from.prec \in Nat
      BY <1>3 DEF Counts
    <3>2. CASE j + 1 <= n
      <4>1. j + 1 <= Lesser(n, m + 1) /\ j + 1 \in 1..Lesser(n, m + 1)
        BY <1>1, <1>4, <3>2 DEF Lesser
      <4>2. Len(r1) = Sizes(system, answer)[j + 1]
        BY <3>2, <4>1 DEF r1, SentenceAt, Sizes, n, m
      <4>3. SumTo(Sizes(system, answer), Lesser(n, m + 1), j + 1) = SumTo(Sizes(system, answer), Lesser(n, m + 1), j) + Sizes(system, answer)[j + 1]
        BY <1>2, <4>1, SumToIs
      <4>4. from.prec = SumTo(Sizes(system, answer), Lesser(n, m + 1), j) /\ to.prec = from.prec + Len(r1)
        BY <1>3, <2>3
      <4> QED
        BY <3>1, <4>2, <4>3, <4>4
    <3>3. CASE ~(j + 1 <= n)
      <4>1. j + 1 > Lesser(n, m + 1)
        BY <1>1, <3>3 DEF Lesser
      <4>2. Len(r1) = 0
        BY <3>3 DEF r1, SentenceAt, n
      <4>3. SumTo(Sizes(system, answer), Lesser(n, m + 1), j + 1) = SumTo(Sizes(system, answer), Lesser(n, m + 1), j)
        BY <1>2, <4>1, SumToIs
      <4>4. from.prec = SumTo(Sizes(system, answer), Lesser(n, m + 1), j) /\ to.prec = from.prec + Len(r1)
        BY <1>3, <2>3
      <4> QED
        BY <3>1, <4>2, <4>3, <4>4
    <3> QED
      BY <3>2, <3>3
  <2>6. to.recall = SumTo(Sizes(answer, system), Lesser(m, n + 1), j + 1)
    <3>1. from.recall \in Nat
      BY <1>3 DEF Counts
    <3>2. CASE j + 1 <= m
      <4>1. j + 1 <= Lesser(m, n + 1) /\ j + 1 \in 1..Lesser(m, n + 1)
        BY <1>1, <3>2 DEF Lesser, n
      <4>2. Len(r2) = Sizes(answer, system)[j + 1]
        BY <3>2, <4>1 DEF r2, SentenceAt, Sizes, n, m
      <4>3. SumTo(Sizes(answer, system), Lesser(m, n + 1), j + 1) = SumTo(Sizes(answer, system), Lesser(m, n + 1), j) + Sizes(answer, system)[j + 1]
        BY <1>2, <4>1, SumToIs
      <4>4. from.recall = SumTo(Sizes(answer, system), Lesser(m, n + 1), j) /\ to.recall = from.recall + Len(r2)
        BY <1>3, <2>3
      <4> QED
        BY <3>1, <4>2, <4>3, <4>4
    <3>3. CASE ~(j + 1 <= m)
      <4>1. j + 1 > Lesser(m, n + 1)
        BY <1>1, <3>3 DEF Lesser
      <4>2. Len(r2) = 0
        BY <3>3 DEF r2, SentenceAt, m
      <4>3. SumTo(Sizes(answer, system), Lesser(m, n + 1), j + 1) = SumTo(Sizes(answer, system), Lesser(m, n + 1), j)
        BY <1>2, <4>1, SumToIs
      <4>4. from.recall = SumTo(Sizes(answer, system), Lesser(m, n + 1), j) /\ to.recall = from.recall + Len(r2)
        BY <1>3, <2>3
      <4> QED
        BY <3>1, <4>2, <4>3, <4>4
    <3> QED
      BY <3>2, <3>3
  <2> QED
    BY <2>3, <2>4, <2>5, <2>6 DEF Counted, n, m, to
<1>5. CASE ~(j + 1 <= m + 1)
  <2>1. to = from
    BY <1>5 DEF EvaluateRound, Readable
  <2>2. j + 1 > Lesser(n, m) /\ j + 1 > Lesser(n, m + 1) /\ j + 1 > Lesser(m, n + 1)
    BY <1>1, <1>5 DEF Lesser
  <2> HIDE DEF n, m, shared
  <2>3. \A l \in D : SumTo(shared(l), Lesser(n, m), j + 1) = SumTo(shared(l), Lesser(n, m), j)
    BY <1>2, <2>2, SumToIs
  <2>4. SumTo(Sizes(system, answer), Lesser(n, m + 1), j + 1) = SumTo(Sizes(system, answer), Lesser(n, m + 1), j)
    BY <1>2, <2>2, SumToIs
  <2>5. SumTo(Sizes(answer, system), Lesser(m, n + 1), j + 1) = SumTo(Sizes(answer, system), Lesser(m, n + 1), j)
    BY <1>2, <2>2, SumToIs
  <2> QED
    BY <1>3, <2>1, <2>3, <2>4, <2>5 DEF Counted, n, m, shared
<1> QED
  BY <1>4, <1>5

LEMMA EvaluateFilesIs ==
  ASSUME NEW system, IsOutputs(system), NEW answer, IsOutputs(answer), NEW levels, levels[1] = 0
  PROVE  LET to == EvaluateFiles(system, answer, levels) IN
         /\ \A l \in DOMAIN levels : to.table[l] = SumFunction(Shared(system, answer, levels[l]))
         /\ to.prec = SumFunction(Sizes(system, answer))
         /\ to.recall = SumFunction(Sizes(answer, system))
<1> DEFINE n == Len(system) + 1
           D == DOMAIN levels
           V == Counts(D)
           base == [table |-> [i \in D |-> 0], prec |-> 0, recall |-> 0]
           rec(i, h) == IF i = 0 THEN [table |-> [l \in DOMAIN levels |-> 0], prec |-> 0, recall |-> 0]
                        ELSE EvaluateRound(system, answer, levels, h[i - 1], i)
           F == CHOOSE h : h = [i \in 0..n |-> rec(i, h)]
           step == [z \in (1..n) \X V |-> EvaluateRound(system, answer, levels, z[2], z[1])]
<1>1. Len(system) \in Nat /\ Len(answer) \in Nat /\ n \in Nat
  BY DEF IsOutputs
<1>2. base \in V
  BY DEF Counts
<1>3. ASSUME NEW to \in V, NEW i \in 1..n PROVE EvaluateRound(system, answer, levels, to, i) \in V
  <2>1. ASSUME NEW file, IsOutputs(file) PROVE IsOutput(SentenceAt(file, i))
    <3>1. CASE i <= Len(file)
      <4>1. i \in 1..Len(file)
        BY <1>1, <2>1, <3>1 DEF IsOutputs
      <4> QED
        BY <2>1, <3>1, <4>1 DEF IsOutputs, SentenceAt
    <3>2. CASE ~(i <= Len(file))
      BY <3>2, NoOutput DEF SentenceAt
    <3> QED
      BY <3>1, <3>2
  <2>2. ComparePair(SentenceAt(system, i), SentenceAt(answer, i), levels, to) \in V
    BY <1>3, <2>1, ComparePairIs
  <2> QED
    BY <1>3, <2>2 DEF EvaluateRound
<1>4. Counted(system, answer, levels, 0, base)
  <2>1. ASSUME NEW u \in Nat, NEW f \in [1..u -> Nat] PROVE SumTo(f, u, 0) = 0
    BY <2>1, SumToIs
  <2>2. /\ Lesser(Len(system), Len(answer)) \in Nat
        /\ Lesser(Len(system), Len(answer) + 1) \in Nat /\ Lesser(Len(answer), Len(system) + 1) \in Nat
    BY <1>1 DEF Lesser
  <2>3. \A l \in D : base.table[l] = SumTo(Shared(system, answer, levels[l]), Lesser(Len(system), Len(answer)), 0)
    BY <2>1, <2>2, TermsAre
  <2>4. base.prec = SumTo(Sizes(system, answer), Lesser(Len(system), Len(answer) + 1), 0)
    BY <2>1, <2>2, TermsAre
  <2>5. base.recall = SumTo(Sizes(answer, system), Lesser(Len(answer), Len(system) + 1), 0)
    BY <2>1, <2>2, TermsAre
  <2> HIDE DEF base
  <2> QED
    BY <1>2, <2>3, <2>4, <2>5 DEF Counted
<1> HIDE DEF n, V, base
<1>5. step \in [(1..n) \X V -> V]
  <2>1. ASSUME NEW z \in (1..n) \X V PROVE EvaluateRound(system, answer, levels, z[2], z[1]) \in V
    BY <1>3
  <2> QED
    BY <2>1
<1>6. PICK f : Iteration(f, n, V, base, step)
  <2> HIDE DEF step
  <2> QED
    BY <1>1, <1>2, <1>5, IterationExists
<1>7. f[0] = base /\ \A i \in 1..n : f[i] = EvaluateRound(system, answer, levels, f[i - 1], i)
  <2>1. f \in [0..n -> V] /\ f[0] = base /\ \A i \in 1..n : f[i] = step[<<i, f[i - 1]>>]
    BY <1>6 DEF Iteration
  <2>2. ASSUME NEW i \in 1..n PROVE f[i] = EvaluateRound(system, answer, levels, f[i - 1], i)
    <3>1. f[i - 1] \in V
      BY <1>1, <2>1
    <3>2. \A h \in V : step[<<i, h>>] = EvaluateRound(system, answer, levels, h, i)
      OBVIOUS
    <3> HIDE DEF step
    <3> QED
      BY <2>1, <3>1, <3>2
  <2> QED
    BY <2>1, <2>2
<1>8. f = [i \in 0..n |-> rec(i, f)]
  <2>1. f \in [0..n -> V]
    BY <1>6 DEF Iteration
  <2>2. ASSUME NEW i \in 0..n PROVE f[i] = rec(i, f)
    <3>1. i = 0 \/ i \in 1..n
      BY <1>1
    <3> QED
      BY <1>7, <3>1 DEF base
  <2> HIDE DEF rec
  <2> QED
    BY <2>1, <2>2
<1>9. F = [i \in 0..n |-> rec(i, F)]
  <2> HIDE DEF rec
  <2> QED
    BY <1>8
<1> HIDE DEF F
<1>10. F[0] = base /\ \A i \in 1..n : F[i] = EvaluateRound(system, answer, levels, F[i - 1], i)
  <2>1. \A i \in 0..n : F[i] = rec(i, F)
    <3> HIDE DEF rec
    <3> QED
      BY <1>9
  <2>2. 0 \in 0..n /\ \A i \in 1..n : i \in 0..n /\ i # 0
    BY <1>1
  <2> QED
    BY <2>1, <2>2 DEF base
<1> HIDE DEF rec
<1> DEFINE U == {j \in Nat : j <= n => Counted(system, answer, levels, j, F[j])}
<1>11. 0 \in U
  BY <1>4, <1>10
<1>12. ASSUME NEW j \in Nat, j \in U PROVE j + 1 \in U
  <2> SUFFICES ASSUME j + 1 <= n PROVE Counted(system, answer, levels, j + 1, F[j + 1])
    OBVIOUS
  <2>1. j + 1 \in 1..n /\ (j + 1) - 1 = j /\ Counted(system, answer, levels, j, F[j])
    BY <1>1, <1>12
  <2>2. F[j + 1] = EvaluateRound(system, answer, levels, F[j], j + 1)
    BY <1>10, <2>1
  <2>3. j + 1 <= Len(system) + 1
    BY <2>1 DEF n
  <2> QED
    BY <2>1, <2>2, <2>3, RoundCounts
<1>13. Counted(system, answer, levels, n, F[n])
  <2>1. Nat \subseteq U
    <3> HIDE DEF U
    <3> QED
      BY <1>11, <1>12, NatSetInduction
  <2> QED
    BY <1>1, <2>1
<1>14. EvaluateFiles(system, answer, levels) = F[n]
  BY DEF EvaluateFiles, F, rec, n
<1>15. /\ Lesser(n, Lesser(Len(system), Len(answer))) = Lesser(Len(system), Len(answer))
       /\ Lesser(n, Lesser(Len(system), Len(answer) + 1)) = Lesser(Len(system), Len(answer) + 1)
       /\ Lesser(n, Lesser(Len(answer), Len(system) + 1)) = Lesser(Len(answer), Len(system) + 1)
  BY <1>1 DEF Lesser, n
<1>16. \A l \in D : F[n].table[l] = SumFunction(Shared(system, answer, levels[l]))
  BY <1>13, <1>15 DEF Counted, SumTo, SumFunction, Shared
<1>17. F[n].prec = SumFunction(Sizes(system, answer)) /\ F[n].recall = SumFunction(Sizes(answer, system))
  BY <1>13, <1>15 DEF Counted, SumTo, SumFunction, Sizes
<1> QED
  BY <1>14, <1>16, <1>17

-----------------------------------------------------------------------------
(* The analyses and the answers of a corpus are such files. *)
LEMMA MorphemeIs ==
  ASSUME NEW sentence \in Sentences, NEW piece, IsIn(piece, Len(sentence.text))
  PROVE  LET morpheme == AsMorpheme(sentence, piece) IN
         Len(morpheme.surface) \in Nat \ {0} /\ IsSequence(morpheme.fields)
<1> DEFINE T == ToSet(sentence.text)
           fields == <<piece.feature>>
<1>1. Len(sentence.text) \in Nat /\ IsSequence(sentence.text)
  BY SentenceIs
<1>2. PICK chars \in Seq(T) : chars = sentence.text
  BY <1>1 DEF IsSequence
<1> HIDE DEF T
<1>3. PICK a \in Nat, b \in Nat : a = piece.from /\ b = piece.to /\ a + 1 <= b /\ b <= Len(chars)
  BY <1>1, <1>2 DEF IsIn
<1>4. Len(SubSeq(chars, a + 1, b)) = b - a
  <2>1. a + 1 \in 1..Len(chars) + 1 /\ b \in a..Len(chars)
    BY <1>3
  <2> QED
    BY <2>1
<1>5. b - a \in Nat \ {0}
  BY <1>3
<1>6. IsSequence(fields)
  <2>1. fields \in Seq({piece.feature})
    OBVIOUS
  <2>2. ToSet(fields) = {piece.feature}
    BY DEF ToSet
  <2> HIDE DEF fields
  <2> QED
    BY <2>1, <2>2 DEF IsSequence
<1> QED
  BY <1>2, <1>3, <1>4, <1>5, <1>6 DEF AsMorpheme, Surface

LEMMA FilesAre ==
  ASSUME IsCorpus(x), NEW i \in 1..Len(x), best[i] \in WaysThrough(x[i])
  PROVE  IsOutput(OutputOf(i)) /\ IsOutput(AnswerFile(i))
<1> DEFINE sentence == x[i]
           chain == best[i]
           nodes == NodesOf(sentence)
           m == Len(chain)
           answer == sentence.answer
<1>1. sentence \in Sentences
  BY ElementOfSeq DEF IsCorpus
<1>2. NodesIn[sentence] = nodes
  BY <1>1 DEF NodesIn
<1> HIDE DEF sentence
<1>3. m \in Nat /\ DOMAIN chain = 1..m /\ IsChain(sentence, ChainOf(nodes, chain), m + 1)
  BY <1>1, WayIsChain DEF sentence
<1>4. ASSUME NEW j \in 1..m PROVE IsIn(nodes[chain[j]], Len(sentence.text))
  <2>1. ChainOf(nodes, chain)[j] = nodes[chain[j]]
    <3>1. PICK len \in Nat : len = m
      BY <1>3
    <3> HIDE DEF chain, nodes
    <3>2. Len(chain) = len /\ j \in 1..len
      BY <3>1
    <3> HIDE DEF m
    <3> QED
      BY <3>2, ChainOfIs
  <2>2. j \in 1..(m + 1) - 1
    BY <1>3
  <2> QED
    BY <1>3, <2>1, <2>2 DEF IsChain
<1>5. Len(answer) \in Nat /\ DOMAIN answer = 1..Len(answer)
      /\ \A j \in 1..Len(answer) : IsIn(answer[j], Len(sentence.text))
  BY <1>1, SentenceIs
<1>6. IsOutput(OutputOf(i))
  <2>1. OutputOf(i) = [j \in 1..m |-> AsMorpheme(sentence, nodes[chain[j]])]
    BY <1>2, <1>3 DEF OutputOf, sentence
  <2>2. \A j \in 1..m : LET morpheme == AsMorpheme(sentence, nodes[chain[j]]) IN
          Len(morpheme.surface) \in Nat \ {0} /\ IsSequence(morpheme.fields)
    BY <1>1, <1>4, MorphemeIs
  <2> HIDE DEF m, chain, nodes
  <2>3. Len(OutputOf(i)) = m /\ DOMAIN OutputOf(i) = 1..m
    BY <1>3, <2>1
  <2> QED
    BY <1>3, <2>1, <2>2, <2>3 DEF IsOutput
<1>7. IsOutput(AnswerFile(i))
  <2>1. AnswerFile(i) = [j \in 1..Len(answer) |-> AsMorpheme(sentence, answer[j])]
    BY <1>5 DEF AnswerFile, sentence
  <2>2. \A j \in 1..Len(answer) : LET morpheme == AsMorpheme(sentence, answer[j]) IN
          Len(morpheme.surface) \in Nat \ {0} /\ IsSequence(morpheme.fields)
    BY <1>1, <1>5, MorphemeIs
  <2> HIDE DEF answer
  <2>3. Len(AnswerFile(i)) = Len(answer) /\ DOMAIN AnswerFile(i) = 1..Len(answer)
    BY <1>5, <2>1
  <2> QED
    BY <1>5, <2>1, <2>2, <2>3 DEF IsOutput
<1> QED
  BY <1>6, <1>7

LEMMA CountedWhenScored == TrainingInv /\ ScoreInv => EvaluationExact
<1> SUFFICES ASSUME TrainingInv, ScoreInv, phase = "objective",
                    NEW n \in 0..Len(x), NEW m \in 0..Len(x), NEW levels \in {<<0, -1>>, <<0, 1>>}
             PROVE  LET output == [i \in 1..n |-> OutputOf(i)]
                        answer == [i \in 1..m |-> AnswerFile(i)]
                        counts == EvaluateFiles(output, answer, levels)
                    IN  /\ \A l \in DOMAIN levels :
                             counts.table[l] =
                               SumFunction([i \in 1..Min({n, m}) |-> Common(output[i], answer[i], levels[l])])
                        /\ counts.prec = SumFunction([i \in 1..Min({n, m + 1}) |-> Len(output[i])])
                        /\ counts.recall = SumFunction([i \in 1..Min({m, n + 1}) |-> Len(answer[i])])
  BY DEF EvaluationExact
<1> DEFINE output == [i \in 1..n |-> OutputOf(i)]
           answer == [i \in 1..m |-> AnswerFile(i)]
           counts == EvaluateFiles(output, answer, levels)
<1>1. Len(x) \in Nat /\ IsCorpus(x) /\ \A i \in 1..Len(x) : best[i] \in WaysThrough(x[i])
  <2>1. Settled /\ Len(x) \in Nat /\ DOMAIN x = 1..Len(x)
    BY RoundStarts
  <2>2. IsCorpus(x) /\ HasScores(x, best, total.score, DOMAIN x)
    BY <2>1 DEF Settled, IsCorpus, ScoreInv, ScoredSum
  <2> QED
    BY <2>1, <2>2 DEF HasScores
<1>2. ASSUME NEW i \in 1..Len(x) PROVE IsOutput(OutputOf(i)) /\ IsOutput(AnswerFile(i))
  BY <1>1, FilesAre
<1>3. n \in Nat /\ m \in Nat /\ Len(output) = n /\ Len(answer) = m
  BY <1>1
<1>4. IsOutputs(output) /\ IsOutputs(answer)
  BY <1>1, <1>2, <1>3 DEF IsOutputs
<1>5. levels[1] = 0
  OBVIOUS
<1> HIDE DEF output, answer
<1>6. /\ \A l \in DOMAIN levels : counts.table[l] = SumFunction(Shared(output, answer, levels[l]))
      /\ counts.prec = SumFunction(Sizes(output, answer))
      /\ counts.recall = SumFunction(Sizes(answer, output))
  BY <1>4, <1>5, EvaluateFilesIs
<1> HIDE DEF counts
<1>7. /\ Min({n, m}) = Lesser(n, m) /\ Min({n, m + 1}) = Lesser(n, m + 1)
      /\ Min({m, n + 1}) = Lesser(m, n + 1)
  BY <1>3, LesserIs
<1>8. /\ \A l \in DOMAIN levels :
           counts.table[l] = SumFunction([i \in 1..Min({n, m}) |-> Common(output[i], answer[i], levels[l])])
      /\ counts.prec = SumFunction([i \in 1..Min({n, m + 1}) |-> Len(output[i])])
      /\ counts.recall = SumFunction([i \in 1..Min({m, n + 1}) |-> Len(answer[i])])
  BY <1>3, <1>6, <1>7 DEF Shared, Sizes
<1> QED
  BY <1>8 DEF output, answer, counts

(* mecab-system-eval, given the analyses and the answers of any of the first *)
(* sentences of any corpus and two levels, the surfaces first, counts at     *)
(* each level the morphemes at one place in both files, and all morphemes    *)
(* of the sentences it compares: those both files have and one more of the   *)
(* longer file.                                                              *)
THEOREM EvaluationIsExact == Spec => []EvaluationExact
BY TrainingIsConsistent, ScoresAreSums, CountedWhenScored, PTL

-----------------------------------------------------------------------------
(***************************************************************************)
(* Part X: the optimizer's ring of step/gradient-change pairs, for any  *)
(* number MSize of slots and any limit of evaluations.                     *)
(*                                                                         *)
(* While a line search waits for an evaluation, the slots behind point     *)
(* hold the pairs of the last searches, newest first (Ring): each with its *)
(* own factor, each beginning where the one before it ended, the newest    *)
(* ending where the search started.  The slot at point is the search's     *)
(* own, so there is one pair less than slots.                              *)
(***************************************************************************)
Pairs == Nat \X Nat
Factors == Pairs \X Pairs

(* The slot i places behind p. *)
Behind(p, i) == (p - i) % MSize

OptimizerTypes ==
  /\ iflag \in {-1, 0, 1} /\ iter \in Nat /\ nfev \in Nat /\ evals \in Nat /\ w \in Nat
  /\ point \in Slots /\ npt \in Slots
  /\ s \in [Slots -> Pairs] /\ y \in [Slots -> Pairs] /\ rho \in [Slots -> Factors]

Own(slot) == s[slot] = y[slot] /\ rho[slot] = <<s[slot], y[slot]>>

Ring ==
  /\ diag = <<w, w>>
  /\ \A i \in 1..MSize - 1 : i < iter =>
       /\ Own(Behind(point, i))
       /\ i = 1 => s[Behind(point, i)][2] = w
       /\ i > 1 => s[Behind(point, i)][2] = s[Behind(point, i - 1)][1]

RingInvariant ==
  /\ OptimizerTypes
  /\ iflag = 0 => iter = 0
  /\ iflag = 1 => iter > 0 /\ Ring
  /\ RecentPairs

-----------------------------------------------------------------------------
(* Slots, without the remainder. *)
LEMMA BehindIs ==
  ASSUME NEW p \in Slots, NEW i \in 0..MSize
  PROVE  Behind(p, i) = (IF i <= p THEN p - i ELSE p - i + MSize)
<1>1. MSize \in Nat \ {0} /\ p \in 0..MSize - 1
  BY LBFGSAssumption DEF Slots
<1>2. CASE i <= p
  <2>1. p - i \in Int /\ 0 <= p - i /\ p - i < MSize
    BY <1>1, <1>2
  <2> QED
    BY <1>1, <1>2, <2>1, SMT DEF Behind
<1>3. CASE ~(i <= p)
  <2>1. p - i \in Int /\ -MSize <= p - i /\ p - i < 0
    BY <1>1, <1>3
  <2> QED
    BY <1>1, <1>3, <2>1, SMT DEF Behind
<1> QED
  BY <1>2, <1>3

LEMMA AfterIs ==
  ASSUME NEW p \in Slots
  PROVE  /\ (p + 1) % MSize = IF p = MSize - 1 THEN 0 ELSE p + 1
         /\ (p + 1) % MSize \in Slots
<1>1. MSize \in Nat \ {0} /\ p \in 0..MSize - 1
  BY LBFGSAssumption DEF Slots
<1>2. CASE p = MSize - 1
  BY <1>1, <1>2, SMT DEF Slots
<1>3. CASE p # MSize - 1
  <2>1. p + 1 \in Int /\ 0 <= p + 1 /\ p + 1 < MSize
    BY <1>1, <1>3
  <2>2. (p + 1) % MSize = p + 1
    BY <1>1, <2>1, SMT
  <2> QED
    BY <1>1, <1>3, <2>1, <2>2 DEF Slots
<1> QED
  BY <1>2, <1>3

(* Going on by one slot: what was i behind is i + 1 behind, and only the    *)
(* slot as far behind as there are slots is the new one itself.             *)
LEMMA Moving ==
  ASSUME NEW p \in Slots, NEW i \in 1..MSize
  PROVE  LET q == (p + 1) % MSize IN
         /\ q \in Slots /\ Behind(q, i) \in Slots
         /\ Behind(q, i) = Behind(p, i - 1)
         /\ i = 1 => Behind(q, i) = p
         /\ i > 1 => Behind(q, i) # p
         /\ i < MSize => Behind(q, i) # q
<1> DEFINE q == (p + 1) % MSize
<1>1. MSize \in Nat \ {0} /\ p \in 0..MSize - 1 /\ i - 1 \in 0..MSize /\ i \in 0..MSize
  BY LBFGSAssumption DEF Slots
<1>2. q = (IF p = MSize - 1 THEN 0 ELSE p + 1) /\ q \in Slots
  BY AfterIs
<1>3. Behind(p, i - 1) = IF i - 1 <= p THEN p - (i - 1) ELSE p - (i - 1) + MSize
  BY <1>1, BehindIs
<1> HIDE DEF q
<1>4. Behind(q, i) = IF i <= q THEN q - i ELSE q - i + MSize
  BY <1>1, <1>2, BehindIs
<1> QED
  BY <1>1, <1>2, <1>3, <1>4 DEF Slots, q
-----------------------------------------------------------------------------
(* What a call of optimize() that goes on does to the parts of the state.  *)
LEMMA SearchOnFacts ==
  ASSUME OptimizerTypes, SearchOn
  PROVE  /\ UNCHANGED <<iflag, iter, point, npt, s, y, rho, w, diag, used>>
         /\ evals' = evals + 1 /\ nfev' \in Nat
BY DEF OptimizerTypes, SearchOn, Becomes, Evaluated, State

LEMMA FirstSearchFacts ==
  ASSUME OptimizerTypes, iter = 0, FirstSearch
  PROVE  /\ iflag' = 1 /\ iter' = 1 /\ nfev' = 0 /\ evals' = evals + 1
         /\ w' = evals + 1 /\ diag' = <<evals + 1, evals + 1>>
         /\ UNCHANGED <<point, npt, y, rho, used>>
         /\ s' = [s EXCEPT ![point] = NoPair]
<1> DEFINE st == [Evaluated EXCEPT !.iter = @ + 1]
<1>1. /\ st.iter = 1 /\ st.evals = evals + 1 /\ st.point = point /\ st.npt = npt
      /\ st.s = s /\ st.y = y /\ st.rho = rho /\ st.used = used
      /\ DOMAIN st = DOMAIN State
  BY DEF OptimizerTypes, Evaluated, State
<1>2. Becomes(SearchFrom(st))
  BY <1>1 DEF FirstSearch, NextIteration
<1> HIDE DEF st
<1> QED
  BY <1>1, <1>2 DEF Becomes, SearchFrom, State
(* The next search, after one that succeeded: its pair, the arrays with it, *)
(* the slot that follows and what the direction is computed from.           *)
NewPair == <<w, evals + 1>>
NewS == [s EXCEPT ![point] = NewPair]
NewY == [y EXCEPT ![point] = NewPair]
NewRho == [rho EXCEPT ![point] = <<NewPair, NewPair>>]
NewPoint == (point + 1) % MSize
NewBound == IF iter < MSize THEN iter ELSE MSize
PairAt(slot) == [s |-> NewS[slot], y |-> NewY[slot], rho |-> NewRho[slot]]

LEMMA PointBefore ==
  ASSUME NEW p \in Slots
  PROVE  (((p + 1) % MSize) + MSize - 1) % MSize = p
<1> DEFINE q == (p + 1) % MSize
<1>1. MSize \in Nat \ {0} /\ p \in 0..MSize - 1
  BY LBFGSAssumption DEF Slots
<1>2. q = (IF p = MSize - 1 THEN 0 ELSE p + 1) /\ q \in 0..MSize - 1
  BY AfterIs DEF Slots
<1> HIDE DEF q
<1>3. CASE p = MSize - 1
  <2>1. q + MSize - 1 = MSize - 1
    BY <1>1, <1>2, <1>3
  <2>2. (MSize - 1) % MSize = MSize - 1
    BY <1>1, SMT
  <2> QED
    BY <1>3, <2>1, <2>2 DEF q
<1>4. CASE p # MSize - 1
  <2>1. q + MSize - 1 = p + MSize
    BY <1>1, <1>2, <1>4
  <2>2. (p + MSize) % MSize = p
    BY <1>1, SMT
  <2> QED
    BY <2>1, <2>2 DEF q
<1> QED
  BY <1>3, <1>4

LEMMA NextSearchFacts ==
  ASSUME OptimizerTypes, iflag = 1, iter > 0, diag = <<w, w>>, NextSearch
  PROVE  /\ iflag' = 1 /\ iter' = iter + 1 /\ nfev' = 0 /\ evals' = evals + 1
         /\ point' = NewPoint /\ npt' = point
         /\ w' = evals + 1 /\ diag' = <<evals + 1, evals + 1>>
         /\ s' = [NewS EXCEPT ![NewPoint] = NoPair] /\ y' = NewY /\ rho' = NewRho
         /\ used' = [down  |-> [i \in 1..NewBound |-> PairAt((NewPoint - i) % MSize)],
                     up    |-> [i \in 1..NewBound |->
                                  PairAt((NewPoint - NewBound + i - 1) % MSize)],
                     scale |-> <<NewPair, NewPair>>]
<1> DEFINE st1 == Evaluated
           st2 == Store(st1)
           st3 == [st2 EXCEPT !.iter = @ + 1]
           st4 == Direction(st3)
<1>1. /\ st1.iter = iter /\ st1.evals = evals + 1 /\ st1.point = point /\ st1.npt = npt
      /\ st1.s = s /\ st1.y = y /\ st1.rho = rho /\ st1.used = used
      /\ st1.w = w /\ st1.diag = diag
      /\ DOMAIN st1 = DOMAIN State
      /\ st1 = [field \in DOMAIN State |-> st1[field]]
  BY DEF OptimizerTypes, Evaluated, State
<1> HIDE DEF st1
<1>2. /\ st2.iter = iter /\ st2.evals = evals + 1 /\ st2.point = NewPoint /\ st2.npt = point
      /\ st2.s = NewS /\ st2.y = NewY /\ st2.rho = rho
      /\ DOMAIN st2 = DOMAIN State
  BY <1>1 DEF Store, State, NewS, NewY, NewPair, NewPoint
<1> HIDE DEF st2
<1>3. /\ st3.iter = iter + 1 /\ st3.evals = evals + 1 /\ st3.point = NewPoint
      /\ st3.npt = point /\ st3.s = NewS /\ st3.y = NewY /\ st3.rho = rho
      /\ DOMAIN st3 = DOMAIN State
  BY <1>2 DEF State
<1> HIDE DEF st3
<1>4. Bound(st3) = NewBound
  BY <1>3 DEF Bound, NewBound, OptimizerTypes
<1>5. RhoSlot(st3) = point
  BY <1>3, PointBefore DEF RhoSlot, NewPoint, OptimizerTypes
<1>6. st3.s[st3.npt] = NewPair /\ st3.y[st3.npt] = NewPair
  BY <1>3 DEF NewS, NewY, OptimizerTypes
<1>7. /\ st4.iter = iter + 1 /\ st4.evals = evals + 1 /\ st4.point = NewPoint
      /\ st4.npt = point /\ st4.s = NewS /\ st4.y = NewY /\ st4.rho = NewRho
      /\ st4.used = [down  |-> [i \in 1..NewBound |-> PairAt((NewPoint - i) % MSize)],
                     up    |-> [i \in 1..NewBound |->
                                  PairAt((NewPoint - NewBound + i - 1) % MSize)],
                     scale |-> <<NewPair, NewPair>>]
      /\ DOMAIN st4 = DOMAIN State
  <2> DEFINE newest == [st3 EXCEPT !.diag = <<st3.s[st3.npt], st3.y[st3.npt]>>,
                                   !.rho[RhoSlot(st3)] = <<st3.s[st3.npt], st3.y[st3.npt]>>]
             pair(slot) == [s |-> newest.s[slot], y |-> newest.y[slot], rho |-> newest.rho[slot]]
             bound == Bound(st3)
             u == [down  |-> [i \in 1..bound |-> pair((st3.point - i) % MSize)],
                   up    |-> [i \in 1..bound |-> pair((st3.point - bound + i - 1) % MSize)],
                   scale |-> newest.diag]
  <2>1. /\ newest.iter = iter + 1 /\ newest.evals = evals + 1 /\ newest.point = NewPoint
        /\ newest.npt = point /\ newest.s = NewS /\ newest.y = NewY /\ newest.rho = NewRho
        /\ newest.diag = <<NewPair, NewPair>>
        /\ DOMAIN newest = DOMAIN State
    BY <1>3, <1>5, <1>6 DEF State, NewRho
  <2>2. st4 = [newest EXCEPT !.used = u]
    BY DEF Direction
  <2> HIDE DEF newest, st4
  <2>3. \A slot : pair(slot) = PairAt(slot)
    BY <2>1 DEF PairAt
  <2>4. bound = NewBound
    BY <1>4
  <2> HIDE DEF pair, bound
  <2>5. u = [down  |-> [i \in 1..NewBound |-> PairAt((NewPoint - i) % MSize)],
             up    |-> [i \in 1..NewBound |->
                          PairAt((NewPoint - NewBound + i - 1) % MSize)],
             scale |-> <<NewPair, NewPair>>]
    BY <1>3, <2>1, <2>3, <2>4
  <2> HIDE DEF u
  <2> QED
    BY <2>1, <2>2, <2>5 DEF State
<1> HIDE DEF st4
<1>8. Becomes(SearchFrom(st4))
  <2>1. Becomes(NextIteration(st2))
    BY DEF NextSearch, st1, st2
  <2>2. NextIteration(st2) = SearchFrom(st4)
    <3>1. st3.iter # 1
      BY <1>3 DEF OptimizerTypes
    <3> QED
      BY <3>1 DEF NextIteration, st3, st4
  <2> QED
    BY <2>1, <2>2
<1> QED
  BY <1>7, <1>8 DEF Becomes, SearchFrom, State
-----------------------------------------------------------------------------
LEMMA InitRing == Init => RingInvariant
<1> SUFFICES ASSUME Init PROVE RingInvariant
  OBVIOUS
<1>1. Start
  BY DEF Init
<1>2. 0 \in Slots /\ NoPair \in Pairs
  BY LBFGSAssumption DEF Slots, NoPair, Pairs
<1>3. <<NoPair, NoPair>> \in Factors
  BY <1>2 DEF Factors
<1>4. OptimizerTypes
  BY <1>1, <1>2, <1>3 DEF Start, OptimizerTypes
<1> QED
  BY <1>1, <1>4 DEF Start, RingInvariant, RecentPairs

(* The arrays with the new pair, seen from the slot the ring moved on to.   *)
LEMMA NewArrays ==
  ASSUME OptimizerTypes
  PROVE  /\ NewPoint \in Slots /\ NewPair \in Pairs
         /\ NewS \in [Slots -> Pairs] /\ NewY \in [Slots -> Pairs]
         /\ NewRho \in [Slots -> Factors]
         /\ [NewS EXCEPT ![NewPoint] = NoPair] \in [Slots -> Pairs]
<1>1. NewPoint \in Slots
  BY AfterIs DEF OptimizerTypes, NewPoint
<1>2. NewPair \in Pairs /\ NoPair \in Pairs
  BY DEF OptimizerTypes, NewPair, NoPair, Pairs
<1>3. <<NewPair, NewPair>> \in Factors
  BY <1>2 DEF Factors
<1> QED
  BY <1>1, <1>2, <1>3 DEF OptimizerTypes, NewS, NewY, NewRho

LEMMA NewRing ==
  ASSUME OptimizerTypes, iter > 0, Ring, NEW i \in 1..MSize, i <= iter
  PROVE  LET slot == Behind(NewPoint, i) IN
         /\ slot \in Slots
         /\ NewS[slot] = NewY[slot] /\ NewRho[slot] = <<NewS[slot], NewY[slot]>>
         /\ i = 1 => NewS[slot] = NewPair
         /\ i > 1 => NewS[slot][2] = NewS[Behind(NewPoint, i - 1)][1]
<1> DEFINE slot == Behind(NewPoint, i)
<1>1. point \in Slots /\ MSize \in Nat \ {0} /\ iter \in Nat
  BY LBFGSAssumption DEF OptimizerTypes
<1>2. slot \in Slots /\ slot = Behind(point, i - 1)
      /\ (i = 1 => slot = point) /\ (i > 1 => slot # point)
  BY <1>1, Moving DEF NewPoint
<1>3. CASE i = 1
  BY <1>1, <1>2, <1>3 DEF OptimizerTypes, NewS, NewY, NewRho
<1>4. CASE i > 1
  <2>1. i - 1 \in 1..MSize - 1 /\ i - 1 < iter
    BY <1>1, <1>4
  <2>2. Own(slot)
    BY <1>2, <2>1 DEF Ring
  <2>3. NewS[slot] = s[slot] /\ NewY[slot] = y[slot] /\ NewRho[slot] = rho[slot]
    BY <1>2, <1>4 DEF OptimizerTypes, NewS, NewY, NewRho
  <2>4. CASE i = 2
    <3>1. Behind(NewPoint, i - 1) = point
      BY <1>1, <2>1, <2>4, Moving DEF NewPoint
    <3>2. NewS[point] = NewPair
      BY <1>1 DEF OptimizerTypes, NewS
    <3>3. s[slot][2] = w
      BY <1>2, <2>1, <2>4 DEF Ring
    <3> QED
      BY <1>2, <1>4, <2>2, <2>3, <3>1, <3>2, <3>3 DEF Own, NewPair
  <2>5. CASE i > 2
    <3> DEFINE nearer == Behind(NewPoint, i - 1)
    <3>1. nearer \in Slots /\ nearer = Behind(point, (i - 1) - 1) /\ nearer # point
      <4>1. i - 1 \in 1..MSize /\ i - 1 > 1
        BY <1>1, <2>1, <2>5
      <4> QED
        BY <1>1, <4>1, Moving DEF NewPoint
    <3>2. NewS[nearer] = s[nearer]
      BY <3>1 DEF OptimizerTypes, NewS
    <3>3. s[slot][2] = s[nearer][1]
      BY <1>2, <2>1, <2>5, <3>1 DEF Ring
    <3> HIDE DEF nearer, slot
    <3> QED
      BY <1>2, <1>4, <2>2, <2>3, <3>2, <3>3 DEF Own, nearer, slot
  <2> QED
    BY <1>1, <1>4, <2>4, <2>5
<1> QED
  BY <1>1, <1>3, <1>4
-----------------------------------------------------------------------------
(* What the direction is computed from, read from the ring.                 *)
LEMMA NewDirection ==
  ASSUME OptimizerTypes, iter > 0, Ring,
         iter' = iter + 1, w' = evals + 1,
         used' = [down  |-> [i \in 1..NewBound |-> PairAt((NewPoint - i) % MSize)],
                  up    |-> [i \in 1..NewBound |->
                               PairAt((NewPoint - NewBound + i - 1) % MSize)],
                  scale |-> <<NewPair, NewPair>>]
  PROVE  RecentPairs'
<1> DEFINE down == [i \in 1..NewBound |-> PairAt((NewPoint - i) % MSize)]
           up == [i \in 1..NewBound |-> PairAt((NewPoint - NewBound + i - 1) % MSize)]
<1>1. MSize \in Nat \ {0} /\ iter \in Nat \ {0} /\ NewPoint \in Int
  BY LBFGSAssumption, NewArrays DEF OptimizerTypes, Slots
<1>2. NewBound \in Nat \ {0} /\ NewBound <= iter /\ NewBound <= MSize
  BY <1>1 DEF NewBound
<1>3. \A i \in 1..NewBound : down[i] = PairAt(Behind(NewPoint, i))
  BY DEF Behind
<1>4. Len(down) = NewBound /\ DOMAIN down = 1..NewBound
  BY <1>2
<1>5. used'.down = down /\ used'.up = up /\ used'.scale = <<NewPair, NewPair>>
  OBVIOUS
<1>6. up = Reverse(down)
  <2>1. \A i \in 1..NewBound : up[i] = down[(Len(down) - i) + 1]
    <3> TAKE i \in 1..NewBound
    <3>1. NewPoint - NewBound + i - 1 = NewPoint - ((NewBound - i) + 1)
      BY <1>1, <1>2
    <3>2. (NewBound - i) + 1 \in 1..NewBound
      BY <1>2
    <3>3. up[i] = PairAt((NewPoint - NewBound + i - 1) % MSize)
      OBVIOUS
    <3>4. down[(NewBound - i) + 1] = PairAt((NewPoint - ((NewBound - i) + 1)) % MSize)
      BY <3>2
    <3> QED
      BY <1>4, <3>1, <3>3, <3>4
  <2>2. up = [i \in 1..NewBound |-> up[i]]
    OBVIOUS
  <2> HIDE DEF up, down
  <2> QED
    BY <1>4, <2>1, <2>2 DEF Reverse
<1> HIDE DEF up, down
<1>7. \A i \in 1..NewBound :
        /\ down[i].s = down[i].y /\ down[i].rho = <<down[i].s, down[i].y>>
        /\ i = 1 => down[i].s = NewPair
        /\ i > 1 => down[i].s[2] = down[i - 1].s[1]
  <2> TAKE i \in 1..NewBound
  <2>1. i \in 1..MSize /\ i <= iter
    BY <1>1, <1>2
  <2>2. i > 1 => i - 1 \in 1..NewBound
    BY <1>2
  <2>3. /\ NewS[Behind(NewPoint, i)] = NewY[Behind(NewPoint, i)]
        /\ NewRho[Behind(NewPoint, i)] = <<NewS[Behind(NewPoint, i)], NewY[Behind(NewPoint, i)]>>
        /\ i = 1 => NewS[Behind(NewPoint, i)] = NewPair
        /\ i > 1 => NewS[Behind(NewPoint, i)][2] = NewS[Behind(NewPoint, i - 1)][1]
    BY <2>1, NewRing
  <2>4. /\ down[i].s = NewS[Behind(NewPoint, i)] /\ down[i].y = NewY[Behind(NewPoint, i)]
        /\ down[i].rho = NewRho[Behind(NewPoint, i)]
    <3>1. down[i] = PairAt(Behind(NewPoint, i))
      BY <1>3
    <3> QED
      BY ONLY <3>1 DEF PairAt
  <2>5. i > 1 => down[i - 1].s = NewS[Behind(NewPoint, i - 1)]
    <3>1. i > 1 => down[i - 1] = PairAt(Behind(NewPoint, i - 1))
      BY <1>3, <2>2
    <3> QED
      BY ONLY <3>1 DEF PairAt
  <2> HIDE DEF NewPair
  <2>6. i > 1 => down[i].s[2] = down[i - 1].s[1]
    BY <2>3, <2>4, <2>5
  <2> QED
    BY <2>3, <2>4, <2>6
<1>8. \A i \in 1..Len(down) - 1 : down[i].s[1] = down[i + 1].s[2]
  <2> TAKE i \in 1..Len(down) - 1
  <2>1. i + 1 \in 1..NewBound /\ i + 1 > 1 /\ (i + 1) - 1 = i
    BY <1>2, <1>4
  <2> QED
    BY <1>7, <2>1
<1>9. down[1].s[2] = w' /\ <<NewPair, NewPair>> = down[1].rho
  <2>1. 1 \in 1..NewBound
    BY <1>2
  <2>2. down[1].s = NewPair /\ down[1].rho = <<NewPair, NewPair>>
    BY <1>7, <2>1
  <2> QED
    BY <2>2 DEF NewPair
<1>10. iter' - 1 = iter
  BY <1>1
<1>11. /\ Len(used'.down) = (IF iter' - 1 < MSize THEN iter' - 1 ELSE MSize)
       /\ used'.up = Reverse(used'.down)
  BY <1>4, <1>5, <1>6, <1>10 DEF NewBound
<1>12. \A i \in DOMAIN used'.down :
         /\ used'.down[i].s = used'.down[i].y
         /\ used'.down[i].rho = <<used'.down[i].s, used'.down[i].y>>
  BY <1>4, <1>5, <1>7
<1>13. \A i \in 1..Len(used'.down) - 1 : used'.down[i].s[1] = used'.down[i + 1].s[2]
  BY <1>5, <1>8
<1>14. used'.down[1].s[2] = w' /\ used'.scale = used'.down[1].rho
  BY <1>5, <1>9
<1> QED
  BY ONLY <1>11, <1>12, <1>13, <1>14 DEF RecentPairs

LEMMA NextSearchRing == RingInvariant /\ NextSearch => RingInvariant'
<1> SUFFICES ASSUME RingInvariant, NextSearch PROVE RingInvariant'
  OBVIOUS
<1>1. OptimizerTypes /\ iflag = 1 /\ iter > 0 /\ Ring /\ diag = <<w, w>>
  BY DEF RingInvariant, NextSearch, Ring
<1>2. /\ iflag' = 1 /\ iter' = iter + 1 /\ nfev' = 0 /\ evals' = evals + 1
      /\ point' = NewPoint /\ npt' = point
      /\ w' = evals + 1 /\ diag' = <<evals + 1, evals + 1>>
      /\ s' = [NewS EXCEPT ![NewPoint] = NoPair] /\ y' = NewY /\ rho' = NewRho
      /\ used' = [down  |-> [i \in 1..NewBound |-> PairAt((NewPoint - i) % MSize)],
                  up    |-> [i \in 1..NewBound |->
                               PairAt((NewPoint - NewBound + i - 1) % MSize)],
                  scale |-> <<NewPair, NewPair>>]
  BY <1>1, NextSearchFacts
<1>3. OptimizerTypes'
  BY <1>1, <1>2, NewArrays DEF OptimizerTypes
<1>4. RecentPairs'
  BY <1>1, <1>2, NewDirection
<1>5. Ring'
  <2>1. diag' = <<w', w'>>
    BY <1>2
  <2>2. MSize \in Nat \ {0} /\ iter \in Nat /\ point \in Slots
    BY <1>1, LBFGSAssumption DEF OptimizerTypes
  <2>3. \A i \in 1..MSize - 1 : Behind(point', i) = Behind(NewPoint, i)
    BY <1>2 DEF Behind
  <2>4. \A i \in 1..MSize - 1 : s'[Behind(NewPoint, i)] = NewS[Behind(NewPoint, i)]
    <3> TAKE i \in 1..MSize - 1
    <3>1. i \in 1..MSize /\ i < MSize
      BY <2>2
    <3>2. Behind(NewPoint, i) \in Slots /\ Behind(NewPoint, i) # NewPoint
      BY <2>2, <3>1, Moving DEF NewPoint
    <3> QED
      BY <1>1, <1>2, <3>2, NewArrays
  <2>5. ASSUME NEW i \in 1..MSize - 1, i < iter'
        PROVE  /\ Own(Behind(point, i))'
               /\ i = 1 => s'[Behind(point', i)][2] = w'
               /\ i > 1 => s'[Behind(point', i)][2] = s'[Behind(point', i - 1)][1]
    <3>1. i \in 1..MSize /\ i <= iter /\ (i > 1 => i - 1 \in 1..MSize - 1)
      BY <1>2, <2>2, <2>5
    <3>2. /\ NewS[Behind(NewPoint, i)] = NewY[Behind(NewPoint, i)]
          /\ NewRho[Behind(NewPoint, i)] = <<NewS[Behind(NewPoint, i)], NewY[Behind(NewPoint, i)]>>
          /\ i = 1 => NewS[Behind(NewPoint, i)] = NewPair
          /\ i > 1 => NewS[Behind(NewPoint, i)][2] = NewS[Behind(NewPoint, i - 1)][1]
      BY <1>1, <3>1, NewRing
    <3>3. Own(Behind(point, i))'
      BY <1>2, <2>3, <2>4, <3>2 DEF Own
    <3>4. i = 1 => s'[Behind(point', i)][2] = w'
      BY <1>2, <2>3, <2>4, <3>2 DEF NewPair
    <3>5. i > 1 => s'[Behind(point', i)][2] = s'[Behind(point', i - 1)][1]
      BY <2>3, <2>4, <3>1, <3>2
    <3> QED
      BY <3>3, <3>4, <3>5
  <2> QED
    BY <2>1, <2>5 DEF Ring
<1>6. iter' > 0
  BY <1>1, <1>2 DEF OptimizerTypes
<1> QED
  BY <1>2, <1>3, <1>4, <1>5, <1>6 DEF RingInvariant
LEMMA FirstSearchRing == RingInvariant /\ FirstSearch => RingInvariant'
<1> SUFFICES ASSUME RingInvariant, FirstSearch PROVE RingInvariant'
  OBVIOUS
<1>1. OptimizerTypes /\ iter = 0
  BY DEF RingInvariant, FirstSearch
<1>2. /\ iflag' = 1 /\ iter' = 1 /\ nfev' = 0 /\ evals' = evals + 1
      /\ w' = evals + 1 /\ diag' = <<evals + 1, evals + 1>>
      /\ UNCHANGED <<point, npt, y, rho, used>>
      /\ s' = [s EXCEPT ![point] = NoPair]
  BY <1>1, FirstSearchFacts
<1>3. NoPair \in Pairs
  BY DEF NoPair, Pairs
<1>4. OptimizerTypes'
  BY <1>1, <1>2, <1>3 DEF OptimizerTypes
<1>5. Ring'
  BY <1>2, LBFGSAssumption DEF Ring
<1> QED
  BY <1>2, <1>4, <1>5 DEF RingInvariant, RecentPairs

LEMMA SearchOnRing == RingInvariant /\ SearchOn => RingInvariant'
<1> SUFFICES ASSUME RingInvariant, SearchOn PROVE RingInvariant'
  OBVIOUS
<1>1. OptimizerTypes /\ iflag = 1 /\ iter > 0 /\ Ring /\ RecentPairs
  BY DEF RingInvariant, SearchOn
<1>2. /\ UNCHANGED <<iflag, iter, point, npt, s, y, rho, w, diag, used>>
      /\ evals' = evals + 1 /\ nfev' \in Nat
  BY <1>1, SearchOnFacts
<1>3. OptimizerTypes'
  BY <1>1, <1>2 DEF OptimizerTypes
<1>4. Ring'
  BY <1>1, <1>2 DEF Ring, Own, Behind
<1>5. RecentPairs'
  BY <1>1, <1>2 DEF RecentPairs
<1> QED
  BY <1>1, <1>2, <1>3, <1>4, <1>5 DEF RingInvariant

LEMMA EndRing == RingInvariant /\ (Minimum \/ Failure) => RingInvariant'
<1>1. ASSUME RingInvariant, Minimum PROVE RingInvariant'
  <2>1. 0 \in Slots /\ NoPair \in Pairs
    BY LBFGSAssumption DEF Slots, NoPair, Pairs
  <2>2. <<NoPair, NoPair>> \in Factors
    BY <2>1 DEF Factors
  <2>3. OptimizerTypes' /\ iflag' = 0 /\ iter' = 0
    BY <1>1, <2>1, <2>2 DEF Minimum, Becomes, Cleared, OptimizerTypes
  <2> QED
    BY <2>3 DEF RingInvariant, RecentPairs
<1>2. ASSUME RingInvariant, Failure PROVE RingInvariant'
  <2>1. OptimizerTypes /\ RecentPairs
    BY <1>2 DEF RingInvariant
  <2>2. /\ UNCHANGED <<iter, point, npt, s, y, rho, w, used>>
        /\ iflag' = -1 /\ evals' = evals + 1 /\ nfev' \in Nat
    BY <1>2, <2>1 DEF Failure, Becomes, Evaluated, State, OptimizerTypes
  <2>3. OptimizerTypes'
    BY <2>1, <2>2 DEF OptimizerTypes
  <2>4. RecentPairs'
    BY <2>1, <2>2 DEF RecentPairs
  <2> QED
    BY <2>2, <2>3, <2>4 DEF RingInvariant
<1> QED
  BY <1>1, <1>2

LEMMA StepRing == RingInvariant /\ [Next]_vars => RingInvariant'
<1> SUFFICES ASSUME RingInvariant, [Next]_vars PROVE RingInvariant'
  OBVIOUS
<1>1. CASE UNCHANGED optimizerVars
  BY <1>1 DEF optimizerVars, RingInvariant, OptimizerTypes, Ring, Own, Behind, RecentPairs
<1>2. CASE Optimize
  BY <1>2, FirstSearchRing, SearchOnRing, NextSearchRing, EndRing DEF Optimize, GoOn
<1>3. UNCHANGED optimizerVars \/ Optimize
  <2>1. CASE UNCHANGED vars
    BY <2>1 DEF vars
  <2>2. CASE \E sentence \in Sentences : Read(sentence)
    BY <2>2 DEF Read
  <2>3. CASE \E t \in DOMAIN thread : ThreadBegins(t) \/ ThreadSentence(t) \/ ThreadEnds(t)
    BY <2>3 DEF ThreadBegins, ThreadSentence, ThreadEnds
  <2>4. CASE \E small \in BOOLEAN : Objective(small)
    BY <2>4 DEF Objective
  <2>5. CASE CutOff \/ BeginRound \/ Alone \/ StartThread \/ JoinThread \/ SumThread \/ Save
    BY <2>5 DEF CutOff, BeginRound, Alone, StartThread, JoinThread, SumThread, Save
  <2> QED
    BY <2>1, <2>2, <2>3, <2>4, <2>5 DEF Next
<1> QED
  BY <1>1, <1>2, <1>3

(* Every direction that optimize() searches in is computed from the newest  *)
(* pairs, as many as there are and the ring holds, newest first and then    *)
(* back, each with the factor of its own, whatever the size of the ring,    *)
(* the corpus, the threads that add the gradient up and the searches that   *)
(* end early, at a minimum or in a failure.                                 *)
THEOREM DirectionFromRecentPairs == Spec => []RecentPairs
<1>1. RingInvariant => RecentPairs
  BY DEF RingInvariant
<1> QED
  BY <1>1, InitRing, StepRing, PTL DEF Spec

===================================================================================
