-------------------------- MODULE InductionLemmas ---------------------------
(***************************************************************************)
(* Induction and recursion without operators as parameters: an induction   *)
(* is about the set of the numbers that have the property, and a recursive *)
(* definition about the function that gives the value at an element from a *)
(* function with the values at the others.  Then what follows from that    *)
(* for the operators the models use: greatest elements, numbers in order,  *)
(* what is selected from a sequence, sequences that are joined, sums.      *)
(***************************************************************************)
EXTENDS Integers, SequencesExt, Ordering, FiniteSetTheorems, SequenceTheorems, WellFoundedInduction, TLAPS

(* Induction, for a set of numbers. *)
LEMMA NatSetInduction ==
  ASSUME NEW T, 0 \in T, \A n \in Nat : n \in T => n + 1 \in T
  PROVE  Nat \subseteq T
<1> DEFINE missing == Nat \ T
<1> SUFFICES ASSUME missing # {} PROVE FALSE
  OBVIOUS
<1>1. PICK x \in missing : \A y \in missing : <<y, x>> \notin OpToRel(<, Nat)
  <2>1. missing \subseteq Nat
    OBVIOUS
  <2> HIDE DEF missing
  <2> QED
    BY <2>1, NatLessThanWellFounded, WFMin
<1>2. x - 1 \in missing /\ x - 1 < x
  <2>1. x # 0 /\ x \in Nat /\ x - 1 \in Nat /\ (x - 1) + 1 = x
    OBVIOUS
  <2> QED
    BY <2>1
<1>3. <<x - 1, x>> \in OpToRel(<, Nat)
  BY <1>2 DEF OpToRel
<1> QED
  BY <1>1, <1>2, <1>3

(***************************************************************************)
(* A recursive definition has a function that satisfies it if the value at *)
(* an element depends on values at elements of lower rank only.            *)
(***************************************************************************)
Recursion(S, V, bound, rank, value) ==
  /\ V # {} /\ bound \in Nat /\ rank \in [S -> 0..bound]
  /\ value \in [S \X [S -> V] -> V]
  /\ \A n \in S : \A f, g \in [S -> V] :
       (\A m \in S : rank[m] < rank[n] => f[m] = g[m])
         => value[<<n, f>>] = value[<<n, g>>]

LEMMA RecursiveFunctionExists ==
  ASSUME NEW S, NEW V, NEW bound, NEW rank, NEW value,
         Recursion(S, V, bound, rank, value)
  PROVE  \E f \in [S -> V] : \A n \in S : f[n] = value[<<n, f>>]
<1> USE DEF Recursion
<1> DEFINE T == {k \in Nat : \E f \in [S -> V] :
                   \A n \in S : rank[n] < k => f[n] = value[<<n, f>>]}
<1>1. 0 \in T
  <2>1. PICK v \in V : TRUE
    OBVIOUS
  <2>2. [n \in S |-> v] \in [S -> V]
    OBVIOUS
  <2>3. \A n \in S : ~(rank[n] < 0)
    OBVIOUS
  <2> QED
    BY <2>2, <2>3
<1>2. ASSUME NEW k \in Nat, k \in T PROVE k + 1 \in T
  <2>1. PICK f \in [S -> V] : \A n \in S : rank[n] < k => f[n] = value[<<n, f>>]
    BY <1>2
  <2> DEFINE g == [n \in S |-> IF rank[n] = k THEN value[<<n, f>>] ELSE f[n]]
  <2>2. g \in [S -> V]
    OBVIOUS
  <2>3. ASSUME NEW n \in S, rank[n] < k + 1
        PROVE  g[n] = value[<<n, f>>]
    <3>1. CASE rank[n] = k
      BY <3>1
    <3>2. CASE rank[n] # k
      <4>1. rank[n] \in Nat /\ rank[n] < k + 1
        BY <2>3
      <4>2. rank[n] < k
        BY <3>2, <4>1
      <4> QED
        BY <2>1, <3>2, <4>2
    <3> QED
      BY <3>1, <3>2
  <2>4. ASSUME NEW n \in S, rank[n] < k + 1
        PROVE  value[<<n, f>>] = value[<<n, g>>]
    <3>1. \A m \in S : rank[m] < rank[n] => f[m] = g[m]
      BY <2>4
    <3> HIDE DEF g
    <3> QED
      BY <2>2, <3>1
  <2> HIDE DEF g
  <2>5. \A n \in S : rank[n] < k + 1 => g[n] = value[<<n, g>>]
    BY <2>3, <2>4
  <2>6. k + 1 \in Nat
    OBVIOUS
  <2> QED
    BY <2>2, <2>5, <2>6
<1>3. bound + 1 \in T
  <2> HIDE DEF T
  <2> QED
    BY <1>1, <1>2, NatSetInduction
<1>4. PICK f \in [S -> V] : \A n \in S : rank[n] < bound + 1 => f[n] = value[<<n, f>>]
  BY <1>3
<1> QED
  BY <1>4

(* Induction along an interval. *)
LEMMA IntervalInduction ==
  ASSUME NEW n \in Nat, NEW T, 1 \in T, \A i \in 1..(n - 1) : i \in T => i + 1 \in T
  PROVE  1..n \subseteq T
<1> DEFINE U == {k \in Nat : k + 1 \in 1..n => k + 1 \in T}
<1>1. 0 \in U
  OBVIOUS
<1>2. ASSUME NEW k \in Nat, k \in U PROVE k + 1 \in U
  <2>1. CASE k + 2 \in 1..n
    <3>1. k + 1 \in 1..(n - 1) /\ k + 1 \in T /\ (k + 1) + 1 = k + 2
      BY <1>2, <2>1
    <3> QED
      BY <3>1
  <2>2. CASE k + 2 \notin 1..n
    <3>1. (k + 1) + 1 = k + 2
      BY <1>2
    <3> QED
      BY <2>2, <3>1
  <2> QED
    BY <2>1, <2>2
<1>3. Nat \subseteq U
  <2> HIDE DEF U
  <2> QED
    BY <1>1, <1>2, NatSetInduction
<1>4. ASSUME NEW i \in 1..n PROVE i \in T
  <2>1. i - 1 \in U /\ (i - 1) + 1 = i
    BY <1>3
  <2> QED
    BY <2>1
<1> QED
  BY <1>4

(* The greatest element of a bounded set of numbers. *)
LEMMA MaxOfBounded ==
  ASSUME NEW S \in SUBSET Nat, NEW bound \in Nat, \A x \in S : x <= bound, S # {}
  PROVE  Max(S) \in S /\ \A x \in S : x <= Max(S)
<1> DEFINE T == {k \in Nat : \A U \in SUBSET Nat :
                   (U # {} /\ \A x \in U : x <= k) => \E m \in U : \A x \in U : m >= x}
<1>1. 0 \in T
  <2>1. ASSUME NEW U \in SUBSET Nat, U # {}, \A x \in U : x <= 0
        PROVE  \E m \in U : \A x \in U : m >= x
    <3>1. \A x \in U : x = 0
      BY <2>1
    <3> QED
      BY <2>1, <3>1
  <2> QED
    BY <2>1
<1>2. ASSUME NEW k \in Nat, k \in T PROVE k + 1 \in T
  <2> SUFFICES ASSUME NEW U \in SUBSET Nat, U # {}, \A x \in U : x <= k + 1
               PROVE  \E m \in U : \A x \in U : m >= x
    OBVIOUS
  <2>1. CASE k + 1 \in U
    BY <2>1
  <2>2. CASE k + 1 \notin U
    <3>1. \A x \in U : x <= k
      BY <2>2
    <3> QED
      BY <1>2, <3>1
  <2> QED
    BY <2>1, <2>2
<1>3. bound \in T
  <2> HIDE DEF T
  <2> QED
    BY <1>1, <1>2, NatSetInduction
<1>4. \E m \in S : \A x \in S : m >= x
  BY <1>3
<1>5. Max(S) \in S /\ \A x \in S : Max(S) >= x
  BY <1>4 DEF Max
<1> QED
  BY <1>5

(* The least element of a set of numbers. *)
LEMMA SmallestOf ==
  ASSUME NEW S, S \subseteq Nat, S # {}
  PROVE  \E x \in S : \A y \in S : x <= y
<1>1. PICK x \in S : \A y \in S : <<y, x>> \notin OpToRel(<, Nat)
  BY NatLessThanWellFounded, WFMin
<1>2. \A y \in S : x <= y
  <2> SUFFICES ASSUME NEW y \in S, y < x PROVE FALSE
    OBVIOUS
  <2> QED
    BY <1>1 DEF OpToRel
<1> QED
  BY <1>2

LEMMA MinOfNats ==
  ASSUME NEW S \in SUBSET Nat, S # {}
  PROVE  Min(S) \in S /\ \A x \in S : Min(S) <= x
<1>1. \E m \in S : \A y \in S : m <= y
  BY SmallestOf
<1> QED
  BY <1>1 DEF Min

(***************************************************************************)
(* A definition that goes from one number to the next has a function that  *)
(* satisfies it.                                                           *)
(***************************************************************************)
Iteration(f, n, V, base, step) ==
  f \in [0..n -> V] /\ f[0] = base /\ \A i \in 1..n : f[i] = step[<<i, f[i - 1]>>]

LEMMA IterationExists ==
  ASSUME NEW V, NEW n \in Nat, NEW base \in V, NEW step \in [(1..n) \X V -> V]
  PROVE  \E f : Iteration(f, n, V, base, step)
<1> DEFINE I == 0..n
           rank == [i \in I |-> i]
           value == [x \in I \X [I -> V] |->
                       IF x[1] = 0 THEN base ELSE step[<<x[1], x[2][x[1] - 1]>>]]
<1>1. ASSUME NEW i \in I, i # 0 PROVE i \in 1..n /\ i - 1 \in I /\ i - 1 < i
  BY <1>1
<1>2. \A i \in I : \A f \in [I -> V] :
        value[<<i, f>>] = IF i = 0 THEN base ELSE step[<<i, f[i - 1]>>]
  <2> HIDE DEF I
  <2> QED
    OBVIOUS
<1>3. ASSUME NEW i \in I, NEW f \in [I -> V], i # 0 PROVE step[<<i, f[i - 1]>>] \in V
  <2>1. i \in 1..n /\ f[i - 1] \in V
    BY <1>1, <1>3
  <2> HIDE DEF I
  <2> QED
    BY <2>1
<1>4. value \in [I \X [I -> V] -> V]
  <2>1. ASSUME NEW x \in I \X [I -> V]
        PROVE  (IF x[1] = 0 THEN base ELSE step[<<x[1], x[2][x[1] - 1]>>]) \in V
    <3>1. x[1] \in I /\ x[2] \in [I -> V]
      OBVIOUS
    <3> HIDE DEF I
    <3> QED
      BY <1>3, <3>1
  <2> HIDE DEF I
  <2> QED
    BY <2>1
<1>5. rank \in [I -> 0..n] /\ \A i \in I : rank[i] = i
  OBVIOUS
<1>6. ASSUME NEW i \in I, NEW f \in [I -> V], NEW g \in [I -> V],
             \A j \in I : rank[j] < rank[i] => f[j] = g[j]
      PROVE  value[<<i, f>>] = value[<<i, g>>]
  <2> HIDE DEF value, rank, I
  <2>1. i # 0 => f[i - 1] = g[i - 1]
    BY <1>1, <1>5, <1>6
  <2> QED
    BY <1>2, <2>1
<1>7. V # {}
  OBVIOUS
<1> DEFINE bound == n
<1>8. PICK f \in [I -> V] : \A i \in I : f[i] = value[<<i, f>>]
  <2>1. bound \in Nat /\ rank \in [I -> 0..bound]
    BY <1>5
  <2> HIDE DEF value, rank, I, bound
  <2>2. Recursion(I, V, bound, rank, value)
    BY <1>4, <1>6, <1>7, <2>1 DEF Recursion
  <2> QED
    BY <2>2, RecursiveFunctionExists
<1>9. 0 \in I /\ \A i \in 1..n : i \in I /\ i # 0
  OBVIOUS
<1> HIDE DEF value, I
<1>10. f[0] = base /\ \A i \in 1..n : f[i] = step[<<i, f[i - 1]>>]
  BY <1>2, <1>8, <1>9
<1> QED
  BY <1>10 DEF I, Iteration

(* The sequences that are joined, one after the other. *)
LEMMA FlattenFacts ==
  ASSUME NEW T, NEW seqs \in Seq(Seq(T)), Len(seqs) > 0
  PROVE  \E f \in [1..Len(seqs) -> Seq(T)] :
           /\ FlattenSeq(seqs) = f[Len(seqs)]
           /\ f[1] = seqs[1]
           /\ \A i \in 1..(Len(seqs) - 1) : f[i + 1] = f[i] \o seqs[i + 1]
<1> DEFINE I == 1..Len(seqs)
           V == Seq(T)
           bound == Len(seqs)
           rank == [i \in I |-> i]
           value == [x \in I \X [I -> V] |->
                       IF x[1] = 1 THEN seqs[1] ELSE x[2][x[1] - 1] \o seqs[x[1]]]
<1>1. Len(seqs) \in Nat /\ \A i \in I : seqs[i] \in V
  BY ElementOfSeq
<1>2. ASSUME NEW i \in I, i # 1 PROVE i - 1 \in I /\ i - 1 < i
  BY <1>1, <1>2
<1>3. \A i \in I : \A f \in [I -> V] :
        value[<<i, f>>] = IF i = 1 THEN seqs[1] ELSE f[i - 1] \o seqs[i]
  <2> HIDE DEF I, V
  <2> QED
    OBVIOUS
<1>4. ASSUME NEW i \in I, NEW f \in [I -> V], i # 1
      PROVE  f[i - 1] \o seqs[i] \in V
  <2>1. f[i - 1] \in V /\ seqs[i] \in V
    BY <1>1, <1>2, <1>4
  <2> QED
    BY <2>1, ConcatProperties
<1>5. value \in [I \X [I -> V] -> V]
  <2>1. ASSUME NEW x \in I \X [I -> V]
        PROVE  (IF x[1] = 1 THEN seqs[1] ELSE x[2][x[1] - 1] \o seqs[x[1]]) \in V
    <3>1. x[1] \in I /\ x[2] \in [I -> V]
      OBVIOUS
    <3> HIDE DEF I, V
    <3>2. x[1] = 1 => seqs[1] \in V
      BY <1>1, <3>1
    <3> QED
      BY <1>4, <3>1, <3>2
  <2> HIDE DEF I, V
  <2> QED
    BY <2>1
<1>6. rank \in [I -> 0..bound] /\ \A i \in I : rank[i] = i
  BY <1>1
<1>7. ASSUME NEW i \in I, NEW f \in [I -> V], NEW g \in [I -> V],
             \A j \in I : rank[j] < rank[i] => f[j] = g[j]
      PROVE  value[<<i, f>>] = value[<<i, g>>]
  <2> HIDE DEF value, rank, I, V
  <2>1. i # 1 => f[i - 1] = g[i - 1]
    BY <1>2, <1>6, <1>7
  <2> QED
    BY <1>3, <2>1
<1>8. PICK f \in [I -> V] : \A i \in I : f[i] = value[<<i, f>>]
  <2>1. V # {}
    <3>1. seqs[1] \in V
      BY <1>1
    <3> QED
      BY <3>1
  <2> HIDE DEF value, rank, I, V, bound
  <2>2. Recursion(I, V, bound, rank, value)
    BY <1>1, <1>5, <1>6, <1>7, <2>1 DEF Recursion, bound
  <2> QED
    BY <2>2, RecursiveFunctionExists
<1> DEFINE step(i, h) == IF i = 1 THEN seqs[i] ELSE h[i - 1] \o seqs[i]
           F == CHOOSE g : g = [i \in I |-> step(i, g)]
<1>9. \A i \in I : f[i] = step(i, f)
  <2> HIDE DEF value, I, V
  <2> QED
    BY <1>3, <1>8
<1>10. F = [i \in I |-> step(i, F)]
  <2>1. f = [i \in I |-> step(i, f)]
    <3> HIDE DEF step, I
    <3> QED
      BY <1>9
  <2> HIDE DEF step, I
  <2> QED
    BY <2>1
<1>11. FlattenSeq(seqs) = F[Len(seqs)]
  BY <1>1 DEF FlattenSeq
<1>12. ASSUME NEW i \in I PROVE F[i] = step(i, F)
  <2> HIDE DEF step, I, F
  <2> QED
    BY <1>10
<1> DEFINE X == {i \in Nat : F[i] \in V}
<1> HIDE DEF F
<1>13. 1 \in I /\ F[1] = seqs[1]
  <2>1. 1 \in I
    BY <1>1
  <2> QED
    BY <1>12, <2>1
<1>14. ASSUME NEW i \in 1..(Len(seqs) - 1)
       PROVE  i + 1 \in I /\ F[i + 1] = F[i] \o seqs[i + 1]
  <2>1. i + 1 \in I /\ i + 1 # 1 /\ (i + 1) - 1 = i
    BY <1>1
  <2>2. F[i + 1] = step(i + 1, F)
    BY <1>12, <2>1
  <2> QED
    BY <2>1, <2>2
<1>15. I \subseteq X
  <2>1. 1 \in X
    BY <1>1, <1>13
  <2>2. ASSUME NEW i \in 1..(Len(seqs) - 1), i \in X PROVE i + 1 \in X
    <3>1. F[i] \in V /\ seqs[i + 1] \in V /\ i + 1 \in Nat
      BY <1>1, <1>14, <2>2
    <3>2. F[i] \o seqs[i + 1] \in V
      BY <3>1, ConcatProperties
    <3>3. F[i + 1] = F[i] \o seqs[i + 1]
      BY <1>14
    <3>4. F[i + 1] \in V
      BY <3>2, <3>3
    <3> HIDE DEF V
    <3> QED
      BY <3>1, <3>4
  <2> HIDE DEF X
  <2> QED
    BY <1>1, <2>1, <2>2, IntervalInduction
<1>16. F \in [I -> V]
  <2>1. \A i \in I : F[i] \in V
    BY <1>15
  <2> HIDE DEF I, V, step
  <2> QED
    BY <1>10, <2>1
<1> QED
  BY <1>11, <1>13, <1>14, <1>16

(* What is joined consists of the elements of the parts. *)
LEMMA FlattenElements ==
  ASSUME NEW T, NEW seqs \in Seq(Seq(T))
  PROVE  /\ FlattenSeq(seqs) \in Seq(T)
         /\ FlattenSeq(seqs) = << >> => \A i \in 1..Len(seqs) : seqs[i] = << >>
<1>1. CASE Len(seqs) = 0
  <2>1. seqs = << >> /\ FlattenSeq(seqs) = seqs
    BY <1>1 DEF FlattenSeq
  <2>2. FlattenSeq(seqs) = << >>
    BY <2>1
  <2>3. << >> \in Seq(T)
    OBVIOUS
  <2>4. 1..Len(seqs) = {}
    BY <1>1
  <2> QED
    BY <2>2, <2>3, <2>4
<1>2. CASE Len(seqs) # 0
  <2>1. Len(seqs) \in Nat /\ Len(seqs) > 0
    BY <1>2
  <2>2. PICK f \in [1..Len(seqs) -> Seq(T)] :
          /\ FlattenSeq(seqs) = f[Len(seqs)]
          /\ f[1] = seqs[1]
          /\ \A i \in 1..(Len(seqs) - 1) : f[i + 1] = f[i] \o seqs[i + 1]
    BY <2>1, FlattenFacts
  <2> DEFINE N == Len(seqs)
             U == {i \in 1..N : f[i] = << >> => \A k \in 1..i : seqs[k] = << >>}
  <2>3. 1 \in U
    BY <2>1, <2>2
  <2>4. ASSUME NEW i \in 1..(N - 1), i \in U PROVE i + 1 \in U
    <3>1. i + 1 \in 1..N /\ i \in 1..N
      BY <2>1
    <3> DEFINE g == f[i]
               h == seqs[i + 1]
    <3>2. g \in Seq(T) /\ h \in Seq(T) /\ f[i + 1] = g \o h
      <4>1. g \in Seq(T) /\ f[i + 1] = g \o h
        BY <2>2, <3>1
      <4>2. h \in Seq(T)
        BY <3>1, ElementOfSeq
      <4> QED
        BY <4>1, <4>2
    <3> HIDE DEF g, h
    <3> SUFFICES ASSUME f[i + 1] = << >>, NEW k \in 1..(i + 1) PROVE seqs[k] = << >>
      BY <3>1
    <3>3. g = << >> /\ h = << >>
      <4>1. g \o h = << >>
        BY <3>2
      <4> QED
        BY <3>2, <4>1, ConcatEmptySeq
    <3>4. k = i + 1 \/ k \in 1..i
      OBVIOUS
    <3> QED
      BY <2>4, <3>3, <3>4 DEF g, h
  <2>5. N \in U
    <3> HIDE DEF U
    <3>1. 1..N \subseteq U
      BY <2>1, <2>3, <2>4, IntervalInduction
    <3>2. N \in 1..N
      BY <2>1
    <3> QED
      BY <3>1, <3>2
  <2>6. Len(seqs) \in 1..Len(seqs)
    BY <2>1
  <2> QED
    BY <2>2, <2>5, <2>6
<1> QED
  BY <1>1, <1>2

-----------------------------------------------------------------------------
(* Induction over the subsets of a finite set.                              *)
LEMMA SubsetInduction ==
  ASSUME NEW S, IsFiniteSet(S), NEW P, {} \in P,
         \A s \in SUBSET S : s # {} => \E x \in s : s \ {x} \in P => s \in P
  PROVE  SUBSET S \subseteq P
<1> DEFINE T == {n \in Nat : \A s \in SUBSET S : Cardinality(s) = n => s \in P}
<1>1. \A s \in SUBSET S : IsFiniteSet(s) /\ Cardinality(s) \in Nat /\ (Cardinality(s) = 0 <=> s = {})
  BY FS_Subset, FS_CardinalityType, FS_EmptySet
<1>2. 0 \in T
  BY <1>1
<1>3. ASSUME NEW n \in Nat, n \in T PROVE n + 1 \in T
  <2> SUFFICES ASSUME NEW s \in SUBSET S, Cardinality(s) = n + 1 PROVE s \in P
    OBVIOUS
  <2>1. s # {}
    BY <1>1
  <2>2. PICK x \in s : s \ {x} \in P => s \in P
    BY <2>1
  <2>3. Cardinality(s \ {x}) = n /\ s \ {x} \in SUBSET S
    <3>1. IsFiniteSet(s) /\ x \in s
      BY <1>1
    <3>2. Cardinality(s \ {x}) = Cardinality(s) - 1
      BY <3>1, FS_RemoveElement
    <3> QED
      BY <3>2
  <2> QED
    BY <1>3, <2>2, <2>3
<1>4. ASSUME NEW s \in SUBSET S PROVE s \in P
  <2>1. Cardinality(s) \in T
    <3> HIDE DEF T
    <3> QED
      BY <1>1, <1>2, <1>3, NatSetInduction
  <2> QED
    BY <2>1
<1> QED
  BY <1>4

-----------------------------------------------------------------------------
(***************************************************************************)
(* Sums of the values of a function at the elements of a finite set, which *)
(* SumFunctionOnSet takes in an order of its own.                          *)
(***************************************************************************)
Summable(f, S) == IsFiniteSet(S) /\ \A x \in S : f[x] \in Int

Chosen(s) == CHOOSE x \in s : TRUE
SumStep(f, s, g) == IF s = {} THEN 0 ELSE f[Chosen(s)] + g[s \ {Chosen(s)}]
SumsWithin(f, S) == CHOOSE g : g = [s \in SUBSET S |-> SumStep(f, s, g)]

LEMMA SumIsWithin ==
  ASSUME NEW f, NEW S
  PROVE  SumFunctionOnSet(f, S) = SumsWithin(f, S)[S]
BY DEF SumFunctionOnSet, FoldFunctionOnSet, MapThenFoldSet, SumsWithin, SumStep, Chosen

LEMMA SumsWithinAre ==
  ASSUME NEW f, NEW S, Summable(f, S)
  PROVE  /\ \A s \in SUBSET S : SumsWithin(f, S)[s] = SumStep(f, s, SumsWithin(f, S))
         /\ SumsWithin(f, S) \in [SUBSET S -> Int]
<1> USE DEF Summable
<1> DEFINE I == SUBSET S
           V == Int
           bound == Cardinality(S)
           rank == [s \in I |-> Cardinality(s)]
           value == [x \in I \X [I -> V] |-> SumStep(f, x[1], x[2])]
<1>1. ASSUME NEW s \in I PROVE IsFiniteSet(s) /\ Cardinality(s) \in 0..bound
  BY FS_Subset, FS_CardinalityType
<1>2. ASSUME NEW s \in I, s # {}
      PROVE  /\ Chosen(s) \in s /\ f[Chosen(s)] \in Int /\ s \ {Chosen(s)} \in I
             /\ Cardinality(s \ {Chosen(s)}) < Cardinality(s)
  <2>1. Chosen(s) \in s
    BY <1>2 DEF Chosen
  <2> QED
    BY <1>1, <1>2, <2>1, FS_RemoveElement
<1>3. ASSUME NEW s \in I, NEW g \in [I -> V] PROVE SumStep(f, s, g) \in Int
  <2> HIDE DEF I
  <2>1. s # {} => g[s \ {Chosen(s)}] \in Int
    BY <1>2, <1>3
  <2>2. CASE s = {}
    BY <2>2 DEF SumStep
  <2>3. CASE s # {}
    <3>1. f[Chosen(s)] \in Int /\ g[s \ {Chosen(s)}] \in Int
      BY <1>2, <2>1, <2>3
    <3>2. SumStep(f, s, g) = f[Chosen(s)] + g[s \ {Chosen(s)}]
      BY <2>3 DEF SumStep
    <3> QED
      BY <3>1, <3>2
  <2> QED
    BY <2>2, <2>3
<1>4. value \in [I \X [I -> V] -> V]
  <2>1. ASSUME NEW x \in I \X [I -> V] PROVE SumStep(f, x[1], x[2]) \in V
    <3>1. x[1] \in I /\ x[2] \in [I -> V]
      OBVIOUS
    <3> HIDE DEF I, V
    <3> QED
      BY <1>3, <3>1 DEF V
  <2> HIDE DEF I, V
  <2> QED
    BY <2>1
<1>5. \A s \in I : \A g \in [I -> V] : value[<<s, g>>] = SumStep(f, s, g)
  <2> HIDE DEF I, V
  <2> QED
    OBVIOUS
<1>6. ASSUME NEW s \in I, NEW g \in [I -> V], NEW h \in [I -> V],
             \A t \in I : rank[t] < rank[s] => g[t] = h[t]
      PROVE  value[<<s, g>>] = value[<<s, h>>]
  <2>1. s # {} => g[s \ {Chosen(s)}] = h[s \ {Chosen(s)}]
    <3> HIDE DEF I, V, value
    <3> QED
      BY <1>2, <1>6 DEF rank
  <2> HIDE DEF I, V, value
  <2> QED
    BY <1>5, <2>1 DEF SumStep
<1>7. PICK g \in [I -> V] : \A s \in I : g[s] = value[<<s, g>>]
  <2>1. bound \in Nat /\ rank \in [I -> 0..bound] /\ V # {}
    BY <1>1, FS_CardinalityType
  <2> HIDE DEF I, V, value, rank, bound
  <2>2. Recursion(I, V, bound, rank, value)
    BY <1>4, <1>6, <2>1 DEF Recursion
  <2> QED
    BY <2>2, RecursiveFunctionExists
<1> DEFINE F == SumsWithin(f, S)
<1>8. F = [s \in I |-> SumStep(f, s, F)]
  <2>1. g = [s \in I |-> SumStep(f, s, g)]
    <3> HIDE DEF I, V, value
    <3> QED
      BY <1>5, <1>7
  <2> QED
    BY <2>1 DEF SumsWithin
<1> HIDE DEF F
<1>9. ASSUME NEW s \in I PROVE F[s] = SumStep(f, s, F)
  <2> HIDE DEF I
  <2> QED
    BY <1>8
<1> DEFINE P == {s \in I : F[s] \in Int}
<1>10. I \subseteq P
  <2>1. {} \in P
    <3>1. {} \in I /\ F[{}] = SumStep(f, {}, F)
      BY <1>9
    <3> QED
      BY <3>1 DEF SumStep
  <2>2. ASSUME NEW s \in I, s # {}
        PROVE  \E x \in s : s \ {x} \in P => s \in P
    <3>1. F[s] = f[Chosen(s)] + F[s \ {Chosen(s)}]
      BY <1>9, <2>2 DEF SumStep
    <3>2. f[Chosen(s)] \in Int
      BY <1>2, <2>2
    <3>3. ASSUME s \ {Chosen(s)} \in P PROVE s \in P
      <4>1. F[s \ {Chosen(s)}] \in Int
        BY <3>3
      <4>2. F[s] \in Int
        BY <3>1, <3>2, <4>1
      <4> QED
        BY <4>2
    <3> QED
      BY <1>2, <2>2, <3>3
  <2> HIDE DEF P
  <2>3. \A s \in SUBSET S : s # {} => \E x \in s : s \ {x} \in P => s \in P
    BY <2>2
  <2>4. IsFiniteSet(S)
    OBVIOUS
  <2> HIDE DEF I, Summable, V, value, rank, bound
  <2>5. SUBSET S \subseteq P
    BY <2>1, <2>3, <2>4, SubsetInduction
  <2> QED
    BY <2>5 DEF I
<1> QED
  <2>1. F \in [I -> Int]
    <3> HIDE DEF I
    <3> QED
      BY <1>8, <1>9, <1>10
  <2> QED
    BY <1>9, <2>1 DEF F

(* The sum over a set does not depend on the set it is a part of. *)
LEMMA SumWithin ==
  ASSUME NEW f, NEW S, Summable(f, S), NEW T \in SUBSET S
  PROVE  SumsWithin(f, S)[T] = SumFunctionOnSet(f, T)
<1>1. Summable(f, T)
  BY FS_Subset DEF Summable
<1> DEFINE P == {s \in SUBSET T : SumsWithin(f, S)[s] = SumsWithin(f, T)[s]}
<1>2. {} \in P
  BY <1>1, SumsWithinAre DEF SumStep
<1>3. ASSUME NEW s \in SUBSET T, s # {}
      PROVE  \E x \in s : s \ {x} \in P => s \in P
  <2>1. Chosen(s) \in s
    BY <1>3 DEF Chosen
  <2>2. /\ SumsWithin(f, S)[s] = SumStep(f, s, SumsWithin(f, S))
        /\ SumsWithin(f, T)[s] = SumStep(f, s, SumsWithin(f, T))
    BY <1>1, SumsWithinAre
  <2>3. s \ {Chosen(s)} \in P => s \in P
    BY <1>3, <2>2 DEF SumStep
  <2> QED
    BY <2>1, <2>3
<1>4. T \in P
  <2> HIDE DEF P
  <2> QED
    BY <1>1, <1>2, <1>3, SubsetInduction DEF Summable
<1> QED
  BY <1>4, SumIsWithin

LEMMA SumFacts ==
  ASSUME NEW f, NEW S, Summable(f, S)
  PROVE  /\ SumFunctionOnSet(f, S) \in Int
         /\ S = {} => SumFunctionOnSet(f, S) = 0
         /\ S # {} => SumFunctionOnSet(f, S) = f[Chosen(S)] + SumFunctionOnSet(f, S \ {Chosen(S)})
<1>1. SumFunctionOnSet(f, S) = SumsWithin(f, S)[S]
  BY SumIsWithin
<1>2. SumsWithin(f, S)[S] \in Int /\ SumsWithin(f, S)[S] = SumStep(f, S, SumsWithin(f, S))
  <2>1. S \in SUBSET S
    OBVIOUS
  <2>2. /\ \A s \in SUBSET S : SumsWithin(f, S)[s] = SumStep(f, s, SumsWithin(f, S))
        /\ SumsWithin(f, S) \in [SUBSET S -> Int]
    BY SumsWithinAre
  <2> QED
    BY <2>1, <2>2
<1>3. S # {} => SumsWithin(f, S)[S \ {Chosen(S)}] = SumFunctionOnSet(f, S \ {Chosen(S)})
  BY SumWithin
<1> QED
  BY <1>1, <1>2, <1>3 DEF SumStep

LEMMA SumOfNone ==
  ASSUME NEW f
  PROVE  Summable(f, {}) /\ SumFunctionOnSet(f, {}) = 0
<1>1. Summable(f, {})
  BY FS_EmptySet DEF Summable
<1> DEFINE S == {}
<1>2. SumFunctionOnSet(f, S) = 0
  <2>1. Summable(f, S) /\ S = {}
    BY <1>1
  <2> HIDE DEF S
  <2> QED
    BY <2>1, SumFacts
<1> QED
  BY <1>1, <1>2

(* Any element may be taken out first. *)
LEMMA SumTakesOut ==
  ASSUME NEW f, NEW S, Summable(f, S), NEW x \in S
  PROVE  SumFunctionOnSet(f, S) = f[x] + SumFunctionOnSet(f, S \ {x})
<1> DEFINE sum(s) == SumFunctionOnSet(f, s)
           T == {n \in Nat : \A s \in SUBSET S : Cardinality(s) = n =>
                    \A y \in s : sum(s) = f[y] + sum(s \ {y})}
<1>1. \A s \in SUBSET S : /\ Summable(f, s) /\ IsFiniteSet(s) /\ Cardinality(s) \in Nat
                          /\ Cardinality(s) = 0 <=> s = {}
  BY FS_Subset, FS_CardinalityType, FS_EmptySet DEF Summable
<1>2. \A s \in SUBSET S : \A y \in s :
        /\ s \ {y} \in SUBSET S /\ Cardinality(s \ {y}) = Cardinality(s) - 1
        /\ f[y] \in Int /\ sum(s \ {y}) \in Int
  BY <1>1, FS_RemoveElement, SumFacts DEF Summable
<1> HIDE DEF sum
<1>3. 0 \in T
  BY <1>1
<1>4. ASSUME NEW n \in Nat, n \in T PROVE n + 1 \in T
  <2> SUFFICES ASSUME NEW s \in SUBSET S, Cardinality(s) = n + 1, NEW y \in s
               PROVE  sum(s) = f[y] + sum(s \ {y})
    OBVIOUS
  <2> DEFINE z == Chosen(s)
  <2>1. z \in s
    BY DEF Chosen
  <2>2. sum(s) = f[z] + sum(s \ {z})
    BY <1>1, SumFacts DEF sum
  <2> HIDE DEF z
  <2>3. CASE y # z
    <3>1. Cardinality(s \ {z}) = n /\ Cardinality(s \ {y}) = n
      BY <1>2, <2>1
    <3>2. sum(s \ {z}) = f[y] + sum((s \ {z}) \ {y})
      BY <1>2, <1>4, <2>1, <2>3, <3>1
    <3>3. sum(s \ {y}) = f[z] + sum((s \ {y}) \ {z})
      BY <1>2, <1>4, <2>1, <2>3, <3>1
    <3>4. (s \ {z}) \ {y} = (s \ {y}) \ {z}
      OBVIOUS
    <3>5. f[y] \in Int /\ f[z] \in Int /\ sum((s \ {y}) \ {z}) \in Int
      BY <1>2, <2>1, <2>3
    <3>6. sum(s \ {z}) = f[y] + sum((s \ {y}) \ {z})
      BY <3>2, <3>4
    <3> DEFINE rest == sum((s \ {y}) \ {z})
    <3>7. sum(s) = f[z] + (f[y] + rest) /\ sum(s \ {y}) = f[z] + rest /\ rest \in Int
      BY <2>2, <3>3, <3>5, <3>6
    <3> HIDE DEF rest
    <3> QED
      BY <3>5, <3>7
  <2> QED
    BY <2>2, <2>3
<1>5. Cardinality(S) \in T
  <2> HIDE DEF T
  <2> QED
    BY <1>1, <1>3, <1>4, NatSetInduction
<1> QED
  BY <1>5 DEF sum

LEMMA SumAdds ==
  ASSUME NEW f, NEW S, NEW x, x \notin S, Summable(f, S \cup {x})
  PROVE  /\ Summable(f, S)
         /\ SumFunctionOnSet(f, S \cup {x}) = f[x] + SumFunctionOnSet(f, S)
<1>1. (S \cup {x}) \ {x} = S /\ x \in S \cup {x} /\ S \in SUBSET (S \cup {x})
  OBVIOUS
<1>2. Summable(f, S)
  BY <1>1, FS_Subset DEF Summable
<1>3. SumFunctionOnSet(f, S \cup {x}) = f[x] + SumFunctionOnSet(f, (S \cup {x}) \ {x})
  BY <1>1, SumTakesOut
<1> QED
  BY <1>1, <1>2, <1>3

(* A sum depends on nothing but the values. *)
LEMMA SumSame ==
  ASSUME NEW f, NEW g, NEW S, Summable(f, S), \A x \in S : f[x] = g[x]
  PROVE  Summable(g, S) /\ SumFunctionOnSet(f, S) = SumFunctionOnSet(g, S)
<1>1. Summable(g, S)
  BY DEF Summable
<1> DEFINE P == {s \in SUBSET S : SumFunctionOnSet(f, s) = SumFunctionOnSet(g, s)}
<1>2. \A s \in SUBSET S : Summable(f, s) /\ Summable(g, s)
  BY <1>1, FS_Subset DEF Summable
<1>3. {} \in P
  BY SumOfNone
<1>4. ASSUME NEW s \in SUBSET S, s # {}
      PROVE  \E x \in s : s \ {x} \in P => s \in P
  <2>1. PICK x \in s : TRUE
    BY <1>4
  <2>2. /\ SumFunctionOnSet(f, s) = f[x] + SumFunctionOnSet(f, s \ {x})
        /\ SumFunctionOnSet(g, s) = g[x] + SumFunctionOnSet(g, s \ {x})
    BY <1>2, SumTakesOut
  <2> QED
    BY <2>1, <2>2
<1>5. S \in P
  <2> HIDE DEF P
  <2>1. \A s \in SUBSET S : s # {} => \E x \in s : s \ {x} \in P => s \in P
    BY <1>4
  <2>2. SUBSET S \subseteq P
    BY <1>3, <2>1, SubsetInduction DEF Summable
  <2> QED
    BY <2>2
<1> QED
  BY <1>1, <1>5

(* The sum of sums, over the same set. *)
LEMMA SumOfBoth ==
  ASSUME NEW f, NEW g, NEW h, NEW S, Summable(f, S), Summable(g, S),
         \A x \in S : h[x] = f[x] + g[x]
  PROVE  /\ Summable(h, S)
         /\ SumFunctionOnSet(h, S) = SumFunctionOnSet(f, S) + SumFunctionOnSet(g, S)
<1> DEFINE F(s) == SumFunctionOnSet(f, s)
           G(s) == SumFunctionOnSet(g, s)
           H(s) == SumFunctionOnSet(h, s)
           P == {s \in SUBSET S : H(s) = F(s) + G(s)}
<1>1. Summable(h, S)
  BY DEF Summable
<1>2. \A s \in SUBSET S : /\ Summable(f, s) /\ Summable(g, s) /\ Summable(h, s)
                          /\ F(s) \in Int /\ G(s) \in Int
  BY <1>1, FS_Subset, SumFacts DEF Summable
<1>3. {} \in P
  BY SumOfNone
<1>4. ASSUME NEW s \in SUBSET S, s # {}
      PROVE  \E x \in s : s \ {x} \in P => s \in P
  <2>1. PICK x \in s : TRUE
    BY <1>4
  <2>2. F(s) = f[x] + F(s \ {x}) /\ G(s) = g[x] + G(s \ {x}) /\ H(s) = h[x] + H(s \ {x})
    BY <1>2, SumTakesOut
  <2>3. /\ s \ {x} \in SUBSET S /\ f[x] \in Int /\ g[x] \in Int /\ h[x] = f[x] + g[x]
        /\ F(s \ {x}) \in Int /\ G(s \ {x}) \in Int
    BY <1>2 DEF Summable
  <2> HIDE DEF F, G, H
  <2>4. ASSUME s \ {x} \in P PROVE s \in P
    <3>1. H(s \ {x}) = F(s \ {x}) + G(s \ {x})
      BY <2>4
    <3>2. H(s) = F(s) + G(s)
      BY <2>2, <2>3, <3>1
    <3> QED
      BY <3>2
  <2> QED
    BY <2>1, <2>4
<1>5. S \in P
  <2> HIDE DEF P
  <2>1. \A s \in SUBSET S : s # {} => \E x \in s : s \ {x} \in P => s \in P
    BY <1>4
  <2>2. SUBSET S \subseteq P
    BY <1>3, <2>1, SubsetInduction DEF Summable
  <2> QED
    BY <2>2
<1> QED
  BY <1>1, <1>5

(* The sum over two sets that have no element in common. *)
LEMMA SumOfParts ==
  ASSUME NEW f, NEW S, NEW T, Summable(f, S \cup T), S \cap T = {}
  PROVE  SumFunctionOnSet(f, S \cup T) = SumFunctionOnSet(f, S) + SumFunctionOnSet(f, T)
<1> DEFINE sum(s) == SumFunctionOnSet(f, s)
           P == {s \in SUBSET S : sum(s \cup T) = sum(s) + sum(T)}
<1>1. \A s \in SUBSET (S \cup T) : Summable(f, s) /\ sum(s) \in Int
  BY FS_Subset, SumFacts DEF Summable
<1>2. {} \in P
  <2>1. Summable(f, {}) /\ Summable(f, T) /\ {} \cup T = T
    BY <1>1
  <2>2. sum({}) = 0 /\ sum(T) \in Int
    BY <2>1, SumFacts
  <2> HIDE DEF sum
  <2> QED
    BY <2>1, <2>2
<1>3. ASSUME NEW s \in SUBSET S, s # {}
      PROVE  \E x \in s : s \ {x} \in P => s \in P
  <2>1. PICK x \in s : TRUE
    BY <1>3
  <2>2. /\ s \in SUBSET (S \cup T) /\ s \cup T \in SUBSET (S \cup T)
        /\ s \ {x} \in SUBSET (S \cup T) /\ T \in SUBSET (S \cup T)
        /\ x \in s \cup T /\ (s \cup T) \ {x} = (s \ {x}) \cup T
        /\ x \in S \cup T
    BY <2>1
  <2>3. sum(s) = f[x] + sum(s \ {x}) /\ sum(s \cup T) = f[x] + sum((s \cup T) \ {x})
    BY <1>1, <2>1, <2>2, SumTakesOut
  <2>4. f[x] \in Int /\ sum(s \ {x}) \in Int /\ sum(T) \in Int
    BY <1>1, <2>2 DEF Summable
  <2> HIDE DEF sum
  <2>5. ASSUME s \ {x} \in P PROVE s \in P
    <3>1. sum((s \ {x}) \cup T) = sum(s \ {x}) + sum(T)
      BY <2>5
    <3>2. sum(s \cup T) = f[x] + (sum(s \ {x}) + sum(T))
      BY <2>2, <2>3, <3>1
    <3>3. sum(s \cup T) = sum(s) + sum(T)
      BY <2>3, <2>4, <3>2
    <3> QED
      BY <3>3
  <2> QED
    BY <2>1, <2>5
<1>4. S \in P
  <2> HIDE DEF P
  <2>1. \A s \in SUBSET S : s # {} => \E x \in s : s \ {x} \in P => s \in P
    BY <1>3
  <2>2. IsFiniteSet(S)
    BY <1>1 DEF Summable
  <2>3. SUBSET S \subseteq P
    BY <1>2, <2>1, <2>2, SubsetInduction
  <2> QED
    BY <2>3
<1> QED
  BY <1>4

(* A sum of no less is no less. *)
LEMMA SumNotMore ==
  ASSUME NEW f, NEW g, NEW S, Summable(f, S), Summable(g, S), \A x \in S : f[x] <= g[x]
  PROVE  SumFunctionOnSet(f, S) <= SumFunctionOnSet(g, S)
<1> DEFINE F(s) == SumFunctionOnSet(f, s)
           G(s) == SumFunctionOnSet(g, s)
           P == {s \in SUBSET S : F(s) <= G(s)}
<1>1. \A s \in SUBSET S : Summable(f, s) /\ Summable(g, s) /\ F(s) \in Int /\ G(s) \in Int
  BY FS_Subset, SumFacts DEF Summable
<1>2. {} \in P
  <2>1. F({}) = 0 /\ G({}) = 0
    BY SumOfNone
  <2> HIDE DEF F, G
  <2> QED
    BY <2>1
<1>3. ASSUME NEW s \in SUBSET S, s # {}
      PROVE  \E x \in s : s \ {x} \in P => s \in P
  <2>1. PICK x \in s : TRUE
    BY <1>3
  <2>2. F(s) = f[x] + F(s \ {x}) /\ G(s) = g[x] + G(s \ {x})
    BY <1>1, SumTakesOut
  <2>3. /\ s \ {x} \in SUBSET S /\ f[x] \in Int /\ g[x] \in Int /\ f[x] <= g[x]
        /\ F(s \ {x}) \in Int /\ G(s \ {x}) \in Int
    BY <1>1 DEF Summable
  <2> HIDE DEF F, G
  <2>4. ASSUME s \ {x} \in P PROVE s \in P
    <3>1. F(s \ {x}) <= G(s \ {x})
      BY <2>4
    <3>2. F(s) <= G(s)
      BY <2>2, <2>3, <3>1
    <3> QED
      BY <3>2
  <2> QED
    BY <2>1, <2>4
<1>4. S \in P
  <2> HIDE DEF P
  <2>1. \A s \in SUBSET S : s # {} => \E x \in s : s \ {x} \in P => s \in P
    BY <1>3
  <2>2. SUBSET S \subseteq P
    BY <1>2, <2>1, SubsetInduction DEF Summable
  <2> QED
    BY <2>2
<1> QED
  BY <1>4

(* A sum of ones and zeros is the number of the ones. *)
LEMMA SumOfOnes ==
  ASSUME NEW f, NEW S, IsFiniteSet(S), NEW K, \A x \in S : f[x] = IF x \in K THEN 1 ELSE 0
  PROVE  SumFunctionOnSet(f, S) = Cardinality(S \cap K)
<1> DEFINE F(s) == SumFunctionOnSet(f, s)
           P == {s \in SUBSET S : F(s) = Cardinality(s \cap K)}
<1>1. \A s \in SUBSET S : Summable(f, s) /\ F(s) \in Int /\ IsFiniteSet(s)
  <2>1. \A s \in SUBSET S : IsFiniteSet(s)
    BY FS_Subset
  <2>2. \A s \in SUBSET S : Summable(f, s)
    BY <2>1 DEF Summable
  <2> QED
    BY <2>1, <2>2, SumFacts
<1>2. {} \in P
  <2>1. F({}) = 0 /\ {} \cap K = {} /\ Cardinality({}) = 0
    BY SumOfNone, FS_EmptySet
  <2> HIDE DEF F
  <2> QED
    BY <2>1
<1>3. ASSUME NEW s \in SUBSET S, s # {}
      PROVE  \E x \in s : s \ {x} \in P => s \in P
  <2>1. PICK x \in s : TRUE
    BY <1>3
  <2> DEFINE less == s \ {x}
             kept == less \cap K
  <2>2. F(s) = f[x] + F(less)
    BY <1>1, SumTakesOut
  <2>3. less \in SUBSET S /\ IsFiniteSet(kept) /\ Cardinality(kept) \in Nat /\ x \notin kept
    <3>1. less \in SUBSET S /\ IsFiniteSet(less)
      BY <1>1
    <3> QED
      BY <3>1, FS_Intersection, FS_CardinalityType
  <2>4. f[x] = (IF x \in K THEN 1 ELSE 0) /\ s \cap K = (IF x \in K THEN kept \cup {x} ELSE kept)
    BY <2>1
  <2>5. Cardinality(kept \cup {x}) = Cardinality(kept) + 1
    BY <2>3, FS_AddElement
  <2>6. less \in P => F(less) = Cardinality(kept)
    OBVIOUS
  <2> HIDE DEF F, less, kept
  <2>7. ASSUME F(less) = Cardinality(kept) PROVE F(s) = Cardinality(s \cap K)
    <3>1. CASE x \in K
      <4>1. f[x] = 1 /\ Cardinality(s \cap K) = Cardinality(kept) + 1
        BY <2>4, <2>5, <3>1
      <4> QED
        BY <2>2, <2>3, <2>7, <4>1
    <3>2. CASE x \notin K
      <4>1. f[x] = 0 /\ Cardinality(s \cap K) = Cardinality(kept)
        BY <2>4, <3>2
      <4> QED
        BY <2>2, <2>3, <2>7, <4>1
    <3> QED
      BY <3>1, <3>2
  <2>8. less \in P => s \in P
    BY <2>6, <2>7
  <2> QED
    BY <2>1, <2>8 DEF less
<1>4. S \in P
  <2> HIDE DEF P
  <2>1. \A s \in SUBSET S : s # {} => \E x \in s : s \ {x} \in P => s \in P
    BY <1>3
  <2>2. SUBSET S \subseteq P
    BY <1>2, <2>1, SubsetInduction
  <2> QED
    BY <2>2
<1> QED
  BY <1>4

LEMMA SumOfZeros ==
  ASSUME NEW f, NEW S, IsFiniteSet(S), \A x \in S : f[x] = 0
  PROVE  SumFunctionOnSet(f, S) = 0
<1>1. \A s \in SUBSET S : Summable(f, s)
  BY FS_Subset DEF Summable
<1> DEFINE P == {s \in SUBSET S : SumFunctionOnSet(f, s) = 0}
<1>2. {} \in P
  BY SumOfNone
<1>3. ASSUME NEW s \in SUBSET S, s # {}
      PROVE  \E x \in s : s \ {x} \in P => s \in P
  <2>1. PICK x \in s : TRUE
    BY <1>3
  <2>2. SumFunctionOnSet(f, s) = f[x] + SumFunctionOnSet(f, s \ {x})
    BY <1>1, SumTakesOut
  <2> QED
    BY <2>1, <2>2
<1>4. S \in P
  <2> HIDE DEF P
  <2>1. \A s \in SUBSET S : s # {} => \E x \in s : s \ {x} \in P => s \in P
    BY <1>3
  <2>2. SUBSET S \subseteq P
    BY <1>2, <2>1, SubsetInduction
  <2> QED
    BY <2>2
<1> QED
  BY <1>4

(* The sum over a sequence that got one more element. *)
LEMMA SumOfOneMore ==
  ASSUME NEW n \in Nat, NEW f, \A i \in 1..n + 1 : f[i] \in Int
  PROVE  /\ SumFunctionOnSet(f, 1..n) \in Int
         /\ SumFunctionOnSet(f, 1..n + 1) = f[n + 1] + SumFunctionOnSet(f, 1..n)
<1>1. 1..n + 1 = (1..n) \cup {n + 1} /\ n + 1 \notin 1..n
  OBVIOUS
<1>2. Summable(f, (1..n) \cup {n + 1})
  <2>1. IsFiniteSet(1..n + 1)
    BY FS_Interval
  <2> QED
    BY <1>1, <2>1 DEF Summable
<1>3. Summable(f, 1..n) /\ SumFunctionOnSet(f, (1..n) \cup {n + 1}) = f[n + 1] + SumFunctionOnSet(f, 1..n)
  BY <1>1, <1>2, SumAdds
<1> QED
  BY <1>1, <1>3, SumFacts
-----------------------------------------------------------------------------
(* Select(s, K), element by element. *)
Selection(s, K, f) ==
  /\ f[0] = << >> /\ f[Len(s)] = Select(s, K)
  /\ \A i \in 1..Len(s) : f[i] = IF i \in K THEN Append(f[i - 1], s[i]) ELSE f[i - 1]

LEMMA SelectionExists ==
  ASSUME NEW T, NEW s \in Seq(T), NEW K
  PROVE  \E f \in [0..Len(s) -> Seq(T)] : Selection(s, K, f)
<1> DEFINE n == Len(s)
           V == Seq(T)
           step == [x \in (1..n) \X V |-> IF x[1] \in K THEN Append(x[2], s[x[1]]) ELSE x[2]]
           rec(i, h) == IF i = 0 THEN << >>
                        ELSE IF i \in K THEN Append(h[i - 1], s[i]) ELSE h[i - 1]
           F == CHOOSE h : h = [i \in 0..n |-> rec(i, h)]
<1>1. n \in Nat /\ \A i \in 1..n : s[i] \in T
  OBVIOUS
<1>2. step \in [(1..n) \X V -> V]
  <2>1. ASSUME NEW x \in (1..n) \X V
        PROVE  (IF x[1] \in K THEN Append(x[2], s[x[1]]) ELSE x[2]) \in V
    <3>1. x[1] \in 1..n /\ x[2] \in V
      OBVIOUS
    <3>2. s[x[1]] \in T
      BY <1>1, <3>1
    <3> QED
      BY <3>1, <3>2
  <2> HIDE DEF V, n
  <2> QED
    BY <2>1
<1>3. << >> \in V
  OBVIOUS
<1>4. PICK f : Iteration(f, n, V, << >>, step)
  <2> HIDE DEF step, V, n
  <2> QED
    BY <1>1, <1>2, <1>3, IterationExists
<1>5. /\ f \in [0..n -> V] /\ f[0] = << >>
      /\ \A i \in 1..n : f[i] = IF i \in K THEN Append(f[i - 1], s[i]) ELSE f[i - 1]
  <2>1. f \in [0..n -> V] /\ f[0] = << >> /\ \A i \in 1..n : f[i] = step[<<i, f[i - 1]>>]
    BY <1>4 DEF Iteration
  <2>2. ASSUME NEW i \in 1..n
        PROVE  f[i] = IF i \in K THEN Append(f[i - 1], s[i]) ELSE f[i - 1]
    <3>1. i - 1 \in 0..n
      BY <1>1
    <3>2. f[i - 1] \in V
      BY <2>1, <3>1
    <3> DEFINE h == f[i - 1]
    <3>3. <<i, h>> \in (1..n) \X V
      BY <3>2
    <3>4. step[<<i, h>>] = IF i \in K THEN Append(h, s[i]) ELSE h
      <4> HIDE DEF h, V, n
      <4> QED
        BY <3>3
    <3> HIDE DEF step
    <3> QED
      BY <2>1, <3>4
  <2> HIDE DEF step
  <2> QED
    BY <2>1, <2>2
<1>6. f = [i \in 0..n |-> rec(i, f)]
  <2>1. ASSUME NEW i \in 0..n PROVE f[i] = rec(i, f)
    <3>1. CASE i = 0
      BY <1>5, <3>1
    <3>2. CASE i # 0
      <4>1. i \in 1..n
        BY <1>1, <3>2
      <4> QED
        BY <1>5, <3>2, <4>1
    <3> QED
      BY <3>1, <3>2
  <2> HIDE DEF rec, n
  <2> QED
    BY <1>5, <2>1
<1>7. F = [i \in 0..n |-> rec(i, F)]
  <2> HIDE DEF rec, n
  <2> QED
    BY <1>6
<1>8. Select(s, K) = F[n]
  BY DEF Select
<1> HIDE DEF F
<1>9. /\ F[0] = << >>
      /\ \A i \in 1..n : F[i] = IF i \in K THEN Append(F[i - 1], s[i]) ELSE F[i - 1]
  <2>1. \A i \in 0..n : F[i] = rec(i, F)
    <3> HIDE DEF rec, n
    <3> QED
      BY <1>7
  <2>2. 0 \in 0..n /\ \A i \in 1..n : i \in 0..n /\ i # 0
    BY <1>1
  <2> HIDE DEF n
  <2> QED
    BY <2>1, <2>2
<1> DEFINE U == {i \in Nat : i <= n => F[i] \in V}
<1>10. 0 \in U
  BY <1>3, <1>9
<1>11. ASSUME NEW m \in Nat, m \in U PROVE m + 1 \in U
  <2> SUFFICES ASSUME m + 1 <= n PROVE F[m + 1] \in V
    OBVIOUS
  <2>1. m + 1 \in 1..n /\ (m + 1) - 1 = m /\ F[m] \in V /\ s[m + 1] \in T
    BY <1>1, <1>11
  <2>2. F[m + 1] = IF m + 1 \in K THEN Append(F[m], s[m + 1]) ELSE F[m]
    BY <1>9, <2>1
  <2> QED
    BY <2>1, <2>2
<1>12. \A i \in 0..n : F[i] \in V
  <2>1. Nat \subseteq U
    <3> HIDE DEF U
    <3> QED
      BY <1>10, <1>11, NatSetInduction
  <2> QED
    BY <1>1, <2>1
<1>13. F \in [0..n -> V]
  <2> HIDE DEF V, rec, n
  <2> QED
    BY <1>7, <1>12
<1> QED
  BY <1>8, <1>9, <1>13 DEF Selection

(* Select(s, K) has the elements of s at the places in K, and no others. *)
LEMMA SelectFacts ==
  ASSUME NEW T, NEW s \in Seq(T), NEW K
  PROVE  /\ Select(s, K) \in Seq(T)
         /\ \A j \in 1..Len(Select(s, K)) :
              \E k \in 1..Len(s) : k \in K /\ Select(s, K)[j] = s[k]
         /\ \A k \in 1..Len(s) : k \in K =>
              \E j \in 1..Len(Select(s, K)) : Select(s, K)[j] = s[k]
<1> DEFINE n == Len(s)
           V == Seq(T)
<1>1. n \in Nat /\ \A i \in 1..n : s[i] \in T
  OBVIOUS
<1>3. << >> \in V
  OBVIOUS
<1>4. PICK F \in [0..n -> V] : Selection(s, K, F)
  BY SelectionExists
<1>8. Select(s, K) = F[n]
  BY <1>4 DEF Selection
<1>9. /\ F[0] = << >>
      /\ \A i \in 1..n : F[i] = IF i \in K THEN Append(F[i - 1], s[i]) ELSE F[i - 1]
  BY <1>4 DEF Selection
<1> DEFINE From(i) == \A j \in 1..Len(F[i]) : \E k \in 1..i : k \in K /\ F[i][j] = s[k]
           All(i) == \A k \in 1..i : k \in K => \E j \in 1..Len(F[i]) : F[i][j] = s[k]
           U == {i \in Nat : i <= n => F[i] \in V /\ From(i) /\ All(i)}
<1>10. 0 \in U
  <2>1. F[0] = << >> /\ F[0] \in V /\ Len(F[0]) = 0
    BY <1>3, <1>9
  <2>2. From(0) /\ All(0)
    BY <2>1
  <2> QED
    BY <2>1, <2>2
<1>11. ASSUME NEW m \in Nat, m \in U PROVE m + 1 \in U
  <2> SUFFICES ASSUME m + 1 <= n PROVE F[m + 1] \in V /\ From(m + 1) /\ All(m + 1)
    <3> HIDE DEF From, All, V, n
    <3>1. m + 1 \in Nat
      OBVIOUS
    <3> QED
      BY <3>1
  <2>1. F[m] \in V /\ From(m) /\ All(m) /\ m + 1 \in 1..n /\ (m + 1) - 1 = m
    <3>1. m + 1 \in 1..n /\ (m + 1) - 1 = m /\ m <= n
      BY <1>1
    <3> HIDE DEF From, All, V, n
    <3> QED
      BY <1>11, <3>1
  <2>2. F[m + 1] = IF m + 1 \in K THEN Append(F[m], s[m + 1]) ELSE F[m]
    BY <1>9, <2>1
  <2>3. CASE m + 1 \notin K
    <3>1. F[m + 1] = F[m]
      BY <2>2, <2>3
    <3>2. \A k \in 1..m : k \in 1..(m + 1)
      OBVIOUS
    <3>3. From(m + 1)
      BY <2>1, <3>1, <3>2
    <3>4. \A k \in 1..(m + 1) : k \in K => k \in 1..m
      BY <2>3
    <3>5. All(m + 1)
      BY <2>1, <3>1, <3>4
    <3> QED
      BY <2>1, <3>1, <3>3, <3>5
  <2>4. CASE m + 1 \in K
    <3> DEFINE g == F[m]
               e == s[m + 1]
    <3>1. g \in Seq(T) /\ e \in T /\ F[m + 1] = Append(g, e)
      BY <1>1, <2>1, <2>2, <2>4
    <3> HIDE DEF g, e
    <3>2. /\ Append(g, e) \in Seq(T) /\ Len(Append(g, e)) = Len(g) + 1 /\ Len(g) \in Nat
          /\ \A j \in 1..Len(g) : Append(g, e)[j] = g[j]
          /\ Append(g, e)[Len(g) + 1] = e
      BY <3>1
    <3>3. From(m + 1)
      <4> SUFFICES ASSUME NEW j \in 1..(Len(g) + 1)
                   PROVE  \E k \in 1..(m + 1) : k \in K /\ Append(g, e)[j] = s[k]
        BY <3>1, <3>2
      <4>1. CASE j \in 1..Len(g)
        <5>1. PICK k \in 1..m : k \in K /\ g[j] = s[k]
          BY <2>1, <4>1 DEF g
        <5>2. k \in 1..(m + 1)
          OBVIOUS
        <5> QED
          BY <3>2, <4>1, <5>1, <5>2
      <4>2. CASE j \notin 1..Len(g)
        <5>1. j = Len(g) + 1 /\ m + 1 \in 1..(m + 1)
          BY <3>2, <4>2
        <5> QED
          BY <2>4, <3>2, <5>1 DEF e
      <4> QED
        BY <4>1, <4>2
    <3>4. All(m + 1)
      <4> SUFFICES ASSUME NEW k \in 1..(m + 1), k \in K
                   PROVE  \E j \in 1..(Len(g) + 1) : Append(g, e)[j] = s[k]
        BY <3>1, <3>2
      <4>1. CASE k \in 1..m
        <5>1. PICK j \in 1..Len(g) : g[j] = s[k]
          BY <2>1, <4>1 DEF g
        <5>2. j \in 1..(Len(g) + 1)
          BY <3>2
        <5> QED
          BY <3>2, <5>1, <5>2
      <4>2. CASE k \notin 1..m
        <5>1. k = m + 1 /\ Len(g) + 1 \in 1..(Len(g) + 1)
          BY <3>2, <4>2
        <5> QED
          BY <3>2, <5>1 DEF e
      <4> QED
        BY <4>1, <4>2
    <3> QED
      BY <3>1, <3>2, <3>3, <3>4
  <2> QED
    BY <2>3, <2>4
<1>12. n \in U
  <2> HIDE DEF U
  <2> QED
    BY <1>1, <1>10, <1>11, NatSetInduction
<1>13. F[n] \in V /\ From(n) /\ All(n)
  BY <1>1, <1>12
<1> QED
  BY <1>8, <1>13

(* What is selected from the values is the values of what is selected. *)
ValuesOf(g, s) == [i \in DOMAIN s |-> g[s[i]]]

LEMMA SelectMapped ==
  ASSUME NEW g, NEW s \in Seq(DOMAIN g), NEW K
  PROVE  Select(ValuesOf(g, s), K) = ValuesOf(g, Select(s, K))
<1> DEFINE S == DOMAIN g
           T == {g[a] : a \in S}
           n == Len(s)
           r == [i \in DOMAIN s |-> g[s[i]]]
           Image(q) == [j \in DOMAIN q |-> g[q[j]]]
<1>1. n \in Nat /\ DOMAIN s = 1..n /\ \A i \in 1..n : s[i] \in S /\ g[s[i]] \in T
  OBVIOUS
<1>11. s \in Seq(S)
  OBVIOUS
<1>12. \A a \in S : g[a] \in T
  OBVIOUS
<1> HIDE DEF S, T
<1>2. r \in Seq(T) /\ Len(r) = n /\ \A i \in 1..n : r[i] = g[s[i]]
  BY <1>1
<1>3. PICK F \in [0..n -> Seq(S)] : Selection(s, K, F)
  BY <1>11, SelectionExists
<1> HIDE DEF r
<1>4. PICK G \in [0..n -> Seq(T)] : Selection(r, K, G)
  BY <1>2, SelectionExists
<1>5. ASSUME NEW q \in Seq(S), NEW a \in S PROVE Image(Append(q, a)) = Append(Image(q), g[a])
  <2> DEFINE p == Append(q, a)
  <2>1. /\ Len(q) \in Nat /\ p \in Seq(S) /\ Len(p) = Len(q) + 1
        /\ \A j \in 1..Len(q) : p[j] = q[j] /\ q[j] \in S
        /\ p[Len(q) + 1] = a /\ DOMAIN q = 1..Len(q) /\ DOMAIN p = 1..Len(p)
    OBVIOUS
  <2> HIDE DEF p
  <2>2. Image(q) \in Seq(T) /\ Len(Image(q)) = Len(q) /\ g[a] \in T
    BY <1>12, <2>1
  <2>3. Append(Image(q), g[a]) \in Seq(T) /\ Len(Append(Image(q), g[a])) = Len(q) + 1
    BY <2>2
  <2>4. \A j \in 1..Len(q) + 1 : p[j] \in S
    BY <2>1
  <2>5. Image(p) \in Seq(T) /\ Len(Image(p)) = Len(q) + 1
    BY <1>12, <2>1, <2>4
  <2>6. \A j \in 1..Len(q) + 1 : Image(p)[j] = Append(Image(q), g[a])[j]
    <3> TAKE j \in 1..Len(q) + 1
    <3>1. Image(p)[j] = g[p[j]]
      BY <2>1
    <3>2. CASE j \in 1..Len(q)
      <4>1. Append(Image(q), g[a])[j] = Image(q)[j]
        BY <2>2, <3>2
      <4>2. Image(q)[j] = g[q[j]]
        BY <2>1, <3>2
      <4> QED
        BY <2>1, <3>1, <3>2, <4>1, <4>2
    <3>3. CASE j = Len(q) + 1
      <4>1. Append(Image(q), g[a])[j] = g[a]
        BY <2>2, <3>3
      <4> QED
        BY <2>1, <3>1, <3>3, <4>1
    <3> QED
      BY <2>1, <3>2, <3>3
  <2> HIDE DEF Image
  <2>7. Image(p) = Append(Image(q), g[a])
    BY <2>3, <2>5, <2>6, SeqEqual
  <2> QED
    BY <2>7 DEF p
<1> DEFINE U == {i \in Nat : i <= n => G[i] = Image(F[i])}
<1>6. 0 \in U
  <2>1. F[0] = << >> /\ G[0] = << >>
    BY <1>3, <1>4 DEF Selection
  <2> QED
    BY <2>1
<1>7. ASSUME NEW m \in Nat, m \in U PROVE m + 1 \in U
  <2> SUFFICES ASSUME m + 1 <= n PROVE G[m + 1] = Image(F[m + 1])
    OBVIOUS
  <2>1. m + 1 \in 1..n /\ (m + 1) - 1 = m /\ m \in 0..n /\ G[m] = Image(F[m])
    BY <1>1, <1>7
  <2>2. F[m] \in Seq(S) /\ s[m + 1] \in S /\ r[m + 1] = g[s[m + 1]]
    BY <1>1, <1>2, <2>1
  <2>3. /\ F[m + 1] = IF m + 1 \in K THEN Append(F[m], s[m + 1]) ELSE F[m]
        /\ G[m + 1] = IF m + 1 \in K THEN Append(G[m], r[m + 1]) ELSE G[m]
    BY <1>2, <1>3, <1>4, <2>1 DEF Selection
  <2> HIDE DEF Image
  <2> QED
    BY <1>5, <2>1, <2>2, <2>3
<1>8. n \in U
  <2> HIDE DEF U, n
  <2> QED
    BY <1>1, <1>6, <1>7, NatSetInduction
<1>9. Select(s, K) = F[n] /\ Select(r, K) = G[n]
  BY <1>2, <1>3, <1>4 DEF Selection
<1> QED
  BY <1>1, <1>8, <1>9 DEF r, ValuesOf

LEMMA SelectAll ==
  ASSUME NEW S, NEW s \in Seq(S), NEW K, 1..Len(s) \subseteq K
  PROVE  Select(s, K) = s
<1> DEFINE n == Len(s)
<1>1. n \in Nat /\ DOMAIN s = 1..n /\ \A i \in 1..n : s[i] \in S
  OBVIOUS
<1>2. PICK F \in [0..n -> Seq(S)] : Selection(s, K, F)
  BY SelectionExists
<1> DEFINE U == {i \in Nat : i <= n => Len(F[i]) = i /\ \A j \in 1..i : F[i][j] = s[j]}
<1>3. 0 \in U
  BY <1>2 DEF Selection
<1>4. ASSUME NEW m \in Nat, m \in U PROVE m + 1 \in U
  <2> SUFFICES ASSUME m + 1 <= n
               PROVE  Len(F[m + 1]) = m + 1 /\ \A j \in 1..m + 1 : F[m + 1][j] = s[j]
    OBVIOUS
  <2>1. /\ m + 1 \in 1..n /\ (m + 1) - 1 = m /\ m \in 0..n
        /\ Len(F[m]) = m /\ \A j \in 1..m : F[m][j] = s[j]
    BY <1>1, <1>4
  <2>2. F[m] \in Seq(S) /\ s[m + 1] \in S
    BY <1>1, <2>1
  <2>3. F[m + 1] = Append(F[m], s[m + 1])
    BY <1>2, <2>1 DEF Selection
  <2> QED
    BY <2>1, <2>2, <2>3
<1>5. n \in U
  <2> HIDE DEF U, n
  <2> QED
    BY <1>1, <1>3, <1>4, NatSetInduction
<1>6. F[n] \in Seq(S) /\ Len(F[n]) = n /\ \A j \in 1..n : F[n][j] = s[j]
  BY <1>1, <1>5
<1>7. F[n] = s
  BY <1>6, SeqEqual
<1> QED
  BY <1>2, <1>7 DEF Selection

-----------------------------------------------------------------------------
(* How often an element is in a sequence. *)
LEMMA TimesFacts ==
  ASSUME NEW T, NEW s \in Seq(T), NEW e
  PROVE  /\ Times(s, e) \in Nat
         /\ (\A i \in 1..Len(s) : s[i] # e) => Times(s, e) = 0
<1>1. Len(s) \in Nat /\ DOMAIN s = 1..Len(s)
  OBVIOUS
<1>2. IsFiniteSet(1..Len(s))
  BY <1>1, FS_Interval
<1>3. {n \in DOMAIN s : s[n] = e} \in SUBSET (1..Len(s))
  BY <1>1
<1>4. IsFiniteSet({n \in DOMAIN s : s[n] = e})
  BY <1>2, <1>3, FS_Subset
<1>5. (\A i \in 1..Len(s) : s[i] # e) => {n \in DOMAIN s : s[n] = e} = {}
  BY <1>1
<1> QED
  BY <1>4, <1>5, FS_CardinalityType, FS_EmptySet DEF Times

PlacesUpTo(k, s, e) == {n \in 1..k : s[n] = e}

LEMMA TimesUpTo ==
  ASSUME NEW s, NEW e, NEW m \in Nat
  PROVE  /\ Cardinality(PlacesUpTo(m, s, e)) \in Nat
         /\ Cardinality(PlacesUpTo(0, s, e)) = 0
         /\ s[m + 1] = e => Cardinality(PlacesUpTo(m + 1, s, e)) = Cardinality(PlacesUpTo(m, s, e)) + 1
         /\ s[m + 1] # e => Cardinality(PlacesUpTo(m + 1, s, e)) = Cardinality(PlacesUpTo(m, s, e))
<1> DEFINE upTo(k) == {n \in 1..k : s[n] = e}
<1>1. IsFiniteSet(upTo(m))
  <2>1. IsFiniteSet(1..m) /\ upTo(m) \in SUBSET (1..m)
    BY FS_Interval
  <2> QED
    BY <2>1, FS_Subset
<1>2. upTo(0) = {}
  OBVIOUS
<1>3. upTo(m + 1) = (IF s[m + 1] = e THEN upTo(m) \cup {m + 1} ELSE upTo(m)) /\ m + 1 \notin upTo(m)
  OBVIOUS
<1> HIDE DEF upTo
<1>4. Cardinality(upTo(m)) \in Nat /\ Cardinality(upTo(0)) = 0
  BY <1>1, <1>2, FS_CardinalityType, FS_EmptySet
<1>5. Cardinality(upTo(m) \cup {m + 1}) = Cardinality(upTo(m)) + 1
  BY <1>1, <1>3, FS_AddElement
<1>6. Cardinality(upTo(m + 1)) = Cardinality(upTo(m)) + (IF s[m + 1] = e THEN 1 ELSE 0)
  BY <1>3, <1>4, <1>5
<1> QED
  BY <1>4, <1>6 DEF upTo, PlacesUpTo

LEMMA TimesAppended ==
  ASSUME NEW T, NEW s \in Seq(T), NEW a \in T, NEW e
  PROVE  Times(Append(s, a), e) = Times(s, e) + (IF a = e THEN 1 ELSE 0)
<1> DEFINE p == Append(s, a)
           upTo(k) == PlacesUpTo(k, p, e)
<1>1. /\ Len(s) \in Nat /\ DOMAIN s = 1..Len(s) /\ DOMAIN p = 1..Len(s) + 1
      /\ p[Len(s) + 1] = a /\ \A i \in 1..Len(s) : p[i] = s[i]
  OBVIOUS
<1> HIDE DEF p
<1>2. Times(p, e) = Cardinality(upTo(Len(s) + 1))
  BY <1>1 DEF Times, PlacesUpTo
<1>3. Times(s, e) = Cardinality(upTo(Len(s)))
  <2>1. {n \in DOMAIN s : s[n] = e} = upTo(Len(s))
    BY <1>1 DEF PlacesUpTo
  <2> QED
    BY <2>1 DEF Times
<1>4. Cardinality(upTo(Len(s) + 1)) = Cardinality(upTo(Len(s))) + (IF p[Len(s) + 1] = e THEN 1 ELSE 0)
  <2>1. /\ p[Len(s) + 1] = e => Cardinality(upTo(Len(s) + 1)) = Cardinality(upTo(Len(s))) + 1
        /\ p[Len(s) + 1] # e => Cardinality(upTo(Len(s) + 1)) = Cardinality(upTo(Len(s)))
        /\ Cardinality(upTo(Len(s))) \in Nat
    BY <1>1, TimesUpTo
  <2> QED
    BY <2>1
<1> QED
  BY <1>1, <1>2, <1>3, <1>4 DEF p

LEMMA TimesConcat ==
  ASSUME NEW T, NEW s \in Seq(T), NEW t \in Seq(T), NEW e
  PROVE  Times(s \o t, e) = Times(s, e) + Times(t, e)
<1> DEFINE both == s \o t
           A == {n \in 1..Len(s) : s[n] = e}
           B == {n \in 1..Len(t) : t[n] = e}
           C == {n \in 1..Len(s) + Len(t) : both[n] = e}
           shifted == [n \in B |-> n + Len(s)]
           D == {n \in C : n > Len(s)}
<1>1. /\ Len(s) \in Nat /\ DOMAIN s = 1..Len(s) /\ Len(t) \in Nat /\ DOMAIN t = 1..Len(t)
      /\ DOMAIN both = 1..Len(s) + Len(t)
      /\ \A i \in 1..Len(s) + Len(t) : both[i] = IF i <= Len(s) THEN s[i] ELSE t[i - Len(s)]
  BY ConcatProperties, LenProperties
<1>2. Times(s, e) = Cardinality(A) /\ Times(t, e) = Cardinality(B) /\ Times(both, e) = Cardinality(C)
  BY <1>1 DEF Times
<1> HIDE DEF both
<1>3. C = A \cup D /\ A \cap D = {}
  BY <1>1
<1>4. IsFiniteSet(A) /\ IsFiniteSet(B)
  <2>1. IsFiniteSet(1..Len(s)) /\ IsFiniteSet(1..Len(t))
    BY <1>1, FS_Interval
  <2>2. A \in SUBSET (1..Len(s)) /\ B \in SUBSET (1..Len(t))
    OBVIOUS
  <2> HIDE DEF A, B
  <2> QED
    BY <2>1, <2>2, FS_Subset
<1>5. shifted \in Bijection(B, D)
  <2>1. \A n \in B : n + Len(s) \in D
    <3> TAKE n \in B
    <3>1. n \in 1..Len(t) /\ t[n] = e /\ n + Len(s) \in 1..Len(s) + Len(t) /\ n + Len(s) > Len(s)
      BY <1>1
    <3>2. (n + Len(s)) - Len(s) = n
      BY <1>1, <3>1
    <3>3. both[n + Len(s)] = e
      BY <1>1, <3>1, <3>2
    <3> QED
      BY <3>1, <3>3
  <2>2. \A d \in D : d - Len(s) \in B /\ (d - Len(s)) + Len(s) = d
    <3> TAKE d \in D
    <3>1. d \in 1..Len(s) + Len(t) /\ d > Len(s) /\ both[d] = e
      OBVIOUS
    <3>2. d - Len(s) \in 1..Len(t) /\ both[d] = t[d - Len(s)]
      BY <1>1, <3>1
    <3> QED
      BY <1>1, <3>1, <3>2
  <2>3. \A m, n \in B : m + Len(s) = n + Len(s) => m = n
    BY <1>1
  <2> HIDE DEF B, D
  <2>4. shifted \in [B -> D]
    BY <2>1
  <2>5. \A d \in D : \E n \in B : shifted[n] = d
    BY <2>2
  <2> QED
    BY <2>3, <2>4, <2>5 DEF Bijection, Injection, Surjection, IsInjective
<1>6. IsFiniteSet(D) /\ Cardinality(D) = Cardinality(B)
  BY <1>4, <1>5, FS_Bijection DEF ExistsBijection
<1> HIDE DEF A, B, C, D
<1>7. Cardinality(C) = Cardinality(A) + Cardinality(D) - Cardinality(A \cap D)
  BY <1>3, <1>4, <1>6, FS_Union
<1>8. Cardinality(A \cap D) = 0 /\ Cardinality(A) \in Nat /\ Cardinality(B) \in Nat
  BY <1>3, <1>4, FS_EmptySet, FS_CardinalityType
<1> QED
  BY <1>2, <1>6, <1>7, <1>8 DEF both

LEMMA TimesFlattened ==
  ASSUME NEW T, NEW seqs \in Seq(Seq(T)), NEW e
  PROVE  Times(FlattenSeq(seqs), e) = SumFunction([i \in DOMAIN seqs |-> Times(seqs[i], e)])
<1> DEFINE m == Len(seqs)
           f == [i \in DOMAIN seqs |-> Times(seqs[i], e)]
<1>1. m \in Nat /\ DOMAIN seqs = 1..m /\ \A i \in 1..m : seqs[i] \in Seq(T)
  OBVIOUS
<1>2. \A i \in 1..m : f[i] = Times(seqs[i], e) /\ f[i] \in Int
  BY <1>1, TimesFacts
<1>3. SumFunction(f) = SumFunctionOnSet(f, 1..m)
  BY <1>1 DEF SumFunction
<1> HIDE DEF f
<1>4. CASE m = 0
  <2>1. FlattenSeq(seqs) = seqs /\ 1..m = {} /\ seqs \in Seq(Seq(T)) /\ \A i \in 1..Len(seqs) : seqs[i] # e
    BY <1>1, <1>4 DEF FlattenSeq
  <2>2. Times(seqs, e) = 0
    BY <2>1, TimesFacts
  <2> QED
    BY <1>3, <2>1, <2>2, SumOfNone DEF f
<1>5. CASE m > 0
  <2>1. PICK F \in [1..m -> Seq(T)] :
          /\ FlattenSeq(seqs) = F[m] /\ F[1] = seqs[1]
          /\ \A i \in 1..(m - 1) : F[i + 1] = F[i] \o seqs[i + 1]
    BY <1>5, FlattenFacts
  <2> DEFINE X == {i \in 1..m : Times(F[i], e) = SumFunctionOnSet(f, 1..i)}
  <2>2. \A k \in 0..m - 1 : SumFunctionOnSet(f, 1..k + 1) = f[k + 1] + SumFunctionOnSet(f, 1..k)
                        /\ SumFunctionOnSet(f, 1..k) \in Int
    <3> TAKE k \in 0..m - 1
    <3>1. k \in Nat /\ \A i \in 1..k + 1 : f[i] \in Int
      BY <1>1, <1>2
    <3> QED
      BY <3>1, SumOfOneMore
  <2>3. 1 \in X
    <3>1. 1..0 = {} /\ 0 + 1 = 1 /\ 0 \in 0..m - 1
      BY <1>1, <1>5
    <3>2. SumFunctionOnSet(f, 1..1) = f[1] + SumFunctionOnSet(f, {})
      <4>1. SumFunctionOnSet(f, 1..0 + 1) = f[0 + 1] + SumFunctionOnSet(f, 1..0)
        BY <2>2, <3>1
      <4> QED
        BY <3>1, <4>1
    <3>4. SumFunctionOnSet(f, {}) = 0
      BY SumOfNone
    <3>3. 1 \in 1..m
      BY <1>1, <1>5
    <3> QED
      BY <1>2, <2>1, <3>2, <3>3, <3>4
  <2>4. ASSUME NEW i \in 1..(m - 1), i \in X PROVE i + 1 \in X
    <3>1. i \in 0..m - 1 /\ i + 1 \in 1..m /\ i \in 1..m
      BY <1>1
    <3>2. Times(F[i + 1], e) = Times(F[i], e) + Times(seqs[i + 1], e)
      <4>1. F[i] \in Seq(T) /\ seqs[i + 1] \in Seq(T) /\ F[i + 1] = F[i] \o seqs[i + 1]
        BY <1>1, <2>1, <3>1
      <4> HIDE DEF m, X
      <4> QED
        BY <4>1, TimesConcat
    <3>3. SumFunctionOnSet(f, 1..i + 1) = f[i + 1] + SumFunctionOnSet(f, 1..i)
          /\ SumFunctionOnSet(f, 1..i) \in Int /\ f[i + 1] \in Int
      BY <1>2, <2>2, <3>1
    <3>4. Times(F[i], e) = SumFunctionOnSet(f, 1..i) /\ f[i + 1] = Times(seqs[i + 1], e)
      BY <1>2, <2>4, <3>1
    <3> QED
      BY <3>1, <3>2, <3>3, <3>4
  <2>5. 1..m \subseteq X
    <3> HIDE DEF X, m
    <3> QED
      BY <1>1, <2>3, <2>4, IntervalInduction
  <2>6. m \in 1..m
    BY <1>1, <1>5
  <2> QED
    BY <1>3, <2>1, <2>5, <2>6 DEF f
<1> QED
  BY <1>1, <1>4, <1>5

LEMMA TimesSelected ==
  ASSUME NEW T, NEW s \in Seq(T), NEW K, NEW e, \A i \in 1..Len(s) : s[i] = e => i \in K
  PROVE  Times(Select(s, K), e) = Times(s, e)
<1> DEFINE n == Len(s)
           upTo(k) == PlacesUpTo(k, s, e)
<1>1. n \in Nat /\ DOMAIN s = 1..n /\ \A i \in 1..n : s[i] \in T
  OBVIOUS
<1>2. PICK F \in [0..n -> Seq(T)] : Selection(s, K, F)
  BY SelectionExists
<1> DEFINE U == {i \in Nat : i <= n => Times(F[i], e) = Cardinality(upTo(i))}
<1>3. 0 \in U
  <2>1. F[0] = << >> /\ F[0] \in Seq(T) /\ Len(F[0]) = 0
    BY <1>1, <1>2 DEF Selection
  <2>2. Times(F[0], e) = 0
    BY <2>1, TimesFacts
  <2>3. Cardinality(upTo(0)) = 0
    BY TimesUpTo
  <2> QED
    BY <2>2, <2>3
<1>4. ASSUME NEW m \in Nat, m \in U PROVE m + 1 \in U
  <2> SUFFICES ASSUME m + 1 <= n PROVE Times(F[m + 1], e) = Cardinality(upTo(m + 1))
    OBVIOUS
  <2>1. m + 1 \in 1..n /\ (m + 1) - 1 = m /\ m \in 0..n /\ Times(F[m], e) = Cardinality(upTo(m))
    BY <1>1, <1>4
  <2>2. F[m] \in Seq(T) /\ s[m + 1] \in T
    BY <1>1, <2>1
  <2>3. F[m + 1] = IF m + 1 \in K THEN Append(F[m], s[m + 1]) ELSE F[m]
    BY <1>2, <2>1 DEF Selection
  <2>4. Times(Append(F[m], s[m + 1]), e) = Times(F[m], e) + (IF s[m + 1] = e THEN 1 ELSE 0)
    BY <2>2, TimesAppended
  <2>5. Cardinality(upTo(m + 1)) = Cardinality(upTo(m)) + (IF s[m + 1] = e THEN 1 ELSE 0)
        /\ Cardinality(upTo(m)) \in Nat
    BY TimesUpTo
  <2>6. s[m + 1] = e => m + 1 \in K
    BY <2>1
  <2> HIDE DEF upTo
  <2> QED
    BY <2>1, <2>3, <2>4, <2>5, <2>6
<1>5. n \in U
  <2> HIDE DEF U, n
  <2> QED
    BY <1>1, <1>3, <1>4, NatSetInduction
<1>6. Times(s, e) = Cardinality(upTo(n))
  BY <1>1 DEF Times, PlacesUpTo
<1> QED
  BY <1>1, <1>2, <1>5, <1>6 DEF Selection
-----------------------------------------------------------------------------
(* A finite set of numbers has a greatest element. *)
LEMMA MaxOfFinite ==
  ASSUME NEW S \in SUBSET Nat, IsFiniteSet(S), S # {}
  PROVE  Max(S) \in S /\ \A x \in S : x <= Max(S)
<1> DEFINE n == Cardinality(S)
<1>1. n \in Nat /\ ExistsBijection(1..n, S)
  BY FS_CardinalityType
<1>2. PICK f \in [1..n -> S] : \A x \in S : \E i \in 1..n : f[i] = x
  BY <1>1 DEF ExistsBijection, Bijection, Surjection
<1> HIDE DEF n
<1>3. n # 0 /\ \A i \in 1..n : f[i] \in Nat
  <2>1. PICK x \in S : TRUE
    OBVIOUS
  <2>2. \E i \in 1..n : f[i] = x
    BY <1>2
  <2>3. n # 0
    BY <1>1, <2>2
  <2>4. \A i \in 1..n : f[i] \in S
    BY <1>2
  <2> QED
    BY <2>3, <2>4
<1> DEFINE T == {k \in Nat : \E b \in Nat : \A i \in 1..k : i \in 1..n => f[i] <= b}
<1>4. 1 \in T
  <2>1. 1 \in 1..n /\ f[1] \in Nat
    <3>1. 1 \in 1..n
      BY <1>1, <1>3
    <3> QED
      BY <1>3, <3>1
  <2>2. \A i \in 1..1 : i \in 1..n => f[i] <= f[1]
    BY <2>1
  <2> QED
    BY <2>1, <2>2
<1>5. ASSUME NEW k \in 1..(n - 1), k \in T PROVE k + 1 \in T
  <2>1. PICK b \in Nat : \A i \in 1..k : i \in 1..n => f[i] <= b
    BY <1>5
  <2>2. k + 1 \in 1..n /\ f[k + 1] \in Nat
    <3>1. k + 1 \in 1..n
      BY <1>1
    <3> QED
      BY <1>3, <3>1
  <2> DEFINE d == b + f[k + 1]
  <2>3. d \in Nat /\ b <= d /\ f[k + 1] <= d
    BY <2>2
  <2> HIDE DEF d
  <2>4. ASSUME NEW i \in 1..(k + 1), i \in 1..n PROVE f[i] <= d
    <3>1. CASE i = k + 1
      BY <2>3, <3>1
    <3>2. CASE i # k + 1
      <4>1. i \in 1..k
        BY <1>1, <3>2
      <4>2. f[i] <= b
        BY <2>1, <2>4, <4>1
      <4> QED
        BY <1>3, <2>3, <2>4, <4>2
    <3> QED
      BY <3>1, <3>2
  <2>5. k + 1 \in Nat
    OBVIOUS
  <2> QED
    BY <2>3, <2>4, <2>5
<1>6. n \in T
  <2> HIDE DEF T
  <2>1. 1..n \subseteq T
    BY <1>1, <1>4, <1>5, IntervalInduction
  <2> QED
    BY <1>1, <1>3, <2>1
<1>7. PICK b \in Nat : \A i \in 1..n : f[i] <= b
  BY <1>6
<1>8. \A x \in S : x <= b
  BY <1>2, <1>7
<1> QED
  BY <1>8, MaxOfBounded

(* Ranks in an interval of as many numbers as there are elements. *)
LEMMA EveryRank ==
  ASSUME NEW S, IsFiniteSet(S), NEW n, n = Cardinality(S), NEW I, I = 0..(n - 1),
         NEW rank \in Injection(S, I)
  PROVE  rank \in Surjection(S, I)
<1>1. n \in Nat
  BY FS_CardinalityType
<1>2. IsFiniteSet(I) /\ Cardinality(I) = n
  <2>1. 0 \in Int /\ n - 1 \in Int
    BY <1>1
  <2>2. IsFiniteSet(I) /\ Cardinality(I) = IF 0 > n - 1 THEN 0 ELSE (n - 1) - 0 + 1
    BY <2>1, FS_Interval
  <2> QED
    BY <1>1, <2>2
<1> QED
  BY <1>2, FS_Injection

(***************************************************************************)
(* A strict order of a finite set, as a set of pairs, gives every element  *)
(* a place: the number of elements before it.                              *)
(***************************************************************************)
StrictOrder(S, R) ==
  /\ \A x \in S : <<x, x>> \notin R
  /\ \A x, y, z \in S : <<x, y>> \in R /\ <<y, z>> \in R => <<x, z>> \in R
  /\ \A x, y \in S : x = y \/ <<x, y>> \in R \/ <<y, x>> \in R

Ranking(S, R) == [x \in S |-> Cardinality({y \in S : <<y, x>> \in R})]

LEMMA RankingFacts ==
  ASSUME NEW S, IsFiniteSet(S), NEW R, StrictOrder(S, R)
  PROVE  /\ Cardinality(S) \in Nat /\ Ranking(S, R) \in [S -> 0..(Cardinality(S) - 1)]
         /\ \A x, y \in S : <<x, y>> \in R => Ranking(S, R)[x] < Ranking(S, R)[y]
         /\ \A x, y \in S : Ranking(S, R)[x] = Ranking(S, R)[y] => x = y
         /\ \A k \in 1..Cardinality(S) : \E x \in S : Ranking(S, R)[x] = k - 1
<1> DEFINE n == Cardinality(S)
           rank == Ranking(S, R)
           below(x) == {y \in S : <<y, x>> \in R}
<1>1. n \in Nat
  BY FS_CardinalityType
<1>2. ASSUME NEW x \in S
      PROVE  /\ IsFiniteSet(below(x)) /\ Cardinality(below(x)) \in 0..(n - 1)
  <2>1. below(x) \subseteq S /\ x \notin below(x) /\ x \in S
    BY DEF StrictOrder
  <2> HIDE DEF below
  <2>2. IsFiniteSet(below(x)) /\ Cardinality(below(x)) <= n /\ below(x) # S
        /\ (Cardinality(below(x)) = n <=> below(x) = S)
    BY <2>1, FS_Subset
  <2>3. Cardinality(below(x)) \in Nat
    BY <2>2, FS_CardinalityType
  <2> QED
    BY <1>1, <2>2, <2>3
<1>3. ASSUME NEW x \in S, NEW y \in S, <<x, y>> \in R
      PROVE  Cardinality(below(x)) < Cardinality(below(y))
  <2>1. below(x) \subseteq below(y) /\ x \in below(y) /\ x \notin below(x)
    BY <1>3 DEF StrictOrder
  <2> HIDE DEF below
  <2>2. IsFiniteSet(below(y)) /\ Cardinality(below(x)) \in Nat /\ Cardinality(below(y)) \in Nat
    BY <1>1, <1>2
  <2>3. Cardinality(below(x)) <= Cardinality(below(y))
        /\ (Cardinality(below(x)) = Cardinality(below(y)) <=> below(x) = below(y))
    BY <2>1, <2>2, FS_Subset
  <2> QED
    BY <2>1, <2>2, <2>3
<1>4. rank \in [S -> 0..(n - 1)] /\ \A x \in S : rank[x] = Cardinality(below(x))
  <2>1. rank = [x \in S |-> Cardinality(below(x))]
    BY DEF Ranking
  <2> HIDE DEF below
  <2> QED
    BY <1>2, <2>1
<1>5. ASSUME NEW x \in S, NEW y \in S, <<x, y>> \in R PROVE rank[x] < rank[y]
  <2> HIDE DEF below
  <2> QED
    BY <1>3, <1>4, <1>5
<1>6. \A x, y \in S : rank[x] = rank[y] => x = y
  <2> SUFFICES ASSUME NEW x \in S, NEW y \in S, rank[x] = rank[y], x # y PROVE FALSE
    OBVIOUS
  <2>1. <<x, y>> \in R \/ <<y, x>> \in R
    BY DEF StrictOrder
  <2>2. rank[x] \in Nat /\ rank[y] \in Nat
    BY <1>1, <1>4
  <2>3. rank[x] < rank[y] \/ rank[y] < rank[x]
    BY <1>5, <2>1
  <2> QED
    BY <2>2, <2>3
<1>7. ASSUME NEW k \in 1..n PROVE \E x \in S : rank[x] = k - 1
  <2> DEFINE I == 0..(n - 1)
  <2>1. k - 1 \in I /\ rank \in [S -> I] /\ I = 0..(n - 1) /\ n = Cardinality(S)
    BY <1>1, <1>4
  <2> HIDE DEF I
  <2>2. rank \in Injection(S, I)
    BY <1>6, <2>1 DEF Injection, IsInjective
  <2>3. rank \in Surjection(S, I)
    BY <2>1, <2>2, EveryRank
  <2> QED
    BY <2>1, <2>3 DEF Surjection
<1> QED
  BY <1>1, <1>4, <1>5, <1>6, <1>7

(* Ascending(S) lists S in order. *)
LEMMA AscendingFacts ==
  ASSUME NEW S \in SUBSET Nat, IsFiniteSet(S)
  PROVE  /\ Cardinality(S) \in Nat
         /\ Ascending(S) \in Seq(S) /\ Len(Ascending(S)) = Cardinality(S)
         /\ \A x \in S : \E k \in 1..Len(Ascending(S)) : Ascending(S)[k] = x
         /\ \A k, m \in 1..Len(Ascending(S)) : k < m => Ascending(S)[k] < Ascending(S)[m]
<1> DEFINE n == Cardinality(S)
           R == {p \in S \X S : p[1] < p[2]}
           below(x) == {y \in S : y < x}
           rank == Ranking(S, R)
<1>1. StrictOrder(S, R)
  BY DEF StrictOrder
<1>2. /\ n \in Nat /\ rank \in [S -> 0..(n - 1)]
      /\ \A x, y \in S : <<x, y>> \in R => rank[x] < rank[y]
      /\ \A x, y \in S : rank[x] = rank[y] => x = y
      /\ \A k \in 1..n : \E x \in S : rank[x] = k - 1
  <2> HIDE DEF R
  <2> QED
    BY <1>1, RankingFacts
<1>3. \A x, y \in S : <<x, y>> \in R <=> x < y
  OBVIOUS
<1>4. \A x \in S : rank[x] = Cardinality(below(x))
  <2>1. \A x \in S : {y \in S : <<y, x>> \in R} = below(x)
    BY <1>3
  <2> HIDE DEF R, below
  <2> QED
    BY <2>1 DEF Ranking
<1> DEFINE a == Ascending(S)
<1>5. a = [k \in 1..n |-> CHOOSE x \in S : Cardinality(below(x)) = k - 1]
  BY DEF Ascending
<1> HIDE DEF n, R, rank, below, a
<1>6. ASSUME NEW k \in 1..n PROVE a[k] \in S /\ rank[a[k]] = k - 1
  <2>1. \E x \in S : Cardinality(below(x)) = k - 1
    BY <1>2, <1>4
  <2>2. a[k] \in S /\ Cardinality(below(a[k])) = k - 1
    BY <1>5, <2>1
  <2> QED
    BY <1>4, <2>2
<1>7. a \in [1..n -> S]
  BY <1>5, <1>6
<1>8. a \in Seq(S) /\ Len(a) = n
  BY <1>2, <1>7
<1>9. ASSUME NEW x \in S PROVE \E k \in 1..n : a[k] = x
  <2>1. rank[x] + 1 \in 1..n /\ rank[x] \in Nat
    BY <1>2
  <2>2. a[rank[x] + 1] \in S /\ rank[a[rank[x] + 1]] = (rank[x] + 1) - 1
    BY <1>6, <2>1
  <2>3. rank[a[rank[x] + 1]] = rank[x]
    BY <2>1, <2>2
  <2> QED
    BY <1>2, <2>1, <2>2, <2>3
<1>10. ASSUME NEW k \in 1..n, NEW m \in 1..n, k < m PROVE a[k] < a[m]
  <2>1. a[k] \in S /\ a[m] \in S /\ rank[a[k]] = k - 1 /\ rank[a[m]] = m - 1
    BY <1>6
  <2>2. a[k] # a[m]
    BY <1>2, <1>10, <2>1
  <2>3. ~(a[m] < a[k])
    <3> SUFFICES ASSUME a[m] < a[k] PROVE FALSE
      OBVIOUS
    <3>1. rank[a[m]] < rank[a[k]]
      BY <1>2, <1>3, <2>1
    <3> QED
      BY <1>2, <1>10, <2>1, <3>1
  <2>4. a[k] \in Nat /\ a[m] \in Nat
    BY <2>1
  <2> QED
    BY <2>2, <2>3, <2>4
<1> QED
  BY <1>2, <1>8, <1>9, <1>10 DEF a, n

-----------------------------------------------------------------------------
(* What is selected from a sequence with one element more. *)
LEMMA SelectAppended ==
  ASSUME NEW T, NEW r \in Seq(T), NEW x \in T, NEW J, NEW K,
         \A i \in 1..Len(r) : i \in J <=> i \in K
  PROVE  Select(Append(r, x), K) =
           IF Len(r) + 1 \in K THEN Append(Select(r, J), x) ELSE Select(r, J)
<1> DEFINE m == Len(r)
           q == Append(r, x)
<1>1. m \in Nat /\ q \in Seq(T) /\ Len(q) = m + 1 /\ q[m + 1] = x
      /\ \A i \in 1..m : q[i] = r[i]
  OBVIOUS
<1>2. PICK F : Selection(q, K, F)
  <2> HIDE DEF q
  <2> QED
    BY <1>1, SelectionExists
<1>3. PICK G : Selection(r, J, G)
  BY SelectionExists
<1> HIDE DEF q
<1>4. /\ F[0] = << >> /\ F[m + 1] = Select(q, K)
      /\ \A i \in 1..(m + 1) : F[i] = IF i \in K THEN Append(F[i - 1], q[i]) ELSE F[i - 1]
  BY <1>1, <1>2 DEF Selection
<1>5. /\ G[0] = << >> /\ G[m] = Select(r, J)
      /\ \A i \in 1..m : G[i] = IF i \in J THEN Append(G[i - 1], r[i]) ELSE G[i - 1]
  BY <1>3 DEF Selection
<1> DEFINE U == {i \in Nat : i <= m => F[i] = G[i]}
<1>6. 0 \in U
  BY <1>4, <1>5
<1>7. ASSUME NEW i \in Nat, i \in U PROVE i + 1 \in U
  <2> SUFFICES ASSUME i + 1 <= m PROVE F[i + 1] = G[i + 1]
    OBVIOUS
  <2>1. i + 1 \in 1..m /\ i + 1 \in 1..(m + 1) /\ (i + 1) - 1 = i /\ F[i] = G[i]
    BY <1>1, <1>7
  <2>2. i + 1 \in J <=> i + 1 \in K
    BY <2>1
  <2> HIDE DEF U, m
  <2> QED
    BY <1>1, <1>4, <1>5, <2>1, <2>2
<1>8. m \in U
  <2> HIDE DEF U
  <2> QED
    BY <1>1, <1>6, <1>7, NatSetInduction
<1>9. F[m] = G[m] /\ m + 1 \in 1..(m + 1) /\ (m + 1) - 1 = m
  BY <1>1, <1>8
<1> HIDE DEF m
<1> QED
  BY <1>1, <1>4, <1>5, <1>9 DEF q, m

(* One more sequence is joined behind the others. *)
LEMMA FlattenAppended ==
  ASSUME NEW T, NEW seqs \in Seq(Seq(T)), NEW r \in Seq(T)
  PROVE  FlattenSeq(Append(seqs, r)) = FlattenSeq(seqs) \o r /\ FlattenSeq(seqs) \in Seq(T)
<1> DEFINE m == Len(seqs)
           q == Append(seqs, r)
<1>1. m \in Nat /\ q \in Seq(Seq(T)) /\ Len(q) = m + 1 /\ q[m + 1] = r /\ Len(q) > 0
      /\ \A i \in 1..m : q[i] = seqs[i]
  OBVIOUS
<1> HIDE DEF q
<1>2. PICK f \in [1..Len(q) -> Seq(T)] :
           /\ FlattenSeq(q) = f[Len(q)]
           /\ f[1] = q[1]
           /\ \A i \in 1..(Len(q) - 1) : f[i + 1] = f[i] \o q[i + 1]
  BY <1>1, FlattenFacts
<1>3. CASE m = 0
  <2>1. FlattenSeq(seqs) = seqs /\ seqs = << >>
    BY <1>3 DEF FlattenSeq
  <2>2. FlattenSeq(q) = r
    BY <1>1, <1>2, <1>3
  <2>3. << >> \o r = r /\ << >> \in Seq(T)
    BY ConcatEmptySeq
  <2> QED
    BY <2>1, <2>2, <2>3 DEF q
<1>4. CASE m > 0
  <2>1. PICK h \in [1..Len(seqs) -> Seq(T)] :
           /\ FlattenSeq(seqs) = h[Len(seqs)]
           /\ h[1] = seqs[1]
           /\ \A i \in 1..(Len(seqs) - 1) : h[i + 1] = h[i] \o seqs[i + 1]
    BY <1>4, FlattenFacts
  <2> DEFINE U == {i \in Nat : i + 1 <= m => f[i + 1] = h[i + 1]}
  <2>2. 0 \in U
    BY <1>1, <1>2, <1>4, <2>1
  <2>3. ASSUME NEW i \in Nat, i \in U PROVE i + 1 \in U
    <3> SUFFICES ASSUME (i + 1) + 1 <= m PROVE f[(i + 1) + 1] = h[(i + 1) + 1]
      OBVIOUS
    <3>1. PICK j \in Nat : j = i + 1
      OBVIOUS
    <3>2. j \in 1..(Len(q) - 1) /\ j \in 1..(m - 1) /\ j + 1 \in 1..m /\ f[j] = h[j]
      BY <1>1, <2>3, <3>1
    <3>3. f[j + 1] = f[j] \o q[j + 1] /\ h[j + 1] = h[j] \o seqs[j + 1] /\ q[j + 1] = seqs[j + 1]
      BY <1>1, <1>2, <2>1, <3>2
    <3> QED
      BY <3>1, <3>2, <3>3
  <2>4. m - 1 \in U
    <3>1. m - 1 \in Nat
      BY <1>1, <1>4
    <3> HIDE DEF U
    <3> QED
      BY <2>2, <2>3, <3>1, NatSetInduction
  <2>5. f[m] = h[m] /\ m \in 1..(Len(q) - 1) /\ m \in 1..m
    BY <1>1, <1>4, <2>4
  <2>6. f[m + 1] = f[m] \o q[m + 1]
    BY <1>2, <2>5
  <2> QED
    BY <1>1, <1>2, <2>1, <2>5, <2>6 DEF q
<1> QED
  BY <1>1, <1>3, <1>4

-----------------------------------------------------------------------------
(***************************************************************************)
(* Sums of products: a common factor, other names for what is summed, and  *)
(* a sum that falls into parts.                                            *)
(***************************************************************************)
LEMMA TimesBoth ==
  ASSUME NEW a \in Int, NEW b \in Int, NEW c \in Int
  PROVE  c * (a + b) = c * a + c * b /\ c * a \in Int
OBVIOUS

LEMMA ProductIsInt ==
  ASSUME NEW a \in Int, NEW b \in Int
  PROVE  a * b \in Int
OBVIOUS

LEMMA ProductsRegroup ==
  ASSUME NEW a \in Int, NEW b \in Int, NEW c \in Int
  PROVE  (a * b) * c = b * (a * c)
OBVIOUS

LEMMA ProductsAssociate ==
  ASSUME NEW a \in Int, NEW b \in Int, NEW c \in Int
  PROVE  (a * b) * c = a * (b * c)
OBVIOUS

(* A factor that all summands have. *)
LEMMA SumTimes ==
  ASSUME NEW f, NEW h, NEW S, NEW c \in Int, Summable(f, S), \A x \in S : h[x] = c * f[x]
  PROVE  /\ Summable(h, S)
         /\ SumFunctionOnSet(h, S) = c * SumFunctionOnSet(f, S)
<1> DEFINE F(s) == SumFunctionOnSet(f, s)
           H(s) == SumFunctionOnSet(h, s)
           P == {s \in SUBSET S : H(s) = c * F(s)}
<1>1. Summable(h, S)
  BY TimesBoth DEF Summable
<1>2. \A s \in SUBSET S : Summable(f, s) /\ Summable(h, s) /\ F(s) \in Int
  BY <1>1, FS_Subset, SumFacts DEF Summable
<1>3. {} \in P
  BY SumOfNone
<1>4. ASSUME NEW s \in SUBSET S, s # {}
      PROVE  \E x \in s : s \ {x} \in P => s \in P
  <2>1. PICK x \in s : TRUE
    BY <1>4
  <2>2. F(s) = f[x] + F(s \ {x}) /\ H(s) = h[x] + H(s \ {x})
    BY <1>2, SumTakesOut
  <2>3. f[x] \in Int /\ F(s \ {x}) \in Int /\ h[x] = c * f[x]
    BY <1>2 DEF Summable
  <2> HIDE DEF F, H
  <2>4. ASSUME H(s \ {x}) = c * F(s \ {x}) PROVE H(s) = c * F(s)
    BY <2>2, <2>3, <2>4, TimesBoth
  <2> QED
    BY <2>1, <2>4
<1>5. S \in P
  <2> HIDE DEF P
  <2>1. \A s \in SUBSET S : s # {} => \E x \in s : s \ {x} \in P => s \in P
    BY <1>4
  <2>2. SUBSET S \subseteq P
    BY <1>3, <2>1, SubsetInduction DEF Summable
  <2> QED
    BY <2>2
<1> QED
  BY <1>1, <1>5

(* A sum over names instead of the things that are named. *)
LEMMA SumOfImage ==
  ASSUME NEW f, NEW h, NEW S, NEW m, Summable(f, S),
         \A x, y \in S : m[x] = m[y] => x = y,
         \A x \in S : h[m[x]] = f[x]
  PROVE  /\ Summable(h, {m[x] : x \in S})
         /\ SumFunctionOnSet(h, {m[x] : x \in S}) = SumFunctionOnSet(f, S)
<1> DEFINE Image(s) == {m[x] : x \in s}
           F(s) == SumFunctionOnSet(f, s)
           H(s) == SumFunctionOnSet(h, s)
           P == {s \in SUBSET S : Summable(h, Image(s)) /\ H(Image(s)) = F(s)}
<1>1. \A s \in SUBSET S : Summable(f, s)
  BY FS_Subset DEF Summable
<1>2. {} \in P
  <2>1. Image({}) = {}
    OBVIOUS
  <2> HIDE DEF Image
  <2> QED
    BY <2>1, SumOfNone
<1>3. ASSUME NEW s \in SUBSET S, s # {}
      PROVE  \E x \in s : s \ {x} \in P => s \in P
  <2>1. PICK x \in s : TRUE
    BY <1>3
  <2>2. Image(s) = Image(s \ {x}) \cup {m[x]} /\ m[x] \notin Image(s \ {x})
    BY <2>1
  <2>3. F(s) = f[x] + F(s \ {x}) /\ f[x] \in Int /\ h[m[x]] = f[x]
    BY <1>1, SumTakesOut DEF Summable
  <2> HIDE DEF Image
  <2>4. ASSUME Summable(h, Image(s \ {x})), H(Image(s \ {x})) = F(s \ {x})
        PROVE  Summable(h, Image(s)) /\ H(Image(s)) = F(s)
    <3>1. Summable(h, Image(s \ {x}) \cup {m[x]})
      <4>1. IsFiniteSet(Image(s \ {x}) \cup {m[x]})
        BY <2>4, FS_AddElement DEF Summable
      <4> QED
        BY <2>3, <2>4, <4>1 DEF Summable
    <3>2. H(Image(s \ {x}) \cup {m[x]}) = h[m[x]] + H(Image(s \ {x}))
      BY <2>2, <3>1, SumAdds
    <3> QED
      BY <2>2, <2>3, <2>4, <3>1, <3>2
  <2> QED
    BY <2>1, <2>4
<1>4. S \in P
  <2> HIDE DEF P
  <2>1. \A s \in SUBSET S : s # {} => \E x \in s : s \ {x} \in P => s \in P
    BY <1>3
  <2>2. SUBSET S \subseteq P
    BY <1>2, <2>1, SubsetInduction DEF Summable
  <2> QED
    BY <2>2
<1> QED
  BY <1>4

(* A sum over sets none of which has an element in common with another. *)
PartsApart(part, I) == \A i, j \in I : i # j => part[i] \cap part[j] = {}

AllOf(part, I) == UNION {part[i] : i \in I}

LEMMA SumOfUnion ==
  ASSUME NEW f, NEW g, NEW I, IsFiniteSet(I), NEW part, PartsApart(part, I),
         \A i \in I : Summable(f, part[i]) /\ g[i] = SumFunctionOnSet(f, part[i])
  PROVE  /\ Summable(f, AllOf(part, I)) /\ Summable(g, I)
         /\ SumFunctionOnSet(f, AllOf(part, I)) = SumFunctionOnSet(g, I)
<1> DEFINE All(s) == UNION {part[i] : i \in s}
           F(s) == SumFunctionOnSet(f, s)
           G(s) == SumFunctionOnSet(g, s)
           P == {s \in SUBSET I : Summable(f, All(s)) /\ F(All(s)) = G(s)}
<1>1. Summable(g, I)
  BY SumFacts DEF Summable
<1>2. \A s \in SUBSET I : Summable(g, s)
  BY <1>1, FS_Subset DEF Summable
<1>3. {} \in P
  <2>1. All({}) = {}
    OBVIOUS
  <2> HIDE DEF All
  <2> QED
    BY <2>1, SumOfNone
<1>4. ASSUME NEW s \in SUBSET I, s # {}
      PROVE  \E i \in s : s \ {i} \in P => s \in P
  <2>1. PICK i \in s : TRUE
    BY <1>4
  <2>2. All(s) = All(s \ {i}) \cup part[i]
    BY <2>1
  <2>3. All(s \ {i}) \cap part[i] = {}
    BY <2>1 DEF PartsApart
  <2>4. /\ G(s) = g[i] + G(s \ {i}) /\ g[i] = F(part[i]) /\ Summable(f, part[i])
        /\ g[i] \in Int /\ G(s \ {i}) \in Int
    <3>1. G(s) = g[i] + G(s \ {i}) /\ Summable(g, s \ {i}) /\ g[i] \in Int
      BY <1>2, SumTakesOut DEF Summable
    <3>2. G(s \ {i}) \in Int
      BY <3>1, SumFacts
    <3>3. g[i] = F(part[i]) /\ Summable(f, part[i])
      OBVIOUS
    <3> QED
      BY <3>1, <3>2, <3>3, Zenon
  <2> HIDE DEF All
  <2>5. ASSUME Summable(f, All(s \ {i})), F(All(s \ {i})) = G(s \ {i})
        PROVE  Summable(f, All(s)) /\ F(All(s)) = G(s)
    <3>1. Summable(f, All(s \ {i}) \cup part[i])
      <4>1. IsFiniteSet(All(s \ {i}) \cup part[i])
        BY <2>4, <2>5, FS_Union DEF Summable
      <4> QED
        BY <2>4, <2>5, <4>1 DEF Summable
    <3>2. F(All(s \ {i}) \cup part[i]) = F(All(s \ {i})) + F(part[i])
      BY <2>3, <3>1, SumOfParts, ZenonT(30)
    <3> HIDE DEF F, G
    <3>3. F(All(s)) = G(s \ {i}) + g[i]
      BY <2>2, <2>4, <2>5, <3>2
    <3> QED
      BY <2>2, <2>4, <3>1, <3>3
  <2> QED
    BY <2>1, <2>5
<1>5. I \in P
  <2> HIDE DEF P
  <2>1. \A s \in SUBSET I : s # {} => \E i \in s : s \ {i} \in P => s \in P
    BY <1>4
  <2>2. SUBSET I \subseteq P
    BY <1>3, <2>1, SubsetInduction DEF Summable
  <2> QED
    BY <2>2
<1> QED
  BY <1>1, <1>5 DEF AllOf

(* Sums over parts that are multiples of something. *)
Multiples(f, part, c, g, I) ==
  \A i \in I : Summable(f, part[i]) /\ SumFunctionOnSet(f, part[i]) = c * g[i]

LEMMA SumOfMultiples ==
  ASSUME NEW f, NEW g, NEW I, NEW part, NEW c \in Int, Summable(g, I), PartsApart(part, I),
         Multiples(f, part, c, g, I)
  PROVE  /\ Summable(f, AllOf(part, I))
         /\ SumFunctionOnSet(f, AllOf(part, I)) = c * SumFunctionOnSet(g, I)
<1> DEFINE h == [i \in I |-> SumFunctionOnSet(f, part[i])]
<1>1. \A i \in I : h[i] = c * g[i]
  BY DEF Multiples
<1>2. IsFiniteSet(I)
  BY DEF Summable
<1>3. \A i \in I : Summable(f, part[i]) /\ h[i] = SumFunctionOnSet(f, part[i])
  BY DEF Multiples
<1> HIDE DEF h
<1>4. /\ Summable(f, AllOf(part, I))
      /\ SumFunctionOnSet(f, AllOf(part, I)) = SumFunctionOnSet(h, I)
  BY <1>2, <1>3, SumOfUnion
<1>5. SumFunctionOnSet(h, I) = c * SumFunctionOnSet(g, I)
  BY <1>1, SumTimes
<1> QED
  BY <1>4, <1>5

LEMMA SumOfOne ==
  ASSUME NEW f, NEW x, f[x] \in Int
  PROVE  Summable(f, {x}) /\ SumFunctionOnSet(f, {x}) = f[x]
<1>1. IsFiniteSet({x}) /\ {} \cup {x} = {x} /\ x \notin {}
  BY FS_Singleton
<1>2. Summable(f, {} \cup {x})
  BY <1>1 DEF Summable
<1>3. SumFunctionOnSet(f, {} \cup {x}) = f[x] + SumFunctionOnSet(f, {})
  BY <1>1, <1>2, SumAdds
<1> QED
  BY <1>1, <1>2, <1>3, SumOfNone

-----------------------------------------------------------------------------
(***************************************************************************)
(* Functions that are defined by sums over the links of a graph without    *)
(* cycles.                                                                 *)
(***************************************************************************)
Ranked(I, bound, rank, links, to, factor) ==
  /\ bound \in Nat /\ rank \in [I -> 0..bound]
  /\ \A n \in I : /\ IsFiniteSet(links[n])
                  /\ \A p \in links[n] : /\ to[p] \in I /\ factor[p] \in Int
                                         /\ rank[to[p]] < rank[n]

SumsAlong(f, I, links, to, factor) ==
  \A n \in I : f[n] = IF links[n] = {} THEN 1
                      ELSE SumFunction([p \in links[n] |-> factor[p] * f[to[p]]])

LEMMA SumRecursion ==
  ASSUME NEW I, NEW bound, NEW rank, NEW links, NEW to, NEW factor,
         Ranked(I, bound, rank, links, to, factor)
  PROVE  \E f \in [I -> Int] : SumsAlong(f, I, links, to, factor)
<1> USE DEF Ranked
<1> DEFINE V == Int
           Summands(n, f) == [p \in links[n] |-> factor[p] * f[to[p]]]
           Step(n, f) == IF links[n] = {} THEN 1 ELSE SumFunction(Summands(n, f))
           value == [x \in I \X [I -> V] |-> Step(x[1], x[2])]
<1>1. ASSUME NEW n \in I, NEW f \in [I -> V]
      PROVE  Step(n, f) \in V
  <2>1. ASSUME NEW p \in links[n] PROVE factor[p] * f[to[p]] \in Int
    BY TimesBoth
  <2>2. Summable(Summands(n, f), links[n])
    BY <2>1 DEF Summable
  <2>3. SumFunction(Summands(n, f)) = SumFunctionOnSet(Summands(n, f), links[n])
    BY DEF SumFunction
  <2> HIDE DEF Summands, Ranked
  <2>4. SumFunctionOnSet(Summands(n, f), links[n]) \in Int
    BY <2>2, SumFacts
  <2> QED
    BY <2>3, <2>4
<1>2. value \in [I \X [I -> V] -> V]
  <2>1. ASSUME NEW x \in I \X [I -> V] PROVE Step(x[1], x[2]) \in V
    <3>1. x[1] \in I /\ x[2] \in [I -> V]
      OBVIOUS
    <3> HIDE DEF Step, V
    <3> QED
      BY <1>1, <3>1
  <2> HIDE DEF Step, V
  <2> QED
    BY <2>1
<1>3. \A n \in I : \A f \in [I -> V] : value[<<n, f>>] = Step(n, f)
  <2> HIDE DEF Step, V
  <2> QED
    OBVIOUS
<1>4. ASSUME NEW n \in I, NEW f \in [I -> V], NEW g \in [I -> V],
             \A m \in I : rank[m] < rank[n] => f[m] = g[m]
      PROVE  value[<<n, f>>] = value[<<n, g>>]
  <2>1. \A p \in links[n] : f[to[p]] = g[to[p]]
    BY <1>4
  <2>2. Summands(n, f) = Summands(n, g)
    BY <2>1
  <2>3. Step(n, f) = Step(n, g)
    <3> HIDE DEF Summands
    <3> QED
      BY <2>2
  <2> HIDE DEF value, Step, V
  <2> QED
    BY <1>3, <2>3
<1>5. V # {} /\ bound \in Nat /\ rank \in [I -> 0..bound]
  OBVIOUS
<1>6. \E f \in [I -> V] : \A n \in I : f[n] = value[<<n, f>>]
  <2> HIDE DEF value, V
  <2>1. Recursion(I, V, bound, rank, value)
    BY <1>2, <1>4, <1>5 DEF Recursion
  <2> HIDE DEF Ranked
  <2> QED
    BY <2>1, RecursiveFunctionExists
<1>7. PICK f \in [I -> V] : \A n \in I : f[n] = Step(n, f)
  <2> HIDE DEF value, Step, V
  <2> QED
    BY <1>3, <1>6
<1> QED
  BY <1>7 DEF SumsAlong

LEMMA SumsAreInts ==
  ASSUME NEW I, NEW bound, NEW rank, NEW links, NEW to, NEW factor,
         Ranked(I, bound, rank, links, to, factor),
         NEW f, SumsAlong(f, I, links, to, factor)
  PROVE  \A n \in I : f[n] \in Int
<1> DEFINE T == {k \in Nat : \A n \in I : rank[n] < k => f[n] \in Int}
<1>1. \A n \in I : rank[n] \in 0..bound
  BY DEF Ranked
<1>2. 0 \in T
  BY <1>1
<1>3. ASSUME NEW k \in Nat, k \in T PROVE k + 1 \in T
  <2> SUFFICES ASSUME NEW n \in I, rank[n] < k + 1 PROVE f[n] \in Int
    OBVIOUS
  <2> DEFINE g == [p \in links[n] |-> factor[p] * f[to[p]]]
  <2>1. ASSUME NEW p \in links[n] PROVE factor[p] * f[to[p]] \in Int
    <3>1. /\ to[p] \in I /\ factor[p] \in Int
          /\ rank[to[p]] < rank[n] /\ rank[n] \in Nat /\ rank[to[p]] \in Nat
      BY <1>1 DEF Ranked
    <3>2. f[to[p]] \in Int
      BY <1>3, <3>1
    <3> QED
      BY <3>1, <3>2, TimesBoth
  <2>2. Summable(g, links[n])
    BY <2>1 DEF Ranked, Summable
  <2>3. SumFunction(g) = SumFunctionOnSet(g, links[n])
    BY DEF SumFunction
  <2>4. f[n] = IF links[n] = {} THEN 1 ELSE SumFunction(g)
    BY DEF SumsAlong
  <2> HIDE DEF g
  <2>5. SumFunctionOnSet(g, links[n]) \in Int
    BY <2>2, SumFacts
  <2> QED
    BY <2>3, <2>4, <2>5
<1>4. bound \in Nat /\ bound + 1 \in T
  <2>1. bound \in Nat
    BY DEF Ranked
  <2> HIDE DEF T
  <2> QED
    BY <1>2, <1>3, <2>1, NatSetInduction
<1> QED
  BY <1>1, <1>4
=============================================================================
