---------------------------- MODULE LookupProofs ----------------------------
(***************************************************************************)
(* Theorems about LookupSession, for every lexicon, char.def, sentence and *)
(* every constraint a caller or a text in partial format can put on it.    *)
(***************************************************************************)
EXTENDS MCLookup, InductionLemmas

-----------------------------------------------------------------------------
(* I. Dictionary::compile(): the order of the surfaces. *)

(* The order of surfaces is one, and of two surfaces one is the smaller. *)
LEMMA SurfaceOrder ==
  /\ \A s \in Seq(Nat) : ~SurfaceLess(s, s)
  /\ \A s, t, u \in Seq(Nat) : SurfaceLess(s, t) /\ SurfaceLess(t, u) => SurfaceLess(s, u)
  /\ \A s, t \in Seq(Nat) : s = t \/ SurfaceLess(s, t) \/ SurfaceLess(t, s)
<1>1. ASSUME NEW s \in Seq(Nat) PROVE ~SurfaceLess(s, s)
  <2>1. Len(s) \in Nat /\ \A i \in 1..Len(s) : s[i] \in Nat
    OBVIOUS
  <2> QED
    BY <2>1 DEF SurfaceLess
<1>2. ASSUME NEW s \in Seq(Nat), NEW t \in Seq(Nat), NEW u \in Seq(Nat),
             SurfaceLess(s, t), SurfaceLess(t, u)
      PROVE  SurfaceLess(s, u)
  <2>1. /\ Len(s) \in Nat /\ Len(t) \in Nat /\ Len(u) \in Nat
        /\ \A i \in 1..Len(s) : s[i] \in Nat
        /\ \A i \in 1..Len(t) : t[i] \in Nat
        /\ \A i \in 1..Len(u) : u[i] \in Nat
    OBVIOUS
  <2>2. PICK i \in 1..Len(t) : /\ \A j \in 1..(i - 1) : j <= Len(s) /\ s[j] = t[j]
                               /\ i > Len(s) \/ s[i] < t[i]
    BY <1>2 DEF SurfaceLess
  <2>3. PICK k \in 1..Len(u) : /\ \A j \in 1..(k - 1) : j <= Len(t) /\ t[j] = u[j]
                               /\ k > Len(t) \/ t[k] < u[k]
    BY <1>2 DEF SurfaceLess
  <2>4. CASE i < k
    <3>1. i \in 1..Len(u) /\ t[i] = u[i]
      BY <2>1, <2>3, <2>4
    <3>2. \A j \in 1..(i - 1) : j <= Len(s) /\ s[j] = u[j]
      <4> SUFFICES ASSUME NEW j \in 1..(i - 1) PROVE j <= Len(s) /\ s[j] = u[j]
        OBVIOUS
      <4>1. j \in 1..(k - 1)
        BY <2>1, <2>4
      <4> QED
        BY <2>2, <2>3, <4>1
    <3> QED
      BY <2>2, <3>1, <3>2 DEF SurfaceLess
  <2>5. CASE i = k
    <3>1. t[k] < u[k]
      BY <2>1, <2>3, <2>5
    <3>2. i > Len(s) \/ s[i] < u[i]
      <4>1. i <= Len(s) => i \in 1..Len(s)
        BY <2>1
      <4> QED
        BY <2>1, <2>2, <2>5, <3>1, <4>1
    <3> QED
      BY <2>2, <2>3, <2>5, <3>2 DEF SurfaceLess
  <2>6. CASE k < i
    <3>1. k \in 1..(i - 1) /\ k \in 1..Len(t)
      BY <2>1, <2>6
    <3>2. k <= Len(s) /\ s[k] = t[k] /\ t[k] < u[k]
      BY <2>1, <2>2, <2>3, <3>1
    <3>3. \A j \in 1..(k - 1) : j <= Len(s) /\ s[j] = u[j]
      <4> SUFFICES ASSUME NEW j \in 1..(k - 1) PROVE j <= Len(s) /\ s[j] = u[j]
        OBVIOUS
      <4>1. j \in 1..(i - 1)
        BY <2>1, <2>6
      <4> QED
        BY <2>2, <2>3, <4>1
    <3> QED
      BY <3>2, <3>3 DEF SurfaceLess
  <2> QED
    BY <2>1, <2>4, <2>5, <2>6
<1>3. ASSUME NEW s \in Seq(Nat), NEW t \in Seq(Nat), s # t
      PROVE  SurfaceLess(s, t) \/ SurfaceLess(t, s)
  <2>1. /\ Len(s) \in Nat /\ Len(t) \in Nat
        /\ \A i \in 1..Len(s) : s[i] \in Nat
        /\ \A i \in 1..Len(t) : t[i] \in Nat
    OBVIOUS
  <2> DEFINE D == {k \in Nat \ {0} : k > Len(s) \/ k > Len(t) \/ s[k] # t[k]}
  <2>2. Len(s) + 1 \in D
    BY <2>1
  <2>3. PICK i \in D : \A k \in D : i <= k
    <3>1. D \subseteq Nat /\ D # {}
      BY <2>2
    <3> HIDE DEF D
    <3> QED
      BY <3>1, SmallestOf
  <2>4. ASSUME NEW j \in 1..(i - 1) PROVE j <= Len(s) /\ j <= Len(t) /\ s[j] = t[j]
    <3>1. i \in Nat /\ j \in Nat \ {0} /\ j < i
      OBVIOUS
    <3>2. j \notin D
      <4> HIDE DEF D
      <4> QED
        BY <2>3, <3>1
    <3> QED
      BY <2>1, <3>1, <3>2
  <2>5. i \in Nat \ {0} /\ (i > Len(s) \/ i > Len(t) \/ s[i] # t[i])
    OBVIOUS
  <2> HIDE DEF D
  <2>6. ~(i > Len(s) /\ i > Len(t))
    <3> SUFFICES ASSUME i > Len(s), i > Len(t) PROVE FALSE
      OBVIOUS
    <3>1. Len(s) = i - 1 /\ Len(t) = i - 1
      <4>1. i - 1 = 0 \/ i - 1 \in 1..(i - 1)
        BY <2>5
      <4>2. i - 1 <= Len(s) /\ i - 1 <= Len(t)
        BY <2>1, <2>4, <4>1
      <4> QED
        BY <2>1, <2>5, <4>2
    <3>2. \A j \in 1..Len(s) : s[j] = t[j]
      BY <2>4, <3>1
    <3> QED
      BY <1>3, <3>1, <3>2
  <2>7. CASE i > Len(s)
    <3>1. i \in 1..Len(t)
      BY <2>1, <2>5, <2>6, <2>7
    <3> QED
      BY <2>4, <2>7, <3>1 DEF SurfaceLess
  <2>8. CASE i > Len(t)
    <3>1. i \in 1..Len(s)
      BY <2>1, <2>5, <2>6, <2>8
    <3> QED
      BY <2>4, <2>8, <3>1 DEF SurfaceLess
  <2>9. CASE i <= Len(s) /\ i <= Len(t)
    <3>1. i \in 1..Len(s) /\ i \in 1..Len(t) /\ s[i] # t[i]
      BY <2>1, <2>5, <2>9
    <3>2. s[i] < t[i] \/ t[i] < s[i]
      BY <2>1, <3>1
    <3> QED
      BY <2>4, <3>1, <3>2 DEF SurfaceLess
  <2> QED
    BY <2>1, <2>5, <2>7, <2>8, <2>9
<1> QED
  BY <1>1, <1>2, <1>3

(* Sorting puts every entry in its place. *)
LEMMA SortedOrder ==
  ASSUME NEW T, NEW dic \in Seq(T), \A e \in T : e.surface \in Seq(Nat)
  PROVE  \E n, p :
           /\ n \in Nat /\ n <= Len(dic) /\ p \in [1..n -> Lines(dic)]
           /\ Sorted(dic) = [k \in 1..n |-> dic[p[k]]]
           /\ \A i \in Lines(dic) : \E k \in 1..n : p[k] = i
           /\ \A k, m \in 1..n : k < m => Before(dic, p[k], p[m])
<1> DEFINE S == Lines(dic)
           n == Cardinality(S)
           R == {p \in S \X S : Before(dic, p[1], p[2])}
           count(i) == Cardinality({j \in S : Before(dic, j, i)})
           ranks == {<<count(i), i>> : i \in S}
           p == [k \in 1..n |-> (CHOOSE r \in ranks : r[1] = k - 1)[2]]
<1>1. /\ Len(dic) \in Nat /\ S \subseteq 1..Len(dic) /\ S \subseteq Nat
      /\ \A i \in S : dic[i] \in T /\ dic[i].surface \in Seq(Nat)
  BY DEF Lines
<1>2. \A i, j \in S : <<i, j>> \in R <=> Before(dic, i, j)
  OBVIOUS
<1>3. StrictOrder(S, R)
  <2> HIDE DEF R, S
  <2>1. ASSUME NEW i \in S PROVE ~Before(dic, i, i)
    <3>1. dic[i].surface \in Seq(Nat) /\ i \in Nat
      BY <1>1
    <3> QED
      BY <3>1, SurfaceOrder DEF Before
  <2>2. ASSUME NEW i \in S, NEW j \in S, NEW k \in S, Before(dic, i, j), Before(dic, j, k)
        PROVE  Before(dic, i, k)
    <3>1. /\ dic[i].surface \in Seq(Nat) /\ dic[j].surface \in Seq(Nat)
          /\ dic[k].surface \in Seq(Nat)
      BY <1>1
    <3>2. i \in Nat /\ j \in Nat /\ k \in Nat
      BY <1>1
    <3> QED
      BY <2>2, <3>1, <3>2, SurfaceOrder DEF Before
  <2>3. ASSUME NEW i \in S, NEW j \in S, i # j PROVE Before(dic, i, j) \/ Before(dic, j, i)
    <3>1. dic[i].surface \in Seq(Nat) /\ dic[j].surface \in Seq(Nat)
      BY <1>1
    <3>2. i \in Nat /\ j \in Nat
      BY <1>1
    <3>3. i < j \/ j < i
      BY <2>3, <3>2
    <3> QED
      BY <3>1, <3>3, SurfaceOrder DEF Before
  <2> QED
    BY <1>2, <2>1, <2>2, <2>3 DEF StrictOrder
<1>4. IsFiniteSet(S) /\ n \in Nat /\ n <= Len(dic)
  <2>1. /\ IsFiniteSet(1..Len(dic))
        /\ Cardinality(1..Len(dic)) = IF 1 > Len(dic) THEN 0 ELSE Len(dic) - 1 + 1
    BY <1>1, FS_Interval
  <2> HIDE DEF S
  <2>2. IsFiniteSet(S) /\ Cardinality(S) <= Cardinality(1..Len(dic))
    BY <1>1, <2>1, FS_Subset
  <2>3. n \in Nat
    BY <2>2, FS_CardinalityType
  <2> QED
    BY <1>1, <2>1, <2>2, <2>3
<1>5. /\ Ranking(S, R) \in [S -> 0..(n - 1)]
      /\ \A x, y \in S : <<x, y>> \in R => Ranking(S, R)[x] < Ranking(S, R)[y]
      /\ \A x, y \in S : Ranking(S, R)[x] = Ranking(S, R)[y] => x = y
      /\ \A k \in 1..n : \E i \in S : Ranking(S, R)[i] = k - 1
  <2> HIDE DEF S, R
  <2> QED
    BY <1>3, <1>4, RankingFacts
<1>6. \A i \in S : Ranking(S, R)[i] = count(i)
  <2>1. \A i \in S : {j \in S : <<j, i>> \in R} = {j \in S : Before(dic, j, i)}
    BY <1>2
  <2> HIDE DEF R
  <2> QED
    BY <2>1 DEF Ranking
<1>7. ASSUME NEW k \in 1..n PROVE p[k] \in S /\ count(p[k]) = k - 1
  <2>1. PICK i \in S : count(i) = k - 1
    BY <1>5, <1>6
  <2> HIDE DEF count
  <2>2. <<count(i), i>> \in ranks
    OBVIOUS
  <2>3. \E r \in ranks : r[1] = k - 1
    BY <2>1, <2>2
  <2> DEFINE r == CHOOSE x \in ranks : x[1] = k - 1
  <2>4. r \in ranks /\ r[1] = k - 1
    <3> HIDE DEF ranks
    <3> QED
      BY <2>3
  <2>5. r[2] \in S /\ count(r[2]) = k - 1
    <3> HIDE DEF r
    <3> QED
      BY <2>4
  <2>6. p[k] = r[2]
    <3> HIDE DEF ranks
    <3> QED
      OBVIOUS
  <2> HIDE DEF r, p
  <2> QED
    BY <2>5, <2>6
<1>8. Sorted(dic) = [k \in 1..n |-> dic[p[k]]]
  <2>1. Sorted(dic) = [k \in 1..n |-> dic[(CHOOSE r \in ranks : r[1] = k - 1)[2]]]
    BY DEF Sorted
  <2> HIDE DEF ranks
  <2> QED
    BY <2>1
<1>9. p \in [1..n -> S]
  <2> HIDE DEF ranks
  <2>1. p = [k \in 1..n |-> p[k]]
    OBVIOUS
  <2> HIDE DEF p, count
  <2> QED
    BY <1>7, <2>1
<1> HIDE DEF p, count, R
<1> DEFINE rank == Ranking(S, R)
<1>10. \A k \in 1..n : p[k] \in S /\ rank[p[k]] = k - 1
  BY <1>6, <1>7
<1>11. ASSUME NEW i \in S PROVE \E k \in 1..n : p[k] = i
  <2>1. rank[i] \in 0..(n - 1)
    BY <1>5
  <2>2. PICK x : x = rank[i]
    OBVIOUS
  <2>3. x \in 0..(n - 1) /\ x + 1 \in 1..n /\ (x + 1) - 1 = x
    BY <1>4, <2>1, <2>2
  <2>4. p[x + 1] \in S /\ rank[p[x + 1]] = rank[i]
    BY <1>10, <2>2, <2>3
  <2> QED
    BY <1>5, <2>3, <2>4
<1>12. ASSUME NEW k \in 1..n, NEW m \in 1..n, k < m PROVE Before(dic, p[k], p[m])
  <2>1. p[k] \in S /\ p[m] \in S /\ rank[p[k]] = k - 1 /\ rank[p[m]] = m - 1
    BY <1>10
  <2>2. p[k] # p[m]
    BY <1>12, <2>1
  <2>3. <<p[m], p[k]>> \notin R
    <3> SUFFICES ASSUME <<p[m], p[k]>> \in R PROVE FALSE
      OBVIOUS
    <3>1. rank[p[m]] < rank[p[k]]
      BY <1>5, <2>1
    <3> QED
      BY <1>12, <2>1, <3>1
  <2>4. <<p[k], p[m]>> \in R
    BY <1>3, <2>1, <2>2, <2>3 DEF StrictOrder
  <2> QED
    BY <1>2, <2>1, <2>4
<1> HIDE DEF rank, n, S
<1> QED
  BY <1>4, <1>8, <1>9, <1>11, <1>12 DEF S

-----------------------------------------------------------------------------
(* II. Building the double array. *)

(* The keys: no empty ones, each with a value. *)
KeysTyped(keys, values) ==
  /\ keys \in Seq(Seq(Nat) \ {<< >>}) /\ Len(keys) \in Nat \ {0}
  /\ values \in Seq(Int) /\ Len(values) = Len(keys)

LEMMA PackFacts == \A bsize, idx \in Int : Pack(bsize, idx) \in Int
<1> SUFFICES ASSUME NEW bsize \in Int, NEW idx \in Int PROVE Pack(bsize, idx) \in Int
  OBVIOUS
<1> DEFINE d == 2 * (MaxInt + 1)
           m == bsize + idx * 256 + MaxInt + 1
<1>1. d \in Nat \ {0} /\ m \in Int /\ MaxInt \in Int
  BY DictionaryAssumption
<1> HIDE DEF d, m
<1>2. m % d \in Int
  BY <1>1
<1>3. Pack(bsize, idx) = (m % d) - (MaxInt + 1)
  BY DEF Pack, ToInt, d, m
<1> QED
  BY <1>1, <1>2, <1>3

LEMMA CompileFacts ==
  ASSUME NEW lexicon \in Lexicons, Compile(lexicon)
  PROVE  /\ KeysTyped(key', value')
         /\ StartBuild(key', value')
<1> DEFINE Entries == {e \in {lexicon[i] : i \in 1..Len(lexicon)} :
                         e.surface \in Seq(Nat) \ {<< >>}}
           dic == Sorted(lexicon)
           at == Ascending(Starts(dic))
           bsize(k) == (IF k = Len(at) THEN Len(dic) + 1 ELSE at[k + 1]) - at[k]
           keys == [k \in 1..Len(at) |-> dic[at[k]].surface]
           values == [k \in 1..Len(at) |-> Pack(bsize(k), at[k] - 1)]
<1>1. dic \in Seq(Entries) /\ Len(dic) \in Nat \ {0}
  <2> DEFINE T == {e \in ToSet(lexicon) : e.surface \in Seq(Nat)}
  <2>1. \A i \in 1..Len(lexicon) : lexicon[i] \in T
    <3>1. lexicon \in Seq(ToSet(lexicon)) /\ \A i \in 1..Len(lexicon) : lexicon[i].surface \in Seq(Nat)
      BY LookupAssumption
    <3> QED
      BY <3>1
  <2>2. lexicon \in Seq(T) /\ \A e \in T : e.surface \in Seq(Nat)
    <3>1. \A e \in T : e.surface \in Seq(Nat)
      OBVIOUS
    <3> HIDE DEF T
    <3> QED
      BY <2>1, <3>1, LookupAssumption
  <2>3. PICK n, p :
          /\ n \in Nat /\ p \in [1..n -> Lines(lexicon)]
          /\ dic = [k \in 1..n |-> lexicon[p[k]]]
          /\ \A i \in Lines(lexicon) : \E k \in 1..n : p[k] = i
    <3> HIDE DEF T
    <3> QED
      BY <2>2, SortedOrder
  <2> HIDE DEF dic
  <2>4. \A i \in Lines(lexicon) : lexicon[i] \in Entries
    BY <2>1 DEF Lines
  <2>5. PICK i : i \in Lines(lexicon)
    BY LookupAssumption DEF Lines
  <2>6. n # 0
    BY <2>3, <2>5
  <2> HIDE DEF Entries
  <2>7. \A k \in 1..n : lexicon[p[k]] \in Entries
    BY <2>3, <2>4
  <2> QED
    BY <2>3, <2>6, <2>7
<1> HIDE DEF dic
<1>3. Starts(dic) \in SUBSET Nat /\ IsFiniteSet(Starts(dic)) /\ Starts(dic) \subseteq 1..Len(dic)
      /\ 1 \in Starts(dic)
  <2>1. Starts(dic) \subseteq 1..Len(dic) /\ 1 \in Starts(dic)
    BY <1>1 DEF Starts
  <2>2. IsFiniteSet(1..Len(dic))
    BY <1>1, FS_Interval
  <2> QED
    BY <1>1, <2>1, <2>2, FS_Subset
<1>4. /\ at \in Seq(Starts(dic)) /\ Len(at) \in Nat \ {0}
  <2>1. at \in Seq(Starts(dic)) /\ \E k \in 1..Len(at) : at[k] = 1
    BY <1>3, AscendingFacts
  <2> HIDE DEF at
  <2> QED
    BY <2>1
<1> HIDE DEF at, Entries
<1>5. ASSUME NEW k \in 1..Len(at)
      PROVE  dic[at[k]].surface \in Seq(Nat) \ {<< >>} /\ Pack(bsize(k), at[k] - 1) \in Int
  <2>1. at[k] \in 1..Len(dic) /\ at[k] \in Int
    BY <1>1, <1>3, <1>4
  <2>2. dic[at[k]] \in Entries
    BY <1>1, <2>1
  <2>3. bsize(k) \in Int
    <3>1. CASE k = Len(at)
      BY <1>1, <2>1, <3>1
    <3>2. CASE k # Len(at)
      <4>1. k + 1 \in 1..Len(at)
        BY <1>4, <3>2
      <4>2. at[k + 1] \in Int
        BY <1>3, <1>4, <4>1
      <4> QED
        BY <2>1, <3>2, <4>2
    <3> QED
      BY <3>1, <3>2
  <2> HIDE DEF bsize
  <2>4. at[k] - 1 \in Int
    BY <2>1
  <2> QED
    BY <2>2, <2>3, <2>4, PackFacts DEF Entries
<1>6. keys \in [1..Len(at) -> Seq(Nat) \ {<< >>}] /\ values \in [1..Len(at) -> Int]
  <2> HIDE DEF bsize
  <2> QED
    BY <1>5
<1>7. key' = keys /\ value' = values /\ StartBuild(keys, values)
  BY DEF Compile, StartBuild, dic, at
<1> HIDE DEF keys, values
<1>8. KeysTyped(keys, values)
  <2> DEFINE m == Len(at)
  <2>1. m \in Nat \ {0}
    BY <1>4
  <2>2. keys \in [1..m -> Seq(Nat) \ {<< >>}] /\ values \in [1..m -> Int]
    BY <1>6
  <2> HIDE DEF m
  <2>3. keys \in Seq(Seq(Nat) \ {<< >>}) /\ Len(keys) = m
    BY <2>1, <2>2
  <2>4. values \in Seq(Int) /\ Len(values) = m
    BY <2>1, <2>2
  <2> QED
    BY <2>1, <2>3, <2>4 DEF KeysTyped
<1> QED
  BY <1>7, <1>8

(* What insert() has still to visit: keys left .. right - 1, a cell for them. *)
Pending ==
  {n \in [cell : Nat, depth : Nat, left : 1..Len(key), right : Int] : n.right <= Len(key) + 1}
Root == [cell |-> 0, depth |-> 0, left |-> 1, right |-> Len(key) + 1]

(***************************************************************************)
(* The arrays while they are built, and after: every base is in use once.  *)
(* A base that the root has been given is never a cell of its children, so *)
(* that the empty word, whose leaf would be there, is never found.         *)
(***************************************************************************)
ArrayInv ==
  /\ KeysTyped(key, value)
  /\ base \in [DOMAIN base -> Int] /\ 0 \in DOMAIN base
  /\ DOMAIN check \subseteq Nat /\ IsFiniteSet(DOMAIN check)
  /\ used \subseteq Nat \ {0} /\ IsFiniteSet(used)
  /\ nextCheckPos \in Nat
  /\ todo \in Seq(Pending)
  /\ At(check, base[0]) # base[0]
  /\ \/ DOMAIN check = {} /\ used = {} /\ todo = <<Root>>
     \/ base[0] \in used /\ \A k \in 1..Len(todo) : todo[k].cell # 0

LEMMA StartArray ==
  ASSUME NEW keys, NEW values, KeysTyped(keys, values), StartBuild(keys, values)
  PROVE  ArrayInv'
<1>1. Len(keys) \in Nat \ {0}
  BY DEF KeysTyped
<1>2. key' = keys /\ value' = values /\ base' = [p \in {0} |-> 1] /\ check' = << >> /\ used' = {}
      /\ nextCheckPos' = 0 /\ todo' = <<[cell |-> 0, depth |-> 0, left |-> 1, right |-> Len(keys) + 1]>>
  BY DEF StartBuild
<1>3. DOMAIN check' = {}
  BY <1>2
<1>4. todo' = <<Root'>> /\ Root' \in Pending'
  BY <1>1, <1>2 DEF Root, Pending
<1>5. base'[0] = 1 /\ At(check, base[0])' = 0
  BY <1>2, <1>3 DEF At
<1>6. IsFiniteSet({})
  BY FS_EmptySet
<1>7. base' \in [DOMAIN base' -> Int] /\ 0 \in DOMAIN base'
  BY <1>2
<1>8. KeysTyped(key, value)'
  BY <1>2 DEF KeysTyped
<1>9. todo' \in Seq(Pending')
  BY <1>4
<1> QED
  BY <1>2, <1>3, <1>4, <1>5, <1>6, <1>7, <1>8, <1>9 DEF ArrayInv

LEMMA CodesFacts ==
  ASSUME KeysTyped(key, value), NEW n \in Pending
  PROVE  /\ Within(n) \subseteq 1..Len(key) /\ Within(n) \subseteq Nat
         /\ Codes(n) \subseteq Nat /\ IsFiniteSet(Codes(n))
         /\ Codes(n) = {} <=> Within(n) = {}
         /\ n.depth = 0 => \A c \in Codes(n) : c >= 1
<1>1. Len(key) \in Nat \ {0} /\ \A i \in 1..Len(key) : key[i] \in Seq(Nat) /\ key[i] # << >>
  BY DEF KeysTyped
<1>2. n.left \in 1..Len(key) /\ n.right \in Int /\ n.right <= Len(key) + 1 /\ n.depth \in Nat
  BY DEF Pending
<1>3. Within(n) \subseteq 1..Len(key) /\ Within(n) \subseteq Nat
  BY <1>1, <1>2 DEF Within
<1>4. ASSUME NEW i \in Within(n)
      PROVE  Code(i, n.depth) \in Nat /\ (n.depth = 0 => Code(i, n.depth) >= 1)
  <2> DEFINE k == key[i]
             d == n.depth
  <2>1. k \in Seq(Nat) /\ k # << >> /\ Len(k) >= d /\ d \in Nat
    BY <1>1, <1>2, <1>3 DEF Within
  <2>2. Code(i, d) = IF Len(k) = d THEN 0 ELSE k[d + 1] + 1
    BY DEF Code
  <2> HIDE DEF k, d
  <2>3. Len(k) # d => k[d + 1] \in Nat
    <3>1. Len(k) # d => d + 1 \in 1..Len(k)
      BY <2>1
    <3> QED
      BY <2>1, <3>1
  <2>4. Len(k) # 0
    BY <2>1
  <2>5. Code(i, d) \in Nat /\ (d = 0 => Code(i, d) >= 1)
    BY <2>1, <2>2, <2>3, <2>4
  <2> QED
    BY <2>5 DEF d
<1>5. IsFiniteSet(Within(n))
  <2>1. IsFiniteSet(1..Len(key))
    BY <1>1, FS_Interval
  <2> QED
    BY <1>3, <2>1, FS_Subset
<1>6. IsFiniteSet(Codes(n))
  <2> DEFINE W == Within(n)
             f == [i \in W |-> Code(i, n.depth)]
  <2>1. Codes(n) = {f[i] : i \in W}
    BY DEF Codes
  <2>2. f \in [W -> Codes(n)] /\ \A c \in Codes(n) : \E i \in W : f[i] = c
    BY DEF Codes
  <2>3. f \in Surjection(W, Codes(n))
    <3> HIDE DEF f, W
    <3> QED
      BY <2>2 DEF Surjection
  <2> HIDE DEF f, W
  <2> QED
    BY <1>5, <2>3, FS_Surjection DEF W
<1> QED
  BY <1>3, <1>4, <1>6 DEF Codes

(* The scan for a place ends. *)
LEMMA FirstPosFacts ==
  ASSUME NEW codes, codes \subseteq Nat, IsFiniteSet(codes), codes # {},
         DOMAIN check \subseteq Nat, IsFiniteSet(DOMAIN check),
         used \subseteq Nat, IsFiniteSet(used), nextCheckPos \in Nat
  PROVE  /\ FirstPos(codes) \in Nat /\ Fits(codes, FirstPos(codes))
         /\ Min(codes) \in codes /\ Begin(codes) \in Nat \ {0}
         /\ NextCheckPos(codes, FirstPos(codes)) \in Nat
<1>1. Min(codes) \in codes /\ (\A c \in codes : Min(codes) <= c) /\ Min(codes) \in Nat
  BY MinOfNats
<1>2. Max(codes) \in codes /\ (\A c \in codes : c <= Max(codes)) /\ Max(codes) \in Nat
  BY MaxOfFinite
<1> DEFINE start == StartPos(codes)
           taken == {start} \cup DOMAIN check \cup used
           top == Max(taken)
           high == Highest(codes)
<1>3. start \in Nat /\ Min(codes) + 1 <= start
  <2> DEFINE S == {Min(codes) + 1, nextCheckPos}
  <2>1. S \in SUBSET Nat /\ S # {}
    BY <1>1
  <2>2. IsFiniteSet(S)
    <3>1. IsFiniteSet({Min(codes) + 1}) /\ IsFiniteSet({nextCheckPos})
      BY FS_Singleton
    <3>2. S = {Min(codes) + 1} \cup {nextCheckPos}
      OBVIOUS
    <3> HIDE DEF S
    <3> QED
      BY <3>1, <3>2, FS_Union
  <2> HIDE DEF S
  <2>3. Max(S) \in S /\ \A x \in S : x <= Max(S)
    BY <2>1, <2>2, MaxOfFinite
  <2>4. start = Max(S)
    BY DEF S, StartPos
  <2>5. Min(codes) + 1 \in S
    BY DEF S
  <2> QED
    BY <2>1, <2>3, <2>4, <2>5
<1>4. top \in Nat /\ \A x \in taken : x <= top
  <2>1. taken \in SUBSET Nat /\ taken # {}
    BY <1>3
  <2>2. IsFiniteSet(taken)
    BY FS_Singleton, FS_Union
  <2> HIDE DEF taken, start
  <2> QED
    BY <2>1, <2>2, MaxOfFinite
<1>5. high = top + Max(codes) + 1
  BY DEF Highest
<1>6. start \in taken /\ DOMAIN check \subseteq taken /\ used \subseteq taken
  OBVIOUS
<1> HIDE DEF start, taken, top, high
<1>7. high \in start..high /\ high \in Nat
  BY <1>2, <1>3, <1>4, <1>5, <1>6
<1>8. Fits(codes, high)
  <2>1. high - Min(codes) \notin used
    <3>1. high - Min(codes) > top
      BY <1>1, <1>2, <1>4, <1>5
    <3> QED
      BY <1>1, <1>4, <1>6, <1>7, <3>1
  <2>2. ASSUME NEW c \in codes PROVE At(check, high - Min(codes) + c) = 0
    <3>1. high - Min(codes) + c > top /\ high - Min(codes) + c \in Int
      BY <1>1, <1>2, <1>4, <1>5
    <3>2. high - Min(codes) + c \notin DOMAIN check
      BY <1>4, <1>6, <3>1
    <3> QED
      BY <3>2 DEF At
  <2> QED
    BY <2>1, <2>2 DEF Fits
<1> DEFINE P == {p \in start..high : Fits(codes, p)}
           place == FirstPos(codes)
<1>9. place \in P
  <2>1. P \in SUBSET Nat /\ high \in P
    BY <1>3, <1>7, <1>8
  <2>2. place = Min(P)
    BY DEF FirstPos, start, high
  <2> HIDE DEF P, place
  <2> QED
    BY <2>1, <2>2, MinOfNats
<1>10. place \in Nat /\ Fits(codes, place) /\ start <= place
  <2> HIDE DEF place
  <2> QED
    BY <1>3, <1>7, <1>9
<1> HIDE DEF P, place
<1>11. Begin(codes) = place - Min(codes)
  BY DEF Begin, place
<1>12. Begin(codes) \in Nat \ {0}
  BY <1>1, <1>3, <1>10, <1>11
<1>13. NextCheckPos(codes, place) \in Nat
  <2> DEFINE G == {p \in start..place : At(check, p) = 0}
  <2>1. place - Min(codes) + Min(codes) = place
    BY <1>1, <1>10
  <2>2. At(check, place) = 0
    BY <1>1, <1>10, <2>1 DEF Fits
  <2>3. place \in G /\ G \in SUBSET Nat
    BY <1>3, <1>10, <2>2
  <2>4. Min(G) \in Nat
    <3> HIDE DEF G
    <3> QED
      BY <2>3, MinOfNats
  <2>5. NextCheckPos(codes, place) \in {place, Min(G)}
    BY DEF NextCheckPos, start
  <2> HIDE DEF G
  <2> QED
    BY <1>10, <2>4, <2>5
<1> QED
  BY <1>1, <1>10, <1>12, <1>13 DEF place

(* The children that fetch() finds have keys of their parent. *)
LEMMA FetchFacts ==
  ASSUME KeysTyped(key, value), NEW n \in Pending
  PROVE  /\ Fetch(n) \in Seq([depth : Nat, code : Codes(n), left : 1..Len(key), right : Int])
         /\ \A k \in 1..Len(Fetch(n)) : Fetch(n)[k].right <= Len(key) + 1
<1> DEFINE C == Codes(n)
           at(c) == {i \in Within(n) : Code(i, n.depth) = c}
           first(c) == Min(at(c))
           after(c) == {d \in C : d > c}
           child(c) == [depth |-> n.depth + 1, code |-> c, left |-> first(c),
                        right |-> IF after(c) = {} THEN n.right ELSE first(Min(after(c)))]
           codes == Ascending(C)
           R == [depth : Nat, code : Codes(n), left : 1..Len(key), right : Int]
<1>1. /\ Within(n) \subseteq 1..Len(key) /\ Within(n) \subseteq Nat
      /\ C \in SUBSET Nat /\ IsFiniteSet(C)
  BY CodesFacts
<1>2. Len(key) \in Nat /\ n.depth \in Nat /\ n.right \in Int /\ n.right <= Len(key) + 1
  BY DEF Pending, KeysTyped
<1>3. ASSUME NEW c \in C PROVE first(c) \in 1..Len(key)
  <2>1. at(c) \subseteq Within(n) /\ at(c) # {}
    BY DEF Codes
  <2> HIDE DEF at
  <2>2. at(c) \in SUBSET Nat
    BY <1>1, <2>1
  <2>3. Min(at(c)) \in at(c)
    BY <2>1, <2>2, MinOfNats
  <2> QED
    BY <1>1, <2>1, <2>3
<1>4. ASSUME NEW c \in C PROVE child(c) \in R /\ child(c).right <= Len(key) + 1
  <2>1. CASE after(c) = {}
    <3> HIDE DEF first, after
    <3> QED
      BY <1>2, <1>3, <2>1
  <2>2. CASE after(c) # {}
    <3>1. after(c) \in SUBSET Nat /\ after(c) \subseteq C
      BY <1>1
    <3> HIDE DEF after
    <3>2. Min(after(c)) \in C
      BY <2>2, <3>1, MinOfNats
    <3> HIDE DEF first, C
    <3>3. first(Min(after(c))) \in 1..Len(key) /\ first(c) \in 1..Len(key)
      BY <1>3, <3>2
    <3> QED
      BY <1>2, <2>2, <3>3 DEF C
  <2> QED
    BY <2>1, <2>2
<1> HIDE DEF child, R
<1>5. codes \in Seq(C)
  <2> HIDE DEF C
  <2> QED
    BY <1>1, AscendingFacts
<1> DEFINE m == Len(codes)
           g == [k \in 1..m |-> child(codes[k])]
<1>6. Fetch(n) = g
  BY DEF Fetch, child
<1>7. m \in Nat /\ \A k \in 1..m : codes[k] \in C
  <2> HIDE DEF C, codes
  <2> QED
    BY <1>5
<1> HIDE DEF codes, C, m
<1>8. g \in [1..m -> R] /\ \A k \in 1..m : g[k].right <= Len(key) + 1
  BY <1>4, <1>7
<1>9. g \in Seq(R) /\ Len(g) = m
  <2> HIDE DEF g
  <2> QED
    BY <1>7, <1>8
<1> HIDE DEF g
<1> QED
  BY <1>6, <1>8, <1>9 DEF R

LEMMA LeafKeeps ==
  ASSUME ArrayInv, Leaf
  PROVE  ArrayInv'
<1> DEFINE n == Head(todo)
<1>1. todo \in Seq(Pending) /\ todo # << >> /\ n \in Pending /\ Tail(todo) \in Seq(Pending)
      /\ n = todo[1]
  BY DEF ArrayInv, Leaf, Building
<1>2. todo # <<Root>>
  <2> SUFFICES ASSUME todo = <<Root>> PROVE FALSE
    OBVIOUS
  <2>1. n = Root /\ Within(n) = {} /\ Len(key) \in Nat \ {0}
    BY DEF Leaf, ArrayInv, KeysTyped
  <2>2. key[1] \in Seq(Nat)
    BY <2>1 DEF ArrayInv, KeysTyped
  <2>3. 1 \in Within(Root)
    <3>1. 1 \in 1..(Len(key) + 1 - 1) /\ Len(key[1]) >= 0
      BY <2>1, <2>2
    <3> QED
      BY <3>1 DEF Within, Root
  <2> QED
    BY <2>1, <2>3
<1>3. base[0] \in used /\ (\A k \in 1..Len(todo) : todo[k].cell # 0) /\ n.cell # 0
  <2>1. base[0] \in used /\ \A k \in 1..Len(todo) : todo[k].cell # 0
    BY <1>2 DEF ArrayInv
  <2>2. 1 \in 1..Len(todo)
    BY <1>1
  <2> QED
    BY <1>1, <2>1, <2>2
<1>4. n.cell \in Nat /\ n.left \in 1..Len(key) /\ value[n.left] \in Int
  <2> HIDE DEF n
  <2>1. n.cell \in Nat /\ n.left \in 1..Len(key)
    BY <1>1 DEF Pending
  <2> DEFINE l == n.left
  <2>2. l \in 1..Len(value) /\ value \in Seq(Int)
    BY <2>1 DEF ArrayInv, KeysTyped
  <2> HIDE DEF l
  <2>3. value[l] \in Int
    BY <2>2, ElementOfSeq
  <2> QED
    BY <2>1, <2>3 DEF l
<1>5. /\ base' = [p \in DOMAIN base \cup {n.cell} |->
                    IF p = n.cell THEN -value[n.left] - 1 ELSE base[p]]
      /\ todo' \in {<< >>, Tail(todo)}
      /\ UNCHANGED <<key, value, check, used, nextCheckPos>>
  BY DEF Leaf
<1> HIDE DEF n
<1>6. base' \in [DOMAIN base' -> Int] /\ 0 \in DOMAIN base' /\ base'[0] = base[0]
  BY <1>3, <1>4, <1>5 DEF ArrayInv
<1>7. Pending' = Pending /\ Root' = Root
  BY <1>5 DEF Pending, Root
<1>8. todo' \in Seq(Pending) /\ \A k \in 1..Len(todo') : todo'[k].cell # 0
  <2>1. CASE todo' = << >>
    BY <2>1
  <2>2. CASE todo' = Tail(todo)
    <3>1. Len(Tail(todo)) = Len(todo) - 1 /\ \A k \in 1..Len(Tail(todo)) : Tail(todo)[k] = todo[k + 1]
      BY <1>1
    <3>2. \A k \in 1..Len(Tail(todo)) : k + 1 \in 1..Len(todo)
      BY <1>1, <3>1
    <3> QED
      BY <1>1, <1>3, <2>2, <3>1, <3>2
  <2> QED
    BY <1>5, <2>1, <2>2
<1>9. At(check, base[0])' = At(check, base[0])
  BY <1>5, <1>6 DEF At
<1> QED
  BY <1>3, <1>5, <1>6, <1>7, <1>8, <1>9 DEF ArrayInv

LEMMA InsertKeeps ==
  ASSUME ArrayInv, Insert
  PROVE  ArrayInv'
<1> DEFINE n == Head(todo)
           codes == Codes(n)
           begin == Begin(codes)
           cells == {begin + c : c \in codes}
           children == Fetch(n)
           new == [k \in 1..Len(children) |->
                     [cell |-> begin + children[k].code, depth |-> children[k].depth,
                      left |-> children[k].left, right |-> children[k].right]]
<1>1. todo \in Seq(Pending) /\ todo # << >> /\ n \in Pending /\ Tail(todo) \in Seq(Pending)
      /\ n = todo[1]
  BY DEF ArrayInv, Insert, Building
<1>2. /\ codes \subseteq Nat /\ IsFiniteSet(codes) /\ codes # {}
      /\ n.depth = 0 => \A c \in codes : c >= 1
  BY <1>1, CodesFacts DEF ArrayInv, Insert
<1>3. used \subseteq Nat
  BY DEF ArrayInv
<1>4. /\ Fits(codes, FirstPos(codes)) /\ begin \in Nat \ {0}
      /\ NextCheckPos(codes, FirstPos(codes)) \in Nat
  <2> HIDE DEF codes
  <2> QED
    BY <1>2, <1>3, FirstPosFacts DEF ArrayInv
<1>5. /\ children \in Seq([depth : Nat, code : codes, left : 1..Len(key), right : Int])
      /\ \A k \in 1..Len(children) : children[k].right <= Len(key) + 1
  BY <1>1, FetchFacts DEF ArrayInv
<1>6. begin \notin used
  BY <1>4 DEF Fits, Begin
<1>7. /\ nextCheckPos' = NextCheckPos(codes, FirstPos(codes))
      /\ used' = used \cup {begin}
      /\ check' = [p \in DOMAIN check \cup cells |-> IF p \in cells THEN begin ELSE check[p]]
      /\ base' = [p \in DOMAIN base \cup {n.cell} |-> IF p = n.cell THEN begin ELSE base[p]]
      /\ todo' = new \o Tail(todo)
      /\ UNCHANGED <<key, value>>
  BY DEF Insert
<1>8. cells \subseteq Nat /\ IsFiniteSet(cells)
  <2>1. cells \subseteq Nat
    BY <1>2, <1>4
  <2> DEFINE f == [c \in codes |-> begin + c]
  <2>2. f \in [codes -> cells] /\ \A p \in cells : \E c \in codes : f[c] = p
    OBVIOUS
  <2>3. f \in Surjection(codes, cells)
    <3> HIDE DEF f, cells, codes
    <3> QED
      BY <2>2 DEF Surjection
  <2> HIDE DEF f, cells, codes
  <2> QED
    BY <1>2, <2>1, <2>3, FS_Surjection
<1>9. Pending' = Pending /\ Root' = Root
  BY <1>7 DEF Pending, Root
<1> DEFINE m == Len(children)
<1>10. /\ m \in Nat
       /\ \A k \in 1..m : /\ children[k].code \in codes /\ children[k].depth \in Nat
                          /\ children[k].left \in 1..Len(key) /\ children[k].right \in Int
  <2> DEFINE C == [depth : Nat, code : codes, left : 1..Len(key), right : Int]
  <2>1. children \in Seq(C)
    BY <1>5
  <2> HIDE DEF children, codes
  <2>2. \A c \in C : /\ c.code \in codes /\ c.depth \in Nat
                     /\ c.left \in 1..Len(key) /\ c.right \in Int
    OBVIOUS
  <2> HIDE DEF C
  <2>3. m \in Nat /\ \A k \in 1..m : children[k] \in C
    BY <2>1
  <2> QED
    BY <2>2, <2>3
<1> HIDE DEF codes, begin, children, n, m
<1>19. \A k \in 1..m : children[k].code \in Nat
  <2>1. \A c \in codes : c \in Nat
    BY <1>2
  <2> QED
    BY <1>10, <2>1
<1>11. new \in [1..m -> Pending] /\ \A k \in 1..m : new[k].cell = begin + children[k].code
  <2>1. ASSUME NEW k \in 1..m
        PROVE  [cell |-> begin + children[k].code, depth |-> children[k].depth,
                left |-> children[k].left, right |-> children[k].right] \in Pending
    <3>1. begin + children[k].code \in Nat
      <4> DEFINE c == children[k].code
      <4>1. c \in Nat
        BY <1>19
      <4> HIDE DEF c
      <4>2. begin + c \in Nat
        BY <1>4, <4>1
      <4> QED
        BY <4>2 DEF c
    <3>2. children[k].right <= Len(key) + 1
      BY <1>5 DEF m
    <3> QED
      BY <1>10, <3>1, <3>2 DEF Pending
  <2> QED
    BY <2>1 DEF m
<1>12. new \in Seq(Pending) /\ Len(new) = m
  <2> HIDE DEF new
  <2> QED
    BY <1>10, <1>11
<1>13. todo' \in Seq(Pending)
  <2> HIDE DEF new
  <2> QED
    BY <1>1, <1>7, <1>12, ConcatProperties
<1>14. DOMAIN check' = DOMAIN check \cup cells
  BY <1>7
<1>15. DOMAIN check' \subseteq Nat /\ IsFiniteSet(DOMAIN check')
  BY <1>8, <1>14, FS_Union DEF ArrayInv
<1>16. used' \subseteq Nat \ {0} /\ IsFiniteSet(used')
  BY <1>4, <1>7, FS_AddElement DEF ArrayInv
<1>17. base' \in [DOMAIN base' -> Int] /\ 0 \in DOMAIN base'
  BY <1>4, <1>7 DEF ArrayInv
<1>18. base'[0] \in used' /\ At(check', base'[0]) # base'[0]
       /\ \A k \in 1..m : new[k].cell # 0
  <2>1. CASE todo = <<Root>> /\ DOMAIN check = {}
    <3>1. n = Root
      BY <1>1, <2>1
    <3>2. n.depth = 0 /\ n.cell = 0
      BY <3>1 DEF Root
    <3>3. base'[0] = begin
      BY <1>7, <3>2
    <3>4. \A c \in codes : c \in Nat /\ c >= 1
      BY <1>2, <3>2 DEF n, codes
    <3>5. begin \notin cells /\ begin \notin DOMAIN check
      BY <1>4, <2>1, <3>4
    <3>6. At(check', begin) = 0
      BY <1>14, <3>5 DEF At
    <3>7. \A k \in 1..m : new[k].cell # 0
      <4> HIDE DEF new
      <4> QED
        BY <1>4, <1>10, <1>11, <3>4, SMTT(30)
    <3> QED
      BY <1>4, <1>7, <3>3, <3>6, <3>7, SMTT(30)
  <2>2. CASE base[0] \in used /\ \A k \in 1..Len(todo) : todo[k].cell # 0
    <3>1. n.cell # 0
      <4>1. 1 \in 1..Len(todo)
        BY <1>1
      <4> QED
        BY <1>1, <2>2, <4>1
    <3> DEFINE b == base[0]
    <3>2. base'[0] = b /\ b \in used /\ At(check, b) # b
      BY <1>7, <2>2, <3>1 DEF ArrayInv
    <3> HIDE DEF b
    <3>3. b # begin
      BY <1>6, <3>2
    <3>4. At(check', b) # b
      <4>1. CASE b \in cells
        <5>1. At(check', b) = begin
          BY <1>7, <4>1 DEF At
        <5> QED
          BY <3>3, <5>1
      <4>2. CASE b \notin cells
        <5>1. At(check', b) = At(check, b)
          <6> HIDE DEF cells
          <6> QED
            BY <1>7, <1>14, <4>2 DEF At
        <5> QED
          BY <3>2, <5>1
      <4> QED
        BY <4>1, <4>2
    <3>5. \A k \in 1..m : new[k].cell # 0
      <4>1. ASSUME NEW k \in 1..m PROVE begin + children[k].code # 0
        <5> DEFINE c == children[k].code
        <5>1. c \in Nat
          BY <1>19
        <5> HIDE DEF c
        <5>2. begin + c # 0
          BY <1>4, <5>1
        <5> QED
          BY <5>2 DEF c
      <4> HIDE DEF new
      <4> QED
        BY <1>11, <4>1
    <3> QED
      BY <1>7, <3>2, <3>4, <3>5, SMTT(30)
  <2> QED
    BY <2>1, <2>2 DEF ArrayInv
<1>20. \A k \in 1..Len(todo') : todo'[k].cell # 0
  <2> DEFINE tail == Tail(todo)
  <2>1. /\ \A k \in 1..Len(tail) : tail[k].cell # 0
        /\ tail \in Seq(Pending)
    <3>1. tail = << >> \/ \A k \in 1..Len(todo) : todo[k].cell # 0
      <4>1. todo = <<Root>> => tail = << >>
        OBVIOUS
      <4> QED
        BY <4>1 DEF ArrayInv
    <3>2. /\ Len(tail) = Len(todo) - 1 /\ Len(todo) \in Nat
          /\ \A k \in 1..Len(tail) : tail[k] = todo[k + 1]
      BY <1>1
    <3>3. \A k \in 1..Len(tail) : k + 1 \in 1..Len(todo)
      BY <3>2
    <3>4. tail = << >> => Len(tail) = 0
      OBVIOUS
    <3> HIDE DEF tail
    <3> QED
      BY <1>1, <3>1, <3>2, <3>3, <3>4 DEF tail
  <2> HIDE DEF new, tail
  <2>2. todo' = new \o tail
    BY <1>7 DEF tail
  <2>3. /\ Len(todo') = m + Len(tail) /\ Len(tail) \in Nat
        /\ \A k \in 1..Len(todo') :
             todo'[k] = IF k <= m THEN new[k] ELSE tail[k - m]
    <3>1. /\ Len(new \o tail) = Len(new) + Len(tail) /\ Len(tail) \in Nat
          /\ \A k \in 1..Len(new) + Len(tail) :
               (new \o tail)[k] = IF k <= Len(new) THEN new[k] ELSE tail[k - Len(new)]
      <4> DEFINE u == new
      <4>1. u \in Seq(Pending) /\ tail \in Seq(Pending)
        BY <1>12, <2>1
      <4> HIDE DEF u
      <4>2. /\ Len(u \o tail) = Len(u) + Len(tail) /\ Len(tail) \in Nat
            /\ \A k \in 1..Len(u) + Len(tail) :
                 (u \o tail)[k] = IF k <= Len(u) THEN u[k] ELSE tail[k - Len(u)]
        BY <4>1
      <4> QED
        BY <4>2 DEF u
    <3> QED
      BY <1>12, <2>2, <3>1
  <2> SUFFICES ASSUME NEW k \in 1..Len(todo') PROVE todo'[k].cell # 0
    OBVIOUS
  <2>4. CASE k <= m
    <3>1. k \in 1..m /\ todo'[k] = new[k]
      BY <1>10, <2>3, <2>4
    <3> QED
      BY <1>18, <3>1
  <2>5. CASE ~(k <= m)
    <3>1. k - m \in 1..Len(tail) /\ todo'[k] = tail[k - m]
      BY <1>10, <2>3, <2>5
    <3> QED
      BY <2>1, <3>1
  <2> QED
    BY <2>4, <2>5
<1>21. At(check, base[0])' # base'[0]
  BY <1>18 DEF At
<1>22. KeysTyped(key, value)' /\ nextCheckPos' \in Nat
  BY <1>4, <1>7 DEF ArrayInv, KeysTyped, codes, n
<1> QED
  BY <1>9, <1>13, <1>15, <1>16, <1>17, <1>18, <1>20, <1>21, <1>22 DEF ArrayInv

-----------------------------------------------------------------------------
(* III. Searching the double array. *)

(* The walk starts at the root's base, and goes on where check allows it. *)
WalkOn(b, c) == IF b # 0 /\ At(check, b + c + 1) = b THEN At(base, b + c + 1) ELSE 0

LEMMA WalkFacts ==
  ASSUME ArrayInv, NEW text \in Seq(Nat)
  PROVE  /\ Walk(text)[0] = base[0]
         /\ \A i \in 1..Len(text) : Walk(text)[i] = WalkOn(Walk(text)[i - 1], text[i])
<1> DEFINE n == Len(text)
           next(b, c) == IF b # 0 /\ At(check, b + c + 1) = b THEN At(base, b + c + 1) ELSE 0
           step == [x \in (1..n) \X Int |-> next(x[2], text[x[1]])]
           rec(i, h) == IF i = 0 THEN At(base, 0)
                        ELSE LET b == h[i - 1]
                                 p == b + text[i] + 1
                             IN IF b # 0 /\ At(check, p) = b THEN At(base, p) ELSE 0
           F == CHOOSE h : h = [i \in 0..n |-> rec(i, h)]
<1>1. n \in Nat /\ \A i \in 1..n : text[i] \in Nat
  OBVIOUS
<1>2. \A p : At(base, p) \in Int
  BY DEF At, ArrayInv
<1>3. step \in [(1..n) \X Int -> Int]
  <2>1. \A b, c : next(b, c) \in Int
    BY <1>2
  <2> HIDE DEF next, n
  <2> QED
    BY <2>1
<1>4. At(base, 0) \in Int
  BY <1>2
<1>5. PICK f : Iteration(f, n, Int, At(base, 0), step)
  <2> HIDE DEF step, n
  <2> QED
    BY <1>1, <1>3, <1>4, IterationExists
<1>6. /\ f \in [0..n -> Int] /\ f[0] = At(base, 0)
      /\ \A i \in 1..n : f[i] = step[<<i, f[i - 1]>>]
  BY <1>5 DEF Iteration
<1>7. \A i \in 1..n : f[i] = next(f[i - 1], text[i])
  <2> SUFFICES ASSUME NEW i \in 1..n PROVE f[i] = next(f[i - 1], text[i])
    OBVIOUS
  <2> DEFINE b == f[i - 1]
  <2>1. b \in Int
    <3>1. i - 1 \in 0..n
      BY <1>1
    <3> HIDE DEF step
    <3> QED
      BY <1>6, <3>1
  <2>2. step[<<i, b>>] = next(b, text[i])
    <3> HIDE DEF next, b
    <3> QED
      BY <2>1
  <2> HIDE DEF step, next
  <2> QED
    BY <1>6, <2>2
<1>8. f = [i \in 0..n |-> rec(i, f)]
  <2>1. ASSUME NEW i \in 0..n PROVE f[i] = rec(i, f)
    <3>1. CASE i = 0
      BY <1>6, <3>1
    <3>2. CASE i # 0
      <4>1. i \in 1..n
        BY <1>1, <3>2
      <4> HIDE DEF step
      <4> QED
        BY <1>7, <3>2, <4>1
    <3> QED
      BY <3>1, <3>2
  <2> HIDE DEF rec, step, n
  <2> QED
    BY <1>6, <2>1
<1>9. F = [i \in 0..n |-> rec(i, F)]
  <2> HIDE DEF rec, n, step
  <2> QED
    BY <1>8
<1>10. Walk(text) = F
  BY DEF Walk
<1> HIDE DEF F
<1>11. F[0] = rec(0, F)
  <2>1. 0 \in 0..n
    BY <1>1
  <2> HIDE DEF rec, n
  <2> QED
    BY <1>9, <2>1
<1>12. \A i \in 1..n : F[i] = WalkOn(F[i - 1], text[i])
  <2> SUFFICES ASSUME NEW i \in 1..n PROVE F[i] = WalkOn(F[i - 1], text[i])
    OBVIOUS
  <2>1. i \in 0..n /\ i # 0
    BY <1>1
  <2>2. F[i] = rec(i, F)
    <3> HIDE DEF rec, n
    <3> QED
      BY <1>9, <2>1
  <2> HIDE DEF n
  <2> QED
    BY <2>1, <2>2 DEF WalkOn
<1> QED
  BY <1>10, <1>11, <1>12 DEF At, ArrayInv

(* What a common prefix search returns begins the text, and is not empty. *)
LEMMA SearchFacts ==
  ASSUME ArrayInv, NEW text \in Seq(Nat)
  PROVE  CommonPrefixSearch(text) \in Seq([value : Int, length : 1..Len(text)])
<1> DEFINE walk == Walk(text)
           hits == {i \in 0..Len(text) : Ends(walk[i])}
           at == Ascending(hits)
           m == Len(at)
           R == [value : Int, length : 1..Len(text)]
           g == [k \in 1..m |-> [value |-> -At(base, walk[at[k]]) - 1, length |-> at[k]]]
<1>1. hits \subseteq 1..Len(text)
  <2>1. ~Ends(walk[0])
    <3>1. walk[0] = base[0] /\ At(check, base[0]) # base[0]
      BY WalkFacts DEF ArrayInv
    <3> HIDE DEF walk
    <3> QED
      BY <3>1 DEF Ends
  <2>2. \A i \in 0..Len(text) : i # 0 => i \in 1..Len(text)
    OBVIOUS
  <2> HIDE DEF walk
  <2> QED
    BY <2>1, <2>2
<1>2. hits \in SUBSET Nat /\ IsFiniteSet(hits)
  <2>1. Len(text) \in Nat
    OBVIOUS
  <2>2. IsFiniteSet(1..Len(text)) /\ 1..Len(text) \subseteq Nat
    BY <2>1, FS_Interval
  <2> HIDE DEF hits
  <2> QED
    BY <1>1, <2>2, FS_Subset
<1> HIDE DEF hits
<1>3. at \in Seq(hits) /\ m \in Nat
  BY <1>2, AscendingFacts
<1>4. \A p : At(base, p) \in Int
  BY DEF At, ArrayInv
<1>5. \A k \in 1..m : at[k] \in 1..Len(text)
  <2> SUFFICES ASSUME NEW k \in 1..m PROVE at[k] \in 1..Len(text)
    OBVIOUS
  <2> HIDE DEF at
  <2>1. at[k] \in hits
    BY <1>3, ElementOfSeq
  <2> QED
    BY <1>1, <2>1
<1> HIDE DEF at, walk, m
<1>6. g \in [1..m -> R]
  <2>1. ASSUME NEW k \in 1..m
        PROVE  [value |-> -At(base, walk[at[k]]) - 1, length |-> at[k]] \in R
    <3>1. -At(base, walk[at[k]]) - 1 \in Int
      BY <1>4
    <3> QED
      BY <1>5, <3>1
  <2> HIDE DEF R
  <2> QED
    BY <2>1
<1>7. g \in Seq(R)
  <2> HIDE DEF g, R
  <2> QED
    BY <1>3, <1>6
<1>8. CommonPrefixSearch(text) = g
  BY DEF CommonPrefixSearch, at, hits, walk, m
<1> HIDE DEF g
<1> QED
  BY <1>7, <1>8

-----------------------------------------------------------------------------
(* IV. The stages of a lookup. *)

CharsTyped ==
  /\ ranges \in Seq(ToSet(ranges))
  /\ \A i \in 1..Len(ranges) :
       ranges[i].cats \in Seq(CategoryIds) \ {<< >>} /\ ranges[i].cats[1] \in CategoryIds

(***************************************************************************)
(* A sentence and its constraints: both ends are boundaries, and where a   *)
(* feature was asked for, a token that no boundary cuts begins there and   *)
(* ends at a boundary.                                                     *)
(***************************************************************************)
AskedFor(p) ==
  \E e \in (p + 1)..lsize : boundary[e] = TOKEN /\ \A q \in (p + 1)..(e - 1) : boundary[q] = INSIDE
SentenceInv ==
  /\ memory \in Seq(Nat) /\ lsize \in 0..Len(memory) /\ partial \in BOOLEAN
  /\ partial /\ lsize > 0 =>
       /\ boundary[0] = TOKEN /\ boundary[lsize] = TOKEN
       /\ \A p \in 0..(lsize - 1) : feature[p] # NoFeature => AskedFor(p)

(* What ConstraintsKept says of one word n that begins at a position. *)
Keeps(begin, n) ==
  OnlySpaceLeft(begin) \/
    /\ \A q \in (begin + 1)..(n.end - 1) : boundary[q] # TOKEN
    /\ boundary[n.end] # INSIDE
    /\ feature[begin] # NoFeature =>
         /\ boundary[n.end] = TOKEN
         /\ n.feature = feature[begin] \/ PartialMatch(feature[begin], n.feature)

(* What DeliversLexicon says of one word. *)
Behind(n) ==
  n.end > lsize + 1 => IF n.stat = "NOR" THEN n.end <= StringEnd ELSE partial

(* What lookups deliver. *)
GoodNode(begin, n) ==
  /\ n.stat # "DIES"
  /\ n.end \in (begin + 1)..(Len(memory) + 1)
  /\ n.end <= EndOf(begin) \/ OnlySpaceLeft(begin)
  /\ Behind(n)
  /\ partial => Keeps(begin, n)

LEMMA InfoFacts ==
  ASSUME CharsTyped
  PROVE  \A t : Table(t).defaultType \in CategoryIds
<1> SUFFICES ASSUME NEW t PROVE Table(t).defaultType \in CategoryIds
  OBVIOUS
<1>1. Len(Categories) \in 2..17
  BY CategoryAssumption
<1>2. \A cats : Encode(cats).defaultType = cats[1]
  BY DEF Encode
<1>3. CASE RangesOf(t) = {}
  <2>1. Table(t) = Encode(<<DefaultCategory>>)
    BY <1>3 DEF Table
  <2> DEFINE cats == <<DefaultCategory>>
  <2>2. cats[1] = 0
    BY DEF DefaultCategory
  <2> HIDE DEF cats
  <2>3. Table(t).defaultType = cats[1]
    BY <1>2, <2>1 DEF cats
  <2>4. 0 \in CategoryIds
    BY <1>1 DEF CategoryIds
  <2>5. Table(t).defaultType = 0
    BY <2>2, <2>3
  <2> QED
    BY <2>4, <2>5
<1>4. CASE RangesOf(t) # {}
  <2>1. RangesOf(t) \subseteq 1..Len(ranges) /\ Len(ranges) \in Nat
    BY DEF RangesOf, CharsTyped
  <2>2. IsFiniteSet(1..Len(ranges)) /\ 1..Len(ranges) \subseteq Nat
    BY <2>1, FS_Interval
  <2>3. IsFiniteSet(RangesOf(t)) /\ RangesOf(t) \in SUBSET Nat
    BY <2>1, <2>2, FS_Subset
  <2>4. Max(RangesOf(t)) \in RangesOf(t)
    BY <1>4, <2>3, MaxOfFinite
  <2>5. Table(t) = Encode(ranges[Max(RangesOf(t))].cats)
    BY <1>4 DEF Table
  <2>6. Table(t).defaultType = ranges[Max(RangesOf(t))].cats[1]
    BY <1>2, <2>5
  <2> QED
    BY <2>1, <2>4, <2>6 DEF CharsTyped
<1> QED
  BY <1>3, <1>4

LEMMA SeekFacts ==
  ASSUME CharsTyped, NEW text, Len(text) \in Nat, NEW begin \in Nat, NEW end \in Nat, NEW info,
         NEW last, last = IF begin <= end THEN end ELSE Len(text) + 1
  PROVE  /\ SeekToOtherType(text, begin, end, info).pos \in begin..Max({begin, last})
         /\ Max({begin, last}) \in {begin, last} /\ Max({begin, last}) >= last
         /\ SeekToOtherType(text, begin, end, info).fail.defaultType \in CategoryIds
<1> DEFINE S == {begin, last}
           top == Max(S)
           P == {q \in begin..top : Passes(text, begin, q, info)}
           p == Max(P)
<1>1. last \in Nat
  OBVIOUS
<1>2. top \in S /\ top >= begin /\ top >= last
  <2>1. S \in SUBSET Nat /\ S # {} /\ begin \in S /\ last \in S
    BY <1>1
  <2>2. IsFiniteSet({begin}) /\ IsFiniteSet({last})
    BY FS_Singleton
  <2>3. S = {begin} \cup {last}
    OBVIOUS
  <2>4. IsFiniteSet(S)
    <3> HIDE DEF S
    <3> QED
      BY <2>2, <2>3, FS_Union
  <2> HIDE DEF S
  <2>5. Max(S) \in S /\ \A x \in S : x <= Max(S)
    BY <2>1, <2>4, MaxOfFinite
  <2> QED
    BY <1>1, <2>1, <2>5
<1>3. top \in Nat
  BY <1>1, <1>2
<1> HIDE DEF S, top
<1>4. p \in P
  <2>1. begin \in P
    <3>1. begin..(begin - 1) = {}
      OBVIOUS
    <3>2. Passes(text, begin, begin, info)
      BY <3>1 DEF Passes
    <3> QED
      BY <1>2, <1>3, <3>2
  <2>2. P \subseteq begin..top /\ IsFiniteSet(begin..top) /\ P \in SUBSET Nat
    <3>1. begin \in Int /\ top \in Int
      BY <1>3
    <3>2. IsFiniteSet(begin..top)
      BY <3>1, FS_Interval
    <3>3. begin..top \subseteq Nat
      BY <1>3
    <3> QED
      BY <3>2, <3>3
  <2> HIDE DEF P
  <2>3. IsFiniteSet(P)
    BY <2>2, FS_Subset
  <2> QED
    BY <2>1, <2>2, <2>3, MaxOfFinite
<1>5. SeekToOtherType(text, begin, end, info).pos = p
  BY DEF SeekToOtherType, top, S
<1>6. SeekToOtherType(text, begin, end, info).fail.defaultType \in CategoryIds
  <2>1. \E q : SeekToOtherType(text, begin, end, info).fail = Table(CharAt(text, q))
    BY DEF SeekToOtherType, InfoAt
  <2> QED
    BY <2>1, InfoFacts
<1> HIDE DEF p
<1>7. p \in begin..top
  BY <1>4
<1> QED
  BY <1>2, <1>5, <1>6, <1>7 DEF top, S

(* The end of the stretch that a lookup considers, and the white space. *)
LEMMA EndOfFacts ==
  ASSUME SentenceInv, NEW begin \in 0..(lsize - 1)
  PROVE  /\ EndOf(begin) \in (begin + 1)..lsize
         /\ \A q \in (begin + 1)..(EndOf(begin) - 1) : Boundary(q) # TOKEN
         /\ partial => boundary[EndOf(begin)] = TOKEN
<1> DEFINE S == {lsize} \cup {n \in (begin + 1)..(lsize - 1) : Boundary(n) = TOKEN}
<1>1. lsize \in Nat /\ begin \in Nat /\ begin + 1 <= lsize
  BY DEF SentenceInv
<1>2. EndOf(begin) \in S /\ \A x \in S : EndOf(begin) <= x
  <2>1. S \in SUBSET Nat /\ S # {} /\ EndOf(begin) = Min(S)
    BY <1>1 DEF EndOf
  <2> HIDE DEF S
  <2> QED
    BY <2>1, MinOfNats
<1>3. EndOf(begin) \in (begin + 1)..lsize
  BY <1>1, <1>2
<1>4. ASSUME NEW q \in (begin + 1)..(EndOf(begin) - 1) PROVE Boundary(q) # TOKEN
  <2>1. q \in (begin + 1)..(lsize - 1) /\ q < EndOf(begin)
    BY <1>1, <1>3
  <2> QED
    BY <1>1, <1>2, <1>3, <2>1
<1>5. ASSUME partial PROVE boundary[EndOf(begin)] = TOKEN
  <2>1. boundary[lsize] = TOKEN
    BY <1>1, <1>5 DEF SentenceInv
  <2> QED
    BY <1>2, <1>5, <2>1 DEF Boundary
<1> QED
  BY <1>3, <1>4, <1>5

LEMMA SpaceFacts ==
  ASSUME SentenceInv, CharsTyped, NEW begin \in 0..(lsize - 1)
  PROVE  /\ AfterSpace(begin) \in begin..EndOf(begin)
         /\ SeekToOtherType(memory, begin, EndOf(begin), Table(SpaceChar)).fail.defaultType
              \in CategoryIds
<1> DEFINE e == EndOf(begin)
<1>1. e \in Nat /\ begin \in Nat /\ begin <= e /\ Len(memory) \in Nat
  BY EndOfFacts DEF SentenceInv
<1> HIDE DEF e
<1> DEFINE info == Table(SpaceChar)
           last == IF begin <= e THEN e ELSE Len(memory) + 1
<1>2. last = e
  BY <1>1
<1> HIDE DEF info
<1>3. /\ SeekToOtherType(memory, begin, e, info).pos \in begin..Max({begin, last})
      /\ Max({begin, last}) \in {begin, last}
      /\ SeekToOtherType(memory, begin, e, info).fail.defaultType \in CategoryIds
  <2>1. last = IF begin <= e THEN e ELSE Len(memory) + 1
    OBVIOUS
  <2> HIDE DEF last
  <2> QED
    BY <1>1, <2>1, SeekFacts
<1>4. SeekToOtherType(memory, begin, e, info).pos \in begin..e
  BY <1>1, <1>2, <1>3
<1> QED
  BY <1>3, <1>4 DEF AfterSpace, e, info

(* The nodes that lookups make, of words and of unknown words. *)
WordNodes(begin2) ==
  {[stat |-> "NOR", token |-> TokensOf(v)[j], surface |-> begin2, end |-> b,
    feature |-> Feature(TokensOf(v)[j])] : v \in Int, j \in Nat, b \in Nat}
UnknownFeature(token) == IF UnkFeature # NoFeature THEN UnkFeature ELSE Feature(token)
UnknownWords(begin2) ==
  {[stat |-> "UNK", token |-> UnkTokens[c][k], surface |-> begin2, end |-> b,
    feature |-> UnknownFeature(UnkTokens[c][k])] : c \in CategoryIds, k \in Nat, b \in Nat}

(***************************************************************************)
(* The string in memory that goes on at a position ends no further than    *)
(* the one that goes on at the end of the text.                            *)
(***************************************************************************)
LEMMA StringEndFacts ==
  ASSUME SentenceInv, NEW p \in 0..lsize
  PROVE  /\ StringEnd \in p..Len(memory)
         /\ Min({q \in p..Len(memory) : CharAt(memory, q) = Nul}) \in p..StringEnd
<1> DEFINE S(x) == {q \in x..Len(memory) : CharAt(memory, q) = Nul}
<1>1. /\ memory \in Seq(Nat) /\ Len(memory) \in Nat /\ lsize \in Nat /\ lsize <= Len(memory)
      /\ p \in Nat /\ p <= lsize
  BY DEF SentenceInv
<1>2. ASSUME NEW x \in 0..lsize
      PROVE  Min(S(x)) \in S(x) /\ \A q \in S(x) : Min(S(x)) <= q
  <2>1. Len(memory) \in S(x) /\ S(x) \in SUBSET Nat
    BY <1>1 DEF CharAt
  <2> HIDE DEF S
  <2> QED
    BY <2>1, MinOfNats
<1>3. StringEnd = Min(S(lsize))
  BY DEF StringEnd
<1>4. p \in 0..lsize /\ lsize \in 0..lsize
  BY <1>1
<1> DEFINE m == Min(S(p))
           e == Min(S(lsize))
<1>5. m \in S(p) /\ e \in S(lsize) /\ \A q \in S(p) : m <= q
  <2> HIDE DEF S
  <2> QED
    BY <1>2, <1>4
<1> HIDE DEF m, e
<1>6. e \in S(p)
  BY <1>1, <1>5
<1>7. m \in p..Len(memory) /\ e \in p..Len(memory) /\ m <= e
  BY <1>5, <1>6
<1>8. m \in p..e
  BY <1>1, <1>7
<1> QED
  BY <1>3, <1>7, <1>8 DEF m, e

(* The words of the dictionary end in the text that is searched. *)
LastEnd(begin2, end) == IF begin2 < end THEN end ELSE StringEnd

LEMMA KnownFacts ==
  ASSUME ArrayInv, SentenceInv, NEW begin2 \in Nat, NEW end \in Nat, begin2 <= end, end <= lsize
  PROVE  KnownNodes(begin2, end) \in
           Seq({n \in WordNodes(begin2) : n.end \in (begin2 + 1)..LastEnd(begin2, end)})
<1> DEFINE text == SearchText(begin2, end)
           stop == IF end > begin2 THEN end
                   ELSE Min({p \in begin2..Len(memory) : CharAt(memory, p) = Nul})
           results == CommonPrefixSearch(text)
           nodesOf(r) == [j \in 1..TokenSize(r.value) |->
             [stat |-> "NOR", token |-> TokensOf(r.value)[j], surface |-> begin2,
              end |-> begin2 + r.length, feature |-> Feature(TokensOf(r.value)[j])]]
           m == Len(results)
           seqs == [k \in 1..m |-> nodesOf(results[k])]
           N == {n \in WordNodes(begin2) : n.end \in (begin2 + 1)..LastEnd(begin2, end)}
<1>1. memory \in Seq(Nat) /\ Len(memory) \in Nat /\ begin2 <= Len(memory) /\ end <= Len(memory)
  BY DEF SentenceInv
<1>2. stop \in begin2..LastEnd(begin2, end) /\ LastEnd(begin2, end) \in begin2..Len(memory)
  <2>1. CASE end > begin2
    BY <1>1, <2>1 DEF LastEnd
  <2>2. CASE ~(end > begin2)
    <3>1. begin2 \in 0..lsize
      BY DEF SentenceInv
    <3> DEFINE last == Min({p \in begin2..Len(memory) : CharAt(memory, p) = Nul})
    <3>2. last \in begin2..StringEnd /\ StringEnd \in begin2..Len(memory)
      BY <3>1, StringEndFacts
    <3>3. stop = last /\ LastEnd(begin2, end) = StringEnd
      BY <2>2 DEF LastEnd
    <3> QED
      BY <3>2, <3>3
  <2> QED
    BY <2>1, <2>2
<1>3. text = SubSeq(memory, begin2 + 1, stop)
  BY DEF SearchText
<1> HIDE DEF stop
<1>4. text \in Seq(Nat) /\ Len(text) \in Nat /\ Len(text) <= LastEnd(begin2, end) - begin2
  <2>1. stop \in Int /\ begin2 + 1 \in Int
    BY <1>1, <1>2
  <2>2. \A i \in (begin2 + 1)..stop : memory[i] \in Nat
    BY <1>1, <1>2
  <2> DEFINE from == begin2 + 1
  <2>3. /\ SubSeq(memory, from, stop) \in Seq(Nat)
        /\ Len(SubSeq(memory, from, stop)) = IF from <= stop THEN stop - from + 1 ELSE 0
    <3>1. from \in Int /\ stop \in Int /\ \A i \in from..stop : memory[i] \in Nat
      BY <2>1, <2>2
    <3> HIDE DEF from
    <3> QED
      BY <3>1, SubSeqProperties
  <2> HIDE DEF text
  <2> QED
    BY <1>1, <1>2, <1>3, <2>3
<1> HIDE DEF text
<1>5. results \in Seq([value : Int, length : 1..Len(text)])
  BY <1>4, SearchFacts
<1>6. m \in Nat /\ \A k \in 1..m : results[k].value \in Int /\ results[k].length \in 1..Len(text)
  <2> DEFINE R == [value : Int, length : 1..Len(text)]
  <2>1. \A r \in R : r.value \in Int /\ r.length \in 1..Len(text)
    OBVIOUS
  <2> HIDE DEF R, results
  <2>2. results \in Seq(R)
    BY <1>5 DEF R
  <2>3. m \in Nat /\ \A k \in 1..m : results[k] \in R
    BY <2>2
  <2> QED
    BY <2>1, <2>3
<1> HIDE DEF results, m, N
<1>7. ASSUME NEW r, r.value \in Int, r.length \in 1..Len(text)
      PROVE  nodesOf(r) \in Seq(N)
  <2> DEFINE t == TokenSize(r.value)
             node(j) == [stat |-> "NOR", token |-> TokensOf(r.value)[j], surface |-> begin2,
                         end |-> begin2 + r.length, feature |-> Feature(TokensOf(r.value)[j])]
             s == [j \in 1..t |-> node(j)]
  <2>1. t \in Nat
    BY <1>7 DEF TokenSize
  <2>2. begin2 + r.length \in (begin2 + 1)..LastEnd(begin2, end)
    <3> DEFINE l == r.length
    <3>1. l \in Nat /\ 1 <= l /\ l <= Len(text)
      BY <1>4, <1>7
    <3> HIDE DEF l
    <3>2. begin2 + l \in (begin2 + 1)..LastEnd(begin2, end)
      BY <1>2, <1>4, <3>1
    <3> QED
      BY <3>2 DEF l
  <2>3. begin2 + r.length \in Nat
    BY <1>2, <2>2
  <2>4. ASSUME NEW j \in 1..t PROVE node(j) \in N
    <3>1. j \in Nat
      BY <2>1
    <3> DEFINE v == r.value
               b == begin2 + r.length
               x == [stat |-> "NOR", token |-> TokensOf(v)[j], surface |-> begin2, end |-> b,
                     feature |-> Feature(TokensOf(v)[j])]
    <3>2. v \in Int /\ b \in Nat /\ node(j) = x
      BY <1>7, <2>3
    <3> HIDE DEF v, b, node
    <3>3. x \in WordNodes(begin2)
      BY <3>1, <3>2 DEF WordNodes
    <3>4. x.end = b
      OBVIOUS
    <3> QED
      BY <2>2, <3>2, <3>3, <3>4 DEF N, b
  <2> HIDE DEF node, t
  <2>5. s \in [1..t -> N]
    BY <2>4
  <2>6. s \in Seq(N)
    <3> HIDE DEF s
    <3> QED
      BY <2>1, <2>5
  <2> QED
    BY <2>6 DEF node, t
<1>8. \A k \in 1..m : nodesOf(results[k]) \in Seq(N)
  <2> HIDE DEF nodesOf
  <2> QED
    BY <1>6, <1>7
<1>9. KnownNodes(begin2, end) = FlattenSeq(seqs)
  BY DEF KnownNodes, results, m, text
<1>10. seqs \in Seq(Seq(N))
  <2> HIDE DEF nodesOf
  <2>1. seqs \in [1..m -> Seq(N)]
    BY <1>8
  <2> HIDE DEF seqs
  <2> QED
    BY <1>6, <2>1
<1> HIDE DEF seqs
<1>11. FlattenSeq(seqs) \in Seq(N)
  BY <1>10, FlattenElements
<1> QED
  BY <1>9, <1>11 DEF N

LEMMA UnknownFacts ==
  ASSUME NEW info, info.defaultType \in CategoryIds, NEW begin2, NEW b \in Nat
  PROVE  /\ UnknownNodes(info, begin2, b) \in Seq({n \in UnknownWords(begin2) : n.end = b})
         /\ Len(UnknownNodes(info, begin2, b)) = Len(UnkTokens[info.defaultType])
         /\ Len(UnkTokens[info.defaultType]) \in Nat \ {0}
<1> DEFINE c == info.defaultType
           m == Len(UnkTokens[c])
           node(k) == [stat |-> "UNK", token |-> UnkTokens[c][k], surface |-> begin2, end |-> b,
                       feature |-> UnknownFeature(UnkTokens[c][k])]
           s == [k \in 1..m |-> node(k)]
           N == {n \in UnknownWords(begin2) : n.end = b}
<1>1. c \in CategoryIds /\ m \in Nat \ {0}
  BY TokenizerAssumption
<1>2. UnknownNodes(info, begin2, b) = s
  BY DEF UnknownNodes, UnknownFeature
<1>3. ASSUME NEW k \in 1..m PROVE node(k) \in N
  <2>1. k \in Nat
    BY <1>1
  <2>2. node(k) \in UnknownWords(begin2)
    BY <1>1, <2>1 DEF UnknownWords
  <2> QED
    BY <2>2
<1> HIDE DEF N
<1>5. s \in [1..m -> N]
  <2> HIDE DEF node
  <2> QED
    BY <1>3
<1> HIDE DEF s
<1>6. s \in Seq(N) /\ Len(s) = m
  <2> HIDE DEF c, m
  <2> QED
    BY <1>1, <1>5
<1> QED
  BY <1>1, <1>2, <1>6 DEF N

Allowed(begin, n) == ~partial \/ IsValidNode(begin, n)

LEMMA ValidFacts ==
  ASSUME NEW begin, NEW T, NEW nodes \in Seq(T)
  PROVE  /\ Valid(begin, nodes) \in Seq({n \in T : Allowed(begin, n)})
         /\ \A k \in 1..Len(nodes) : Allowed(begin, nodes[k]) => Valid(begin, nodes) # << >>
         /\ Valid(begin, nodes) # << >> => \E k \in 1..Len(nodes) : Allowed(begin, nodes[k])
<1> DEFINE K == {k \in 1..Len(nodes) : ~partial \/ IsValidNode(begin, nodes[k])}
           s == Select(nodes, K)
           Good == {n \in T : Allowed(begin, n)}
<1>1. Valid(begin, nodes) = s
  BY DEF Valid
<1>2. \A k \in 1..Len(nodes) : k \in K <=> Allowed(begin, nodes[k])
  BY DEF Allowed
<1> HIDE DEF K
<1>3. /\ s \in Seq(T)
      /\ \A j \in 1..Len(s) : \E k \in 1..Len(nodes) : k \in K /\ s[j] = nodes[k]
      /\ \A k \in 1..Len(nodes) : k \in K => \E j \in 1..Len(s) : s[j] = nodes[k]
  BY SelectFacts
<1> HIDE DEF s
<1>4. \A j \in 1..Len(s) : s[j] \in Good
  BY <1>2, <1>3
<1>5. s \in Seq(Good)
  <2> HIDE DEF Good
  <2>1. Len(s) \in Nat /\ s \in [1..Len(s) -> Good]
    BY <1>3, <1>4
  <2> QED
    BY <2>1
<1>6. ASSUME NEW k \in 1..Len(nodes), Allowed(begin, nodes[k]) PROVE s # << >>
  <2>1. PICK j \in 1..Len(s) : TRUE
    BY <1>2, <1>3, <1>6
  <2> QED
    BY <2>1
<1>7. ASSUME s # << >> PROVE \E k \in 1..Len(nodes) : Allowed(begin, nodes[k])
  <2>1. 1 \in 1..Len(s)
    BY <1>3, <1>7
  <2> QED
    BY <1>2, <1>3, <2>1
<1> QED
  BY <1>1, <1>5, <1>6, <1>7

DiesAt(begin) ==
  OnlySpaceLeft(begin) /\ feature[begin] = NoFeature /\ Boundary(EndOf(begin) + 1) = INSIDE
Outcome(begin, nodes) ==
  \/ nodes = Dies /\ DiesAt(begin)
  \/ /\ nodes # Dies /\ Len(nodes) \in Nat \ {0}
     /\ \A k \in 1..Len(nodes) : GoodNode(begin, nodes[k])
GoodNodes(begin) ==
  {n \in WordNodes(AfterSpace(begin)) \cup UnknownWords(AfterSpace(begin)) : GoodNode(begin, n)}

LEMMA StatFacts ==
  ASSUME NEW begin2, NEW n \in WordNodes(begin2) \cup UnknownWords(begin2)
  PROVE  n.stat # "DIES"
<1>1. CASE n \in WordNodes(begin2)
  BY <1>1 DEF WordNodes
<1>2. CASE n \in UnknownWords(begin2)
  BY <1>2 DEF UnknownWords
<1> QED
  BY <1>1, <1>2

(* A node that is let through is as it should be if it ends where it may. *)
LEMMA AllowedIsGood ==
  ASSUME SentenceInv, CharsTyped, NEW begin \in 0..(lsize - 1),
         NEW n, n.stat # "DIES", n.end \in (AfterSpace(begin) + 1)..(Len(memory) + 1),
         n.end <= EndOf(begin) \/ OnlySpaceLeft(begin), Behind(n), Allowed(begin, n)
  PROVE  GoodNode(begin, n)
<1> DEFINE b == n.end
           a == AfterSpace(begin)
           e == EndOf(begin)
<1>1. a \in begin..e /\ e \in (begin + 1)..lsize /\ begin \in Nat /\ lsize \in Nat
      /\ Len(memory) \in Nat
  BY SpaceFacts, EndOfFacts DEF SentenceInv
<1>2. \A q \in (begin + 1)..(e - 1) : Boundary(q) # TOKEN
  BY EndOfFacts
<1>3. b \in (a + 1)..(Len(memory) + 1) /\ (b <= e \/ OnlySpaceLeft(begin))
  OBVIOUS
<1> HIDE DEF a, b, e
<1>4. b \in (begin + 1)..(Len(memory) + 1)
  BY <1>1, <1>3
<1>5. ASSUME partial, ~OnlySpaceLeft(begin) PROVE Keeps(begin, n)
  <2>1. \A q \in (begin + 1)..(b - 1) : boundary[q] # TOKEN
    <3> SUFFICES ASSUME NEW q \in (begin + 1)..(b - 1) PROVE boundary[q] # TOKEN
      OBVIOUS
    <3>1. q \in (begin + 1)..(e - 1)
      BY <1>1, <1>3, <1>5
    <3> QED
      BY <1>2, <1>5, <3>1 DEF Boundary
  <2>2. IsValidNode(begin, n)
    BY <1>5 DEF Allowed
  <2> QED
    BY <1>5, <2>1, <2>2 DEF Keeps, IsValidNode, Boundary, b
<1>6. partial => Keeps(begin, n)
  BY <1>5 DEF Keeps
<1> QED
  BY <1>3, <1>4, <1>6 DEF GoodNode, b, e

LEMMA GoodOutcome ==
  ASSUME NEW begin, NEW nodes \in Seq(GoodNodes(begin)), nodes # << >>
  PROVE  Outcome(begin, nodes)
<1>1. Len(nodes) \in Nat \ {0} /\ \A k \in 1..Len(nodes) : nodes[k] \in GoodNodes(begin)
  OBVIOUS
<1>2. \A k \in 1..Len(nodes) : GoodNode(begin, nodes[k])
  BY <1>1 DEF GoodNodes
<1>3. nodes # Dies
  <2>1. 1 \in 1..Len(nodes)
    BY <1>1
  <2>2. nodes[1].stat # "DIES"
    BY <1>2, <2>1 DEF GoodNode
  <2>3. Dies[1].stat = "DIES"
    BY DEF Dies
  <2> QED
    BY <2>2, <2>3
<1> QED
  BY <1>1, <1>2, <1>3 DEF Outcome

(* The unknown words of a category from white space to a place. *)
LEMMA UnknownsAllowed ==
  ASSUME SentenceInv, CharsTyped, NEW begin \in 0..(lsize - 1),
         NEW info, info.defaultType \in CategoryIds, NEW b \in Nat,
         NEW nodes, nodes = Valid(begin, UnknownNodes(info, AfterSpace(begin), b))
  PROVE  /\ (~partial => nodes # << >>)
         /\ (b \in (AfterSpace(begin) + 1)..(Len(memory) + 1)
             /\ (b <= EndOf(begin) \/ OnlySpaceLeft(begin)) /\ (b <= lsize + 1 \/ partial)
               => nodes \in Seq(GoodNodes(begin)))
         /\ (\E k \in 1..Len(UnkTokens[info.defaultType]) :
               Allowed(begin, UnknownNodes(info, AfterSpace(begin), b)[k])) <=> nodes # << >>
<1> DEFINE a == AfterSpace(begin)
           us == UnknownNodes(info, a, b)
           c == info.defaultType
           T == {n \in UnknownWords(a) : n.end = b}
<1>1. us \in Seq(T) /\ Len(us) = Len(UnkTokens[c]) /\ Len(UnkTokens[c]) \in Nat \ {0}
  BY UnknownFacts
<1> HIDE DEF us, T, a
<1>2. /\ nodes \in Seq({n \in T : Allowed(begin, n)})
      /\ \A k \in 1..Len(us) : Allowed(begin, us[k]) => nodes # << >>
      /\ nodes # << >> => \E k \in 1..Len(us) : Allowed(begin, us[k])
  <2>1. nodes = Valid(begin, us)
    BY DEF us, a
  <2> QED
    BY <1>1, <2>1, ValidFacts
<1>3. ASSUME ~partial PROVE nodes # << >>
  <2>1. 1 \in 1..Len(us) /\ Allowed(begin, us[1])
    BY <1>1, <1>3 DEF Allowed
  <2> QED
    BY <1>2, <2>1
<1>4. ASSUME b \in (a + 1)..(Len(memory) + 1), b <= EndOf(begin) \/ OnlySpaceLeft(begin),
             b <= lsize + 1 \/ partial
      PROVE  nodes \in Seq(GoodNodes(begin))
  <2>1. ASSUME NEW n \in T, Allowed(begin, n) PROVE n \in GoodNodes(begin)
    <3>1. n \in UnknownWords(a) /\ n.end = b
      BY DEF T
    <3>2. n.stat # "DIES" /\ n.stat # "NOR"
      BY <3>1, StatFacts DEF UnknownWords
    <3>3. Behind(n)
      <4>1. lsize \in Nat
        BY DEF SentenceInv
      <4> QED
        BY <1>4, <3>1, <3>2, <4>1 DEF Behind
    <3>4. GoodNode(begin, n)
      BY <1>4, <2>1, <3>1, <3>2, <3>3, AllowedIsGood DEF a
    <3> QED
      BY <3>1, <3>4 DEF GoodNodes, a
  <2>2. {n \in T : Allowed(begin, n)} \subseteq GoodNodes(begin)
    BY <2>1
  <2> QED
    BY <1>2, <2>2
<1> QED
  BY <1>1, <1>2, <1>3, <1>4 DEF us, a

(* The last resort: it fails only where white space reaches a boundary. *)
LEMMA LastResortFacts ==
  ASSUME SentenceInv, CharsTyped, partial, NEW begin \in 0..(lsize - 1)
  PROVE  Outcome(begin, LastResort(begin, AfterSpace(begin), EndOf(begin)))
<1> DEFINE a == AfterSpace(begin)
           e == EndOf(begin)
           b == ShortestEnd(a, e)
           info == InfoAt(memory, b - 1)
           unknown == Valid(begin, UnknownNodes(info, a, b))
           S == {x \in (a + 1)..(e + 1) : x > e \/ Boundary(x) # INSIDE}
<1>1. /\ a \in begin..e /\ e \in (begin + 1)..lsize /\ begin \in Nat /\ lsize \in Nat
      /\ Len(memory) \in Nat /\ lsize <= Len(memory)
  BY SpaceFacts, EndOfFacts DEF SentenceInv
<1>2. boundary[e] = TOKEN /\ TOKEN # INSIDE /\ (OnlySpaceLeft(begin) <=> a = e)
  BY EndOfFacts DEF TOKEN, INSIDE, OnlySpaceLeft
<1>3. info.defaultType \in CategoryIds
  BY InfoFacts DEF InfoAt
<1>4. LastResort(begin, a, e) =
        IF unknown # << >> THEN unknown
        ELSE IF feature[begin] = NoFeature THEN Dies
        ELSE <<[stat |-> "UNK", token |-> "none", surface |-> a, end |-> b,
                feature |-> feature[begin]]>>
  BY DEF LastResort, NoNodes
<1> HIDE DEF a, e, info
<1>5. b \in S /\ \A x \in S : b <= x
  <2>1. e + 1 \in S /\ S \in SUBSET Nat
    BY <1>1
  <2>2. b = Min(S)
    BY DEF ShortestEnd
  <2> HIDE DEF S, b
  <2> QED
    BY <2>1, <2>2, MinOfNats
<1>6. b \in (a + 1)..(e + 1) /\ (b > e \/ Boundary(b) # INSIDE) /\ b \in Nat
  <2> HIDE DEF b
  <2> QED
    BY <1>1, <1>5
<1>7. a # e => e \in S
  BY <1>1, <1>2 DEF Boundary
<1>8. (b <= e \/ OnlySpaceLeft(begin)) /\ b \in (a + 1)..(Len(memory) + 1)
  <2> HIDE DEF b, S
  <2> QED
    BY <1>1, <1>2, <1>5, <1>6, <1>7
<1> HIDE DEF b, S
<1>9. /\ unknown \in Seq(GoodNodes(begin))
      /\ (\E k \in 1..Len(UnkTokens[info.defaultType]) :
            Allowed(begin, UnknownNodes(info, a, b)[k])) => unknown # << >>
  BY <1>3, <1>6, <1>8, UnknownsAllowed DEF a, e
<1>10. CASE unknown # << >>
  <2> HIDE DEF unknown
  <2> QED
    BY <1>4, <1>9, <1>10, GoodOutcome DEF a, e
<1>11. CASE unknown = << >> /\ feature[begin] = NoFeature
  <2>1. LastResort(begin, a, e) = Dies
    BY <1>4, <1>11
  <2>2. Boundary(b) = INSIDE
    <3> DEFINE n == UnknownNodes(info, a, b)[1]
    <3>1. 1 \in 1..Len(UnkTokens[info.defaultType]) /\ n.end = b
      <4>1. 1 \in 1..Len(UnkTokens[info.defaultType])
        BY <1>3, TokenizerAssumption
      <4> QED
        BY <4>1 DEF UnknownNodes
    <3>2. ~Allowed(begin, n)
      BY <1>9, <1>11, <3>1
    <3> HIDE DEF n
    <3> QED
      BY <1>11, <3>1, <3>2 DEF Allowed, IsValidNode
  <2>3. b > e /\ b = e + 1
    BY <1>1, <1>6, <2>2
  <2>4. a = e
    BY <1>1, <1>5, <1>7, <2>3
  <2>5. DiesAt(begin)
    BY <1>2, <1>11, <2>2, <2>3, <2>4 DEF DiesAt, e
  <2> QED
    BY <2>1, <2>5 DEF Outcome, a, e
<1>12. CASE unknown = << >> /\ feature[begin] # NoFeature
  <2> DEFINE n == [stat |-> "UNK", token |-> "none", surface |-> a, end |-> b,
                   feature |-> feature[begin]]
  <2>1. LastResort(begin, a, e) = <<n>>
    BY <1>4, <1>12
  <2>2. n.stat = "UNK" /\ n.end = b /\ n.feature = feature[begin]
    OBVIOUS
  <2>3. ASSUME ~OnlySpaceLeft(begin)
        PROVE  boundary[b] = TOKEN /\ \A q \in (begin + 1)..(b - 1) : boundary[q] # TOKEN
    <3>1. PICK x \in (begin + 1)..lsize :
            boundary[x] = TOKEN /\ \A q \in (begin + 1)..(x - 1) : boundary[q] = INSIDE
      <4>1. AskedFor(begin)
        BY <1>1, <1>12 DEF SentenceInv
      <4> QED
        BY <4>1 DEF AskedFor
    <3>2. b <= e /\ Boundary(b) # INSIDE /\ b \in (begin + 1)..e
      BY <1>1, <1>6, <1>8, <2>3
    <3>3. x <= b
      <4>1. b \notin (begin + 1)..(x - 1)
        BY <3>1, <3>2 DEF Boundary
      <4> QED
        BY <1>1, <3>2, <4>1
    <3>4. \A q \in (begin + 1)..(e - 1) : Boundary(q) # TOKEN
      BY EndOfFacts DEF e
    <3>5. x = e
      <4>1. x \notin (begin + 1)..(e - 1)
        BY <3>1, <3>4 DEF Boundary
      <4> QED
        BY <1>1, <3>2, <3>3, <4>1
    <3>6. b = e
      BY <1>1, <3>2, <3>3, <3>5
    <3> QED
      BY <1>2, <3>4, <3>6 DEF Boundary
  <2>4. Keeps(begin, n)
    BY <2>2, <2>3 DEF Keeps, TOKEN, INSIDE
  <2>5. b \in (begin + 1)..(Len(memory) + 1)
    BY <1>1, <1>8
  <2>6. GoodNode(begin, n)
    BY <1>8, <2>2, <2>4, <2>5 DEF GoodNode, Behind, e
  <2> HIDE DEF n
  <2>7. Len(<<n>>) = 1 /\ <<n>>[1] = n /\ n.stat # "DIES"
    BY <2>2
  <2>8. <<n>> # Dies
    <3>1. Dies[1].stat = "DIES"
      BY DEF Dies
    <3> QED
      BY <2>7, <3>1
  <2> QED
    BY <2>1, <2>6, <2>7, <2>8 DEF Outcome, a, e
<1> QED
  BY <1>10, <1>11, <1>12 DEF a, e

(***************************************************************************)
(* The stages of the unknown words.  The word that is tried after those of *)
(* all lengths may end behind the boundary; it is never let through, as    *)
(* that of the last length, which ends at the boundary, was not.           *)
(***************************************************************************)
LEMMA UnknownStagesFacts ==
  ASSUME SentenceInv, CharsTyped, NEW begin \in 0..(lsize - 1),
         NEW info, info.defaultType \in CategoryIds, NEW known \in Seq(GoodNodes(begin))
  PROVE  Outcome(begin, UnknownStages(begin, AfterSpace(begin), EndOf(begin), info, known))
<1> DEFINE a == AfterSpace(begin)
           e == EndOf(begin)
           G == GoodNodes(begin)
           b3 == a + 1
           unknown(b) == Valid(begin, UnknownNodes(info, a, b))
           group == SeekToOtherType(memory, b3, e, info)
           grouped == IF Group(info) /\ group.clen <= MaxGroupingSize
                      THEN unknown(group.pos) ELSE << >>
           ends == LengthEnds(info, b3, e, IF Group(info) THEN group.pos ELSE -1)
           lengths == Ascending(ends)
           m == Len(lengths)
           singles == [k \in 1..m |-> unknown(lengths[k])]
           single == FlattenSeq(singles)
           words == known \o grouped \o single
           last == lengths[m]
           stopped == IF lengths = << >> THEN b3
                      ELSE IF IsKindOf(info, InfoAt(memory, last)) THEN last + 1 ELSE last
           result == UnknownStages(begin, a, e, info, known)
<1>1. /\ a \in begin..e /\ e \in (begin + 1)..lsize /\ begin \in Nat /\ lsize \in Nat
      /\ Len(memory) \in Nat /\ lsize <= Len(memory)
  <2>1. a \in begin..e /\ e \in (begin + 1)..lsize
    BY SpaceFacts, EndOfFacts
  <2> QED
    BY <2>1 DEF SentenceInv
<1>2. (OnlySpaceLeft(begin) <=> a = e) /\ (partial => boundary[e] = TOKEN)
  BY EndOfFacts DEF OnlySpaceLeft
<1>3. result = IF b3 > e /\ known \o unknown(b3) # << >> THEN known \o unknown(b3)
               ELSE IF words # << >> THEN words
               ELSE IF unknown(stopped) # << >> THEN unknown(stopped)
               ELSE IF partial THEN LastResort(begin, a, e)
               ELSE << >>
  BY DEF UnknownStages, NoNodes
<1>4. ASSUME NEW b \in (a + 1)..(Len(memory) + 1), b <= e \/ a = e,
             b <= lsize + 1 \/ partial
      PROVE  unknown(b) \in Seq(G)
  <2>1. b \in Nat /\ (b <= EndOf(begin) \/ OnlySpaceLeft(begin))
    BY <1>1, <1>2, <1>4
  <2> DEFINE nodes == unknown(b)
  <2>2. nodes = Valid(begin, UnknownNodes(info, AfterSpace(begin), b))
    OBVIOUS
  <2>3. b \in (AfterSpace(begin) + 1)..(Len(memory) + 1)
    BY <1>4
  <2> HIDE DEF nodes
  <2>4. nodes \in Seq(GoodNodes(begin))
    BY <1>4, <2>1, <2>2, <2>3, UnknownsAllowed
  <2> QED
    BY <2>4 DEF nodes
<1>5. ASSUME NEW b \in Nat PROVE ~partial => unknown(b) # << >>
  <2> DEFINE nodes == unknown(b)
  <2>1. nodes = Valid(begin, UnknownNodes(info, AfterSpace(begin), b))
    OBVIOUS
  <2> HIDE DEF nodes
  <2>2. ~partial => nodes # << >>
    BY <2>1, UnknownsAllowed
  <2> QED
    BY <2>2 DEF nodes
<1> HIDE DEF a, e, G
<1>6. b3 \in Nat /\ b3 \in (a + 1)..(Len(memory) + 1) /\ (b3 > e <=> a = e)
  BY <1>1
<1>7. CASE ~partial /\ a = e
  <2> DEFINE us == unknown(b3)
  <2>1. b3 \in (a + 1)..(Len(memory) + 1) /\ a = e /\ b3 <= lsize + 1
    BY <1>1, <1>6, <1>7
  <2> HIDE DEF unknown, b3
  <2>2. us # << >> /\ us \in Seq(G)
    BY <1>4, <1>5, <1>6, <1>7, <2>1
  <2>3. known \in Seq(G)
    BY DEF G
  <2> HIDE DEF us
  <2>4. known \o us \in Seq(G) /\ known \o us # << >>
    BY <2>2, <2>3, ConcatProperties, ConcatEmptySeq
  <2>5. result = known \o us
    <3> HIDE DEF result
    <3> QED
      BY <1>3, <1>6, <1>7, <2>4 DEF us
  <2> DEFINE s == known \o us
  <2> HIDE DEF s, result
  <2>6. s \in Seq(G) /\ s # << >> /\ result = s
    BY <2>4, <2>5 DEF s
  <2> QED
    BY <2>6, GoodOutcome DEF G, result, a, e
<1> SUFFICES ASSUME partial \/ a # e PROVE Outcome(begin, result)
  BY <1>7 DEF a, e
<1>8. group.pos \in (a + 1)..(Len(memory) + 1) /\ (group.pos <= e \/ a = e)
  <2> DEFINE end == IF b3 <= e THEN e ELSE Len(memory) + 1
             top == Max({b3, end})
  <2>1. e \in Nat /\ end = IF b3 <= e THEN e ELSE Len(memory) + 1
    BY <1>1
  <2> HIDE DEF b3, end
  <2>2. /\ group.pos \in b3..top /\ top \in {b3, end}
    BY <1>1, <1>6, <2>1, SeekFacts
  <2> HIDE DEF group, top
  <2>3. CASE b3 <= e
    <3>1. end = e /\ top <= e /\ top \in Nat
      BY <1>6, <2>1, <2>2, <2>3
    <3> QED
      BY <1>1, <1>6, <2>2, <3>1 DEF b3
  <2>4. CASE ~(b3 <= e)
    <3>1. end = Len(memory) + 1 /\ top <= Len(memory) + 1 /\ top \in Nat
      BY <1>1, <1>6, <2>1, <2>2, <2>4
    <3> QED
      BY <1>1, <1>6, <2>2, <2>4, <3>1 DEF b3
  <2> QED
    BY <2>3, <2>4
<1>9. grouped \in Seq(G)
  <2>1. unknown(group.pos) \in Seq(G)
    <3> HIDE DEF unknown, group
    <3>1. group.pos <= lsize + 1 \/ partial
      BY <1>1, <1>8
    <3> QED
      BY <1>4, <1>8, <3>1
  <2> HIDE DEF unknown, group
  <2> QED
    BY <2>1
<1> HIDE DEF grouped
<1>10. ends \in SUBSET Nat /\ IsFiniteSet(ends) /\ ends \subseteq b3..e
  <2>1. ends \subseteq b3..e
    BY DEF LengthEnds
  <2>2. IsFiniteSet(b3..e) /\ b3..e \subseteq Nat
    <3>1. b3 \in Int /\ e \in Int
      BY <1>1, <1>6
    <3>2. IsFiniteSet(b3..e)
      BY <3>1, FS_Interval
    <3> QED
      BY <1>1, <1>6, <3>2
  <2> HIDE DEF ends, b3
  <2> QED
    BY <2>1, <2>2, FS_Subset
<1> HIDE DEF group
<1>11. lengths \in Seq(ends) /\ m \in Nat
  <2> HIDE DEF ends
  <2> QED
    BY <1>10, AscendingFacts
<1> HIDE DEF ends, lengths
<1>12. \A k \in 1..m : lengths[k] \in b3..e
  <2> SUFFICES ASSUME NEW k \in 1..m PROVE lengths[k] \in b3..e
    OBVIOUS
  <2>1. lengths[k] \in ends
    BY <1>11, ElementOfSeq
  <2> QED
    BY <1>10, <2>1
<1>13. singles \in Seq(Seq(G)) /\ Len(singles) = m
  <2>1. ASSUME NEW k \in 1..m PROVE unknown(lengths[k]) \in Seq(G)
    <3> DEFINE b == lengths[k]
    <3>1. b \in b3..e
      BY <1>12
    <3> HIDE DEF b, unknown
    <3>2. b \in (a + 1)..(Len(memory) + 1) /\ b <= e /\ b <= lsize + 1
      BY <1>1, <3>1
    <3>3. unknown(b) \in Seq(G)
      BY <1>4, <3>2
    <3> QED
      BY <3>3 DEF b
  <2> HIDE DEF unknown
  <2>2. singles \in [1..m -> Seq(G)]
    BY <2>1
  <2> HIDE DEF singles
  <2> QED
    BY <1>11, <2>2
<1>14. \A k \in 1..m : singles[k] = unknown(lengths[k])
  <2> HIDE DEF unknown
  <2> QED
    OBVIOUS
<1> HIDE DEF singles
<1>15. single \in Seq(G) /\ (single = << >> => \A k \in 1..m : singles[k] = << >>)
  BY <1>13, FlattenElements
<1> HIDE DEF single, unknown
<1>16. known \in Seq(G) /\ known \o grouped \in Seq(G) /\ words \in Seq(G)
  <2>1. known \in Seq(G)
    BY DEF G
  <2>2. known \o grouped \in Seq(G)
    BY <1>9, <2>1, ConcatProperties
  <2> DEFINE first == known \o grouped
  <2> HIDE DEF first
  <2>3. first \o single \in Seq(G)
    BY <1>15, <2>2, ConcatProperties DEF first
  <2> QED
    BY <2>1, <2>2, <2>3 DEF first
<1>17. words = << >> => single = << >>
  <2> DEFINE first == known \o grouped
  <2>1. first \in Seq(G) /\ words = first \o single
    BY <1>16
  <2> HIDE DEF first, words
  <2> SUFFICES ASSUME words = << >> PROVE single = << >>
    OBVIOUS
  <2> DEFINE second == single
  <2>2. first \in Seq(G) /\ second \in Seq(G) /\ first \o second = << >>
    BY <1>15, <2>1
  <2> HIDE DEF second
  <2>3. second = << >>
    BY <2>2, ConcatEmptySeq
  <2> QED
    BY <2>3 DEF second
<1>18. CASE b3 > e /\ known \o unknown(b3) # << >>
  <2> DEFINE s == known \o unknown(b3)
  <2>1. unknown(b3) \in Seq(G)
    <3>1. partial
      BY <1>6, <1>18
    <3> QED
      BY <1>4, <1>6, <1>18, <3>1
  <2>2. s \in Seq(G)
    BY <1>16, <2>1, ConcatProperties
  <2>3. s # << >> /\ result = s
    BY <1>3, <1>18
  <2> HIDE DEF s, result
  <2> QED
    BY <2>2, <2>3, GoodOutcome DEF G, result, a, e
<1>19. CASE ~(b3 > e /\ known \o unknown(b3) # << >>) /\ words # << >>
  <2>1. result = words
    BY <1>3, <1>19
  <2> HIDE DEF words, result
  <2> QED
    BY <1>16, <1>19, <2>1, GoodOutcome DEF G, result, a, e
<1>20. CASE /\ ~(b3 > e /\ known \o unknown(b3) # << >>) /\ words = << >>
            /\ unknown(stopped) # << >>
  <2>1. result = unknown(stopped)
    BY <1>3, <1>20
  <2>2. stopped \in (a + 1)..(Len(memory) + 1) /\ (stopped <= e \/ a = e)
    <3>1. CASE lengths = << >>
      BY <1>1, <1>6, <3>1
    <3>2. CASE lengths # << >>
      <4>1. m \in 1..m /\ last \in b3..e
        <5>1. m # 0
          BY <1>11, <3>2
        <5>2. m \in 1..m
          BY <1>11, <5>1
        <5> QED
          BY <1>12, <5>2
      <4>2. stopped \in {last, last + 1}
        BY <3>2
      <4>3. unknown(last) = << >>
        BY <1>14, <1>15, <1>17, <1>20, <4>1
      <4> HIDE DEF last, stopped
      <4>4. last # e \/ stopped # e + 1
        <5> SUFFICES ASSUME last = e, stopped = e + 1 PROVE FALSE
          OBVIOUS
        <5>1. partial
          BY <1>5, <1>1, <4>3
        <5> DEFINE c == info.defaultType
                   t == Len(UnkTokens[c])
        <5>2. PICK k \in 1..t : Allowed(begin, UnknownNodes(info, a, e + 1)[k])
          <6> DEFINE nodes == unknown(e + 1)
          <6>1. nodes # << >> /\ nodes = Valid(begin, UnknownNodes(info, AfterSpace(begin), e + 1))
            BY <1>20 DEF unknown, a
          <6>2. e + 1 \in Nat
            BY <1>1
          <6> DEFINE b == e + 1
          <6> HIDE DEF nodes, b
          <6>3. \E k \in 1..Len(UnkTokens[info.defaultType]) :
                  Allowed(begin, UnknownNodes(info, AfterSpace(begin), b)[k])
            BY <6>1, <6>2, UnknownsAllowed DEF b
          <6> QED
            BY <6>3 DEF a, b
        <5>3. ~Allowed(begin, UnknownNodes(info, a, e)[k])
          <6> DEFINE nodes == unknown(e)
          <6>1. nodes = << >> /\ nodes = Valid(begin, UnknownNodes(info, AfterSpace(begin), e))
            BY <4>3 DEF unknown, a
          <6>2. e \in Nat
            BY <1>1
          <6> HIDE DEF nodes
          <6>3. ~\E j \in 1..Len(UnkTokens[info.defaultType]) :
                  Allowed(begin, UnknownNodes(info, AfterSpace(begin), e)[j])
            BY <6>1, <6>2, UnknownsAllowed
          <6> QED
            BY <6>3 DEF a
        <5> DEFINE n == UnknownNodes(info, a, e)[k]
                   o == UnknownNodes(info, a, e + 1)[k]
        <5>4. n.end = e /\ n.feature = UnknownFeature(UnkTokens[c][k])
          BY DEF UnknownNodes, UnknownFeature
        <5>5. o.end = e + 1 /\ o.feature = UnknownFeature(UnkTokens[c][k])
          BY DEF UnknownNodes, UnknownFeature
        <5> HIDE DEF n, o
        <5>6. IsValidNode(begin, o) /\ ~IsValidNode(begin, n)
          BY <5>1, <5>2, <5>3 DEF Allowed, n, o
        <5>7. Boundary(e) = TOKEN /\ TOKEN # INSIDE
          BY <1>2, <5>1 DEF Boundary, TOKEN, INSIDE
        <5> QED
          BY <5>4, <5>5, <5>6, <5>7 DEF IsValidNode
      <4>5. last \in Nat /\ b3 \in Nat /\ b3 = a + 1
        BY <1>6, <4>1
      <4> QED
        BY <1>1, <4>1, <4>2, <4>4, <4>5
    <3> QED
      BY <3>1, <3>2
  <2> HIDE DEF stopped
  <2>3. unknown(stopped) \in Seq(G)
    <3>1. stopped <= lsize + 1 \/ partial
      BY <1>1, <2>2
    <3> QED
      BY <1>4, <2>2, <3>1
  <2> DEFINE s == unknown(stopped)
  <2> HIDE DEF s, result
  <2>4. s \in Seq(G) /\ s # << >> /\ result = s
    BY <1>20, <2>1, <2>3 DEF s
  <2> QED
    BY <2>4, GoodOutcome DEF G, result, a, e
<1>21. CASE /\ ~(b3 > e /\ known \o unknown(b3) # << >>) /\ words = << >>
            /\ unknown(stopped) = << >> /\ partial
  <2>1. result = LastResort(begin, a, e)
    BY <1>3, <1>21
  <2>2. Outcome(begin, LastResort(begin, a, e))
    BY <1>21, LastResortFacts DEF a, e
  <2> QED
    BY <2>1, <2>2 DEF a, e
<1>22. stopped \in Nat
  <2>1. CASE lengths = << >>
    BY <1>6, <2>1
  <2>2. CASE lengths # << >>
    <3>1. m # 0
      BY <1>11, <2>2
    <3>2. m \in 1..m
      BY <1>11, <3>1
    <3>3. last \in b3..e
      BY <1>12, <3>2
    <3>4. stopped \in {last, last + 1}
      BY <2>2
    <3> HIDE DEF last, stopped, b3
    <3> QED
      BY <1>1, <1>6, <3>3, <3>4
  <2> QED
    BY <2>1, <2>2
<1>23. ~partial => unknown(stopped) # << >>
  <2> HIDE DEF stopped
  <2> QED
    BY <1>5, <1>22
<1> HIDE DEF stopped, words, b3
<1> QED
  BY <1>18, <1>19, <1>20, <1>21, <1>23 DEF a, e

LEMMA LookupFacts ==
  ASSUME ArrayInv, CharsTyped, SentenceInv, NEW begin \in 0..(lsize - 1)
  PROVE  Outcome(begin, Lookup(begin))
<1> DEFINE a == AfterSpace(begin)
           e == EndOf(begin)
           info == SeekToOtherType(memory, begin, e, Table(SpaceChar)).fail
           nodes == KnownNodes(a, e)
           known == Valid(begin, nodes)
           N == {n \in WordNodes(a) : n.end \in (a + 1)..LastEnd(a, e)}
<1>1. a \in begin..e /\ e \in (begin + 1)..lsize
  BY SpaceFacts, EndOfFacts
<1>2. begin \in Nat /\ lsize \in Nat /\ Len(memory) \in Nat /\ lsize <= Len(memory)
  BY DEF SentenceInv
<1>3. OnlySpaceLeft(begin) <=> a = e
  BY DEF OnlySpaceLeft
<1>4. info.defaultType \in CategoryIds
  BY SpaceFacts
<1>5. Lookup(begin) = IF known # << >> /\ ~Invoke(info) THEN known
                      ELSE UnknownStages(begin, a, e, info, known)
  BY DEF Lookup, AfterSpace, NoNodes
<1> HIDE DEF a, e, info
<1>6. nodes \in Seq(N)
  <2>1. a \in Nat /\ e \in Nat /\ a <= e /\ e <= lsize
    BY <1>1, <1>2
  <2> QED
    BY <2>1, KnownFacts
<1> HIDE DEF nodes
<1>7. ASSUME NEW n \in N, Allowed(begin, n) PROVE n \in GoodNodes(begin)
  <2> DEFINE b == n.end
  <2>1. n \in WordNodes(a) /\ b \in (a + 1)..LastEnd(a, e)
    OBVIOUS
  <2>2. n.stat # "DIES"
    BY <2>1, StatFacts
  <2> HIDE DEF b
  <2>3. b \in (a + 1)..(Len(memory) + 1) /\ (b <= e \/ OnlySpaceLeft(begin))
    <3>1. StringEnd \in Nat /\ StringEnd <= Len(memory)
      <4> DEFINE p == 0
      <4>1. p \in 0..lsize /\ p \in Nat
        BY <1>2
      <4> HIDE DEF p
      <4>2. StringEnd \in p..Len(memory)
        BY <4>1, StringEndFacts
      <4> QED
        BY <1>2, <4>1, <4>2
    <3>2. CASE a < e
      BY <1>1, <1>2, <2>1, <3>2 DEF LastEnd
    <3>3. CASE ~(a < e)
      <4>1. a = e
        BY <1>1, <1>2, <3>3
      <4> QED
        BY <1>1, <1>2, <1>3, <2>1, <3>1, <3>3, <4>1 DEF LastEnd
    <3> QED
      BY <3>2, <3>3
  <2>4. Behind(n)
    <3>1. n.stat = "NOR"
      BY <2>1 DEF WordNodes
    <3>2. b > lsize + 1 => b <= StringEnd
      <4>1. CASE a < e
        BY <1>1, <1>2, <2>1, <4>1 DEF LastEnd
      <4>2. CASE ~(a < e)
        BY <1>1, <1>2, <2>1, <4>2 DEF LastEnd
      <4> QED
        BY <4>1, <4>2
    <3> QED
      BY <3>1, <3>2 DEF Behind, b
  <2>5. GoodNode(begin, n)
    BY <1>7, <2>2, <2>3, <2>4, AllowedIsGood DEF a, b, e
  <2> QED
    BY <2>1, <2>5 DEF GoodNodes, a
<1>8. known \in Seq(GoodNodes(begin))
  <2> HIDE DEF N
  <2>1. known \in Seq({n \in N : Allowed(begin, n)})
    BY <1>6, ValidFacts
  <2>2. {n \in N : Allowed(begin, n)} \subseteq GoodNodes(begin)
    BY <1>7
  <2> HIDE DEF known
  <2> QED
    BY <2>1, <2>2
<1> HIDE DEF known
<1>9. Outcome(begin, UnknownStages(begin, a, e, info, known))
  BY <1>4, <1>8, UnknownStagesFacts DEF a, e
<1>10. CASE known # << >> /\ ~Invoke(info)
  <2>1. Outcome(begin, known)
    BY <1>8, <1>10, GoodOutcome
  <2> QED
    BY <1>5, <1>10, <2>1
<1>11. CASE ~(known # << >> /\ ~Invoke(info))
  <2>1. Lookup(begin) = UnknownStages(begin, a, e, info, known)
    BY <1>5, <1>11
  <2> QED
    BY <1>9, <2>1
<1> QED
  BY <1>10, <1>11

-----------------------------------------------------------------------------
(* V. The constraints of a sentence. *)

Bounds == {ANY, TOKEN, INSIDE}
ConstraintRecords(size, Fs) ==
  [boundary : [0..(size + 3) -> Bounds], feature : [0..(size + 3) -> Fs]]

(* Up to a position, constraints are what SentenceInv says. *)
KeptUpTo(cs, p) ==
  /\ p > 0 => cs.boundary[0] = TOKEN /\ cs.boundary[p] = TOKEN
  /\ \A x \in Nat : x \in DOMAIN cs.feature /\ cs.feature[x] # NoFeature =>
       /\ x < p
       /\ \E e \in (x + 1)..p :
            cs.boundary[e] = TOKEN /\ \A q \in (x + 1)..(e - 1) : cs.boundary[q] = INSIDE

LEMMA MinOfTwo ==
  ASSUME NEW m \in Nat, NEW n \in Nat, m <= n
  PROVE  Min({m, n}) = m
<1> DEFINE S == {m, n}
<1>1. S \in SUBSET Nat /\ S # {} /\ m \in S /\ \A x \in S : m <= x
  OBVIOUS
<1>2. Min(S) \in S /\ \A x \in S : Min(S) <= x
  <2> HIDE DEF S
  <2> QED
    BY <1>1, MinOfNats
<1>3. Min(S) <= m /\ m <= Min(S) /\ Min(S) \in Nat
  BY <1>1, <1>2
<1> QED
  BY <1>3

(* What SetFeature() writes. *)
LEMMA SetFeatureFacts ==
  ASSUME NEW size \in Nat, NEW Fs, NEW cs \in ConstraintRecords(size, Fs),
         NEW begin \in Nat, NEW end \in Nat, NEW f \in Fs
  PROVE  /\ SetFeature(cs, size, begin, end, f) \in ConstraintRecords(size, Fs)
         /\ begin >= end => SetFeature(cs, size, begin, end, f) = cs
         /\ begin < end /\ end <= size =>
              \A p \in 0..(size + 3) :
                /\ SetFeature(cs, size, begin, end, f).boundary[p] =
                     IF p \in {begin, end} THEN TOKEN
                     ELSE IF p \in (begin + 1)..(end - 1) THEN INSIDE
                     ELSE cs.boundary[p]
                /\ SetFeature(cs, size, begin, end, f).feature[p] =
                     IF p = begin THEN f ELSE cs.feature[p]
<1> DEFINE D == 0..(size + 3)
           last == Min({end, size})
           set == [boundary |-> [p \in DOMAIN cs.boundary |->
                                   IF p \in {begin, last} THEN TOKEN
                                   ELSE IF p \in (begin + 1)..(last - 1) THEN INSIDE
                                   ELSE cs.boundary[p]],
                   feature |-> [cs.feature EXCEPT ![begin] = f]]
<1>1. SetFeature(cs, size, begin, end, f) = IF begin >= end THEN cs ELSE set
  BY DEF SetFeature
<1>2. cs.boundary \in [D -> Bounds] /\ cs.feature \in [D -> Fs]
  BY DEF ConstraintRecords
<1> HIDE DEF last
<1>3. set \in ConstraintRecords(size, Fs)
  <2>1. set.boundary \in [D -> Bounds]
    <3> HIDE DEF D
    <3> QED
      BY <1>2 DEF Bounds
  <2>2. set.feature \in [D -> Fs]
    <3> HIDE DEF D
    <3> QED
      BY <1>2
  <2> QED
    BY <2>1, <2>2 DEF ConstraintRecords
<1>4. ASSUME begin < end, end <= size, NEW p \in D
      PROVE  /\ set.boundary[p] = IF p \in {begin, end} THEN TOKEN
                                  ELSE IF p \in (begin + 1)..(end - 1) THEN INSIDE
                                  ELSE cs.boundary[p]
             /\ set.feature[p] = IF p = begin THEN f ELSE cs.feature[p]
  <2>1. last = end
    BY <1>4, MinOfTwo DEF last
  <2> HIDE DEF D
  <2> QED
    BY <1>2, <2>1
<1> HIDE DEF set
<1>5. begin >= end \/ begin < end
  OBVIOUS
<1> QED
  BY <1>1, <1>3, <1>4

LEMMA SetBoundaryFacts ==
  ASSUME NEW size \in Nat, NEW Fs, NEW cs \in ConstraintRecords(size, Fs),
         NEW p \in Nat, NEW type \in Bounds
  PROVE  /\ SetBoundary(cs, p, type) \in ConstraintRecords(size, Fs)
         /\ \A q \in 0..(size + 3) :
              SetBoundary(cs, p, type).boundary[q] = IF q = p THEN type ELSE cs.boundary[q]
         /\ SetBoundary(cs, p, type).feature = cs.feature
<1> DEFINE D == 0..(size + 3)
<1>1. cs.boundary \in [D -> Bounds] /\ cs.feature \in [D -> Fs]
      /\ cs = [boundary |-> cs.boundary, feature |-> cs.feature]
  BY DEF ConstraintRecords
<1> DEFINE set == [boundary |-> [cs.boundary EXCEPT ![p] = type], feature |-> cs.feature]
<1>2. SetBoundary(cs, p, type) = set
  <2> DEFINE b == cs.boundary
             g == cs.feature
  <2>1. cs = [boundary |-> b, feature |-> g]
    BY <1>1
  <2>2. SetBoundary(cs, p, type) = [cs EXCEPT !.boundary[p] = type]
    BY DEF SetBoundary
  <2> HIDE DEF b, g
  <2>3. [cs EXCEPT !.boundary[p] = type] = [boundary |-> [b EXCEPT ![p] = type], feature |-> g]
    BY <2>1
  <2> QED
    BY <2>2, <2>3 DEF b, g
<1>3. set.boundary \in [D -> Bounds] /\ set.feature \in [D -> Fs] /\ set.feature = cs.feature
  <2> HIDE DEF D
  <2> QED
    BY <1>1
<1>4. \A q \in D : set.boundary[q] = IF q = p THEN type ELSE cs.boundary[q]
  <2> HIDE DEF D
  <2> QED
    BY <1>1
<1>5. set \in ConstraintRecords(size, Fs)
  BY <1>3 DEF ConstraintRecords
<1> HIDE DEF set
<1> QED
  BY <1>2, <1>3, <1>4, <1>5

(* One line of a text in partial format. *)
LineSet(cs, size, p, e, f) ==
  LET cut == SetBoundary(SetBoundary(cs, p, TOKEN), e, TOKEN)
  IN IF f = NoFeature THEN cut ELSE SetFeature(cut, size, p, e, f)

LEMMA LineTyped ==
  ASSUME NEW size \in Nat, NEW Fs, NEW cs \in ConstraintRecords(size, Fs),
         NEW p \in Nat, NEW e \in Nat, NEW f \in Fs
  PROVE  LineSet(cs, size, p, e, f) \in ConstraintRecords(size, Fs)
<1> DEFINE cut1 == SetBoundary(cs, p, TOKEN)
           cut == SetBoundary(cut1, e, TOKEN)
<1>1. TOKEN \in Bounds
  BY DEF Bounds
<1>2. cut1 \in ConstraintRecords(size, Fs)
  BY <1>1, SetBoundaryFacts
<1> HIDE DEF cut1
<1>3. cut \in ConstraintRecords(size, Fs)
  BY <1>1, <1>2, SetBoundaryFacts
<1>4. LineSet(cs, size, p, e, f) = IF f = NoFeature THEN cut ELSE SetFeature(cut, size, p, e, f)
  BY DEF LineSet, cut1
<1> HIDE DEF cut
<1>5. SetFeature(cut, size, p, e, f) \in ConstraintRecords(size, Fs)
  BY <1>1, <1>3, SetFeatureFacts
<1> QED
  BY <1>3, <1>4, <1>5

LEMMA LineKept ==
  ASSUME NEW size \in Nat, NEW Fs, NEW cs \in ConstraintRecords(size, Fs),
         NEW p \in Nat, NEW e \in Nat, p <= e, e <= size, NEW f \in Fs, KeptUpTo(cs, p)
  PROVE  KeptUpTo(LineSet(cs, size, p, e, f), e)
<1> DEFINE D == 0..(size + 3)
           cut1 == SetBoundary(cs, p, TOKEN)
           cut == SetBoundary(cut1, e, TOKEN)
           set == SetFeature(cut, size, p, e, f)
           next == LineSet(cs, size, p, e, f)
<1>1. p \in D /\ e \in D /\ TOKEN \in Bounds
  BY DEF Bounds
<1>2. /\ cut1 \in ConstraintRecords(size, Fs) /\ cut1.feature = cs.feature
      /\ \A q \in D : cut1.boundary[q] = IF q = p THEN TOKEN ELSE cs.boundary[q]
  <2>1. p \in Nat /\ TOKEN \in Bounds
    BY <1>1
  <2> HIDE DEF D
  <2>2. /\ cut1 \in ConstraintRecords(size, Fs) /\ cut1.feature = cs.feature
        /\ \A q \in 0..(size + 3) : cut1.boundary[q] = IF q = p THEN TOKEN ELSE cs.boundary[q]
    BY <2>1, SetBoundaryFacts
  <2> QED
    BY <2>2 DEF D
<1> HIDE DEF cut1
<1>3. /\ cut \in ConstraintRecords(size, Fs) /\ cut.feature = cut1.feature
      /\ \A q \in D : cut.boundary[q] = IF q = e THEN TOKEN ELSE cut1.boundary[q]
  BY <1>1, <1>2, SetBoundaryFacts
<1> HIDE DEF cut
<1>4. /\ set \in ConstraintRecords(size, Fs)
      /\ p >= e => set = cut
      /\ p < e /\ e <= size =>
           \A q \in D :
             /\ set.boundary[q] = IF q \in {p, e} THEN TOKEN
                                  ELSE IF q \in (p + 1)..(e - 1) THEN INSIDE
                                  ELSE cut.boundary[q]
             /\ set.feature[q] = IF q = p THEN f ELSE cut.feature[q]
  BY <1>3, SetFeatureFacts
<1> HIDE DEF set
<1>5. next = IF f = NoFeature THEN cut ELSE set
  BY DEF LineSet, cut, cut1, set
<1> HIDE DEF next
<1>6. next \in ConstraintRecords(size, Fs)
  BY <1>3, <1>4, <1>5
<1>7. DOMAIN next.feature = D /\ DOMAIN cs.feature = D
  BY <1>6 DEF ConstraintRecords
<1>8. /\ next.boundary[p] = TOKEN /\ next.boundary[e] = TOKEN
      /\ \A q \in D : q < p => next.boundary[q] = cs.boundary[q]
      /\ \A q \in D : next.feature[q] = cs.feature[q] \/ (q = p /\ p < e)
      /\ p < e /\ f # NoFeature => \A q \in (p + 1)..(e - 1) : next.boundary[q] = INSIDE
      /\ f = NoFeature => next.feature = cs.feature
  <2>1. CASE f = NoFeature \/ ~(p < e)
    <3>1. next = cut
      BY <1>4, <1>5, <2>1
    <3>2. \A q \in D : q < p => q # p /\ q # e
      OBVIOUS
    <3> HIDE DEF D
    <3>3. next.feature = cs.feature
      BY <1>2, <1>3, <3>1
    <3>4. next.boundary[p] = TOKEN /\ next.boundary[e] = TOKEN
      BY <1>1, <1>2, <1>3, <3>1
    <3>5. \A q \in D : q < p => next.boundary[q] = cs.boundary[q]
      BY <1>2, <1>3, <3>1, <3>2
    <3> QED
      BY <2>1, <3>3, <3>4, <3>5
  <2>2. CASE f # NoFeature /\ p < e
    <3>1. next = set
      BY <1>5, <2>2
    <3>2. \A q \in D : q < p => q # p /\ q # e /\ q \notin (p + 1)..(e - 1)
      OBVIOUS
    <3>3. \A q \in (p + 1)..(e - 1) : q \in D /\ q \notin {p, e}
      OBVIOUS
    <3> HIDE DEF D
    <3>4. \A q \in D :
             /\ next.boundary[q] = IF q \in {p, e} THEN TOKEN
                                   ELSE IF q \in (p + 1)..(e - 1) THEN INSIDE
                                   ELSE cut.boundary[q]
             /\ next.feature[q] = IF q = p THEN f ELSE cut.feature[q]
      BY <1>4, <2>2, <3>1
    <3>5. next.boundary[p] = TOKEN /\ next.boundary[e] = TOKEN
      BY <1>1, <3>4
    <3>6. \A q \in D : q < p => next.boundary[q] = cs.boundary[q]
      BY <1>2, <1>3, <3>2, <3>4
    <3>7. \A q \in D : next.feature[q] = cs.feature[q] \/ q = p
      BY <1>2, <1>3, <3>4
    <3>8. \A q \in (p + 1)..(e - 1) : next.boundary[q] = INSIDE
      BY <3>3, <3>4
    <3> QED
      BY <2>2, <3>5, <3>6, <3>7, <3>8
  <2> QED
    BY <2>1, <2>2
<1>9. ASSUME e > 0 PROVE next.boundary[0] = TOKEN
  <2>1. CASE p = 0
    BY <1>8, <2>1
  <2>2. CASE p # 0
    <3>1. 0 \in D /\ 0 < p
      BY <2>2
    <3> QED
      BY <1>8, <3>1 DEF KeptUpTo
  <2> QED
    BY <2>1, <2>2
<1>10. ASSUME NEW x \in Nat, x \in D, next.feature[x] # NoFeature
       PROVE  x < e /\ \E y \in (x + 1)..e :
                next.boundary[y] = TOKEN /\ \A q \in (x + 1)..(y - 1) : next.boundary[q] = INSIDE
  <2>1. CASE next.feature[x] = cs.feature[x]
    <3>1. x < p /\ \E y \in (x + 1)..p :
             cs.boundary[y] = TOKEN /\ \A q \in (x + 1)..(y - 1) : cs.boundary[q] = INSIDE
      BY <1>7, <1>10, <2>1 DEF KeptUpTo
    <3>2. PICK y \in (x + 1)..p :
             cs.boundary[y] = TOKEN /\ \A q \in (x + 1)..(y - 1) : cs.boundary[q] = INSIDE
      BY <3>1
    <3>3. next.boundary[y] = TOKEN
      <4>1. y = p \/ (y \in D /\ y < p)
        OBVIOUS
      <4> QED
        BY <1>8, <3>2, <4>1
    <3>4. \A q \in (x + 1)..(y - 1) : q \in D /\ q < p
      OBVIOUS
    <3>5. y \in (x + 1)..e /\ x < e
      BY <3>1
    <3>6. \A q \in (x + 1)..(y - 1) : next.boundary[q] = INSIDE
      BY <1>8, <3>2, <3>4
    <3> QED
      BY <3>3, <3>5, <3>6
  <2>2. CASE x = p /\ p < e /\ f # NoFeature
    BY <1>8, <2>2
  <2> QED
    BY <1>8, <1>10, <2>1, <2>2
<1> HIDE DEF D
<1>11. KeptUpTo(next, e)
  BY <1>7, <1>8, <1>9, <1>10 DEF KeptUpTo
<1> QED
  BY <1>11 DEF next

(* Where the lines of a text in partial format end. *)
LEMMA TextFacts ==
  ASSUME NEW lines \in PartialTexts
  PROVE  /\ TextOf(lines) \in Seq(Nat) /\ Len(lines) \in Nat
         /\ \A i \in 1..Len(lines) : lines[i].surface \in Seq(Nat)
         /\ \E at \in [0..Len(lines) -> 0..Len(TextOf(lines))] :
              /\ at[0] = 0 /\ at[Len(lines)] = Len(TextOf(lines))
              /\ \A i \in 1..Len(lines) : at[i] = at[i - 1] + Len(lines[i].surface)
<1> DEFINE n == Len(lines)
           seqs == [i \in 1..n |-> lines[i].surface]
           text == TextOf(lines)
           size == Len(text)
<1>1. n \in Nat /\ \A i \in 1..n : lines[i].surface \in Seq(Nat)
  BY LookupAssumption
<1>2. text = FlattenSeq(seqs)
  BY DEF TextOf
<1>3. seqs \in Seq(Seq(Nat)) /\ Len(seqs) = n /\ \A i \in 1..n : seqs[i] = lines[i].surface
  <2>1. seqs \in [1..n -> Seq(Nat)] /\ \A i \in 1..n : seqs[i] = lines[i].surface
    BY <1>1
  <2> HIDE DEF seqs, n
  <2> QED
    BY <1>1, <2>1
<1> HIDE DEF n, seqs, text
<1>4. text \in Seq(Nat) /\ size \in Nat
  BY <1>2, <1>3, FlattenElements
<1>5. CASE n = 0
  <2>1. seqs = << >> /\ FlattenSeq(seqs) = seqs
    BY <1>3, <1>5 DEF FlattenSeq
  <2>2. size = 0
    BY <1>2, <2>1
  <2> DEFINE at == [i \in 0..n |-> 0]
  <2>3. at \in [0..n -> 0..size] /\ at[0] = 0 /\ at[n] = size
    BY <1>5, <2>2
  <2>4. 1..n = {}
    BY <1>5
  <2> HIDE DEF at
  <2> QED
    BY <1>1, <1>4, <2>3, <2>4 DEF n, text
<1>6. CASE n # 0
  <2>1. PICK g \in [1..n -> Seq(Nat)] :
          /\ FlattenSeq(seqs) = g[n]
          /\ g[1] = seqs[1]
          /\ \A i \in 1..(n - 1) : g[i + 1] = g[i] \o seqs[i + 1]
    <3>1. Len(seqs) > 0
      BY <1>1, <1>3, <1>6
    <3> QED
      BY <1>3, <3>1, FlattenFacts
  <2>2. \A i \in 1..n : g[i] \in Seq(Nat) /\ seqs[i] \in Seq(Nat)
    BY <1>1, <1>3, <2>1
  <2>3. \A i \in 1..n : Len(g[i]) \in Nat /\ Len(seqs[i]) \in Nat
    BY <2>2
  <2>4. ASSUME NEW i \in 1..(n - 1)
        PROVE  i \in 1..n /\ i + 1 \in 1..n /\ Len(g[i + 1]) = Len(g[i]) + Len(seqs[i + 1])
    <3>1. i \in 1..n /\ i + 1 \in 1..n
      BY <1>1
    <3> DEFINE h == g[i]
               s == seqs[i + 1]
    <3>2. h \in Seq(Nat) /\ s \in Seq(Nat) /\ g[i + 1] = h \o s
      BY <2>1, <2>2, <3>1
    <3> HIDE DEF h, s
    <3>3. Len(g[i + 1]) = Len(h) + Len(s)
      BY <3>2
    <3> QED
      BY <3>1, <3>3 DEF h, s
  <2> DEFINE U == {k \in Nat : k < n => Len(g[n - k]) <= size}
  <2>5. Nat \subseteq U
    <3>1. 0 \in U
      BY <1>1, <1>2, <1>4, <2>1
    <3>2. ASSUME NEW k \in Nat, k \in U PROVE k + 1 \in U
      <4> SUFFICES ASSUME k + 1 < n PROVE Len(g[n - (k + 1)]) <= size
        OBVIOUS
      <4> DEFINE i == n - (k + 1)
      <4>1. i \in 1..(n - 1) /\ i + 1 = n - k /\ k < n
        BY <1>1
      <4>2. Len(g[i + 1]) <= size
        BY <3>2, <4>1
      <4> HIDE DEF i
      <4>3. Len(g[i + 1]) = Len(g[i]) + Len(seqs[i + 1]) /\ i \in 1..n /\ i + 1 \in 1..n
        BY <2>4, <4>1
      <4>4. Len(g[i]) \in Nat /\ Len(seqs[i + 1]) \in Nat /\ Len(g[i + 1]) \in Nat
        BY <2>3, <4>3
      <4>5. Len(g[i]) <= size
        BY <1>4, <4>2, <4>3, <4>4
      <4> QED
        BY <4>5 DEF i
    <3> HIDE DEF U
    <3> QED
      BY <3>1, <3>2, NatSetInduction
  <2>6. ASSUME NEW i \in 1..n PROVE Len(g[i]) \in 0..size
    <3>1. n - i \in Nat /\ n - i < n /\ n - (n - i) = i
      BY <1>1
    <3>3. n - i \in U
      <4> HIDE DEF U
      <4> QED
        BY <2>5, <3>1
    <3>2. Len(g[i]) <= size
      <4> DEFINE k == n - i
      <4>1. k \in U /\ k < n /\ n - k = i
        BY <3>1, <3>3
      <4>2. k < n => Len(g[n - k]) <= size
        <5> HIDE DEF k
        <5> QED
          BY <4>1
      <4> HIDE DEF k
      <4> QED
        BY <4>1, <4>2
    <3> QED
      BY <1>4, <2>3, <3>2
  <2> DEFINE at == [i \in 0..n |-> IF i = 0 THEN 0 ELSE Len(g[i])]
  <2>7. at \in [0..n -> 0..size]
    <3>1. ASSUME NEW i \in 0..n PROVE (IF i = 0 THEN 0 ELSE Len(g[i])) \in 0..size
      <4>1. i # 0 => i \in 1..n
        BY <1>1
      <4> QED
        BY <1>4, <2>6, <4>1
    <3> HIDE DEF size
    <3> QED
      BY <3>1
  <2>8. at[0] = 0 /\ \A i \in 1..n : at[i] = Len(g[i])
    <3>1. 0 \in 0..n /\ \A i \in 1..n : i \in 0..n /\ i # 0
      BY <1>1
    <3> QED
      BY <3>1
  <2> HIDE DEF at
  <2>9. at[n] = size
    <3>1. n \in 1..n
      BY <1>1, <1>6
    <3> QED
      BY <1>2, <2>1, <2>8, <3>1
  <2>10. ASSUME NEW i \in 1..n PROVE at[i] = at[i - 1] + Len(seqs[i])
    <3>1. CASE i = 1
      <4>1. at[1] = Len(seqs[1]) /\ Len(seqs[1]) \in Nat
        BY <2>1, <2>3, <2>8, <3>1
      <4> QED
        BY <2>8, <3>1, <4>1
    <3>2. CASE i # 1
      <4> DEFINE j == i - 1
      <4>1. j \in 1..(n - 1) /\ j + 1 = i
        BY <1>1, <3>2
      <4> HIDE DEF j
      <4>2. Len(g[j + 1]) = Len(g[j]) + Len(seqs[j + 1]) /\ j \in 1..n
        BY <2>4, <4>1
      <4> QED
        BY <2>8, <4>1, <4>2 DEF j
    <3> QED
      BY <3>1, <3>2
  <2>11. \A i \in 1..n : at[i] = at[i - 1] + Len(lines[i].surface)
    BY <1>3, <2>10
  <2> QED
    BY <1>1, <1>4, <2>7, <2>8, <2>9, <2>11 DEF n, text
<1> QED
  BY <1>5, <1>6

(* The constraints of a text in partial format. *)
LEMMA PartialFacts ==
  ASSUME NEW lines \in PartialTexts
  PROVE  /\ KeptUpTo(PartialConstraints(lines), Len(TextOf(lines)))
         /\ DOMAIN PartialConstraints(lines).feature = 0..(Len(TextOf(lines)) + 3)
<1> DEFINE n == Len(lines)
           size == Len(TextOf(lines))
           Fs == {NoFeature} \cup {lines[i].feature : i \in 1..n}
           CR == ConstraintRecords(size, Fs)
           V == [cs : CR, pos : Nat]
           first == [cs |-> NoConstraints(size), pos |-> 0]
           next(i, b) ==
             LET end == b.pos + Len(lines[i].surface)
             IN [pos |-> end, cs |-> LineSet(b.cs, size, b.pos, end, lines[i].feature)]
           step == [x \in (1..n) \X V |-> next(x[1], x[2])]
           rec(i, h) ==
             IF i = 0 THEN [cs |-> NoConstraints(size), pos |-> 0]
             ELSE
               LET before == h[i - 1]
                   end == before.pos + Len(lines[i].surface)
                   cut == SetBoundary(SetBoundary(before.cs, before.pos, TOKEN), end, TOKEN)
               IN [pos |-> end,
                   cs |-> IF lines[i].feature = NoFeature THEN cut
                          ELSE SetFeature(cut, size, before.pos, end, lines[i].feature)]
           F == CHOOSE h : h = [i \in 0..n |-> rec(i, h)]
<1>1. /\ n \in Nat /\ size \in Nat /\ \A i \in 1..n : lines[i].surface \in Seq(Nat)
  BY TextFacts
<1>2. PICK at \in [0..n -> 0..size] :
        /\ at[0] = 0 /\ at[n] = size
        /\ \A i \in 1..n : at[i] = at[i - 1] + Len(lines[i].surface)
  BY TextFacts
<1>3. \A i, h : rec(i, h) = IF i = 0 THEN first ELSE next(i, h[i - 1])
  BY DEF LineSet
<1> HIDE DEF size, n
<1>4. \A i \in 1..n : lines[i].feature \in Fs /\ Len(lines[i].surface) \in Nat
  BY <1>1
<1>5. NoFeature \in Fs
  OBVIOUS
<1> HIDE DEF Fs
<1>6. first.cs \in CR /\ first \in V
  <2>1. NoConstraints(size).boundary \in [0..(size + 3) -> Bounds]
    BY DEF NoConstraints, Bounds
  <2>2. NoConstraints(size).feature \in [0..(size + 3) -> Fs]
    BY <1>5 DEF NoConstraints
  <2>3. NoConstraints(size) \in CR
    BY <2>1, <2>2 DEF ConstraintRecords, NoConstraints
  <2> HIDE DEF CR
  <2> QED
    BY <2>3
<1>7. ASSUME NEW i \in 1..n, NEW b \in V PROVE next(i, b) \in V
  <2> DEFINE p == b.pos
             cs == b.cs
             e == p + Len(lines[i].surface)
             f == lines[i].feature
  <2>1. p \in Nat /\ cs \in CR /\ e \in Nat /\ f \in Fs
    <3>1. p \in Nat /\ cs \in CR /\ f \in Fs /\ Len(lines[i].surface) \in Nat
      <4> HIDE DEF CR
      <4> QED
        BY <1>4
    <3> HIDE DEF p, cs, f
    <3> QED
      BY <3>1
  <2>2. next(i, b) = [pos |-> e, cs |-> LineSet(cs, size, p, e, f)]
    OBVIOUS
  <2> HIDE DEF p, e, f, cs
  <2>3. LineSet(cs, size, p, e, f) \in CR
    BY <1>1, <2>1, LineTyped
  <2> HIDE DEF CR, next
  <2> QED
    BY <2>1, <2>2, <2>3
<1> HIDE DEF first, next, V
<1>8. step \in [(1..n) \X V -> V]
  BY <1>7
<1>9. PICK f : Iteration(f, n, V, first, step)
  <2> HIDE DEF step
  <2> QED
    BY <1>1, <1>6, <1>8, IterationExists
<1>10. /\ f \in [0..n -> V] /\ f[0] = first
       /\ \A i \in 1..n : f[i] = next(i, f[i - 1])
  <2>1. /\ f \in [0..n -> V] /\ f[0] = first
        /\ \A i \in 1..n : f[i] = step[<<i, f[i - 1]>>]
    BY <1>9 DEF Iteration
  <2>2. ASSUME NEW i \in 1..n PROVE f[i] = next(i, f[i - 1])
    <3> DEFINE b == f[i - 1]
    <3>1. b \in V
      <4>1. i - 1 \in 0..n
        BY <1>1
      <4> HIDE DEF step
      <4> QED
        BY <2>1, <4>1
    <3>2. step[<<i, b>>] = next(i, b)
      <4> HIDE DEF b
      <4> QED
        BY <3>1
    <3> HIDE DEF step
    <3> QED
      BY <2>1, <3>2
  <2> QED
    BY <2>1, <2>2
<1> HIDE DEF step
<1>11. f = [i \in 0..n |-> rec(i, f)]
  <2>1. ASSUME NEW i \in 0..n PROVE f[i] = rec(i, f)
    <3>1. CASE i = 0
      <4> HIDE DEF rec
      <4> QED
        BY <1>3, <1>10, <3>1
    <3>2. CASE i # 0
      <4>1. i \in 1..n
        BY <1>1, <3>2
      <4> HIDE DEF rec
      <4> QED
        BY <1>3, <1>10, <3>2, <4>1
    <3> QED
      BY <3>1, <3>2
  <2> HIDE DEF rec
  <2> QED
    BY <1>10, <2>1
<1>12. F = [i \in 0..n |-> rec(i, F)]
  <2> HIDE DEF rec
  <2> QED
    BY <1>11
<1>13. PartialConstraints(lines) = F[n].cs
  BY DEF PartialConstraints, n, size
<1> HIDE DEF F
<1>14. F[0] = first /\ \A i \in 1..n : F[i] = next(i, F[i - 1])
  <2>1. 0 \in 0..n /\ \A i \in 1..n : i \in 0..n /\ i # 0
    BY <1>1
  <2> HIDE DEF rec
  <2> QED
    BY <1>3, <1>12, <2>1
<1> HIDE DEF rec
<1> DEFINE U == {i \in Nat : i <= n =>
                   F[i].cs \in CR /\ F[i].pos = at[i] /\ KeptUpTo(F[i].cs, at[i])}
<1>15. 0 \in U
  <2>1. F[0].cs = NoConstraints(size) /\ F[0].pos = 0 /\ at[0] = 0 /\ F[0].cs \in CR
    BY <1>2, <1>6, <1>14 DEF first
  <2>2. KeptUpTo(NoConstraints(size), 0)
    <3>1. \A x \in DOMAIN NoConstraints(size).feature : NoConstraints(size).feature[x] = NoFeature
      BY DEF NoConstraints
    <3> QED
      BY <3>1 DEF KeptUpTo
  <2> HIDE DEF CR
  <2> QED
    BY <2>1, <2>2
<1>16. ASSUME NEW k \in Nat, k \in U PROVE k + 1 \in U
  <2> DEFINE i == k + 1
  <2> SUFFICES ASSUME i <= n
               PROVE  F[i].cs \in CR /\ F[i].pos = at[i] /\ KeptUpTo(F[i].cs, at[i])
    <3>1. i \in Nat
      OBVIOUS
    <3> HIDE DEF CR
    <3> QED
      BY <3>1
  <2> DEFINE cs == F[k].cs
             p == F[k].pos
             e == p + Len(lines[i].surface)
             g == lines[i].feature
  <2>1. i \in 1..n /\ k <= n /\ i - 1 = k /\ k \in 0..n /\ i \in 0..n
    BY <1>1
  <2>2. cs \in CR /\ p = at[k] /\ KeptUpTo(cs, at[k])
    <3> HIDE DEF CR
    <3> QED
      BY <1>16, <2>1
  <2>3. F[i] = next(i, F[k])
    BY <1>14, <2>1
  <2>4. F[i].pos = e /\ F[i].cs = LineSet(cs, size, p, e, g)
    BY <2>3 DEF next
  <2>5. e = at[i]
    BY <1>2, <2>1, <2>2
  <2>6. /\ p \in Nat /\ e \in Nat /\ p <= e /\ e <= size
    <3>1. at[k] \in 0..size /\ at[i] \in 0..size /\ Len(lines[i].surface) \in Nat
      BY <1>2, <1>4, <2>1
    <3> DEFINE l == Len(lines[i].surface)
    <3>2. at[i] = at[k] + l
      BY <1>2, <2>1
    <3> HIDE DEF l
    <3> QED
      BY <1>1, <2>2, <2>5, <3>1, <3>2 DEF l
  <2>7. g \in Fs
    BY <1>4, <2>1
  <2> HIDE DEF cs, p, e, g, i
  <2>8. LineSet(cs, size, p, e, g) \in CR
    BY <1>1, <2>2, <2>6, <2>7, LineTyped
  <2>9. KeptUpTo(LineSet(cs, size, p, e, g), e)
    BY <1>1, <2>2, <2>6, <2>7, LineKept
  <2> HIDE DEF CR
  <2> QED
    BY <2>4, <2>5, <2>8, <2>9
<1>17. n \in U
  <2> HIDE DEF U
  <2> QED
    BY <1>1, <1>15, <1>16, NatSetInduction
<1>18. KeptUpTo(F[n].cs, at[n]) /\ F[n].cs \in CR
  <2> HIDE DEF CR
  <2> QED
    BY <1>1, <1>17
<1>19. DOMAIN F[n].cs.feature = 0..(size + 3)
  BY <1>18 DEF ConstraintRecords
<1> QED
  BY <1>2, <1>13, <1>18, <1>19 DEF size

(* The constraints that a caller sets, one feature among them. *)
CallerBounds(size, inner) ==
  [NoConstraints(size) EXCEPT !.boundary =
     [p \in DOMAIN @ |-> IF p \in DOMAIN inner THEN inner[p] ELSE ANY]]
CallerSet(size, inner, f, from, to) ==
  IF f = NoFeature THEN CallerBounds(size, inner)
  ELSE SetFeature(CallerBounds(size, inner), size, from, to, f)

LEMMA CallerFacts ==
  ASSUME NEW size \in Nat, NEW inner \in [1..(size - 1) -> Bounds], NEW f,
         NEW from \in 0..(size - 1), NEW to \in (from + 1)..size
  PROVE  LET cs == SetBoundary(SetBoundary(CallerSet(size, inner, f, from, to), 0, TOKEN),
                               size, TOKEN)
         IN KeptUpTo(cs, size) /\ DOMAIN cs.feature = 0..(size + 3)
<1> DEFINE D == 0..(size + 3)
           Fs == {NoFeature, f}
           CR == ConstraintRecords(size, Fs)
           bounds == CallerBounds(size, inner)
           set == CallerSet(size, inner, f, from, to)
           cut == SetBoundary(set, 0, TOKEN)
           cs == SetBoundary(cut, size, TOKEN)
<1>1. /\ from \in Nat /\ to \in Nat /\ from < to /\ to <= size /\ size > 0
      /\ TOKEN \in Bounds /\ TOKEN # INSIDE
  BY DEF Bounds, TOKEN, INSIDE
<1>2. bounds \in CR /\ \A x \in D : bounds.feature[x] = NoFeature
  <2> DEFINE b == [p \in D |-> IF p \in DOMAIN inner THEN inner[p] ELSE ANY]
             g == [p \in D |-> NoFeature]
  <2>1. bounds = [boundary |-> b, feature |-> g]
    <3> DEFINE a == [p \in D |-> ANY]
               none == NoConstraints(size)
    <3>1. none = [boundary |-> a, feature |-> g]
      BY DEF NoConstraints
    <3>2. DOMAIN a = D
      OBVIOUS
    <3> HIDE DEF a, g, D, none
    <3>3. DOMAIN none.boundary = D
      BY <3>1, <3>2
    <3>4. bounds = [none EXCEPT !.boundary =
                      [p \in DOMAIN none.boundary |-> IF p \in DOMAIN inner THEN inner[p] ELSE ANY]]
      BY DEF CallerBounds, none
    <3>5. bounds = [none EXCEPT !.boundary = b]
      BY <3>3, <3>4
    <3> HIDE DEF b, bounds
    <3> QED
      BY <3>1, <3>5
  <2>2. b \in [D -> Bounds]
    <3> HIDE DEF D
    <3> QED
      BY DEF Bounds
  <2>3. g \in [D -> Fs] /\ \A x \in D : g[x] = NoFeature
    OBVIOUS
  <2> HIDE DEF b, g, bounds, D, Fs
  <2>4. bounds.feature = g
    BY <2>1
  <2>5. bounds \in [boundary : [D -> Bounds], feature : [D -> Fs]]
    BY <2>1, <2>2, <2>3
  <2> QED
    BY <2>3, <2>4, <2>5 DEF ConstraintRecords, D
<1> HIDE DEF bounds
<1>3. /\ set \in CR
      /\ f = NoFeature => set = bounds
      /\ f # NoFeature =>
           \A q \in D :
             /\ set.boundary[q] = IF q \in {from, to} THEN TOKEN
                                  ELSE IF q \in (from + 1)..(to - 1) THEN INSIDE
                                  ELSE bounds.boundary[q]
             /\ set.feature[q] = IF q = from THEN f ELSE bounds.feature[q]
  <2> DEFINE sf == SetFeature(bounds, size, from, to, f)
  <2>1. f \in Fs
    OBVIOUS
  <2>t. to \in Nat /\ bounds \in ConstraintRecords(size, Fs)
    BY <1>1, <1>2
  <2> HIDE DEF Fs
  <2>2. /\ sf \in ConstraintRecords(size, Fs)
        /\ from < to /\ to <= size =>
             \A p \in 0..(size + 3) :
               /\ sf.boundary[p] = IF p \in {from, to} THEN TOKEN
                                   ELSE IF p \in (from + 1)..(to - 1) THEN INSIDE
                                   ELSE bounds.boundary[p]
               /\ sf.feature[p] = IF p = from THEN f ELSE bounds.feature[p]
    <3> HIDE DEF D, CR
    <3> QED
      BY <1>1, <2>1, <2>t, SetFeatureFacts
  <2> HIDE DEF sf
  <2>3. set = IF f = NoFeature THEN bounds ELSE sf
    BY DEF sf, CallerSet, bounds
  <2> QED
    BY <1>1, <1>2, <2>2, <2>3
<1> HIDE DEF Fs, set
<1>4. /\ cut \in CR /\ cut.feature = set.feature
      /\ \A q \in D : cut.boundary[q] = IF q = 0 THEN TOKEN ELSE set.boundary[q]
  <2>1. 0 \in Nat /\ TOKEN \in Bounds /\ set \in ConstraintRecords(size, Fs)
    BY <1>1, <1>3
  <2> HIDE DEF D, CR
  <2>2. /\ cut \in ConstraintRecords(size, Fs) /\ cut.feature = set.feature
        /\ \A q \in 0..(size + 3) : cut.boundary[q] = IF q = 0 THEN TOKEN ELSE set.boundary[q]
    BY <2>1, SetBoundaryFacts
  <2> QED
    BY <2>2 DEF D, CR
<1> HIDE DEF cut
<1>5. /\ cs \in CR /\ cs.feature = cut.feature
      /\ \A q \in D : cs.boundary[q] = IF q = size THEN TOKEN ELSE cut.boundary[q]
  <2>1. TOKEN \in Bounds /\ cut \in ConstraintRecords(size, Fs)
    BY <1>1, <1>4
  <2> HIDE DEF D, CR
  <2>2. /\ cs \in ConstraintRecords(size, Fs) /\ cs.feature = cut.feature
        /\ \A q \in 0..(size + 3) : cs.boundary[q] = IF q = size THEN TOKEN ELSE cut.boundary[q]
    BY <2>1, SetBoundaryFacts
  <2> QED
    BY <2>2 DEF D, CR
<1> HIDE DEF cs
<1>6. DOMAIN cs.feature = D
  BY <1>5 DEF ConstraintRecords
<1>7. cs.boundary[0] = TOKEN /\ cs.boundary[size] = TOKEN
  <2>1. 0 \in D /\ size \in D
    BY <1>1
  <2> HIDE DEF D, CR
  <2> QED
    BY <1>4, <1>5, <2>1
<1>8. ASSUME NEW x \in Nat, x \in D, cs.feature[x] # NoFeature
      PROVE  x < size /\ \E e \in (x + 1)..size :
               cs.boundary[e] = TOKEN /\ \A q \in (x + 1)..(e - 1) : cs.boundary[q] = INSIDE
  <2>1. f # NoFeature /\ x = from
    <3>1. f = NoFeature => cs.feature[x] = bounds.feature[x]
      <4> HIDE DEF D, CR
      <4> QED
        BY <1>3, <1>4, <1>5
    <3>2. f # NoFeature => cs.feature[x] = IF x = from THEN f ELSE bounds.feature[x]
      <4> HIDE DEF D, CR
      <4> QED
        BY <1>3, <1>4, <1>5, <1>8
    <3>3. bounds.feature[x] = NoFeature
      BY <1>2, <1>8
    <3> QED
      BY <1>8, <3>1, <3>2, <3>3
  <2>2. to \in D /\ to \in (from + 1)..size
    BY <1>1
  <2>3. \A q \in (from + 1)..(to - 1) : q \in D /\ q # 0 /\ q # size /\ q \notin {from, to}
    BY <1>1
  <2>4. cs.boundary[to] = TOKEN
    <3> HIDE DEF D, CR
    <3> QED
      BY <1>3, <1>4, <1>5, <2>1, <2>2
  <2>5. \A q \in (from + 1)..(to - 1) : cs.boundary[q] = INSIDE
    <3> HIDE DEF D, CR
    <3> QED
      BY <1>3, <1>4, <1>5, <2>1, <2>3
  <2> QED
    BY <1>1, <2>1, <2>2, <2>4, <2>5
<1>9. KeptUpTo(cs, size)
  BY <1>6, <1>7, <1>8 DEF KeptUpTo
<1> QED
  BY <1>6, <1>9 DEF cs, cut, set

LEMMA InstallFacts ==
  ASSUME NEW text \in Seq(Nat), NEW size \in 0..Len(text), NEW constrained \in BOOLEAN, NEW cs,
         constrained => KeptUpTo(cs, size) /\ DOMAIN cs.feature = 0..(size + 3),
         Install(text, size, constrained, cs)
  PROVE  SentenceInv'
<1>1. /\ memory' = text /\ lsize' = size /\ partial' = constrained
      /\ boundary' = cs.boundary /\ feature' = cs.feature
  BY DEF Install
<1>2. size \in Nat
  OBVIOUS
<1>3. ASSUME constrained, size > 0, NEW p \in 0..(size - 1), cs.feature[p] # NoFeature
      PROVE  AskedFor(p)'
  <2>1. p \in DOMAIN cs.feature /\ p \in Nat
    BY <1>2, <1>3
  <2>2. PICK e \in (p + 1)..size :
          cs.boundary[e] = TOKEN /\ \A q \in (p + 1)..(e - 1) : cs.boundary[q] = INSIDE
    BY <1>3, <2>1 DEF KeptUpTo
  <2> QED
    BY <1>1, <2>2 DEF AskedFor
<1>4. ASSUME constrained, size > 0 PROVE cs.boundary[0] = TOKEN /\ cs.boundary[size] = TOKEN
  BY <1>4 DEF KeptUpTo
<1> QED
  BY <1>1, <1>2, <1>3, <1>4 DEF SentenceInv

-----------------------------------------------------------------------------
(* VI. The words that have been found stay what they are. *)

LEMMA GoodStays ==
  ASSUME UNCHANGED <<ranges, latticeVars>>, NEW b, NEW n
  PROVE  GoodNode(b, n)' <=> GoodNode(b, n)
<1>1. /\ ranges' = ranges /\ memory' = memory /\ lsize' = lsize /\ partial' = partial
      /\ boundary' = boundary /\ feature' = feature
  BY DEF latticeVars
<1>2. Table(SpaceChar)' = Table(SpaceChar)
  BY <1>1 DEF Table, RangesOf
<1>3. EndOf(b)' = EndOf(b)
  BY <1>1 DEF EndOf, Boundary
<1>4. AfterSpace(b)' = AfterSpace(b)
  BY <1>1, <1>2, <1>3, SMTT(30), ZenonT(60) DEF AfterSpace, SeekToOtherType, Passes, InfoAt, Table, RangesOf
<1>5. OnlySpaceLeft(b)' <=> OnlySpaceLeft(b)
  BY <1>3, <1>4 DEF OnlySpaceLeft
<1>6. Keeps(b, n)' <=> Keeps(b, n)
  BY <1>1, <1>5 DEF Keeps
<1>7. Behind(n)' <=> Behind(n)
  <2>1. StringEnd' = StringEnd
    BY <1>1 DEF StringEnd, CharAt
  <2> QED
    BY <1>1, <2>1 DEF Behind
<1> QED
  BY <1>1, <1>3, <1>5, <1>6, <1>7 DEF GoodNode

Covered(p) == Reached(p) => \E f \in found : f.begin = p
GoodFound(p) ==
  \A f \in found : f.begin \in 0..(p - 1) /\ Reached(f.begin) /\ GoodNode(f.begin, f.node)

(***************************************************************************)
(* The inductive invariant: the dictionary is one from its compilation on, *)
(* the sentence and its constraints from the moment they are set; behind   *)
(* viterbi() lie the positions that are reached, each with a word, and the *)
(* words, each as it should be.                                            *)
(***************************************************************************)
LookupInv ==
  /\ phase \in {"compile", "build", "sentence", "refused", "viterbi", "died", "done"}
  /\ phase # "compile" => ArrayInv /\ CharsTyped
  /\ phase \in {"compile", "build", "sentence", "refused"} => found = {}
  /\ phase \in {"viterbi", "died", "done"} =>
       SentenceInv /\ pos \in 0..lsize /\ GoodFound(pos) /\ \A p \in 0..(pos - 1) : Covered(p)
  /\ phase = "done" => pos = lsize
  /\ phase = "died" => pos < lsize /\ DiesAt(pos)

LEMMA ArrayStays ==
  ASSUME UNCHANGED dictionaryVars
  PROVE  ArrayInv' <=> ArrayInv
<1>1. /\ key' = key /\ value' = value /\ base' = base /\ check' = check /\ used' = used
      /\ nextCheckPos' = nextCheckPos /\ todo' = todo
  BY DEF dictionaryVars, arrayVars
<1> QED
  BY <1>1 DEF ArrayInv, Pending, Root

LEMMA CharsStay ==
  ASSUME UNCHANGED ranges
  PROVE  CharsTyped' <=> CharsTyped
BY DEF CharsTyped

LEMMA SentenceStays ==
  ASSUME UNCHANGED latticeVars
  PROVE  SentenceInv' <=> SentenceInv
<1>1. /\ memory' = memory /\ lsize' = lsize /\ partial' = partial
      /\ boundary' = boundary /\ feature' = feature
  BY DEF latticeVars
<1> QED
  BY <1>1 DEF SentenceInv, AskedFor

LEMMA DeathStays ==
  ASSUME UNCHANGED <<ranges, latticeVars>>, NEW b
  PROVE  DiesAt(b)' <=> DiesAt(b)
<1>1. /\ ranges' = ranges /\ memory' = memory /\ lsize' = lsize /\ partial' = partial
      /\ boundary' = boundary /\ feature' = feature
  BY DEF latticeVars
<1>2. Table(SpaceChar)' = Table(SpaceChar)
  BY <1>1 DEF Table, RangesOf
<1>3. EndOf(b)' = EndOf(b)
  BY <1>1 DEF EndOf, Boundary
<1>4. AfterSpace(b)' = AfterSpace(b)
  BY <1>1, <1>2, <1>3, SMTT(30), ZenonT(60) DEF AfterSpace, SeekToOtherType, Passes, InfoAt, Table, RangesOf
<1>5. OnlySpaceLeft(b)' <=> OnlySpaceLeft(b)
  BY <1>3, <1>4 DEF OnlySpaceLeft
<1> QED
  BY <1>1, <1>3, <1>5 DEF DiesAt, Boundary

(* Where the words of a sentence begin to be looked up. *)
LEMMA StartLookups ==
  ASSUME LookupInv, phase # "compile", phase' = "viterbi", pos' = 0, found' = {},
         SentenceInv', UNCHANGED <<dictionaryVars, ranges>>
  PROVE  LookupInv'
<1>1. ArrayInv' /\ CharsTyped'
  BY ArrayStays, CharsStay DEF LookupInv
<1>2. pos' \in 0..lsize' /\ \A p \in 0..(pos' - 1) : FALSE
  BY DEF SentenceInv
<1>3. GoodFound(pos)'
  BY DEF GoodFound
<1> QED
  BY <1>1, <1>2, <1>3 DEF LookupInv

(* A lookup where a word ends. *)
LEMMA LookupAtKeeps ==
  ASSUME LookupInv, LookupAt
  PROVE  LookupInv'
<1> DEFINE nodes == IF Reached(pos) THEN Lookup(pos) ELSE NoNodes
           new == {[begin |-> pos, node |-> nodes[k]] : k \in 1..Len(nodes)}
<1>1. /\ phase = "viterbi" /\ pos < lsize /\ UNCHANGED <<dictionaryVars, ranges, latticeVars>>
      /\ nodes = Dies => found' = found /\ phase' = "died" /\ pos' = pos
      /\ nodes # Dies => found' = found \cup new /\ phase' = phase /\ pos' = pos + 1
  BY DEF LookupAt
<1>2. /\ ArrayInv /\ CharsTyped /\ SentenceInv /\ pos \in 0..lsize
      /\ GoodFound(pos) /\ \A p \in 0..(pos - 1) : Covered(p)
  BY <1>1 DEF LookupInv
<1>3. lsize \in Nat /\ pos \in Nat /\ pos \in 0..(lsize - 1) /\ lsize' = lsize
  BY <1>1, <1>2 DEF SentenceInv, latticeVars
<1>4. ArrayInv' /\ CharsTyped' /\ SentenceInv'
  BY <1>1, <1>2, ArrayStays, CharsStay, SentenceStays
<1>5. \A b, n : GoodNode(b, n)' <=> GoodNode(b, n)
  BY <1>1, GoodStays
<1>6. CASE nodes = Dies
  <2>1. Reached(pos)
    <3>1. Len(Dies) = 1 /\ Len(NoNodes) = 0
      BY DEF Dies, NoNodes
    <3> QED
      BY <1>6, <3>1
  <2>2. DiesAt(pos)
    BY <1>2, <1>3, <1>6, <2>1, LookupFacts DEF Outcome
  <2>3. DiesAt(pos)'
    <3>1. pos' = pos /\ UNCHANGED <<ranges, latticeVars>>
      BY <1>1, <1>6
    <3>2. \A b : DiesAt(b)' <=> DiesAt(b)
      BY <3>1, DeathStays
    <3> QED
      BY <2>2, <3>1, <3>2
  <2>4. GoodFound(pos)' /\ \A p \in 0..(pos' - 1) : Covered(p)'
    BY <1>1, <1>2, <1>5, <1>6 DEF GoodFound, Covered, Reached
  <2> QED
    BY <1>1, <1>2, <1>3, <1>4, <1>6, <2>3, <2>4 DEF LookupInv
<1>7. CASE nodes # Dies
  <2>1. /\ \A k \in 1..Len(nodes) : Reached(pos) /\ GoodNode(pos, nodes[k])
        /\ Reached(pos) => 1 \in 1..Len(nodes)
    <3>1. CASE Reached(pos)
      <4>1. Outcome(pos, nodes)
        BY <1>2, <1>3, <3>1, LookupFacts
      <4> HIDE DEF nodes
      <4> QED
        BY <1>7, <3>1, <4>1 DEF Outcome
    <3>2. CASE ~Reached(pos)
      BY <3>2 DEF NoNodes
    <3> QED
      BY <3>1, <3>2
  <2> HIDE DEF nodes
  <2>2. \A f \in new : f.begin = pos /\ Reached(pos) /\ GoodNode(pos, f.node)
    BY <2>1
  <2>3. \A f \in new : f.node.end > pos /\ f.node.end \in Int
    <3>1. Len(memory) \in Nat
      BY <1>2 DEF SentenceInv
    <3> QED
      BY <1>3, <2>2, <3>1 DEF GoodNode
  <2>4. Reached(pos) => \E f \in new : f.begin = pos
    <3> DEFINE f == [begin |-> pos, node |-> nodes[1]]
    <3>1. f.begin = pos
      OBVIOUS
    <3>2. Reached(pos) => f \in new
      BY <2>1
    <3> HIDE DEF f
    <3> QED
      BY <3>1, <3>2
  <2>5. found' = found \cup new /\ phase' = "viterbi" /\ pos' = pos + 1
    BY <1>1, <1>7
  <2> HIDE DEF new
  <2>6. \A p : Reached(p) => Reached(p)'
    BY <2>5 DEF Reached
  <2>7. \A p \in 0..pos : Reached(p)' => Reached(p)
    BY <1>3, <2>3, <2>5 DEF Reached
  <2>8. GoodFound(pos)'
    <3> SUFFICES ASSUME NEW f \in found'
                 PROVE  f.begin \in 0..pos /\ Reached(f.begin)' /\ GoodNode(f.begin, f.node)'
      BY <1>3, <2>5 DEF GoodFound
    <3>1. CASE f \in found
      BY <1>2, <1>3, <1>5, <2>6, <3>1 DEF GoodFound
    <3>2. CASE f \in new
      BY <1>3, <1>5, <2>2, <2>6, <3>2
    <3> QED
      BY <2>5, <3>1, <3>2
  <2>9. \A p \in 0..(pos' - 1) : Covered(p)'
    <3> SUFFICES ASSUME NEW p \in 0..pos, Reached(p)'
                 PROVE  \E f \in found' : f.begin = p
      BY <1>3, <2>5 DEF Covered
    <3>1. Reached(p)
      BY <2>7
    <3>2. CASE p = pos
      BY <2>4, <2>5, <3>1, <3>2
    <3>3. CASE p # pos
      <4>1. p \in 0..(pos - 1)
        BY <1>3, <3>3
      <4> QED
        BY <1>2, <2>5, <3>1, <4>1 DEF Covered
    <3> QED
      BY <3>2, <3>3
  <2>10. pos' \in 0..lsize'
    BY <1>3, <2>5
  <2> QED
    BY <1>4, <2>5, <2>8, <2>9, <2>10 DEF LookupInv
<1> QED
  BY <1>6, <1>7

LEMMA LookupInvInit == Init => LookupInv
  BY DEF Init, LookupInv

LEMMA LookupInvStep == LookupInv /\ [Next]_vars => LookupInv'
<1> SUFFICES ASSUME LookupInv, [Next]_vars PROVE LookupInv'
  OBVIOUS
<1>1. CASE CompileDictionary
  <2>1. PICK lexicon \in Lexicons : Compile(lexicon)
    BY <1>1 DEF CompileDictionary
  <2>2. KeysTyped(key', value') /\ StartBuild(key', value')
    BY <2>1, CompileFacts
  <2>3. ArrayInv'
    BY <2>2, StartArray
  <2>4. CharsTyped'
    <3>1. ranges' \in Seq(ToSet(ranges')) /\ \A i \in 1..Len(ranges') : ranges'[i].cats \in Seq(CategoryIds) \ {<< >>}
      BY <1>1, LookupAssumption DEF CompileDictionary
    <3>2. \A cats \in Seq(CategoryIds) \ {<< >>} : cats[1] \in CategoryIds
      OBVIOUS
    <3> QED
      BY <3>1, <3>2 DEF CharsTyped
  <2>5. phase' = "build" /\ found' = {}
    BY <1>1 DEF CompileDictionary, LookupInv
  <2> QED
    BY <2>3, <2>4, <2>5 DEF LookupInv
<1>2. CASE Build
  <2>1. /\ phase = "build" /\ phase' = "build" /\ found' = found /\ ranges' = ranges
        /\ Leaf \/ Insert
    BY <1>2 DEF Build, BuildStep
  <2>2. ArrayInv /\ CharsTyped /\ found = {}
    BY <2>1 DEF LookupInv
  <2>3. ArrayInv'
    BY <2>1, <2>2, LeafKeeps, InsertKeeps
  <2>4. CharsTyped'
    BY <2>1, <2>2, CharsStay
  <2> QED
    BY <2>1, <2>2, <2>3, <2>4 DEF LookupInv
<1>3. CASE Opened
  <2>1. /\ phase = "build" /\ phase' \in {"sentence", "refused"} /\ found' = found
        /\ UNCHANGED <<dictionaryVars, ranges>>
    BY <1>3 DEF Opened
  <2>2. ArrayInv' /\ CharsTyped' /\ found = {}
    BY <2>1, ArrayStays, CharsStay DEF LookupInv
  <2> QED
    BY <2>1, <2>2 DEF LookupInv
<1>4. CASE SetSentence
  <2>1. PICK s \in Sentences : Install(s.memory, s.lsize, FALSE, NoConstraints(s.lsize))
    BY <1>4 DEF SetSentence
  <2>2. s.memory \in Seq(Nat) /\ s.lsize \in 0..Len(s.memory)
    BY LookupAssumption
  <2>3. SentenceInv'
    BY <2>1, <2>2, InstallFacts
  <2> QED
    BY <1>4, <2>1, <2>3, StartLookups DEF SetSentence, Install
<1>5. CASE SetConstraints
  <2>1. PICK s \in Sentences :
          \E inner \in [1..(s.lsize - 1) -> {ANY, TOKEN, INSIDE}], f \in Features \cup {NoFeature} :
          \E from \in 0..(s.lsize - 1) : \E to \in (from + 1)..s.lsize :
            Install(s.memory, s.lsize, TRUE,
                    SetBoundary(SetBoundary(CallerSet(s.lsize, inner, f, from, to), 0, TOKEN),
                                s.lsize, TOKEN))
    BY <1>5 DEF SetConstraints, CallerSet, CallerBounds
  <2>2. PICK inner \in [1..(s.lsize - 1) -> {ANY, TOKEN, INSIDE}], f \in Features \cup {NoFeature} :
          \E from \in 0..(s.lsize - 1) : \E to \in (from + 1)..s.lsize :
            Install(s.memory, s.lsize, TRUE,
                    SetBoundary(SetBoundary(CallerSet(s.lsize, inner, f, from, to), 0, TOKEN),
                                s.lsize, TOKEN))
    BY <2>1
  <2>3. PICK from \in 0..(s.lsize - 1) : \E to \in (from + 1)..s.lsize :
          Install(s.memory, s.lsize, TRUE,
                  SetBoundary(SetBoundary(CallerSet(s.lsize, inner, f, from, to), 0, TOKEN),
                              s.lsize, TOKEN))
    BY <2>2
  <2>4. PICK to \in (from + 1)..s.lsize :
          Install(s.memory, s.lsize, TRUE,
                  SetBoundary(SetBoundary(CallerSet(s.lsize, inner, f, from, to), 0, TOKEN),
                              s.lsize, TOKEN))
    BY <2>3
  <2> DEFINE text == s.memory
             size == s.lsize
             cs == SetBoundary(SetBoundary(CallerSet(size, inner, f, from, to), 0, TOKEN),
                               size, TOKEN)
  <2>5. text \in Seq(Nat) /\ size \in 0..Len(text) /\ size \in Nat
    BY LookupAssumption
  <2>6. inner \in [1..(size - 1) -> Bounds]
    BY <2>2 DEF Bounds
  <2>7. from \in 0..(size - 1) /\ to \in (from + 1)..size /\ Install(text, size, TRUE, cs)
    BY <2>4
  <2> HIDE DEF text, size
  <2>8. KeptUpTo(cs, size) /\ DOMAIN cs.feature = 0..(size + 3)
    BY <2>5, <2>6, <2>7, CallerFacts
  <2> HIDE DEF cs
  <2>9. SentenceInv'
    BY <2>5, <2>7, <2>8, InstallFacts
  <2> QED
    BY <1>5, <2>7, <2>9, StartLookups DEF SetConstraints, Install
<1>6. CASE InitPartial
  <2>1. PICK lines \in PartialTexts :
          Install(TextOf(lines), Len(TextOf(lines)), TRUE, PartialConstraints(lines))
    BY <1>6 DEF InitPartial
  <2> DEFINE text == TextOf(lines)
             size == Len(text)
             cs == PartialConstraints(lines)
  <2>2. text \in Seq(Nat)
    BY TextFacts
  <2>3. KeptUpTo(cs, size) /\ DOMAIN cs.feature = 0..(size + 3)
    BY PartialFacts
  <2>4. Install(text, size, TRUE, cs)
    BY <2>1
  <2> HIDE DEF text, cs
  <2>5. size \in 0..Len(text)
    BY <2>2
  <2> HIDE DEF size
  <2>6. SentenceInv'
    BY <2>2, <2>3, <2>4, <2>5, InstallFacts
  <2> QED
    BY <1>6, <2>4, <2>6, StartLookups DEF InitPartial, Install
<1>7. CASE LookupAt
  BY <1>7, LookupAtKeeps
<1>8. CASE Done \/ UNCHANGED vars
  <2>1. /\ UNCHANGED <<dictionaryVars, ranges, latticeVars, pos, found>>
        /\ phase' = phase \/ (phase = "viterbi" /\ pos = lsize /\ phase' = "done")
    BY <1>8 DEF Done, vars
  <2>2. /\ ArrayInv' <=> ArrayInv
        /\ CharsTyped' <=> CharsTyped
        /\ SentenceInv' <=> SentenceInv
        /\ lsize' = lsize
    BY <2>1, ArrayStays, CharsStay, SentenceStays DEF latticeVars
  <2>3. (\A b, n : GoodNode(b, n)' <=> GoodNode(b, n)) /\ (\A b : DiesAt(b)' <=> DiesAt(b))
    BY <2>1, GoodStays, DeathStays
  <2>4. \A p : Reached(p)' <=> Reached(p)
    BY <2>1 DEF Reached
  <2>5. GoodFound(pos)' <=> GoodFound(pos)
    BY <2>1, <2>3, <2>4 DEF GoodFound
  <2>6. \A p : Covered(p)' <=> Covered(p)
    BY <2>1, <2>4 DEF Covered
  <2>7. pos' = pos /\ found' = found /\ (DiesAt(pos)' <=> DiesAt(pos))
    BY <2>1, <2>3
  <2> QED
    BY <2>1, <2>2, <2>5, <2>6, <2>7 DEF LookupInv
<1> QED
  BY <1>1, <1>2, <1>3, <1>4, <1>5, <1>6, <1>7, <1>8 DEF Next

LEMMA LookupInvariance == Spec => []LookupInv
  BY LookupInvInit, LookupInvStep, PTL DEF Spec

-----------------------------------------------------------------------------
(***************************************************************************)
(* A word keeps the constraints on its sentence, whoever set them: a       *)
(* caller (set_boundary_constraint, set_feature_constraint) or a text in   *)
(* partial format (initPartial).                                           *)
(***************************************************************************)
THEOREM ConstraintsAreKept == Spec => []ConstraintsKept
<1>1. LookupInv => ConstraintsKept
  <2> SUFFICES ASSUME LookupInv, partial, NEW f \in found
               PROVE  Keeps(f.begin, f.node)
    BY DEF ConstraintsKept, Keeps
  <2>1. GoodFound(pos)
    BY DEF LookupInv
  <2> QED
    BY <2>1 DEF GoodFound, GoodNode
<1> QED
  BY <1>1, LookupInvariance, PTL

(***************************************************************************)
(* The CHECK_DIE at the end of a lookup fails in one case only: white      *)
(* space that reaches up to a boundary, and behind it the first character  *)
(* of a token of two or more.  Everywhere else a lookup finds a word: an   *)
(* unknown one, or in the last resort one made up from the constraint.     *)
(***************************************************************************)
THEOREM DeathOnlyBeforeToken == Spec => []DiesOnlyBeforeToken
<1>1. LookupInv => DiesOnlyBeforeToken
  BY DEF LookupInv, DiesOnlyBeforeToken, DiesAt
<1> QED
  BY <1>1, LookupInvariance, PTL

(***************************************************************************)
(* The words that the lookups of a sentence find are such as the search of *)
(* Viterbi is proved correct for, if one that ends behind the sentence     *)
(* counts as ending one place behind it: whatever the dictionary holds, no *)
(* place that is reached is left without a word, and no word is empty.     *)
(* Only where nothing but white space was left does a word end behind the  *)
(* sentence, and more than one place behind it only a known word within    *)
(* the string in memory, or a word under constraints.                      *)
(***************************************************************************)
THEOREM LexiconIsDelivered == Spec => []DeliversLexicon
<1>1. LookupInv => DeliversLexicon
  <2> DEFINE capped(f) == Min({f.node.end, lsize + 1})
             S == {<<f.begin, capped(f)>> : f \in found}
             R == {0} \cup {w[2] : w \in S}
  <2> SUFFICES ASSUME LookupInv, phase = "done"
               PROVE  /\ PossibleLexicon(S, lsize)
                      /\ \A f \in found : f.node.end > lsize => OnlySpaceLeft(f.begin)
                      /\ \A f \in found : Behind(f.node)
    BY DEF DeliversLexicon, Behind
  <2>1. /\ pos = lsize /\ SentenceInv /\ CharsTyped /\ GoodFound(lsize)
        /\ \A p \in 0..(lsize - 1) : Covered(p)
    BY DEF LookupInv
  <2>2. lsize \in Nat /\ Len(memory) \in Nat
    BY <2>1 DEF SentenceInv
  <2>3. \A f \in found : f.begin \in 0..(lsize - 1) /\ Reached(f.begin) /\ GoodNode(f.begin, f.node)
    BY <2>1 DEF GoodFound
  <2>4. \A f \in found : f.node.end \in Nat /\ f.begin < f.node.end
    BY <2>2, <2>3 DEF GoodNode
  <2>5. ASSUME NEW f \in found
        PROVE  capped(f) = IF f.node.end <= lsize THEN f.node.end ELSE lsize + 1
    <3> DEFINE b == f.node.end
               n == lsize + 1
    <3>1. b \in Nat /\ n \in Nat
      BY <2>2, <2>4
    <3> HIDE DEF b, n
    <3>2. Min({b, n}) = IF b <= n THEN b ELSE n
      <4>1. CASE b <= n
        BY <3>1, <4>1, MinOfTwo
      <4>2. CASE ~(b <= n)
        <5>1. Min({n, b}) = n /\ {n, b} = {b, n}
          BY <3>1, <4>2, MinOfTwo
        <5> QED
          BY <4>2, <5>1
      <4> QED
        BY <4>1, <4>2
    <3> QED
      BY <2>2, <2>4, <3>1, <3>2 DEF b, n
  <2>6. \A f \in found : <<f.begin, capped(f)>> \in S
    OBVIOUS
  <2>7. \A w \in S : \E f \in found : w[1] = f.begin /\ w[2] = capped(f)
    OBVIOUS
  <2> HIDE DEF capped, S
  <2>8. ASSUME NEW p \in 0..lsize PROVE p \in R <=> Reached(p)
    <3>1. ASSUME NEW w \in S, w[2] = p PROVE \E f \in found : f.node.end = p
      <4>1. PICK f \in found : w[2] = capped(f)
        BY <2>7
      <4> QED
        BY <2>2, <2>5, <3>1, <4>1
    <3>2. ASSUME NEW f \in found, f.node.end = p PROVE \E w \in S : w[2] = p
      <4>1. capped(f) = p
        BY <2>2, <2>5, <3>2
      <4> QED
        BY <2>6, <4>1
    <3> QED
      BY <3>1, <3>2 DEF Reached
  <2>9. \A f \in found : f.node.end > lsize => OnlySpaceLeft(f.begin)
    <3> SUFFICES ASSUME NEW f \in found, f.node.end > lsize PROVE OnlySpaceLeft(f.begin)
      OBVIOUS
    <3>1. EndOf(f.begin) \in (f.begin + 1)..lsize
      BY <2>1, <2>3, EndOfFacts
    <3>2. f.node.end \in Int /\ f.begin \in Nat
      BY <2>2, <2>3 DEF GoodNode
    <3>3. ~(f.node.end <= EndOf(f.begin))
      BY <2>2, <3>1, <3>2
    <3> QED
      BY <2>3, <3>3 DEF GoodNode
  <2>10. \A p \in R \cap (0..(lsize - 1)) : \E w \in S : w[1] = p
    <3> SUFFICES ASSUME NEW p \in 0..(lsize - 1), p \in R PROVE \E w \in S : w[1] = p
      OBVIOUS
    <3>1. PICK f \in found : f.begin = p
      BY <2>1, <2>2, <2>8 DEF Covered
    <3> QED
      BY <2>6, <3>1
  <2>11. \A w \in S : w[1] \in R
    <3> SUFFICES ASSUME NEW w \in S PROVE w[1] \in R
      OBVIOUS
    <3>1. PICK f \in found : w[1] = f.begin
      BY <2>7
    <3>2. f.begin \in 0..lsize /\ Reached(f.begin)
      BY <2>2, <2>3
    <3> HIDE DEF R
    <3> QED
      BY <2>8, <3>1, <3>2
  <2>12. \A w \in S : w[1] < w[2] /\ w[2] <= lsize + 1
    <3> SUFFICES ASSUME NEW w \in S PROVE w[1] < w[2] /\ w[2] <= lsize + 1
      OBVIOUS
    <3>1. PICK f \in found : w[1] = f.begin /\ w[2] = capped(f)
      BY <2>7
    <3>2. f.begin \in 0..(lsize - 1) /\ f.node.end \in Nat /\ f.begin < f.node.end
      BY <2>3, <2>4
    <3> QED
      BY <2>2, <2>5, <3>1, <3>2
  <2>13. PossibleLexicon(S, lsize)
    BY <2>10, <2>11, <2>12 DEF PossibleLexicon
  <2> QED
    BY <2>3, <2>9, <2>13 DEF GoodNode
<1> QED
  BY <1>1, LookupInvariance, PTL

-----------------------------------------------------------------------------
(* VII. The double array is a trie of the keys. *)

KeyIds == 1..Len(key)
Levels(i) == 0..(Len(key[i]) + 1)

(* The way to a node: the codes on the first d levels of a key. *)
Way(i, d) == [m \in 1..d |-> Code(i, m - 1)]

KeysSorted == \A i, j \in KeyIds : i < j => SurfaceLess(key[i], key[j])

LEMMA KeyFacts ==
  ASSUME KeysTyped(key, value), NEW i \in KeyIds
  PROVE  /\ key[i] \in Seq(Nat) /\ Len(key[i]) \in Nat \ {0} /\ i \in Nat /\ value[i] \in Int
         /\ \A d \in 0..Len(key[i]) : Code(i, d) \in Nat /\ (Code(i, d) = 0 <=> d = Len(key[i]))
         /\ \A d \in 0..(Len(key[i]) - 1) : d + 1 \in 1..Len(key[i]) /\ Code(i, d) = key[i][d + 1] + 1
<1>1. key[i] \in Seq(Nat) /\ key[i] # << >> /\ i \in Nat
  <2>1. key \in Seq(Seq(Nat) \ {<< >>}) /\ i \in 1..Len(key)
    BY DEF KeysTyped, KeyIds
  <2>2. key[i] \in Seq(Nat) \ {<< >>}
    BY <2>1, ElementOfSeq
  <2> QED
    BY <2>1, <2>2
<1>2. Len(key[i]) \in Nat \ {0}
  BY <1>1
<1>3. value[i] \in Int
  <2>1. value \in Seq(Int) /\ i \in 1..Len(value)
    BY DEF KeysTyped, KeyIds
  <2> QED
    BY <2>1, ElementOfSeq
<1>4. \A d \in 0..(Len(key[i]) - 1) :
        d + 1 \in 1..Len(key[i]) /\ key[i][d + 1] \in Nat /\ Code(i, d) = key[i][d + 1] + 1
  <2> DEFINE k == key[i]
  <2>1. k \in Seq(Nat) /\ Len(k) \in Nat
    BY <1>1
  <2> HIDE DEF k
  <2>2. \A d \in 0..(Len(k) - 1) : d + 1 \in 1..Len(k) /\ k[d + 1] \in Nat /\ Len(k) # d
    BY <2>1
  <2>3. \A d : Code(i, d) = IF Len(k) = d THEN 0 ELSE k[d + 1] + 1
    BY DEF Code, k
  <2> QED
    BY <2>2, <2>3 DEF k
<1>5. Code(i, Len(key[i])) = 0
  BY DEF Code
<1>6. \A d \in 0..Len(key[i]) : d = Len(key[i]) \/ d \in 0..(Len(key[i]) - 1)
  BY <1>2
<1>7. \A d \in 0..Len(key[i]) : Code(i, d) \in Nat /\ (Code(i, d) = 0 <=> d = Len(key[i]))
  <2> SUFFICES ASSUME NEW d \in 0..Len(key[i])
               PROVE  Code(i, d) \in Nat /\ (Code(i, d) = 0 <=> d = Len(key[i]))
    OBVIOUS
  <2>1. CASE d = Len(key[i])
    BY <1>5, <2>1
  <2>2. CASE d # Len(key[i])
    <3>1. key[i][d + 1] \in Nat /\ Code(i, d) = key[i][d + 1] + 1
      BY <1>4, <1>6, <2>2
    <3> DEFINE b == key[i][d + 1]
    <3>2. b \in Nat
      BY <3>1
    <3> HIDE DEF b
    <3>3. b + 1 \in Nat /\ b + 1 # 0
      BY <3>2
    <3> QED
      BY <2>2, <3>1, <3>3 DEF b
  <2> QED
    BY <2>1, <2>2
<1> QED
  BY <1>1, <1>2, <1>3, <1>4, <1>7

(* Ways are equal if they have the same codes. *)
LEMMA WayFacts ==
  /\ \A i, j : \A d, e \in Nat : Way(i, d) = Way(j, e) => d = e
  /\ \A i, j : \A d \in Nat : Way(i, d) = Way(j, d) <=> \A m \in 0..(d - 1) : Code(i, m) = Code(j, m)
  /\ \A i, j : \A d \in Nat :
       Way(i, d + 1) = Way(j, d + 1) <=> Way(i, d) = Way(j, d) /\ Code(i, d) = Code(j, d)
  /\ \A i, j : Way(i, 0) = Way(j, 0)
<1>1. ASSUME NEW i, NEW j, NEW d \in Nat, NEW e \in Nat, Way(i, d) = Way(j, e) PROVE d = e
  <2>1. DOMAIN Way(i, d) = 1..d /\ DOMAIN Way(j, e) = 1..e
    BY DEF Way
  <2>2. 1..d = 1..e
    BY <1>1, <2>1
  <2>3. e \in 1..e \/ e = 0
    OBVIOUS
  <2>4. d \in 1..d \/ d = 0
    OBVIOUS
  <2> QED
    BY <2>2, <2>3, <2>4
<1>2. ASSUME NEW i, NEW j, NEW d \in Nat
      PROVE  Way(i, d) = Way(j, d) <=> \A m \in 0..(d - 1) : Code(i, m) = Code(j, m)
  <2>1. Way(i, d) = Way(j, d) <=> \A m \in 1..d : Code(i, m - 1) = Code(j, m - 1)
    <3>1. ASSUME Way(i, d) = Way(j, d), NEW m \in 1..d PROVE Code(i, m - 1) = Code(j, m - 1)
      <4>1. Way(i, d)[m] = Code(i, m - 1) /\ Way(j, d)[m] = Code(j, m - 1)
        BY DEF Way
      <4> QED
        BY <3>1, <4>1
    <3>2. ASSUME \A m \in 1..d : Code(i, m - 1) = Code(j, m - 1) PROVE Way(i, d) = Way(j, d)
      BY <3>2 DEF Way
    <3> QED
      BY <3>1, <3>2
  <2>2. \A m \in 1..d : m - 1 \in 0..(d - 1)
    OBVIOUS
  <2>3. \A m \in 0..(d - 1) : m + 1 \in 1..d /\ (m + 1) - 1 = m
    OBVIOUS
  <2>4. (\A m \in 1..d : Code(i, m - 1) = Code(j, m - 1))
        => \A m \in 0..(d - 1) : Code(i, m) = Code(j, m)
    <3> SUFFICES ASSUME \A m \in 1..d : Code(i, m - 1) = Code(j, m - 1), NEW m \in 0..(d - 1)
                 PROVE  Code(i, m) = Code(j, m)
      OBVIOUS
    <3>1. Code(i, (m + 1) - 1) = Code(j, (m + 1) - 1)
      BY <2>3
    <3> QED
      BY <2>3, <3>1
  <2> QED
    BY <2>1, <2>2, <2>4
<1>3. ASSUME NEW i, NEW j, NEW d \in Nat
      PROVE  Way(i, d + 1) = Way(j, d + 1) <=> Way(i, d) = Way(j, d) /\ Code(i, d) = Code(j, d)
  <2>1. d + 1 \in Nat /\ (d + 1) - 1 = d /\ d \in 0..d
    OBVIOUS
  <2>2. \A m : m \in 0..d <=> m \in 0..(d - 1) \/ m = d
    OBVIOUS
  <2>3. Way(i, d + 1) = Way(j, d + 1) <=> \A m \in 0..d : Code(i, m) = Code(j, m)
    BY <1>2, <2>1
  <2> QED
    BY <1>2, <2>2, <2>3
<1>4. ASSUME NEW i, NEW j PROVE Way(i, 0) = Way(j, 0)
  BY DEF Way
<1> QED
  BY <1>1, <1>2, <1>3, <1>4

(* Keys that share an inner node do so as inner nodes; a leaf is of one key. *)
LEMMA SharedNodes ==
  ASSUME KeysTyped(key, value), NEW i \in KeyIds, NEW j \in KeyIds, NEW d \in Levels(i), d \in Levels(j),
         Way(i, d) = Way(j, d)
  PROVE  /\ d <= Len(key[i]) => d <= Len(key[j])
         /\ d > Len(key[i]) => key[i] = key[j]
<1>1. /\ Len(key[i]) \in Nat \ {0} /\ Len(key[j]) \in Nat \ {0} /\ d \in Nat
      /\ key[i] \in Seq(Nat) /\ key[j] \in Seq(Nat)
  BY KeyFacts DEF Levels
<1>2. d <= Len(key[i]) + 1 /\ d <= Len(key[j]) + 1
  BY <1>1 DEF Levels
<1>3. \A m \in 0..(d - 1) : Code(i, m) = Code(j, m)
  BY <1>1, WayFacts
<1>4. d # 0 => d - 1 \in 0..(d - 1) /\ d - 1 \in 0..Len(key[i]) /\ d - 1 \in 0..Len(key[j])
  BY <1>1, <1>2
<1>5. d # 0 => (d - 1 = Len(key[i]) <=> d - 1 = Len(key[j]))
  <2> SUFFICES ASSUME d # 0 PROVE d - 1 = Len(key[i]) <=> d - 1 = Len(key[j])
    OBVIOUS
  <2> DEFINE e == d - 1
  <2>1. e \in 0..(d - 1) /\ e \in 0..Len(key[i]) /\ e \in 0..Len(key[j])
    BY <1>4
  <2> HIDE DEF e
  <2>2. Code(i, e) = 0 <=> e = Len(key[i])
    BY <2>1, KeyFacts
  <2>3. Code(j, e) = 0 <=> e = Len(key[j])
    BY <2>1, KeyFacts
  <2>4. Code(i, e) = Code(j, e)
    BY <1>3, <2>1
  <2> QED
    BY <2>2, <2>3, <2>4 DEF e
<1>6. ASSUME d > Len(key[i]) PROVE key[i] = key[j]
  <2>1. d = Len(key[i]) + 1 /\ Len(key[j]) = Len(key[i])
    BY <1>1, <1>2, <1>5, <1>6
  <2> DEFINE n == Len(key[i])
  <2>2. ASSUME NEW q \in 1..n PROVE key[i][q] = key[j][q]
    <3> DEFINE r == q - 1
    <3>1. r \in 0..(n - 1) /\ r + 1 = q /\ r \in 0..(d - 1)
      BY <1>1, <2>1
    <3> HIDE DEF r, n
    <3>2. Code(i, r) = key[i][q] + 1 /\ Code(j, r) = key[j][q] + 1
      BY <2>1, <3>1, KeyFacts DEF n
    <3>3. Code(i, r) = Code(j, r)
      BY <1>3, <3>1
    <3>4. key[i][q] \in Nat /\ key[j][q] \in Nat
      BY <1>1, <2>1, ElementOfSeq DEF n
    <3> QED
      BY <3>2, <3>3, <3>4
  <2>3. n \in Nat /\ Len(key[j]) = n
    BY <1>1, <2>1
  <2> HIDE DEF n
  <2> DEFINE s == key[i]
             t == key[j]
  <2>4. s \in Seq(Nat) /\ t \in Seq(Nat) /\ Len(s) = n /\ Len(t) = n /\ \A q \in 1..n : s[q] = t[q]
    BY <1>1, <2>2, <2>3 DEF n
  <2> HIDE DEF s, t
  <2>5. s = t
    BY <2>3, <2>4
  <2> QED
    BY <2>5 DEF s, t
<1> QED
  BY <1>1, <1>2, <1>5, <1>6, SMTT(30)

(* Of two keys below one node the smaller one has the smaller code. *)
LEMMA CodesAscend ==
  ASSUME KeysTyped(key, value), KeysSorted, NEW i \in KeyIds, NEW j \in KeyIds, i < j,
         NEW d \in 0..Len(key[i]), d <= Len(key[j]), Way(i, d) = Way(j, d)
  PROVE  Code(i, d) <= Code(j, d)
<1>1. /\ Len(key[i]) \in Nat \ {0} /\ Len(key[j]) \in Nat \ {0} /\ d \in Nat
      /\ key[i] \in Seq(Nat) /\ key[j] \in Seq(Nat)
  BY KeyFacts
<1>2. PICK q \in 1..Len(key[j]) :
        /\ \A r \in 1..(q - 1) : r <= Len(key[i]) /\ key[i][r] = key[j][r]
        /\ q > Len(key[i]) \/ key[i][q] < key[j][q]
  BY DEF KeysSorted, SurfaceLess
<1>3. \A m \in 0..(d - 1) : Code(i, m) = Code(j, m)
  BY <1>1, WayFacts
<1> DEFINE c == q - 1
<1>4. c \in Nat /\ c + 1 = q /\ c \in 0..(Len(key[j]) - 1) /\ c \in 0..Len(key[j])
  BY <1>1
<1>5. Code(j, c) = key[j][q] + 1 /\ key[j][q] \in Nat
  <2> HIDE DEF c
  <2>1. Code(j, c) = key[j][c + 1] + 1
    BY <1>4, KeyFacts
  <2> QED
    BY <1>1, <1>4, <2>1, ElementOfSeq
<1>6. q <= Len(key[i]) => /\ c \in 0..(Len(key[i]) - 1) /\ Code(i, c) = key[i][q] + 1
                          /\ key[i][q] \in Nat
  <2> SUFFICES ASSUME q <= Len(key[i])
               PROVE  /\ c \in 0..(Len(key[i]) - 1) /\ Code(i, c) = key[i][q] + 1 /\ key[i][q] \in Nat
    OBVIOUS
  <2>1. c \in 0..(Len(key[i]) - 1) /\ q \in 1..Len(key[i])
    BY <1>1, <1>4
  <2> HIDE DEF c
  <2>2. Code(i, c) = key[i][c + 1] + 1
    BY <2>1, KeyFacts
  <2> QED
    BY <1>1, <1>4, <2>1, <2>2, ElementOfSeq
<1>7. q <= Len(key[i]) => Code(i, c) < Code(j, c)
  <2> SUFFICES ASSUME q <= Len(key[i]) PROVE Code(i, c) < Code(j, c)
    OBVIOUS
  <2>1. key[i][q] < key[j][q]
    BY <1>1, <1>2
  <2> HIDE DEF c
  <2> DEFINE a == key[i][q]
             b == key[j][q]
  <2>2. a \in Nat /\ b \in Nat /\ a < b /\ Code(i, c) = a + 1 /\ Code(j, c) = b + 1
    BY <1>5, <1>6, <2>1
  <2> HIDE DEF a, b
  <2> QED
    BY <2>2
<1> HIDE DEF c
<1>8. Code(i, d) \in Nat /\ Code(j, d) \in Nat /\ (d = Len(key[i]) => Code(i, d) = 0)
  BY <1>1, KeyFacts
<1>9. CASE c < d
  <2>1. c \in 0..(d - 1) /\ q <= Len(key[i])
    BY <1>1, <1>4, <1>9
  <2>2. Code(i, c) = Code(j, c) /\ Code(i, c) < Code(j, c)
    BY <1>3, <1>7, <2>1
  <2>3. Code(j, c) \in Nat
    BY <1>4, KeyFacts
  <2> QED
    BY <2>2, <2>3
<1>10. CASE c = d
  <2>1. q <= Len(key[i]) => Code(i, d) < Code(j, d)
    BY <1>7, <1>10
  <2>2. q > Len(key[i]) => d = Len(key[i])
    BY <1>1, <1>4, <1>10
  <2> QED
    BY <1>1, <1>8, <2>1, <2>2
<1>11. CASE d < c
  <2>1. d + 1 \in 1..(q - 1)
    BY <1>1, <1>4, <1>11
  <2>2. d + 1 <= Len(key[i]) /\ key[i][d + 1] = key[j][d + 1]
    BY <1>2, <2>1
  <2>3. d \in 0..(Len(key[i]) - 1) /\ d \in 0..(Len(key[j]) - 1)
    BY <1>1, <1>4, <1>11, <2>2
  <2>4. Code(i, d) = key[i][d + 1] + 1 /\ Code(j, d) = key[j][d + 1] + 1
    BY <2>3, KeyFacts
  <2>5. Code(i, d) = Code(j, d)
    BY <2>2, <2>4
  <2> QED
    BY <1>8, <2>5
<1> QED
  BY <1>1, <1>4, <1>9, <1>10, <1>11

(* Of keys in order, each child that fetch() finds has those with its code. *)
LEMMA FetchRanges ==
  ASSUME KeysTyped(key, value), NEW n \in Pending, InOrder(n), Within(n) = n.left..(n.right - 1)
  PROVE  /\ \A k \in 1..Len(Fetch(n)) :
              /\ Fetch(n)[k].depth = n.depth + 1
              /\ Fetch(n)[k].left \in Within(n)
              /\ Code(Fetch(n)[k].left, n.depth) = Fetch(n)[k].code
              /\ \A i \in Nat : Fetch(n)[k].left <= i /\ i < Fetch(n)[k].right
                                <=> i \in Within(n) /\ Code(i, n.depth) = Fetch(n)[k].code
         /\ \A k, m \in 1..Len(Fetch(n)) : k # m => Fetch(n)[k].code # Fetch(n)[m].code
         /\ \A c \in Codes(n) : \E k \in 1..Len(Fetch(n)) : Fetch(n)[k].code = c
<1> DEFINE C == Codes(n)
           W == Within(n)
           d == n.depth
           at(c) == {i \in W : Code(i, d) = c}
           first(c) == Min(at(c))
           after(c) == {e \in C : e > c}
           right(c) == IF after(c) = {} THEN n.right ELSE first(Min(after(c)))
           child(c) == [depth |-> n.depth + 1, code |-> c, left |-> first(c), right |-> right(c)]
           codes == Ascending(C)
<1>1. /\ W \in SUBSET Nat /\ C \in SUBSET Nat /\ IsFiniteSet(C)
      /\ \A i \in W : Code(i, d) \in C
      /\ n.left \in Nat /\ n.right \in Int /\ W = n.left..(n.right - 1)
  <2>1. W \subseteq Nat /\ C \in SUBSET Nat /\ IsFiniteSet(C)
    BY CodesFacts
  <2>2. n.left \in Nat /\ n.right \in Int
    BY DEF Pending
  <2> QED
    BY <2>1, <2>2 DEF Codes
<1>2. \A i, j \in W : i < j => Code(i, d) <= Code(j, d)
  BY DEF InOrder
<1>3. ASSUME NEW c \in C
      PROVE  first(c) \in W /\ Code(first(c), d) = c /\ \A i \in W : Code(i, d) = c => first(c) <= i
  <2>1. at(c) \subseteq W /\ at(c) # {} /\ \A i \in at(c) : Code(i, d) = c
    BY DEF Codes
  <2>2. \A i \in W : Code(i, d) = c => i \in at(c)
    OBVIOUS
  <2> HIDE DEF at
  <2>3. at(c) \in SUBSET Nat
    BY <1>1, <2>1
  <2>4. Min(at(c)) \in at(c) /\ \A i \in at(c) : Min(at(c)) <= i
    BY <2>1, <2>3, MinOfNats
  <2> QED
    BY <2>1, <2>2, <2>4
<1> HIDE DEF W, d, at, first
<1>4. ASSUME NEW c \in C, NEW i \in Nat
      PROVE  first(c) <= i /\ i < right(c) <=> i \in W /\ Code(i, d) = c
  <2>1. first(c) \in W /\ first(c) \in Nat /\ Code(first(c), d) = c /\ c \in Nat
    BY <1>1, <1>3
  <2>2. \A j \in W : Code(j, d) \in Nat
    BY <1>1
  <2>3. ASSUME i \in W, first(c) <= i PROVE c <= Code(i, d)
    <3>1. i = first(c) \/ first(c) < i
      BY <2>1, <2>3
    <3> QED
      BY <1>2, <2>1, <2>3, <3>1
  <2>4. CASE after(c) = {}
    <3>1. right(c) = n.right
      BY <2>4
    <3>2. \A e \in C : ~(e > c)
      BY <2>4
    <3>3. ASSUME first(c) <= i, i < n.right PROVE i \in W /\ Code(i, d) = c
      <4>1. i \in W
        BY <1>1, <2>1, <3>3
      <4>2. c <= Code(i, d) /\ ~(Code(i, d) > c)
        BY <1>1, <2>3, <3>2, <3>3, <4>1
      <4> QED
        BY <2>1, <2>2, <4>1, <4>2
    <3>4. ASSUME i \in W, Code(i, d) = c PROVE first(c) <= i /\ i < n.right
      BY <1>1, <1>3, <3>4
    <3> QED
      BY <3>1, <3>3, <3>4
  <2>5. CASE after(c) # {}
    <3> DEFINE e == Min(after(c))
    <3>1. e \in after(c) /\ \A x \in after(c) : e <= x
      <4>1. after(c) \in SUBSET Nat
        BY <1>1
      <4> HIDE DEF after
      <4> QED
        BY <2>5, <4>1, MinOfNats
    <3>2. e \in C /\ e > c /\ e \in Nat /\ \A x \in C : x > c => e <= x
      <4> HIDE DEF e
      <4> QED
        BY <1>1, <3>1
    <3>3. right(c) = first(e)
      BY <2>5
    <3> HIDE DEF e
    <3>4. first(e) \in W /\ first(e) \in Nat /\ Code(first(e), d) = e
          /\ \A j \in W : Code(j, d) = e => first(e) <= j
      BY <1>1, <1>3, <3>2
    <3>5. ASSUME first(c) <= i, i < first(e) PROVE i \in W /\ Code(i, d) = c
      <4>1. i \in W
        BY <1>1, <2>1, <3>4, <3>5
      <4>2. c <= Code(i, d) /\ Code(i, d) <= e /\ Code(i, d) # e
        BY <1>2, <2>3, <3>4, <3>5, <4>1
      <4>3. ~(Code(i, d) > c)
        BY <1>1, <2>2, <3>2, <4>1, <4>2
      <4> QED
        BY <2>1, <2>2, <4>1, <4>2, <4>3
    <3>6. ASSUME i \in W, Code(i, d) = c PROVE first(c) <= i /\ i < first(e)
      <4>1. first(c) <= i
        BY <1>3, <3>6
      <4>2. ~(first(e) <= i)
        <5> SUFFICES ASSUME first(e) <= i PROVE FALSE
          OBVIOUS
        <5>1. first(e) = i \/ first(e) < i
          BY <3>4
        <5>2. e <= c
          BY <1>2, <2>1, <3>2, <3>4, <3>6, <5>1
        <5> QED
          BY <2>1, <3>2, <5>2
      <4> QED
        BY <3>4, <4>1, <4>2
    <3> QED
      BY <3>3, <3>5, <3>6
  <2> QED
    BY <2>4, <2>5
<1> HIDE DEF right
<1>5. /\ codes \in Seq(C) /\ Len(codes) \in Nat
      /\ \A c \in C : \E k \in 1..Len(codes) : codes[k] = c
      /\ \A k, m \in 1..Len(codes) : k < m => codes[k] < codes[m]
  <2> HIDE DEF C
  <2> QED
    BY <1>1, AscendingFacts
<1>6. Fetch(n) = [k \in 1..Len(codes) |-> child(codes[k])]
  BY DEF Fetch, right, first, at, W, d
<1> HIDE DEF codes, child
<1>7. Len(Fetch(n)) = Len(codes) /\ \A k \in 1..Len(codes) : codes[k] \in C /\ Fetch(n)[k] = child(codes[k])
  <2>1. \A k \in 1..Len(codes) : codes[k] \in C
    BY <1>5, ElementOfSeq
  <2> QED
    BY <1>5, <1>6, <2>1
<1>8. \A c : /\ child(c).depth = n.depth + 1 /\ child(c).code = c /\ child(c).left = first(c)
             /\ child(c).right = right(c)
  BY DEF child
<1>9. ASSUME NEW k \in 1..Len(Fetch(n))
      PROVE  /\ Fetch(n)[k].depth = n.depth + 1
             /\ Fetch(n)[k].left \in W
             /\ Code(Fetch(n)[k].left, d) = Fetch(n)[k].code
             /\ \A i \in Nat : Fetch(n)[k].left <= i /\ i < Fetch(n)[k].right
                               <=> i \in W /\ Code(i, d) = Fetch(n)[k].code
  <2>1. codes[k] \in C /\ Fetch(n)[k] = child(codes[k])
    BY <1>7
  <2> QED
    BY <1>3, <1>4, <1>8, <2>1
<1>10. ASSUME NEW k \in 1..Len(Fetch(n)), NEW m \in 1..Len(Fetch(n)), k # m
       PROVE  Fetch(n)[k].code # Fetch(n)[m].code
  <2>1. k \in 1..Len(codes) /\ m \in 1..Len(codes) /\ Fetch(n)[k].code = codes[k] /\ Fetch(n)[m].code = codes[m]
    BY <1>7, <1>8
  <2>2. codes[k] < codes[m] \/ codes[m] < codes[k]
    BY <1>5, <1>10, <2>1
  <2>3. codes[k] \in Nat /\ codes[m] \in Nat
    BY <1>1, <1>7, <2>1
  <2> QED
    BY <2>1, <2>2, <2>3
<1>11. ASSUME NEW c \in C PROVE \E k \in 1..Len(Fetch(n)) : Fetch(n)[k].code = c
  BY <1>5, <1>7, <1>8
<1> QED
  BY <1>9, <1>10, <1>11 DEF W, d

-----------------------------------------------------------------------------
(***************************************************************************)
(* The trie while it is built: place has the cell of each node that has    *)
(* one, inner are the nodes that have children.  No two of these have the  *)
(* same base, and every cell that check names a base for is of a child.    *)
(***************************************************************************)
BaseOf(place, w) == At(base, place[w])
WayTo(n) == Way(n.left, n.depth)
IsPending(w) == \E k \in 1..Len(todo) : WayTo(todo[k]) = w

ChildrenPlaced(place, i, d) ==
  LET w == Way(i, d)
      v == Way(i, d + 1)
  IN /\ d <= Len(key[i])
     /\ BaseOf(place, w) \in used
     /\ v \in DOMAIN place /\ place[v] = BaseOf(place, w) + Code(i, d)
     /\ At(check, place[v]) = BaseOf(place, w)

Visited(place, inner, i, d) ==
  IF d <= Len(key[i]) THEN Way(i, d) \in inner
  ELSE BaseOf(place, Way(i, d)) = -value[i] - 1 /\ value[i] >= 0

PendingNode(place, inner, n) ==
  /\ n.depth \in Levels(n.left)
  /\ WayTo(n) \in DOMAIN place /\ WayTo(n) \notin inner /\ place[WayTo(n)] = n.cell
  /\ \A i \in KeyIds : n.left <= i /\ i < n.right <=> n.depth \in Levels(i) /\ Way(i, n.depth) = WayTo(n)

Placed(place, inner) ==
  /\ place \in [DOMAIN place -> Nat] /\ inner \subseteq DOMAIN place
  /\ \A i \in KeyIds : Way(i, 0) \in DOMAIN place /\ place[Way(i, 0)] = 0
  /\ \A w \in DOMAIN place : \E i \in KeyIds : \E d \in Levels(i) : w = Way(i, d)
  /\ \A i \in KeyIds : \A d \in Levels(i) :
       d > 0 /\ Way(i, d) \in DOMAIN place => Way(i, d - 1) \in inner
Branches(place, inner) ==
  /\ \A i \in KeyIds : \A d \in Levels(i) : Way(i, d) \in inner => ChildrenPlaced(place, i, d)
  /\ \A v, w \in inner : BaseOf(place, v) = BaseOf(place, w) => v = w
  /\ \A p \in Nat : At(check, p) # 0 =>
       \E i \in KeyIds : \E d \in Levels(i) :
         Way(i, d) \in inner /\ p = BaseOf(place, Way(i, d)) + Code(i, d)
Visits(place, inner) ==
  /\ \A i \in KeyIds : \A d \in Levels(i) :
       Way(i, d) \in DOMAIN place => IsPending(Way(i, d)) \/ Visited(place, inner, i, d)
  /\ \A k \in 1..Len(todo) : PendingNode(place, inner, todo[k])
  /\ \A k, m \in 1..Len(todo) : k # m => WayTo(todo[k]) # WayTo(todo[m])
Trie(place, inner) == Placed(place, inner) /\ Branches(place, inner) /\ Visits(place, inner)

(* No two nodes have the same cell. *)
LEMMA OwnCells ==
  ASSUME ArrayInv, NEW place, NEW inner, Placed(place, inner), Branches(place, inner),
         NEW v \in DOMAIN place, NEW w \in DOMAIN place, place[v] = place[w]
  PROVE  v = w
<1>1. KeysTyped(key, value) /\ used \subseteq Nat \ {0}
  BY DEF ArrayInv
<1> DEFINE Node(u, i, d) ==
             /\ d \in Levels(i) /\ u = Way(i, d)
             /\ d = 0 => place[u] = 0
             /\ d > 0 => /\ d - 1 \in Levels(i) /\ d - 1 \in 0..Len(key[i])
                         /\ Way(i, d - 1) \in inner /\ BaseOf(place, Way(i, d - 1)) \in Nat \ {0}
                         /\ place[u] = BaseOf(place, Way(i, d - 1)) + Code(i, d - 1)
                         /\ Code(i, d - 1) \in Nat
                         /\ At(check, place[u]) = BaseOf(place, Way(i, d - 1))
<1>2. ASSUME NEW u \in DOMAIN place
      PROVE  \E i \in KeyIds : \E d \in Nat : Node(u, i, d)
  <2>1. PICK i \in KeyIds : \E d \in Levels(i) : u = Way(i, d)
    BY DEF Placed
  <2>2. PICK d \in Levels(i) : u = Way(i, d)
    BY <2>1
  <2>3. d \in Nat /\ Len(key[i]) \in Nat
    BY <1>1, KeyFacts DEF Levels
  <2>4. CASE d = 0
    <3>1. place[u] = 0
      BY <2>2, <2>4 DEF Placed
    <3> QED
      BY <2>2, <2>3, <2>4, <3>1
  <2>5. CASE d > 0
    <3> DEFINE e == d - 1
    <3>1. e \in Levels(i) /\ e \in 0..Len(key[i]) /\ e + 1 = d
      BY <2>3, <2>5 DEF Levels
    <3>2. Way(i, e) \in inner
      BY <2>2, <2>5 DEF Placed
    <3> HIDE DEF e
    <3>3. ChildrenPlaced(place, i, e)
      BY <3>1, <3>2 DEF Branches
    <3>4. /\ BaseOf(place, Way(i, e)) \in used /\ place[u] = BaseOf(place, Way(i, e)) + Code(i, e)
          /\ At(check, place[u]) = BaseOf(place, Way(i, e))
      BY <2>2, <3>1, <3>3 DEF ChildrenPlaced
    <3>5. BaseOf(place, Way(i, e)) \in Nat \ {0} /\ Code(i, e) \in Nat
      BY <1>1, <3>1, <3>4, KeyFacts
    <3> QED
      BY <2>2, <2>3, <2>5, <3>1, <3>2, <3>4, <3>5 DEF e
  <2> QED
    BY <2>3, <2>4, <2>5
<1>3. PICK i \in KeyIds : \E d \in Nat : Node(v, i, d)
  BY <1>2
<1>4. PICK d \in Nat : Node(v, i, d)
  BY <1>3
<1>5. PICK j \in KeyIds : \E e \in Nat : Node(w, j, e)
  BY <1>2
<1>6. PICK e \in Nat : Node(w, j, e)
  BY <1>5
<1>7. CASE d = 0 /\ e = 0
  BY <1>4, <1>6, <1>7, WayFacts
<1>8. CASE d > 0 /\ e = 0
  BY <1>4, <1>6, <1>8
<1>9. CASE d = 0 /\ e > 0
  BY <1>4, <1>6, <1>9
<1>10. CASE d > 0 /\ e > 0
  <2> DEFINE a == d - 1
             b == e - 1
  <2>1. a \in Nat /\ b \in Nat /\ a + 1 = d /\ b + 1 = e
    BY <1>10
  <2>2. BaseOf(place, Way(i, a)) = BaseOf(place, Way(j, b)) /\ Way(i, a) \in inner /\ Way(j, b) \in inner
    BY <1>4, <1>6, <1>10
  <2>3. Way(i, a) = Way(j, b)
    BY <2>2 DEF Branches
  <2>4. Code(i, a) = Code(j, b)
    <3> DEFINE x == BaseOf(place, Way(i, a))
               p == Code(i, a)
               q == Code(j, b)
    <3>1. x \in Nat /\ p \in Nat /\ q \in Nat /\ x + p = x + q
      BY <1>4, <1>6, <1>10, <2>2
    <3> HIDE DEF x, p, q
    <3>2. p = q
      BY <3>1
    <3> QED
      BY <3>2 DEF p, q
  <2> HIDE DEF a, b
  <2>5. a = b
    BY <2>1, <2>3, WayFacts
  <2>6. Way(i, a + 1) = Way(j, a + 1)
    BY <2>1, <2>3, <2>4, <2>5, WayFacts
  <2> QED
    BY <1>4, <1>6, <2>1, <2>5, <2>6
<1> QED
  BY <1>7, <1>8, <1>9, <1>10

(* A node that is to be visited is a leaf, or all its keys go on. *)
LEMMA WholeRange ==
  ASSUME KeysTyped(key, value), NEW n \in Pending, NEW place, NEW inner, PendingNode(place, inner, n)
  PROVE  /\ n.left \in KeyIds /\ n.depth \in Levels(n.left) /\ n.left \in Nat /\ n.depth \in Nat
         /\ Within(n) = {} => n.depth > Len(key[n.left])
         /\ Within(n) # {} => n.depth <= Len(key[n.left]) /\ Within(n) = n.left..(n.right - 1)
         /\ \A i \in n.left..(n.right - 1) :
              i \in KeyIds /\ n.depth \in Levels(i) /\ Way(i, n.depth) = WayTo(n)
<1> DEFINE l == n.left
           d == n.depth
           R == n.left..(n.right - 1)
<1>1. l \in KeyIds /\ d \in Levels(l) /\ l \in Nat /\ n.right \in Int /\ d \in Nat
      /\ Len(key) \in Nat /\ n.right <= Len(key) + 1
  BY DEF Pending, PendingNode, KeyIds, KeysTyped
<1>2. \A i \in KeyIds : l <= i /\ i < n.right <=> d \in Levels(i) /\ Way(i, d) = Way(l, d)
  BY DEF PendingNode, WayTo
<1>3. \A i \in R : i \in KeyIds /\ d \in Levels(i) /\ Way(i, d) = Way(l, d)
  <2> SUFFICES ASSUME NEW i \in R PROVE i \in KeyIds /\ d \in Levels(i) /\ Way(i, d) = Way(l, d)
    OBVIOUS
  <2>1. i \in KeyIds /\ l <= i /\ i < n.right
    BY <1>1 DEF KeyIds
  <2> HIDE DEF l, d, R
  <2> QED
    BY <1>2, <2>1
<1>4. l \in R
  <2>1. l <= l /\ l < n.right
    <3> HIDE DEF d
    <3> QED
      BY <1>1, <1>2
  <2> QED
    BY <1>1, <2>1
<1>5. Within(n) = {i \in R : Len(key[i]) >= d}
  BY DEF Within
<1> HIDE DEF R, l, d
<1>6. \A i \in R : Len(key[i]) \in Nat
  BY <1>3, KeyFacts
<1>7. Within(n) = {} => d > Len(key[l])
  BY <1>1, <1>4, <1>5, <1>6
<1>8. ASSUME Within(n) # {} PROVE d <= Len(key[l]) /\ Within(n) = R
  <2>1. PICK i \in R : Len(key[i]) >= d
    BY <1>5, <1>8
  <2>2. \A j \in R : d <= Len(key[j])
    <3> SUFFICES ASSUME NEW j \in R PROVE d <= Len(key[j])
      OBVIOUS
    <3>1. i \in KeyIds /\ j \in KeyIds /\ d \in Levels(i) /\ d \in Levels(j) /\ Way(i, d) = Way(j, d)
      BY <1>3
    <3>2. d <= Len(key[i])
      BY <1>1, <1>6, <2>1
    <3> QED
      BY <3>1, <3>2, SharedNodes
  <2>3. Within(n) = R
    BY <1>1, <1>5, <1>6, <2>2
  <2> QED
    BY <1>4, <2>2, <2>3
<1> QED
  BY <1>1, <1>3, <1>7, <1>8 DEF R, l, d, WayTo

(* build() meets its keys in order. *)
LEMMA MeetsOrder ==
  ASSUME KeysTyped(key, value), KeysSorted, NEW n \in Pending, NEW place, NEW inner,
         PendingNode(place, inner, n)
  PROVE  InOrder(n)
<1> SUFFICES ASSUME NEW i \in Within(n), NEW j \in Within(n), i < j
             PROVE  Code(i, n.depth) <= Code(j, n.depth)
  BY DEF InOrder
<1>1. i \in n.left..(n.right - 1) /\ j \in n.left..(n.right - 1)
  BY WholeRange
<1>2. /\ i \in KeyIds /\ j \in KeyIds /\ Way(i, n.depth) = Way(j, n.depth) /\ n.depth \in Nat
      /\ n.depth <= Len(key[i]) /\ n.depth <= Len(key[j])
  <2>1. \A k \in Within(n) : Len(key[k]) >= n.depth
    BY DEF Within
  <2>2. Len(key[i]) \in Nat /\ Len(key[j]) \in Nat /\ n.depth \in Nat /\ i \in KeyIds /\ j \in KeyIds
    BY <1>1, WholeRange, KeyFacts
  <2> QED
    BY <1>1, <2>1, <2>2, WholeRange
<1>3. n.depth \in 0..Len(key[i])
  BY <1>2, KeyFacts
<1> QED
  BY <1>2, <1>3, CodesAscend

(* What only the keys decide. *)
LEMMA WaysStay ==
  ASSUME UNCHANGED <<key, value>>
  PROVE  /\ KeyIds' = KeyIds /\ (KeysSorted' <=> KeysSorted)
         /\ \A i : Levels(i)' = Levels(i)
         /\ \A i, d : Code(i, d)' = Code(i, d) /\ Way(i, d)' = Way(i, d)
         /\ \A n : WayTo(n)' = WayTo(n)
         /\ \A place, inner, n : PendingNode(place, inner, n)' <=> PendingNode(place, inner, n)
         /\ \A place, inner : Placed(place, inner)' <=> Placed(place, inner)
<1>1. key' = key
  OBVIOUS
<1>2. KeyIds' = KeyIds /\ \A i : Levels(i)' = Levels(i)
  BY <1>1 DEF KeyIds, Levels
<1>3. \A i, d : Code(i, d)' = Code(i, d)
  BY <1>1 DEF Code
<1>4. \A i, d : Way(i, d)' = Way(i, d)
  BY <1>3 DEF Way
<1>5. \A n : WayTo(n)' = WayTo(n)
  BY <1>4 DEF WayTo
<1>6. KeysSorted' <=> KeysSorted
  BY <1>1, <1>2 DEF KeysSorted, SurfaceLess
<1>7. \A place, inner, n : PendingNode(place, inner, n)' <=> PendingNode(place, inner, n)
  BY <1>2, <1>4, <1>5 DEF PendingNode
<1>8. \A place, inner : Placed(place, inner)' <=> Placed(place, inner)
  BY <1>2, <1>4 DEF Placed
<1> QED
  BY <1>2, <1>3, <1>4, <1>5, <1>6, <1>7, <1>8

(* open() leaves a trie of one node, the root, which is all that is pending. *)
LEMMA StartTrie ==
  ASSUME NEW keys, NEW values, KeysTyped(keys, values), StartBuild(keys, values)
  PROVE  \E place, inner : Trie(place, inner)'
<1>1. /\ key' = keys /\ value' = values /\ base' = [p \in {0} |-> 1] /\ check' = << >> /\ used' = {}
      /\ todo' = <<[cell |-> 0, depth |-> 0, left |-> 1, right |-> Len(keys) + 1]>>
  BY DEF StartBuild
<1> DEFINE n == [cell |-> 0, depth |-> 0, left |-> 1, right |-> Len(keys) + 1]
           place == [w \in {<< >>} |-> 0]
           inner == {}
<1>2. /\ Len(keys) \in Nat \ {0} /\ KeyIds' = 1..Len(keys)
      /\ \A i \in 1..Len(keys) : 0 \in Levels(i)' /\ Levels(i)' \subseteq Nat
  <2>1. Len(keys) \in Nat \ {0} /\ \A i \in 1..Len(keys) : keys[i] \in Seq(Nat)
    <3>1. keys \in Seq(Seq(Nat) \ {<< >>}) /\ Len(keys) \in Nat \ {0}
      BY DEF KeysTyped
    <3>2. \A i \in 1..Len(keys) : keys[i] \in Seq(Nat) \ {<< >>}
      BY <3>1, ElementOfSeq
    <3> QED
      BY <3>1, <3>2
  <2>2. \A i \in 1..Len(keys) : Len(keys[i]) \in Nat
    BY <2>1
  <2>3. \A i : Levels(i)' = 0..(Len(keys[i]) + 1)
    BY <1>1 DEF Levels
  <2> QED
    BY <1>1, <2>1, <2>2, <2>3 DEF KeyIds
<1>3. \A i : Way(i, 0)' = << >>
  <2>1. \A i : DOMAIN Way(i, 0)' = {} /\ Way(i, 0)' = [m \in 1..0 |-> Code(i, m - 1)']
    BY DEF Way
  <2> QED
    BY <2>1
<1>4. \A i, d : d # 0 /\ d \in Nat => Way(i, d)' # << >>
  <2>1. \A i, d : Way(i, d)' = [m \in 1..d |-> Code(i, m - 1)']
    BY DEF Way
  <2>2. ASSUME NEW i, NEW d \in Nat, d # 0 PROVE Way(i, d)' # << >>
    <3>1. 1 \in DOMAIN (Way(i, d)')
      BY <2>1, <2>2
    <3> QED
      BY <3>1
  <2> QED
    BY <2>2
<1>5. /\ DOMAIN place = {<< >>} /\ place[<< >>] = 0 /\ place \in [DOMAIN place -> Nat]
      /\ inner \subseteq DOMAIN place
  OBVIOUS
<1>6. Len(todo') = 1 /\ todo'[1] = n /\ 1..Len(todo') = {1}
  BY <1>1
<1>7. n.depth = 0 /\ n.left = 1 /\ n.cell = 0 /\ n.right = Len(keys) + 1
  OBVIOUS
<1>8. WayTo(n)' = << >>
  BY <1>3, <1>7 DEF WayTo
<1> HIDE DEF n, place
<1>9. Placed(place, inner)'
  <2>1. \A i \in KeyIds' : Way(i, 0)' \in DOMAIN place /\ place[Way(i, 0)'] = 0
    BY <1>3, <1>5
  <2>2. 1 \in KeyIds' /\ 0 \in Levels(1)'
    BY <1>2
  <2>3. \A w \in DOMAIN place : \E i \in KeyIds' : \E d \in Levels(i)' : w = Way(i, d)'
    BY <1>3, <1>5, <2>2
  <2>4. \A i \in KeyIds' : \A d \in Levels(i)' : d > 0 => Way(i, d)' \notin DOMAIN place
    <3> SUFFICES ASSUME NEW i \in KeyIds', NEW d \in Levels(i)', d > 0 PROVE Way(i, d)' \notin DOMAIN place
      OBVIOUS
    <3>1. d \in Nat /\ d # 0
      BY <1>2
    <3> QED
      BY <1>4, <1>5, <3>1
  <2> QED
    BY <1>5, <2>1, <2>3, <2>4 DEF Placed
<1>10. Branches(place, inner)'
  BY <1>1 DEF Branches, At
<1>11. Visits(place, inner)'
  <2>1. PendingNode(place, inner, n)'
    <3>1. \A i \in KeyIds' : 1 <= i /\ i < Len(keys) + 1
      BY <1>2
    <3>2. 1 \in KeyIds'
      BY <1>2
    <3> QED
      BY <1>2, <1>3, <1>5, <1>7, <1>8, <3>1, <3>2 DEF PendingNode
  <2>2. \A w \in DOMAIN place : IsPending(w)'
    BY <1>5, <1>6, <1>8 DEF IsPending
  <2>3. \A k \in 1..Len(todo') : PendingNode(place, inner, todo[k])'
    BY <1>6, <2>1
  <2>4. \A k, m \in 1..Len(todo') : k = m
    BY <1>6
  <2> QED
    BY <2>2, <2>3, <2>4 DEF Visits
<1> QED
  BY <1>9, <1>10, <1>11 DEF Trie

(* Two keys that share a leaf are one. *)
LEMMA OneKeyPerLeaf ==
  ASSUME KeysTyped(key, value), KeysSorted, NEW i \in KeyIds, NEW j \in KeyIds,
         NEW d \in Levels(i), d \in Levels(j), Way(i, d) = Way(j, d), d > Len(key[i])
  PROVE  i = j
<1>1. key[i] = key[j]
  BY SharedNodes
<1>2. key[i] \in Seq(Nat) /\ i \in Nat /\ j \in Nat
  BY KeyFacts
<1>3. ~SurfaceLess(key[i], key[j]) /\ ~SurfaceLess(key[j], key[i])
  BY <1>1, <1>2, SurfaceOrder
<1>4. ~(i < j) /\ ~(j < i)
  BY <1>3 DEF KeysSorted
<1> QED
  BY <1>2, <1>4

(* A node at which a key ends gets the value of that key; if the value is not
   negative, its cell cannot be mistaken for an inner node's. *)
LEMMA LeafTrie ==
  ASSUME ArrayInv, KeysSorted, Leaf, ~(value[Head(todo).left] < 0),
         NEW place, NEW inner, Trie(place, inner)
  PROVE  Trie(place, inner)'
<1> DEFINE n == Head(todo)
<1>1. /\ KeysTyped(key, value) /\ base \in [DOMAIN base -> Int]
      /\ todo \in Seq(Pending) /\ todo # << >> /\ n = todo[1] /\ n \in Pending
  BY DEF ArrayInv, Leaf, Building
<1>2. /\ Within(n) = {} /\ todo' = Tail(todo)
      /\ base' = [p \in DOMAIN base \cup {n.cell} |->
                    IF p = n.cell THEN -value[n.left] - 1 ELSE base[p]]
      /\ UNCHANGED <<key, value, check, used>>
  BY DEF Leaf
<1>3. /\ Len(todo) \in Nat \ {0} /\ Len(todo') = Len(todo) - 1
      /\ \A k \in 1..Len(todo') : k + 1 \in 1..Len(todo) /\ todo'[k] = todo[k + 1]
  <2>1. /\ Len(todo) \in Nat \ {0} /\ Len(Tail(todo)) = Len(todo) - 1
        /\ \A k \in 1..Len(Tail(todo)) : Tail(todo)[k] = todo[k + 1]
    BY <1>1
  <2>2. \A k \in 1..(Len(todo) - 1) : k + 1 \in 1..Len(todo)
    BY <2>1
  <2> QED
    BY <1>2, <2>1, <2>2
<1>4. ~(value[n.left] < 0)
  OBVIOUS
<1> HIDE DEF n
<1>5. /\ Placed(place, inner) /\ Branches(place, inner) /\ Visits(place, inner)
      /\ place \in [DOMAIN place -> Nat] /\ inner \subseteq DOMAIN place
  BY DEF Trie, Placed
<1>6. PendingNode(place, inner, n) /\ \A m \in 2..Len(todo) : WayTo(todo[m]) # WayTo(n)
  <2>1. 1 \in 1..Len(todo) /\ \A m \in 2..Len(todo) : m \in 1..Len(todo) /\ m # 1
    BY <1>3
  <2> QED
    BY <1>1, <1>5, <2>1 DEF Visits
<1>7. /\ n.left \in KeyIds /\ n.depth \in Levels(n.left) /\ n.depth > Len(key[n.left])
      /\ n.left \in Nat /\ n.depth \in Nat
  BY <1>1, <1>2, <1>6, WholeRange
<1>8. WayTo(n) \in DOMAIN place /\ WayTo(n) \notin inner /\ place[WayTo(n)] = n.cell
  BY <1>6 DEF PendingNode
<1>9. \A p : At(base', p) = IF p = n.cell THEN -value[n.left] - 1 ELSE At(base, p)
  BY <1>2 DEF At
<1> DEFINE then(w) == At(base', place[w])
<1>10. /\ then(WayTo(n)) = -value[n.left] - 1
       /\ \A w \in DOMAIN place : w # WayTo(n) => then(w) = BaseOf(place, w)
  <2>1. \A w \in DOMAIN place : w # WayTo(n) => place[w] # n.cell
    BY <1>5, <1>8, OwnCells
  <2> QED
    BY <1>8, <1>9, <2>1 DEF BaseOf
<1> HIDE DEF then
<1>11. \A w \in inner : then(w) = BaseOf(place, w)
  BY <1>5, <1>8, <1>10
<1>12. /\ KeyIds' = KeyIds /\ \A i : Levels(i)' = Levels(i)
       /\ \A i, d : Code(i, d)' = Code(i, d) /\ Way(i, d)' = Way(i, d)
       /\ \A m : WayTo(m)' = WayTo(m)
       /\ \A m : PendingNode(place, inner, m)' <=> PendingNode(place, inner, m)
       /\ Placed(place, inner)'
  BY <1>2, <1>5, WaysStay
<1>18. \A i, d : BaseOf(place, Way(i, d))' = then(Way(i, d))
  BY <1>12 DEF BaseOf, then
<1>13. Branches(place, inner)'
  <2>1. \A i \in KeyIds : \A d \in Levels(i) :
          Way(i, d) \in inner => ChildrenPlaced(place, i, d)'
    <3> SUFFICES ASSUME NEW i \in KeyIds, NEW d \in Levels(i), Way(i, d) \in inner
                 PROVE  ChildrenPlaced(place, i, d)'
      OBVIOUS
    <3>1. ChildrenPlaced(place, i, d)
      BY <1>5 DEF Branches
    <3> QED
      BY <1>2, <1>11, <1>12, <1>18, <3>1 DEF ChildrenPlaced, At
  <2>2. \A v, w \in inner : BaseOf(place, v)' = BaseOf(place, w)' => v = w
    <3>1. \A v, w \in inner : then(v) = then(w) => v = w
      BY <1>5, <1>11 DEF Branches
    <3> QED
      BY <3>1 DEF BaseOf, then
  <2>3. \A p \in Nat : At(check, p)' # 0 =>
          \E i \in KeyIds : \E d \in Levels(i) : Way(i, d) \in inner /\ p = then(Way(i, d)) + Code(i, d)
    <3>1. \A p \in Nat : At(check, p)' = At(check, p)
      BY <1>2 DEF At
    <3> SUFFICES ASSUME NEW p \in Nat, At(check, p) # 0
                 PROVE  \E i \in KeyIds : \E d \in Levels(i) :
                          Way(i, d) \in inner /\ p = then(Way(i, d)) + Code(i, d)
      BY <3>1
    <3>2. PICK i \in KeyIds : \E d \in Levels(i) :
            Way(i, d) \in inner /\ p = BaseOf(place, Way(i, d)) + Code(i, d)
      BY <1>5 DEF Branches
    <3>3. PICK d \in Levels(i) : Way(i, d) \in inner /\ p = BaseOf(place, Way(i, d)) + Code(i, d)
      BY <3>2
    <3>4. p = then(Way(i, d)) + Code(i, d)
      BY <1>11, <3>3
    <3> QED
      BY <3>3, <3>4
  <2> QED
    BY <1>12, <1>18, <2>1, <2>2, <2>3 DEF Branches
<1>14. Visits(place, inner)'
  <2>1. ASSUME NEW w \in DOMAIN place, IsPending(w), w # WayTo(n)
        PROVE  \E k \in 1..Len(todo') : WayTo(todo'[k]) = w
    <3>1. PICK k \in 1..Len(todo) : WayTo(todo[k]) = w
      BY <2>1 DEF IsPending
    <3>2. k # 1
      BY <1>1, <2>1, <3>1
    <3>3. k - 1 \in 1..Len(todo') /\ todo'[k - 1] = todo[k]
      <4>1. k - 1 \in 1..Len(todo') /\ (k - 1) + 1 = k
        BY <1>3, <3>2
      <4> QED
        BY <1>3, <4>1
    <3> QED
      BY <3>1, <3>3
  <2>2. ASSUME NEW i \in KeyIds, NEW d \in Levels(i), Way(i, d) \in DOMAIN place
        PROVE  IsPending(Way(i, d))' \/ Visited(place, inner, i, d)'
    <3>1. PICK w \in DOMAIN place : w = Way(i, d)
      BY <2>2
    <3>5. d \in Nat
      BY DEF Levels
    <3>2. CASE w = WayTo(n)
      <4>1. d = n.depth
        <5>1. Way(i, d) = Way(n.left, n.depth)
          BY <3>1, <3>2 DEF WayTo
        <5> QED
          BY <1>7, <3>5, <5>1, WayFacts
      <4>2. i = n.left
        BY <1>1, <1>7, <3>1, <3>2, <4>1, OneKeyPerLeaf DEF WayTo
      <4>3. d > Len(key[i]) /\ Len(key[i]) \in Nat
        BY <1>1, <1>7, <4>1, <4>2, KeyFacts
      <4>4. ~(d <= Len(key[i])) /\ value[i] >= 0
        BY <1>1, <1>4, <3>5, <4>2, <4>3, KeyFacts
      <4>5. then(Way(i, d)) = -value[i] - 1
        BY <1>10, <3>1, <3>2, <4>2
      <4> QED
        BY <1>2, <1>12, <1>18, <4>4, <4>5 DEF Visited
    <3>3. CASE w # WayTo(n) /\ IsPending(w)
      <4>1. \E k \in 1..Len(todo') : WayTo(todo'[k]) = w
        BY <2>1, <3>3
      <4>2. \A k : WayTo(todo[k])' = WayTo(todo'[k])
        BY <1>12 DEF WayTo
      <4> QED
        BY <1>12, <3>1, <4>1, <4>2 DEF IsPending
    <3>4. CASE w # WayTo(n) /\ ~IsPending(w)
      <4>1. Visited(place, inner, i, d)
        BY <1>5, <2>2, <3>1, <3>4 DEF Visits
      <4>2. then(Way(i, d)) = BaseOf(place, Way(i, d))
        BY <1>10, <3>1, <3>4
      <4> QED
        BY <1>2, <1>12, <1>18, <4>1, <4>2 DEF Visited
    <3> QED
      BY <3>2, <3>3, <3>4
  <2>3. \A k \in 1..Len(todo') : PendingNode(place, inner, todo[k])'
    <3> SUFFICES ASSUME NEW k \in 1..Len(todo') PROVE PendingNode(place, inner, todo'[k])
      BY <1>12 DEF PendingNode
    <3> QED
      BY <1>3, <1>5 DEF Visits
  <2>4. ASSUME NEW k \in 1..Len(todo'), NEW m \in 1..Len(todo'), k # m
        PROVE  WayTo(todo'[k]) # WayTo(todo'[m])
    <3>1. k + 1 \in 1..Len(todo) /\ m + 1 \in 1..Len(todo) /\ k + 1 # m + 1
      BY <1>3, <2>4
    <3> QED
      BY <1>3, <1>5, <3>1 DEF Visits
  <2>5. \A k, m \in 1..Len(todo') : k # m => WayTo(todo[k])' # WayTo(todo[m])'
    BY <1>12, <2>4 DEF WayTo
  <2> QED
    BY <1>12, <2>2, <2>3, <2>5 DEF Visits
<1> QED
  BY <1>12, <1>13, <1>14 DEF Trie

(* The children of a node get cells. *)
Below(n) == {Way(i, n.depth + 1) : i \in Within(n)}
Grown(place, n) ==
  [w \in DOMAIN place \cup Below(n) |->
     IF w \in DOMAIN place THEN place[w] ELSE Begin(Codes(n)) + w[n.depth + 1]]

LEMMA GrownFacts ==
  ASSUME ArrayInv, NEW n \in Pending, NEW place, NEW inner, Placed(place, inner),
         PendingNode(place, inner, n), Within(n) # {}
  PROVE  /\ \A i \in Within(n) :
              /\ i \in KeyIds /\ n.depth \in 0..Len(key[i])
              /\ n.depth \in Levels(i) /\ n.depth + 1 \in Levels(i)
              /\ Way(i, n.depth) = WayTo(n) /\ Code(i, n.depth) \in Codes(n)
              /\ Way(i, n.depth + 1) \in Below(n) /\ Way(i, n.depth + 1) \notin DOMAIN place
              /\ Grown(place, n)[Way(i, n.depth + 1)] = Begin(Codes(n)) + Code(i, n.depth)
         /\ DOMAIN Grown(place, n) = DOMAIN place \cup Below(n)
         /\ \A w \in DOMAIN place : w \notin Below(n) /\ Grown(place, n)[w] = place[w]
         /\ \A i \in KeyIds : \A e \in Levels(i) :
              Way(i, e) \in Below(n) => e = n.depth + 1 /\ i \in Within(n)
         /\ \A i \in KeyIds : \A e \in Levels(i) :
              Way(i, e) = WayTo(n) => e = n.depth /\ i \in Within(n)
<1> DEFINE W == Within(n)
           d == n.depth
           s == WayTo(n)
<1>1. KeysTyped(key, value)
  BY DEF ArrayInv
<1>2. /\ d \in Nat /\ W = n.left..(n.right - 1) /\ n.left \in KeyIds
      /\ \A i \in W : i \in KeyIds /\ d \in Levels(i) /\ Way(i, d) = s
  BY <1>1, WholeRange
<1>3. \A i \in W : Len(key[i]) \in Nat /\ d \in 0..Len(key[i]) /\ d + 1 \in Levels(i)
  <2> SUFFICES ASSUME NEW i \in W PROVE Len(key[i]) \in Nat /\ d \in 0..Len(key[i]) /\ d + 1 \in Levels(i)
    OBVIOUS
  <2>1. Len(key[i]) \in Nat
    BY <1>1, <1>2, KeyFacts
  <2>2. Len(key[i]) >= d
    BY DEF Within
  <2> HIDE DEF d
  <2> QED
    BY <1>2, <2>1, <2>2 DEF Levels
<1>4. \A i \in W : Code(i, d) \in Codes(n) /\ Way(i, d + 1) \in Below(n)
  BY DEF Codes, Below
<1>5. \A i \in W : Way(i, d + 1)[d + 1] = Code(i, d)
  <2> SUFFICES ASSUME NEW i \in W PROVE Way(i, d + 1)[d + 1] = Code(i, d)
    OBVIOUS
  <2> HIDE DEF d
  <2>1. d + 1 \in 1..d + 1 /\ (d + 1) - 1 = d
    BY <1>2
  <2> QED
    BY <2>1 DEF Way
<1>6. s \notin inner
  BY DEF PendingNode
<1>7. \A i \in W : Way(i, d + 1) \notin DOMAIN place
  <2> SUFFICES ASSUME NEW i \in W, Way(i, d + 1) \in DOMAIN place PROVE FALSE
    OBVIOUS
  <2> HIDE DEF d, W, s
  <2>1. d + 1 \in Levels(i) /\ d + 1 > 0 /\ (d + 1) - 1 = d /\ i \in KeyIds
    BY <1>2, <1>3
  <2>2. Way(i, (d + 1) - 1) \in inner
    BY <2>1 DEF Placed
  <2> QED
    BY <1>2, <1>6, <2>1, <2>2
<1>8. DOMAIN Grown(place, n) = DOMAIN place \cup Below(n)
  BY DEF Grown
<1>9. \A w \in DOMAIN place : w \notin Below(n) /\ Grown(place, n)[w] = place[w]
  BY <1>7 DEF Grown, Below
<1>10. \A i \in W : Grown(place, n)[Way(i, d + 1)] = Begin(Codes(n)) + Code(i, d)
  BY <1>4, <1>5, <1>7 DEF Grown
<1>11. ASSUME NEW i \in KeyIds, NEW e \in Levels(i), Way(i, e) = s PROVE e = d /\ i \in W
  <2>1. e \in Nat /\ i \in Nat
    BY <1>1, KeyFacts DEF Levels
  <2>2. Way(i, e) = Way(n.left, d)
    BY <1>11 DEF WayTo
  <2> HIDE DEF d, s, W
  <2>3. e = d
    BY <1>2, <2>1, <2>2, WayFacts
  <2>4. n.left <= i /\ i < n.right
    BY <1>11, <2>3 DEF PendingNode, d, s
  <2>5. n.left \in Int /\ n.right \in Int
    BY DEF Pending
  <2> QED
    BY <1>2, <2>1, <2>3, <2>4, <2>5
<1>12. ASSUME NEW i \in KeyIds, NEW e \in Levels(i), Way(i, e) \in Below(n)
       PROVE  e = d + 1 /\ i \in W
  <2>1. PICK j \in W : Way(i, e) = Way(j, d + 1)
    BY <1>12 DEF Below
  <2>2. e \in Nat /\ Len(key[i]) \in Nat /\ e <= Len(key[i]) + 1
    <3>1. Len(key[i]) \in Nat
      BY <1>1, KeyFacts
    <3> QED
      BY <3>1 DEF Levels
  <2> HIDE DEF d, W, s
  <2>3. d + 1 \in Nat
    BY <1>2
  <2>4. e = d + 1
    BY <2>1, <2>2, <2>3, WayFacts
  <2>5. Way(i, d) = Way(j, d) /\ d \in Levels(i)
    <3>1. Way(i, d + 1) = Way(j, d + 1)
      BY <2>1, <2>4
    <3>2. Way(i, d) = Way(j, d)
      BY <1>2, <3>1, WayFacts
    <3> QED
      BY <1>2, <2>2, <2>4, <3>2 DEF Levels
  <2> QED
    BY <1>2, <1>11, <2>4, <2>5
<1> QED
  BY <1>2, <1>3, <1>4, <1>7, <1>8, <1>9, <1>10, <1>11, <1>12

(* The arrays after insert() has given the children of a node their cells. *)
LEMMA InsertArrays ==
  ASSUME ArrayInv, Insert, NEW n, n = Head(todo)
  PROVE  /\ n \in Pending /\ n = todo[1] /\ KeysTyped(key, value)
         /\ Within(n) # {} /\ InOrder(n) /\ Codes(n) \subseteq Nat
         /\ Begin(Codes(n)) \in Nat \ {0} /\ Begin(Codes(n)) \notin used
         /\ \A c \in Codes(n) : At(check, Begin(Codes(n)) + c) = 0
         /\ \A p : At(check', p) = IF \E c \in Codes(n) : p = Begin(Codes(n)) + c
                                   THEN Begin(Codes(n)) ELSE At(check, p)
         /\ \A p : At(base', p) = IF p = n.cell THEN Begin(Codes(n)) ELSE At(base, p)
         /\ used' = used \cup {Begin(Codes(n))}
         /\ UNCHANGED <<key, value, error>>
<1> DEFINE codes == Codes(n)
           begin == Begin(codes)
           cells == {begin + c : c \in codes}
<1>1. todo \in Seq(Pending) /\ todo # << >> /\ n \in Pending /\ n = todo[1]
  BY DEF ArrayInv, Insert, Building
<1>2. codes \subseteq Nat /\ IsFiniteSet(codes) /\ codes # {}
  BY <1>1, CodesFacts DEF ArrayInv, Insert
<1>3. used \subseteq Nat
  BY DEF ArrayInv
<1>4. Fits(codes, FirstPos(codes)) /\ begin \in Nat \ {0}
  <2> HIDE DEF codes
  <2> QED
    BY <1>2, <1>3, FirstPosFacts DEF ArrayInv
<1>5. begin \notin used /\ \A c \in codes : At(check, begin + c) = 0
  BY <1>4 DEF Fits, Begin
<1>6. /\ used' = used \cup {begin}
      /\ check' = [p \in DOMAIN check \cup cells |-> IF p \in cells THEN begin ELSE check[p]]
      /\ base' = [p \in DOMAIN base \cup {n.cell} |-> IF p = n.cell THEN begin ELSE base[p]]
      /\ UNCHANGED <<key, value, error>> /\ Within(n) # {} /\ InOrder(n)
  BY DEF Insert
<1>7. \A p : p \in cells <=> \E c \in codes : p = begin + c
  OBVIOUS
<1> HIDE DEF codes, begin, cells
<1>8. \A p : At(check', p) = IF p \in cells THEN begin ELSE At(check, p)
  BY <1>6 DEF At
<1>9. \A p : At(base', p) = IF p = n.cell THEN begin ELSE At(base, p)
  BY <1>6 DEF At
<1>10. \A p : At(check', p) = IF \E c \in codes : p = begin + c THEN begin ELSE At(check, p)
  BY <1>7, <1>8
<1> QED
  BY <1>1, <1>2, <1>4, <1>5, <1>6, <1>9, <1>10 DEF codes, begin, ArrayInv

(* What is to be visited after that: the children, then what was before. *)
LEMMA InsertTodo ==
  ASSUME ArrayInv, Insert, NEW n, n = Head(todo)
  PROVE  /\ Len(Fetch(n)) \in Nat /\ Len(todo) \in Nat \ {0}
         /\ Len(todo') = Len(Fetch(n)) + Len(todo) - 1
         /\ \A k \in 1..Len(Fetch(n)) :
              /\ k \in 1..Len(todo')
              /\ todo'[k] = [cell |-> Begin(Codes(n)) + Fetch(n)[k].code, depth |-> Fetch(n)[k].depth,
                             left |-> Fetch(n)[k].left, right |-> Fetch(n)[k].right]
         /\ \A k \in 2..Len(todo) : /\ Len(Fetch(n)) + k - 1 \in 1..Len(todo')
                                    /\ todo'[Len(Fetch(n)) + k - 1] = todo[k]
         /\ \A k \in 1..Len(todo') : \/ k \in 1..Len(Fetch(n))
                                     \/ k - Len(Fetch(n)) + 1 \in 2..Len(todo)
<1> DEFINE children == Fetch(n)
           m == Len(children)
           child(k) == [cell |-> Begin(Codes(n)) + children[k].code, depth |-> children[k].depth,
                        left |-> children[k].left, right |-> children[k].right]
           new == [k \in 1..m |-> child(k)]
           tail == Tail(todo)
           S == {child(k) : k \in 1..m}
<1>1. /\ todo \in Seq(Pending) /\ todo # << >> /\ n \in Pending /\ KeysTyped(key, value)
  BY DEF ArrayInv, Insert, Building
<1>2. m \in Nat
  <2> DEFINE T == [depth : Nat, code : Codes(n), left : 1..Len(key), right : Int]
  <2>1. Fetch(n) \in Seq(T)
    BY <1>1, FetchFacts
  <2> HIDE DEF T
  <2> QED
    BY <2>1
<1>3. todo' = new \o tail
  BY DEF Insert
<1>4. /\ tail \in Seq(Pending) /\ Len(tail) = Len(todo) - 1 /\ Len(todo) \in Nat \ {0}
      /\ Len(tail) \in Nat /\ \A k \in 1..Len(tail) : tail[k] = todo[k + 1]
  BY <1>1
<1> HIDE DEF child, tail, m
<1>5. new \in Seq(S) /\ Len(new) = m /\ \A k \in 1..m : new[k] = child(k)
  BY <1>2
<1> HIDE DEF new, S
<1>6. /\ Len(new \o tail) = m + Len(tail)
      /\ \A k \in 1..m + Len(tail) : (new \o tail)[k] = IF k <= m THEN new[k] ELSE tail[k - m]
  BY <1>4, <1>5
<1>7. Len(todo') = m + Len(todo) - 1
  BY <1>2, <1>3, <1>4, <1>6
<1>8. \A k \in 1..m : k \in 1..Len(todo') /\ todo'[k] = child(k)
  <2> SUFFICES ASSUME NEW k \in 1..m PROVE k \in 1..Len(todo') /\ todo'[k] = child(k)
    OBVIOUS
  <2>1. k \in 1..m + Len(tail) /\ k <= m /\ k \in 1..Len(todo')
    BY <1>2, <1>4, <1>7
  <2> QED
    BY <1>3, <1>5, <1>6, <2>1
<1>9. \A k \in 2..Len(todo) : m + k - 1 \in 1..Len(todo') /\ todo'[m + k - 1] = todo[k]
  <2> SUFFICES ASSUME NEW k \in 2..Len(todo) PROVE m + k - 1 \in 1..Len(todo') /\ todo'[m + k - 1] = todo[k]
    OBVIOUS
  <2> DEFINE x == m + k - 1
  <2>1. x \in 1..m + Len(tail) /\ ~(x <= m) /\ x - m = k - 1 /\ x \in 1..Len(todo')
    BY <1>2, <1>4, <1>7
  <2>2. k - 1 \in 1..Len(tail) /\ (k - 1) + 1 = k
    BY <1>4
  <2> HIDE DEF x
  <2>3. todo'[x] = tail[k - 1]
    BY <1>3, <1>6, <2>1
  <2>4. tail[k - 1] = todo[(k - 1) + 1]
    BY <1>4, <2>2
  <2> QED
    BY <2>1, <2>2, <2>3, <2>4 DEF x
<1>10. \A k \in 1..Len(todo') : k \in 1..m \/ k - m + 1 \in 2..Len(todo)
  BY <1>2, <1>4, <1>7
<1> QED
  BY <1>2, <1>4, <1>7, <1>8, <1>9, <1>10 DEF m, child

(* A node above others gets its begin, its children their cells: no cell that
   another node owns is taken, and the codes lead to the children. *)
LEMMA InsertTrie ==
  ASSUME ArrayInv, KeysSorted, Insert, NEW place, NEW inner, Trie(place, inner)
  PROVE  \E q, t : Trie(q, t)'
<1>0. PICK n : n = Head(todo)
  OBVIOUS
<1> DEFINE W == Within(n)
           d == n.depth
           begin == Begin(Codes(n))
           m == Len(Fetch(n))
<1>1. PICK s : s = WayTo(n)
  OBVIOUS
<1>2. PICK q : q = Grown(place, n)
  OBVIOUS
<1>3. PICK t : t = inner \cup {s}
  OBVIOUS
<1>4. /\ n \in Pending /\ n = todo[1] /\ KeysTyped(key, value)
      /\ W # {} /\ InOrder(n) /\ Codes(n) \subseteq Nat
      /\ begin \in Nat \ {0} /\ begin \notin used
      /\ \A c \in Codes(n) : At(check, begin + c) = 0
      /\ \A p : At(check', p) = IF \E c \in Codes(n) : p = begin + c THEN begin ELSE At(check, p)
      /\ \A p : At(base', p) = IF p = n.cell THEN begin ELSE At(base, p)
      /\ used' = used \cup {begin}
      /\ UNCHANGED <<key, value, error>>
  BY <1>0, InsertArrays
<1>5. /\ m \in Nat /\ Len(todo) \in Nat \ {0} /\ Len(todo') = m + Len(todo) - 1
      /\ \A k \in 1..m :
           /\ k \in 1..Len(todo')
           /\ todo'[k] = [cell |-> begin + Fetch(n)[k].code, depth |-> Fetch(n)[k].depth,
                          left |-> Fetch(n)[k].left, right |-> Fetch(n)[k].right]
      /\ \A k \in 2..Len(todo) : m + k - 1 \in 1..Len(todo') /\ todo'[m + k - 1] = todo[k]
      /\ \A k \in 1..Len(todo') : k \in 1..m \/ k - m + 1 \in 2..Len(todo)
  BY <1>0, InsertTodo
<1>6. /\ Placed(place, inner) /\ Branches(place, inner) /\ Visits(place, inner)
      /\ place \in [DOMAIN place -> Nat] /\ inner \subseteq DOMAIN place
  BY DEF Trie, Placed
<1>7. PendingNode(place, inner, n) /\ \A k \in 2..Len(todo) : WayTo(todo[k]) # s /\ k \in 1..Len(todo)
  <2>1. 1 \in 1..Len(todo) /\ \A k \in 2..Len(todo) : k \in 1..Len(todo) /\ k # 1
    BY <1>5
  <2> QED
    BY <1>1, <1>4, <1>6, <2>1 DEF Visits
<1>8. s \in DOMAIN place /\ s \notin inner /\ place[s] = n.cell /\ d \in Nat
  BY <1>1, <1>4, <1>7, WholeRange DEF PendingNode
<1>9. /\ \A i \in W :
           /\ i \in KeyIds /\ d \in 0..Len(key[i]) /\ d \in Levels(i) /\ d + 1 \in Levels(i)
           /\ Way(i, d) = s /\ Code(i, d) \in Codes(n)
           /\ Way(i, d + 1) \in Below(n) /\ Way(i, d + 1) \notin DOMAIN place
           /\ q[Way(i, d + 1)] = begin + Code(i, d)
      /\ DOMAIN q = DOMAIN place \cup Below(n)
      /\ \A w \in DOMAIN place : w \notin Below(n) /\ q[w] = place[w]
      /\ \A i \in KeyIds : \A e \in Levels(i) : Way(i, e) \in Below(n) => e = d + 1 /\ i \in W
      /\ \A i \in KeyIds : \A e \in Levels(i) : Way(i, e) = s => e = d /\ i \in W
  <2>1. KeysTyped(key, value) /\ Within(n) # {}
    BY <1>4
  <2>2. /\ \A i \in Within(n) :
             /\ i \in KeyIds /\ n.depth \in 0..Len(key[i])
             /\ n.depth \in Levels(i) /\ n.depth + 1 \in Levels(i)
             /\ Way(i, n.depth) = WayTo(n) /\ Code(i, n.depth) \in Codes(n)
             /\ Way(i, n.depth + 1) \in Below(n) /\ Way(i, n.depth + 1) \notin DOMAIN place
             /\ Grown(place, n)[Way(i, n.depth + 1)] = Begin(Codes(n)) + Code(i, n.depth)
        /\ DOMAIN Grown(place, n) = DOMAIN place \cup Below(n)
        /\ \A w \in DOMAIN place : w \notin Below(n) /\ Grown(place, n)[w] = place[w]
        /\ \A i \in KeyIds : \A e \in Levels(i) :
             Way(i, e) \in Below(n) => e = n.depth + 1 /\ i \in Within(n)
        /\ \A i \in KeyIds : \A e \in Levels(i) :
             Way(i, e) = WayTo(n) => e = n.depth /\ i \in Within(n)
    BY <1>4, <1>6, <1>7, <2>1, GrownFacts
  <2> QED
    BY <1>1, <1>2, <2>2
<1>10. W = n.left..(n.right - 1) /\ InOrder(n)
  BY <1>4, <1>7, WholeRange
<1>11. /\ KeyIds' = KeyIds /\ \A i : Levels(i)' = Levels(i)
       /\ \A i, e : Code(i, e)' = Code(i, e) /\ Way(i, e)' = Way(i, e)
       /\ \A x : WayTo(x)' = WayTo(x)
       /\ \A x : PendingNode(q, t, x)' <=> PendingNode(q, t, x)
       /\ Placed(q, t)' <=> Placed(q, t)
  BY <1>4, WaysStay
<1> DEFINE then(w) == At(base', q[w])
<1>12. /\ then(s) = begin
       /\ \A w \in DOMAIN place : w # s => then(w) = BaseOf(place, w)
  <2>1. \A w \in DOMAIN place : w # s => place[w] # n.cell
    BY <1>6, <1>8, OwnCells
  <2> QED
    BY <1>4, <1>8, <1>9, <2>1 DEF BaseOf
<1> HIDE DEF then
<1>13. \A w \in inner : w # s /\ w \in DOMAIN place /\ then(w) = BaseOf(place, w)
  BY <1>6, <1>8, <1>12
<1>14. \A i, e : BaseOf(q, Way(i, e))' = then(Way(i, e))
  BY <1>11 DEF BaseOf, then
<1>15. \A i \in KeyIds : \A e \in Levels(i) : Way(i, e) \in t <=> Way(i, e) \in inner \/ (e = d /\ i \in W)
  BY <1>3, <1>9
<1> HIDE DEF W, begin, m
<1>16. Placed(q, t)
  <2>1. q \in [DOMAIN q -> Nat]
    <3>1. \A w \in Below(n) : q[w] \in Nat
      <4> SUFFICES ASSUME NEW w \in Below(n) PROVE q[w] \in Nat
        OBVIOUS
      <4>1. PICK i \in W : w = Way(i, d + 1)
        BY DEF Below, W
      <4>2. Code(i, d) \in Nat /\ q[w] = begin + Code(i, d)
        BY <1>4, <1>9, <4>1
      <4> DEFINE c == Code(i, d)
      <4>3. c \in Nat
        BY <4>2
      <4> HIDE DEF c
      <4>4. begin + c \in Nat
        BY <1>4, <4>3
      <4> QED
        BY <4>2, <4>4 DEF c
    <3>2. \A w \in DOMAIN q : q[w] \in Nat
      BY <1>6, <1>9, <3>1
    <3>3. q = [w \in DOMAIN q |-> q[w]]
      BY <1>2 DEF Grown
    <3> QED
      BY <3>2, <3>3
  <2>2. t \subseteq DOMAIN q
    BY <1>3, <1>6, <1>8, <1>9
  <2>3. \A i \in KeyIds : Way(i, 0) \in DOMAIN q /\ q[Way(i, 0)] = 0
    BY <1>6, <1>9 DEF Placed
  <2>4. \A w \in DOMAIN q : \E i \in KeyIds : \E e \in Levels(i) : w = Way(i, e)
    <3> SUFFICES ASSUME NEW w \in DOMAIN q PROVE \E i \in KeyIds : \E e \in Levels(i) : w = Way(i, e)
      OBVIOUS
    <3>1. CASE w \in DOMAIN place
      BY <1>6, <3>1 DEF Placed
    <3>2. CASE w \in Below(n)
      <4>1. PICK i \in W : w = Way(i, d + 1)
        BY <3>2 DEF Below, W
      <4> QED
        BY <1>9, <4>1
    <3> QED
      BY <1>9, <3>1, <3>2
  <2>5. \A i \in KeyIds : \A e \in Levels(i) : e > 0 /\ Way(i, e) \in DOMAIN q => Way(i, e - 1) \in t
    <3> SUFFICES ASSUME NEW i \in KeyIds, NEW e \in Levels(i), e > 0, Way(i, e) \in DOMAIN q
                 PROVE  Way(i, e - 1) \in t
      OBVIOUS
    <3>1. CASE Way(i, e) \in DOMAIN place
      BY <1>3, <1>6, <3>1 DEF Placed
    <3>2. CASE Way(i, e) \in Below(n)
      <4>1. e - 1 = d /\ i \in W
        BY <1>8, <1>9, <3>2
      <4> QED
        BY <1>3, <1>9, <4>1
    <3> QED
      BY <1>9, <3>1, <3>2
  <2> QED
    BY <2>1, <2>2, <2>3, <2>4, <2>5 DEF Placed
<1>17. used \subseteq Nat \ {0}
  BY DEF ArrayInv
<1>18. \A w \in inner : BaseOf(place, w) \in used
  <2> SUFFICES ASSUME NEW w \in inner PROVE BaseOf(place, w) \in used
    OBVIOUS
  <2>1. PICK i \in KeyIds : \E e \in Levels(i) : w = Way(i, e)
    BY <1>6 DEF Placed
  <2>2. PICK e \in Levels(i) : w = Way(i, e)
    BY <2>1
  <2>3. ChildrenPlaced(place, i, e)
    BY <1>6, <2>2 DEF Branches
  <2> QED
    BY <2>2, <2>3 DEF ChildrenPlaced
<1>19. \A i \in KeyIds : \A e \in Levels(i) : Way(i, e) \in t => ChildrenPlaced(q, i, e)'
  <2> SUFFICES ASSUME NEW i \in KeyIds, NEW e \in Levels(i), Way(i, e) \in t
               PROVE  ChildrenPlaced(q, i, e)'
    OBVIOUS
  <2> DEFINE w == Way(i, e)
             v == Way(i, e + 1)
  <2>1. /\ ChildrenPlaced(q, i, e)' <=>
             /\ e <= Len(key[i])
             /\ then(w) \in used'
             /\ v \in DOMAIN q /\ q[v] = then(w) + Code(i, e)
             /\ At(check', q[v]) = then(w)
    BY <1>4, <1>11, <1>14 DEF ChildrenPlaced, At
  <2>2. CASE Way(i, e) \in inner
    <3>1. ChildrenPlaced(place, i, e)
      BY <1>6, <2>2 DEF Branches
    <3>2. /\ e <= Len(key[i]) /\ then(w) \in used /\ then(w) = BaseOf(place, w)
          /\ v \in DOMAIN place /\ place[v] = then(w) + Code(i, e)
          /\ At(check, place[v]) = then(w)
      BY <1>13, <2>2, <3>1 DEF ChildrenPlaced
    <3>3. At(check, place[v]) # 0
      BY <1>17, <3>2
    <3>4. q[v] = place[v] /\ v \in DOMAIN q
      BY <1>9, <3>2
    <3>5. At(check', q[v]) = then(w)
      BY <1>4, <3>2, <3>3, <3>4
    <3> QED
      BY <1>4, <2>1, <3>2, <3>4, <3>5
  <2>3. CASE e = d /\ i \in W
    <3>1. w = s /\ v \in DOMAIN q /\ q[v] = begin + Code(i, e) /\ Code(i, e) \in Codes(n)
      BY <1>9, <2>3
    <3>2. e <= Len(key[i])
      BY <1>9, <2>3
    <3>3. then(w) = begin
      BY <1>12, <3>1
    <3>4. At(check', q[v]) = begin
      BY <1>4, <3>1
    <3> QED
      BY <1>4, <2>1, <3>1, <3>2, <3>3, <3>4
  <2> QED
    BY <1>15, <2>2, <2>3
<1>20. \A v, w \in t : then(v) = then(w) => v = w
  <2> SUFFICES ASSUME NEW v \in t, NEW w \in t, then(v) = then(w) PROVE v = w
    OBVIOUS
  <2>1. CASE v \in inner /\ w \in inner
    BY <1>6, <1>13, <2>1 DEF Branches
  <2>2. CASE v \in inner /\ w = s
    BY <1>4, <1>12, <1>13, <1>18, <2>2
  <2>3. CASE v = s /\ w \in inner
    BY <1>4, <1>12, <1>13, <1>18, <2>3
  <2> QED
    BY <1>3, <2>1, <2>2, <2>3
<1>21. \A p \in Nat : At(check', p) # 0 =>
         \E i \in KeyIds : \E e \in Levels(i) : Way(i, e) \in t /\ p = then(Way(i, e)) + Code(i, e)
  <2> SUFFICES ASSUME NEW p \in Nat, At(check', p) # 0
               PROVE  \E i \in KeyIds : \E e \in Levels(i) :
                        Way(i, e) \in t /\ p = then(Way(i, e)) + Code(i, e)
    OBVIOUS
  <2>1. CASE \E c \in Codes(n) : p = begin + c
    <3>1. PICK i \in W : p = begin + Code(i, d)
      BY <2>1 DEF Codes, W
    <3>2. i \in KeyIds /\ d \in Levels(i) /\ Way(i, d) = s
      BY <1>9
    <3> QED
      BY <1>3, <1>12, <3>1, <3>2
  <2>2. CASE ~\E c \in Codes(n) : p = begin + c
    <3>1. At(check, p) # 0
      BY <1>4, <2>2
    <3>2. PICK i \in KeyIds : \E e \in Levels(i) :
            Way(i, e) \in inner /\ p = BaseOf(place, Way(i, e)) + Code(i, e)
      BY <1>6, <3>1 DEF Branches
    <3>3. PICK e \in Levels(i) : Way(i, e) \in inner /\ p = BaseOf(place, Way(i, e)) + Code(i, e)
      BY <3>2
    <3>4. Way(i, e) \in t /\ p = then(Way(i, e)) + Code(i, e)
      BY <1>3, <1>13, <3>3
    <3> QED
      BY <3>4
  <2> QED
    BY <2>1, <2>2
<1>22. Branches(q, t)'
  <2>1. \A v, w \in t : BaseOf(q, v)' = BaseOf(q, w)' => v = w
    BY <1>20 DEF BaseOf, then
  <2>2. \A p \in Nat : At(check, p)' # 0 =>
         \E i \in KeyIds : \E e \in Levels(i) : Way(i, e) \in t /\ p = then(Way(i, e)) + Code(i, e)
    <3>1. \A p \in Nat : At(check, p)' = At(check', p)
      BY DEF At
    <3> QED
      BY <1>21, <3>1
  <2> QED
    BY <1>11, <1>14, <1>19, <2>1, <2>2 DEF Branches
<1>23. \A k \in 1..m :
         /\ WayTo(todo'[k]) = Way(Fetch(n)[k].left, d + 1) /\ Fetch(n)[k].left \in W
         /\ Code(Fetch(n)[k].left, d) = Fetch(n)[k].code
         /\ PendingNode(q, t, todo'[k])
  <2> SUFFICES ASSUME NEW k \in 1..m
               PROVE  /\ WayTo(todo'[k]) = Way(Fetch(n)[k].left, d + 1) /\ Fetch(n)[k].left \in W
                      /\ Code(Fetch(n)[k].left, d) = Fetch(n)[k].code
                      /\ PendingNode(q, t, todo'[k])
    OBVIOUS
  <2>1. PICK f : f = Fetch(n)[k]
    OBVIOUS
  <2>2. /\ f.depth = d + 1 /\ f.left \in W /\ Code(f.left, d) = f.code
        /\ \A i \in Nat : f.left <= i /\ i < f.right <=> i \in W /\ Code(i, d) = f.code
    <3>1. /\ \A j \in 1..Len(Fetch(n)) :
               /\ Fetch(n)[j].depth = n.depth + 1
               /\ Fetch(n)[j].left \in Within(n)
               /\ Code(Fetch(n)[j].left, n.depth) = Fetch(n)[j].code
               /\ \A i \in Nat : Fetch(n)[j].left <= i /\ i < Fetch(n)[j].right
                                 <=> i \in Within(n) /\ Code(i, n.depth) = Fetch(n)[j].code
      BY <1>4, <1>10, FetchRanges DEF W
    <3>2. k \in 1..Len(Fetch(n))
      BY DEF m
    <3> QED
      BY <2>1, <3>1, <3>2 DEF W
  <2>3. PICK x : x = todo'[k]
    OBVIOUS
  <2>4. x = [cell |-> begin + f.code, depth |-> f.depth, left |-> f.left, right |-> f.right]
    BY <1>5, <2>1, <2>3
  <2>5. x.cell = begin + f.code /\ x.depth = d + 1 /\ x.left = f.left /\ x.right = f.right
    BY <2>2, <2>4
  <2>6. PICK l \in W : l = f.left
    BY <2>2
  <2>7. WayTo(x) = Way(l, d + 1)
    BY <2>5, <2>6 DEF WayTo
  <2>8. /\ l \in KeyIds /\ d + 1 \in Levels(l) /\ Way(l, d) = s
        /\ Way(l, d + 1) \in DOMAIN q /\ Way(l, d + 1) \notin DOMAIN place
        /\ q[Way(l, d + 1)] = begin + Code(l, d)
    BY <1>9
  <2>9. Way(l, d + 1) \notin t
    BY <1>3, <1>6, <1>8, <2>8
  <2>10. \A i \in KeyIds : x.left <= i /\ i < x.right <=> d + 1 \in Levels(i) /\ Way(i, d + 1) = WayTo(x)
    <3> SUFFICES ASSUME NEW i \in KeyIds
                 PROVE  f.left <= i /\ i < f.right <=> d + 1 \in Levels(i) /\ Way(i, d + 1) = Way(l, d + 1)
      BY <2>5, <2>7
    <3>1. i \in Nat /\ Len(key[i]) \in Nat
      BY <1>4, KeyFacts
    <3>2. f.left <= i /\ i < f.right <=> i \in W /\ Code(i, d) = Code(l, d)
      BY <2>2, <2>6, <3>1
    <3>3. ASSUME i \in W, Code(i, d) = Code(l, d)
          PROVE  d + 1 \in Levels(i) /\ Way(i, d + 1) = Way(l, d + 1)
      <4>1. Way(i, d) = Way(l, d) /\ d + 1 \in Levels(i)
        BY <1>9, <2>8, <3>3
      <4> QED
        BY <1>8, <3>3, <4>1, WayFacts
    <3>4. ASSUME d + 1 \in Levels(i), Way(i, d + 1) = Way(l, d + 1)
          PROVE  i \in W /\ Code(i, d) = Code(l, d)
      <4>1. Way(i, d) = Way(l, d) /\ Code(i, d) = Code(l, d)
        BY <1>8, <3>4, WayFacts
      <4>2. d \in Levels(i)
        BY <1>8, <3>1, <3>4 DEF Levels
      <4> QED
        BY <1>9, <2>8, <4>1, <4>2
    <3> QED
      BY <3>2, <3>3, <3>4
  <2>11. PendingNode(q, t, x)
    BY <2>2, <2>5, <2>6, <2>7, <2>8, <2>9, <2>10 DEF PendingNode
  <2> QED
    BY <2>1, <2>2, <2>3, <2>6, <2>7, <2>11
<1>24. \A k \in 2..Len(todo) :
         PendingNode(q, t, todo[k]) /\ WayTo(todo[k]) \in DOMAIN place /\ WayTo(todo[k]) # s
  <2> SUFFICES ASSUME NEW k \in 2..Len(todo)
               PROVE  PendingNode(q, t, todo[k]) /\ WayTo(todo[k]) \in DOMAIN place /\ WayTo(todo[k]) # s
    OBVIOUS
  <2>1. PICK x : x = todo[k]
    OBVIOUS
  <2>2. PendingNode(place, inner, x) /\ WayTo(x) # s
    BY <1>6, <1>7, <2>1 DEF Visits
  <2>3. /\ WayTo(x) \in DOMAIN place /\ WayTo(x) \in DOMAIN q /\ WayTo(x) \notin t
        /\ q[WayTo(x)] = place[WayTo(x)]
    BY <1>3, <1>9, <2>2 DEF PendingNode
  <2> QED
    BY <2>1, <2>2, <2>3 DEF PendingNode
<1>25. \A k \in 1..Len(todo') : PendingNode(q, t, todo'[k])
  <2> SUFFICES ASSUME NEW k \in 1..Len(todo') PROVE PendingNode(q, t, todo'[k])
    OBVIOUS
  <2>1. CASE k \in 1..m
    BY <1>23, <2>1
  <2>2. CASE k - m + 1 \in 2..Len(todo)
    <3>1. PICK x \in 2..Len(todo) : x = k - m + 1
      BY <2>2
    <3>2. m + x - 1 = k
      BY <1>5, <3>1
    <3>3. todo'[k] = todo[x]
      BY <1>5, <3>2
    <3> QED
      BY <1>24, <3>3
  <2> QED
    BY <1>5, <2>1, <2>2
<1>26. \A k, l \in 1..Len(todo') : k # l => WayTo(todo'[k]) # WayTo(todo'[l])
  <2>1. ASSUME NEW k \in 1..m, NEW l \in 1..m, k # l PROVE WayTo(todo'[k]) # WayTo(todo'[l])
    <3> SUFFICES ASSUME WayTo(todo'[k]) = WayTo(todo'[l]) PROVE FALSE
      OBVIOUS
    <3>1. Way(Fetch(n)[k].left, d + 1) = Way(Fetch(n)[l].left, d + 1)
      BY <1>23
    <3>2. Code(Fetch(n)[k].left, d) = Code(Fetch(n)[l].left, d)
      BY <1>8, <3>1, WayFacts
    <3>3. Fetch(n)[k].code = Fetch(n)[l].code
      BY <1>23, <3>2
    <3> QED
      BY <1>4, <1>10, <2>1, <3>3, FetchRanges DEF W, m
  <2>2. \A k \in 1..m : WayTo(todo'[k]) \notin DOMAIN place
    BY <1>9, <1>23
  <2>3. \A k \in 2..Len(todo) : \A l \in 2..Len(todo) : k # l => WayTo(todo[k]) # WayTo(todo[l])
    BY <1>6, <1>7 DEF Visits
  <2>4. \A k \in 1..Len(todo') : k \in 1..m \/ \E x \in 2..Len(todo) : x = k - m + 1 /\ todo'[k] = todo[x]
    <3> SUFFICES ASSUME NEW k \in 1..Len(todo'), k \notin 1..m
                 PROVE  \E x \in 2..Len(todo) : x = k - m + 1 /\ todo'[k] = todo[x]
      OBVIOUS
    <3>1. PICK x \in 2..Len(todo) : x = k - m + 1
      BY <1>5
    <3>2. m + x - 1 = k
      BY <1>5, <3>1
    <3> QED
      BY <1>5, <3>1, <3>2
  <2> SUFFICES ASSUME NEW k \in 1..Len(todo'), NEW l \in 1..Len(todo'), k # l
               PROVE  WayTo(todo'[k]) # WayTo(todo'[l])
    OBVIOUS
  <2>5. CASE k \in 1..m /\ l \in 1..m
    BY <2>1, <2>5
  <2>6. CASE k \in 1..m /\ l \notin 1..m
    BY <1>24, <2>2, <2>4, <2>6
  <2>7. CASE k \notin 1..m /\ l \in 1..m
    BY <1>24, <2>2, <2>4, <2>7
  <2>8. CASE k \notin 1..m /\ l \notin 1..m
    <3>1. PICK x \in 2..Len(todo) : x = k - m + 1 /\ todo'[k] = todo[x]
      BY <2>4, <2>8
    <3>2. PICK y \in 2..Len(todo) : y = l - m + 1 /\ todo'[l] = todo[y]
      BY <2>4, <2>8
    <3>3. x # y
      BY <1>5, <3>1, <3>2
    <3> QED
      BY <2>3, <3>1, <3>2, <3>3
  <2> QED
    BY <2>5, <2>6, <2>7, <2>8
<1>27. \A i \in KeyIds : \A e \in Levels(i) : Way(i, e) \in DOMAIN q =>
         \/ \E k \in 1..Len(todo') : WayTo(todo'[k]) = Way(i, e)
         \/ IF e <= Len(key[i]) THEN Way(i, e) \in t
            ELSE then(Way(i, e)) = -value[i] - 1 /\ value[i] >= 0
  <2> SUFFICES ASSUME NEW i \in KeyIds, NEW e \in Levels(i), Way(i, e) \in DOMAIN q
               PROVE  \/ \E k \in 1..Len(todo') : WayTo(todo'[k]) = Way(i, e)
                      \/ IF e <= Len(key[i]) THEN Way(i, e) \in t
                         ELSE then(Way(i, e)) = -value[i] - 1 /\ value[i] >= 0
    OBVIOUS
  <2>1. CASE Way(i, e) \in Below(n)
    <3>1. e = d + 1 /\ i \in W /\ Code(i, d) \in Codes(n) /\ Way(i, d) = s
      BY <1>9, <2>1
    <3>2. PICK k \in 1..m : Fetch(n)[k].code = Code(i, d)
      BY <1>4, <1>10, <3>1, FetchRanges DEF W, m
    <3>3. PICK l \in W : l = Fetch(n)[k].left
      BY <1>23
    <3>4. Code(l, d) = Code(i, d) /\ Way(l, d) = s
      BY <1>9, <1>23, <3>2, <3>3
    <3>5. Way(l, d + 1) = Way(i, d + 1)
      BY <1>8, <3>1, <3>4, WayFacts
    <3>6. WayTo(todo'[k]) = Way(i, e) /\ k \in 1..Len(todo')
      BY <1>5, <1>23, <3>1, <3>3, <3>5
    <3> QED
      BY <3>6
  <2>2. CASE Way(i, e) = s
    <3>1. e = d /\ i \in W
      BY <1>9, <2>2
    <3>2. e <= Len(key[i])
      BY <1>9, <3>1
    <3> QED
      BY <1>3, <2>2, <3>2
  <2>3. CASE Way(i, e) \in DOMAIN place /\ Way(i, e) # s
    <3>1. CASE IsPending(Way(i, e))
      <4>1. PICK k \in 1..Len(todo) : WayTo(todo[k]) = Way(i, e)
        BY <3>1 DEF IsPending
      <4>2. k # 1
        BY <1>1, <1>4, <2>3, <4>1
      <4>3. k \in 2..Len(todo)
        BY <1>5, <4>2
      <4> QED
        BY <1>5, <4>1, <4>3
    <3>2. CASE Visited(place, inner, i, e)
      BY <1>3, <1>12, <2>3, <3>2 DEF Visited
    <3> QED
      BY <1>6, <2>3, <3>1, <3>2 DEF Visits
  <2> QED
    BY <1>9, <2>1, <2>2, <2>3
<1>28. Visits(q, t)'
  <2>1. \A x : PendingNode(q, t, x)' <=> PendingNode(q, t, x)
    BY <1>11
  <2>2. \A k \in 1..Len(todo') : PendingNode(q, t, todo[k])'
    <3> SUFFICES ASSUME NEW k \in 1..Len(todo') PROVE PendingNode(q, t, todo[k])'
      OBVIOUS
    <3>1. PICK x : x = todo'[k]
      OBVIOUS
    <3>2. PendingNode(q, t, x)'
      BY <1>25, <2>1, <3>1
    <3> QED
      BY <3>1, <3>2 DEF PendingNode
  <2>3. \A k : WayTo(todo[k])' = WayTo(todo'[k])
    BY <1>11 DEF WayTo
  <2>4. \A k, l \in 1..Len(todo') : k # l => WayTo(todo[k])' # WayTo(todo[l])'
    BY <1>26, <2>3
  <2>5. \A i \in KeyIds : \A e \in Levels(i) : Way(i, e) \in DOMAIN q =>
          IsPending(Way(i, e))' \/ Visited(q, t, i, e)'
    <3> SUFFICES ASSUME NEW i \in KeyIds, NEW e \in Levels(i), Way(i, e) \in DOMAIN q
                 PROVE  IsPending(Way(i, e))' \/ Visited(q, t, i, e)'
      OBVIOUS
    <3>1. CASE \E k \in 1..Len(todo') : WayTo(todo'[k]) = Way(i, e)
      BY <1>11, <2>3, <3>1 DEF IsPending
    <3>2. CASE IF e <= Len(key[i]) THEN Way(i, e) \in t
               ELSE then(Way(i, e)) = -value[i] - 1 /\ value[i] >= 0
      BY <1>4, <1>11, <1>14, <3>2 DEF Visited
    <3> QED
      BY <1>27, <3>1, <3>2
  <2> QED
    BY <1>11, <2>2, <2>4, <2>5 DEF Visits
<1> QED
  BY <1>11, <1>16, <1>22, <1>28 DEF Trie

-----------------------------------------------------------------------------
(* VIII. Searching the trie. *)

(* The trie when nothing is left to be visited. *)
InnerNode(place, i, d) ==
  /\ BaseOf(place, Way(i, d)) \in Nat \ {0}
  /\ At(check, BaseOf(place, Way(i, d)) + Code(i, d)) = BaseOf(place, Way(i, d))
  /\ At(base, BaseOf(place, Way(i, d)) + Code(i, d)) = BaseOf(place, Way(i, d + 1))
Complete(place) ==
  /\ \A i \in KeyIds : BaseOf(place, Way(i, 0)) = base[0]
  /\ \A i \in KeyIds : \A d \in 0..Len(key[i]) : InnerNode(place, i, d)
  /\ \A i \in KeyIds : BaseOf(place, Way(i, Len(key[i]) + 1)) = -value[i] - 1 /\ value[i] >= 0
  /\ \A i, j \in KeyIds : \A d \in 0..Len(key[i]) : \A e \in 0..Len(key[j]) :
       BaseOf(place, Way(i, d)) = BaseOf(place, Way(j, e)) => Way(i, d) = Way(j, e)
  /\ \A p \in Nat : At(check, p) # 0 =>
       \E i \in KeyIds : \E d \in 0..Len(key[i]) :
         p = BaseOf(place, Way(i, d)) + Code(i, d) /\ At(check, p) = BaseOf(place, Way(i, d))

(* When nothing is pending, every key can be walked to its value, and a cell
   that is owned belongs to a step of a key. *)
LEMMA BuiltTrie ==
  ASSUME ArrayInv, ~Building, NEW place, NEW inner, Trie(place, inner)
  PROVE  Complete(place)
<1>1. /\ Placed(place, inner) /\ Branches(place, inner) /\ Visits(place, inner)
      /\ KeysTyped(key, value) /\ used \subseteq Nat \ {0} /\ 0 \in DOMAIN base
  BY DEF Trie, ArrayInv
<1>2. \A w : ~IsPending(w)
  <2>1. todo = << >>
    BY DEF Building
  <2>2. Len(todo) = 0
    BY <2>1
  <2> QED
    BY <2>2 DEF IsPending
<1>3. \A i \in KeyIds : Len(key[i]) \in Nat \ {0} /\ value[i] \in Int
  BY <1>1, KeyFacts
<1>4. \A i \in KeyIds : \A d \in Levels(i) : Way(i, d) \in DOMAIN place => Visited(place, inner, i, d)
  BY <1>1, <1>2 DEF Visits
<1> DEFINE U == {d \in Nat : \A i \in KeyIds : d \in Levels(i) => Way(i, d) \in DOMAIN place}
<1>5. 0 \in U
  BY <1>1 DEF Placed
<1>6. ASSUME NEW d \in Nat, d \in U PROVE d + 1 \in U
  <2> SUFFICES ASSUME NEW i \in KeyIds, d + 1 \in Levels(i) PROVE Way(i, d + 1) \in DOMAIN place
    OBVIOUS
  <2>1. d \in Levels(i) /\ d <= Len(key[i])
    BY <1>3 DEF Levels
  <2>2. Way(i, d) \in inner
    BY <1>4, <1>6, <2>1 DEF Visited
  <2> QED
    BY <1>1, <2>1, <2>2 DEF Branches, ChildrenPlaced
<1>7. \A i \in KeyIds : \A d \in Levels(i) : Way(i, d) \in DOMAIN place
  <2>1. Nat \subseteq U
    <3> HIDE DEF U
    <3> QED
      BY <1>5, <1>6, NatSetInduction
  <2>2. \A i \in KeyIds : \A d \in Levels(i) : d \in Nat
    BY DEF Levels
  <2> QED
    BY <2>1, <2>2
<1>8. \A i \in KeyIds : \A d \in 0..Len(key[i]) :
        d \in Levels(i) /\ Way(i, d) \in inner /\ ChildrenPlaced(place, i, d)
  <2> SUFFICES ASSUME NEW i \in KeyIds, NEW d \in 0..Len(key[i])
               PROVE  d \in Levels(i) /\ Way(i, d) \in inner /\ ChildrenPlaced(place, i, d)
    OBVIOUS
  <2>1. d \in Levels(i) /\ d <= Len(key[i])
    BY <1>3 DEF Levels
  <2>2. Way(i, d) \in inner
    BY <1>4, <1>7, <2>1 DEF Visited
  <2> QED
    BY <1>1, <2>1, <2>2 DEF Branches
<1>9. \A i \in KeyIds : BaseOf(place, Way(i, 0)) = base[0]
  BY <1>1 DEF Placed, BaseOf, At
<1>10. \A i \in KeyIds : \A d \in 0..Len(key[i]) : InnerNode(place, i, d)
  <2> SUFFICES ASSUME NEW i \in KeyIds, NEW d \in 0..Len(key[i]) PROVE InnerNode(place, i, d)
    OBVIOUS
  <2>1. ChildrenPlaced(place, i, d)
    BY <1>8
  <2> QED
    BY <1>1, <2>1 DEF ChildrenPlaced, InnerNode, BaseOf
<1>11. \A i \in KeyIds : BaseOf(place, Way(i, Len(key[i]) + 1)) = -value[i] - 1 /\ value[i] >= 0
  <2> SUFFICES ASSUME NEW i \in KeyIds
               PROVE  BaseOf(place, Way(i, Len(key[i]) + 1)) = -value[i] - 1 /\ value[i] >= 0
    OBVIOUS
  <2> DEFINE d == Len(key[i]) + 1
  <2>1. d \in Levels(i) /\ ~(d <= Len(key[i]))
    BY <1>3 DEF Levels
  <2>2. Visited(place, inner, i, d)
    BY <1>4, <1>7, <2>1
  <2> QED
    BY <2>1, <2>2 DEF Visited
<1>12. \A i, j \in KeyIds : \A d \in 0..Len(key[i]) : \A e \in 0..Len(key[j]) :
         BaseOf(place, Way(i, d)) = BaseOf(place, Way(j, e)) => Way(i, d) = Way(j, e)
  BY <1>1, <1>8 DEF Branches
<1>13. ASSUME NEW p \in Nat, At(check, p) # 0
       PROVE  \E i \in KeyIds : \E d \in 0..Len(key[i]) :
                p = BaseOf(place, Way(i, d)) + Code(i, d) /\ At(check, p) = BaseOf(place, Way(i, d))
  <2>1. PICK i \in KeyIds : \E d \in Levels(i) :
          Way(i, d) \in inner /\ p = BaseOf(place, Way(i, d)) + Code(i, d)
    BY <1>1, <1>13 DEF Branches
  <2>2. PICK d \in Levels(i) : Way(i, d) \in inner /\ p = BaseOf(place, Way(i, d)) + Code(i, d)
    BY <2>1
  <2>3. ChildrenPlaced(place, i, d)
    BY <1>1, <2>2 DEF Branches
  <2>4. d <= Len(key[i]) /\ At(check, p) = BaseOf(place, Way(i, d))
    BY <2>2, <2>3 DEF ChildrenPlaced
  <2>5. d \in 0..Len(key[i])
    BY <1>3, <2>4 DEF Levels
  <2> QED
    BY <2>2, <2>4, <2>5
<1> QED
  BY <1>9, <1>10, <1>11, <1>12, <1>13 DEF Complete

(* A text begins with the first m bytes of a key. *)
Follows(text, i, m) == m <= Len(key[i]) /\ \A r \in 1..m : key[i][r] = text[r]

(* Two keys share their first m bytes exactly when they share their first m nodes. *)
LEMMA FollowsFacts ==
  ASSUME KeysTyped(key, value), NEW text, NEW i \in KeyIds, NEW j \in KeyIds, NEW m \in Nat,
         Follows(text, i, m), m <= Len(key[j])
  PROVE  Follows(text, j, m) <=> Way(i, m) = Way(j, m)
<1>1. /\ Len(key[i]) \in Nat /\ Len(key[j]) \in Nat /\ m <= Len(key[i])
      /\ key[i] \in Seq(Nat) /\ key[j] \in Seq(Nat)
  BY KeyFacts DEF Follows
<1>2. \A r \in 0..(m - 1) : /\ Code(i, r) = key[i][r + 1] + 1 /\ Code(j, r) = key[j][r + 1] + 1
                            /\ key[i][r + 1] \in Nat /\ key[j][r + 1] \in Nat
  <2> SUFFICES ASSUME NEW r \in 0..(m - 1)
               PROVE  /\ Code(i, r) = key[i][r + 1] + 1 /\ Code(j, r) = key[j][r + 1] + 1
                      /\ key[i][r + 1] \in Nat /\ key[j][r + 1] \in Nat
    OBVIOUS
  <2>1. /\ r \in 0..(Len(key[i]) - 1) /\ r \in 0..(Len(key[j]) - 1)
        /\ r + 1 \in 1..Len(key[i]) /\ r + 1 \in 1..Len(key[j])
    BY <1>1
  <2>2. Code(i, r) = key[i][r + 1] + 1
    BY <2>1, KeyFacts
  <2>3. Code(j, r) = key[j][r + 1] + 1
    BY <2>1, KeyFacts
  <2>4. key[i][r + 1] \in Nat /\ key[j][r + 1] \in Nat
    BY <1>1, <2>1, ElementOfSeq
  <2> QED
    BY <2>2, <2>3, <2>4
<1>3. \A r \in 0..(m - 1) : Code(i, r) = Code(j, r) <=> key[i][r + 1] = key[j][r + 1]
  <2> SUFFICES ASSUME NEW r \in 0..(m - 1)
               PROVE  Code(i, r) = Code(j, r) <=> key[i][r + 1] = key[j][r + 1]
    OBVIOUS
  <2> DEFINE a == key[i][r + 1]
             b == key[j][r + 1]
  <2>1. a \in Nat /\ b \in Nat /\ Code(i, r) = a + 1 /\ Code(j, r) = b + 1
    BY <1>2
  <2> HIDE DEF a, b
  <2>2. Code(i, r) = Code(j, r) <=> a = b
    BY <2>1
  <2> QED
    BY <2>2 DEF a, b
<1>4. Way(i, m) = Way(j, m) <=> \A r \in 0..(m - 1) : key[i][r + 1] = key[j][r + 1]
  <2>1. Way(i, m) = Way(j, m) <=> \A r \in 0..(m - 1) : Code(i, r) = Code(j, r)
    BY WayFacts
  <2> QED
    BY <1>3, <2>1
<1>5. (\A r \in 0..(m - 1) : key[i][r + 1] = key[j][r + 1]) <=> \A r \in 1..m : key[i][r] = key[j][r]
  <2>1. ASSUME \A r \in 0..(m - 1) : key[i][r + 1] = key[j][r + 1], NEW r \in 1..m
        PROVE  key[i][r] = key[j][r]
    <3>1. r - 1 \in 0..(m - 1) /\ (r - 1) + 1 = r
      OBVIOUS
    <3>2. key[i][(r - 1) + 1] = key[j][(r - 1) + 1]
      BY <2>1, <3>1
    <3> QED
      BY <3>1, <3>2
  <2>2. \A r \in 0..(m - 1) : r + 1 \in 1..m
    OBVIOUS
  <2> QED
    BY <2>1, <2>2
<1>6. \A r \in 1..m : key[i][r] = text[r]
  BY DEF Follows
<1> QED
  BY <1>4, <1>5, <1>6 DEF Follows

(* The walk of a text is on the way of a key as long as there is one. *)
LEMMA WalkFollows ==
  ASSUME ArrayInv, NEW place, Complete(place), NEW text \in Seq(Nat), NEW m \in 0..Len(text)
  PROVE  /\ \A i \in KeyIds : Follows(text, i, m) => Walk(text)[m] = BaseOf(place, Way(i, m))
         /\ (\A i \in KeyIds : ~Follows(text, i, m)) => Walk(text)[m] = 0
<1> DEFINE n == Len(text)
           walk == Walk(text)
           On(k) == /\ \A i \in KeyIds : Follows(text, i, k) => walk[k] = BaseOf(place, Way(i, k))
                    /\ (\A i \in KeyIds : ~Follows(text, i, k)) => walk[k] = 0
           U == {k \in Nat : k <= n => On(k)}
<1>1. KeysTyped(key, value) /\ n \in Nat
  BY DEF ArrayInv
<1>2. walk[0] = base[0] /\ \A k \in 1..n : walk[k] = WalkOn(walk[k - 1], text[k])
  BY WalkFacts
<1>3. \A i \in KeyIds : Len(key[i]) \in Nat \ {0}
  BY <1>1, KeyFacts
<1> HIDE DEF walk
<1>4. 0 \in U
  <2>1. \A i \in KeyIds : walk[0] = BaseOf(place, Way(i, 0))
    BY <1>2 DEF Complete
  <2>2. \E i \in KeyIds : Follows(text, i, 0)
    <3>1. 1 \in KeyIds
      BY <1>1 DEF KeysTyped, KeyIds
    <3> QED
      BY <1>3, <3>1 DEF Follows
  <2> QED
    BY <2>1, <2>2
<1>5. ASSUME NEW k \in Nat, k \in U PROVE k + 1 \in U
  <2> SUFFICES ASSUME k + 1 <= n PROVE On(k + 1)
    <3> HIDE DEF On
    <3> QED
      OBVIOUS
  <2>1. On(k)
    <3>1. k <= n
      BY <1>1
    <3> HIDE DEF On
    <3> QED
      BY <1>5, <3>1
  <2>2. PICK c : c = text[k + 1]
    OBVIOUS
  <2>3. c \in Nat /\ walk[k + 1] = WalkOn(walk[k], c)
    <3>1. k + 1 \in 1..n /\ (k + 1) - 1 = k
      BY <1>1
    <3>2. c \in Nat
      BY <2>2, <3>1, ElementOfSeq
    <3> QED
      BY <1>2, <2>2, <3>1, <3>2
  <2>4. \A i \in KeyIds : Follows(text, i, k + 1) <=> Follows(text, i, k) /\ k + 1 <= Len(key[i]) /\ key[i][k + 1] = c
    <3> SUFFICES ASSUME NEW i \in KeyIds
                 PROVE  Follows(text, i, k + 1) <=>
                          Follows(text, i, k) /\ k + 1 <= Len(key[i]) /\ key[i][k + 1] = c
      OBVIOUS
    <3>1. Len(key[i]) \in Nat
      BY <1>3
    <3>2. \A r : r \in 1..k + 1 <=> r \in 1..k \/ r = k + 1
      OBVIOUS
    <3> QED
      BY <2>2, <3>1, <3>2 DEF Follows
  <2>5. CASE \E i \in KeyIds : Follows(text, i, k)
    <3>1. PICK i \in KeyIds : Follows(text, i, k)
      BY <2>5
    <3>2. PICK b : b = walk[k]
      OBVIOUS
    <3>3. k \in 0..Len(key[i])
      BY <1>3, <3>1 DEF Follows
    <3>4. b = BaseOf(place, Way(i, k)) /\ b \in Nat \ {0}
      BY <2>1, <3>1, <3>2, <3>3 DEF Complete, InnerNode
    <3>5. ASSUME NEW j \in KeyIds, Follows(text, j, k + 1)
          PROVE  walk[k + 1] = BaseOf(place, Way(j, k + 1))
      <4>1. Follows(text, j, k) /\ k + 1 <= Len(key[j]) /\ key[j][k + 1] = c
        BY <2>4, <3>5
      <4>2. k \in 0..(Len(key[j]) - 1) /\ k \in 0..Len(key[j])
        BY <1>3, <4>1
      <4>3. Code(j, k) = c + 1
        BY <1>1, <4>1, <4>2, KeyFacts
      <4>4. b = BaseOf(place, Way(j, k))
        BY <2>1, <3>2, <4>1
      <4>5. InnerNode(place, j, k)
        BY <4>2 DEF Complete
      <4>6. At(check, b + (c + 1)) = b /\ At(base, b + (c + 1)) = BaseOf(place, Way(j, k + 1))
        BY <4>3, <4>4, <4>5 DEF InnerNode
      <4>7. b + c + 1 = b + (c + 1)
        BY <2>3, <3>4
      <4> QED
        BY <2>3, <3>2, <3>4, <4>6, <4>7 DEF WalkOn
    <3>6. ASSUME \A j \in KeyIds : ~Follows(text, j, k + 1) PROVE walk[k + 1] = 0
      <4> SUFFICES ASSUME At(check, b + c + 1) = b PROVE FALSE
        BY <2>3, <3>2 DEF WalkOn
      <4>1. b + c + 1 \in Nat /\ At(check, b + c + 1) # 0
        BY <2>3, <3>4
      <4>2. PICK j \in KeyIds : \E d \in 0..Len(key[j]) :
              b + c + 1 = BaseOf(place, Way(j, d)) + Code(j, d) /\ b = BaseOf(place, Way(j, d))
        BY <4>1 DEF Complete
      <4>3. PICK d \in 0..Len(key[j]) :
              b + c + 1 = BaseOf(place, Way(j, d)) + Code(j, d) /\ b = BaseOf(place, Way(j, d))
        BY <4>2
      <4>4. Way(i, k) = Way(j, d)
        <5>1. \A x, y \in KeyIds : \A u \in 0..Len(key[x]) : \A v \in 0..Len(key[y]) :
                BaseOf(place, Way(x, u)) = BaseOf(place, Way(y, v)) => Way(x, u) = Way(y, v)
          BY DEF Complete
        <5>2. BaseOf(place, Way(i, k)) = BaseOf(place, Way(j, d))
          BY <3>4, <4>3
        <5> QED
          BY <3>3, <5>1, <5>2
      <4>5. d = k
        BY <1>3, <4>4, WayFacts
      <4>6. Code(j, d) \in Nat /\ (Code(j, d) = 0 <=> d = Len(key[j]))
        BY <1>1, KeyFacts
      <4>7. Code(j, d) = c + 1
        <5> DEFINE x == Code(j, d)
        <5>1. x \in Nat /\ b + c + 1 = b + x
          BY <4>3, <4>6
        <5> HIDE DEF x
        <5>2. x = c + 1
          BY <2>3, <3>4, <5>1
        <5> QED
          BY <5>2 DEF x
      <4>8. d # Len(key[j])
        BY <2>3, <4>6, <4>7
      <4>9. k \in 0..(Len(key[j]) - 1) /\ k + 1 <= Len(key[j]) /\ k <= Len(key[j]) /\ k + 1 \in 1..Len(key[j])
        BY <1>3, <4>5, <4>8
      <4>10. key[j][k + 1] = c
        <5> DEFINE x == key[j][k + 1]
        <5>1. Code(j, k) = x + 1
          BY <1>1, <4>9, KeyFacts
        <5>2. key[j] \in Seq(Nat)
          BY <1>1, KeyFacts
        <5>3. x \in Nat
          BY <4>9, <5>2, ElementOfSeq
        <5> HIDE DEF x
        <5>4. x = c
          BY <2>3, <4>5, <4>7, <5>1, <5>3
        <5> QED
          BY <5>4 DEF x
      <4>11. Follows(text, j, k)
        BY <1>1, <3>1, <4>4, <4>5, <4>9, FollowsFacts
      <4> QED
        BY <2>4, <3>6, <4>9, <4>10, <4>11
    <3> QED
      BY <3>5, <3>6
  <2>6. CASE \A i \in KeyIds : ~Follows(text, i, k)
    <3>1. walk[k] = 0
      BY <2>1, <2>6
    <3>2. walk[k + 1] = 0
      BY <2>3, <3>1 DEF WalkOn
    <3>3. \A i \in KeyIds : ~Follows(text, i, k + 1)
      BY <2>4, <2>6
    <3> QED
      BY <3>2, <3>3
  <2> QED
    BY <2>5, <2>6
<1>6. m \in U
  <2> HIDE DEF U
  <2>1. Nat \subseteq U
    BY <1>4, <1>5, NatSetInduction
  <2> QED
    BY <1>1, <2>1
<1>7. On(m)
  <2>1. m <= n
    BY <1>1
  <2> HIDE DEF On
  <2> QED
    BY <1>6, <2>1
<1> QED
  BY <1>7 DEF walk

(* A search comes to an end of a key exactly where the text spells it. *)
LEMMA EndsFacts ==
  ASSUME ArrayInv, NEW place, Complete(place), NEW text \in Seq(Nat), NEW m \in 0..Len(text)
  PROVE  /\ Ends(Walk(text)[m]) <=> \E i \in KeyIds : key[i] = SubSeq(text, 1, m)
         /\ \A i \in KeyIds : key[i] = SubSeq(text, 1, m) => -At(base, Walk(text)[m]) - 1 = value[i]
<1>1. KeysTyped(key, value) /\ Len(text) \in Nat /\ m \in Nat
  BY DEF ArrayInv
<1>2. /\ \A i \in KeyIds : Follows(text, i, m) => Walk(text)[m] = BaseOf(place, Way(i, m))
      /\ (\A i \in KeyIds : ~Follows(text, i, m)) => Walk(text)[m] = 0
  BY WalkFollows
<1>3. ASSUME NEW i \in KeyIds
      PROVE  key[i] = SubSeq(text, 1, m) <=> Follows(text, i, m) /\ Len(key[i]) = m
  <2> DEFINE s == key[i]
             u == SubSeq(text, 1, m)
  <2>1. s \in Seq(Nat) /\ Len(s) \in Nat
    BY <1>1, KeyFacts
  <2>2. u \in Seq(Nat) /\ Len(u) = m /\ \A r \in 1..m : u[r] = text[r]
    BY <1>1
  <2>3. Follows(text, i, m) <=> m <= Len(s) /\ \A r \in 1..m : s[r] = text[r]
    BY DEF Follows
  <2> HIDE DEF s, u
  <2>4. ASSUME s = u PROVE Follows(text, i, m) /\ Len(s) = m
    BY <1>1, <2>2, <2>3, <2>4
  <2>5. ASSUME Follows(text, i, m), Len(s) = m PROVE s = u
    BY <2>1, <2>2, <2>3, <2>5, SMTT(30)
  <2>6. s = u <=> Follows(text, i, m) /\ Len(s) = m
    BY <2>4, <2>5
  <2> QED
    BY <2>6 DEF s, u
<1>4. ASSUME NEW i \in KeyIds, Follows(text, i, m), Len(key[i]) = m
      PROVE  Ends(Walk(text)[m]) /\ -At(base, Walk(text)[m]) - 1 = value[i]
  <2>1. PICK b : b = Walk(text)[m]
    OBVIOUS
  <2>2. b = BaseOf(place, Way(i, m)) /\ InnerNode(place, i, m)
    BY <1>1, <1>2, <1>4, <2>1 DEF Complete
  <2>3. Code(i, m) = 0 /\ value[i] \in Int
    BY <1>1, <1>4, KeyFacts
  <2>4. b \in Nat \ {0} /\ At(check, b) = b /\ At(base, b) = BaseOf(place, Way(i, m + 1))
    BY <2>2, <2>3 DEF InnerNode
  <2>5. BaseOf(place, Way(i, m + 1)) = -value[i] - 1 /\ value[i] >= 0
    BY <1>4 DEF Complete
  <2>6. At(base, b) = -value[i] - 1
    BY <2>4, <2>5
  <2> DEFINE v == value[i]
  <2>7. v \in Nat /\ At(base, b) = -v - 1
    BY <2>3, <2>5, <2>6
  <2> HIDE DEF v
  <2>8. At(base, b) < 0 /\ -At(base, b) - 1 = v
    BY <2>7
  <2> QED
    BY <2>1, <2>4, <2>8 DEF Ends, v
<1>5. ASSUME Ends(Walk(text)[m]) PROVE \E j \in KeyIds : Follows(text, j, m) /\ Len(key[j]) = m
  <2>1. PICK b : b = Walk(text)[m]
    OBVIOUS
  <2>2. b > 0 /\ At(check, b) = b
    BY <1>5, <2>1 DEF Ends
  <2>3. PICK i \in KeyIds : Follows(text, i, m)
    BY <1>2, <2>1, <2>2
  <2>4. m \in 0..Len(key[i])
    <3>1. Len(key[i]) \in Nat
      BY <1>1, KeyFacts
    <3> QED
      BY <1>1, <2>3, <3>1 DEF Follows
  <2>5. b = BaseOf(place, Way(i, m)) /\ b \in Nat \ {0}
    BY <1>2, <2>1, <2>3, <2>4 DEF Complete, InnerNode
  <2>6. PICK j \in KeyIds : \E d \in 0..Len(key[j]) :
          b = BaseOf(place, Way(j, d)) + Code(j, d) /\ At(check, b) = BaseOf(place, Way(j, d))
    BY <2>2, <2>5 DEF Complete
  <2>7. PICK d \in 0..Len(key[j]) :
          b = BaseOf(place, Way(j, d)) + Code(j, d) /\ At(check, b) = BaseOf(place, Way(j, d))
    BY <2>6
  <2>8. Code(j, d) = 0 /\ d = Len(key[j])
    <3> DEFINE x == Code(j, d)
    <3>1. x \in Nat /\ (x = 0 <=> d = Len(key[j])) /\ b = b + x
      BY <1>1, <2>2, <2>7, KeyFacts
    <3> HIDE DEF x
    <3>2. x = 0
      BY <2>5, <3>1
    <3> QED
      BY <3>1, <3>2 DEF x
  <2>9. Way(i, m) = Way(j, d)
    <3>1. \A x, y \in KeyIds : \A u \in 0..Len(key[x]) : \A v \in 0..Len(key[y]) :
            BaseOf(place, Way(x, u)) = BaseOf(place, Way(y, v)) => Way(x, u) = Way(y, v)
      BY DEF Complete
    <3>2. BaseOf(place, Way(i, m)) = BaseOf(place, Way(j, d))
      BY <2>2, <2>5, <2>7
    <3> QED
      BY <2>4, <3>1, <3>2
  <2>10. d \in Nat /\ d = m
    <3>1. d \in Nat
      OBVIOUS
    <3> QED
      BY <1>1, <2>9, <3>1, WayFacts
  <2>11. Follows(text, j, m)
    <3>1. m <= Len(key[j])
      BY <2>8, <2>10
    <3> QED
      BY <1>1, <2>3, <2>9, <2>10, <3>1, FollowsFacts
  <2> QED
    BY <2>8, <2>10, <2>11
<1> QED
  BY <1>3, <1>4, <1>5

(* What the two searches return, in terms of the keys. *)
Spelled(text) == {n \in 1..Len(text) : \E i \in KeyIds : key[i] = SubSeq(text, 1, n)}

LEMMA SearchFinds ==
  ASSUME ArrayInv, NEW place, Complete(place), NEW text \in Seq(Nat)
  PROVE  /\ Len(CommonPrefixSearch(text)) \in Nat
         /\ [k \in 1..Len(CommonPrefixSearch(text)) |-> CommonPrefixSearch(text)[k].length]
              = Ascending(Spelled(text))
         /\ \A k \in 1..Len(CommonPrefixSearch(text)) : \E i \in KeyIds :
              /\ CommonPrefixSearch(text)[k].length \in 1..Len(text)
              /\ key[i] = SubSeq(text, 1, CommonPrefixSearch(text)[k].length)
              /\ CommonPrefixSearch(text)[k].value = value[i]
         /\ \A i \in KeyIds : key[i] = text => ExactMatchSearch(text) = value[i]
         /\ (\A i \in KeyIds : key[i] # text) => ExactMatchSearch(text) = -1
<1> DEFINE walk == Walk(text)
           hits == {i \in 0..Len(text) : Ends(walk[i])}
           at == Ascending(hits)
           m == Len(at)
           g == [k \in 1..m |-> [value |-> -At(base, walk[at[k]]) - 1, length |-> at[k]]]
<1>1. KeysTyped(key, value) /\ Len(text) \in Nat
  BY DEF ArrayInv
<1>2. \A n \in 0..Len(text) :
        /\ Ends(walk[n]) <=> \E i \in KeyIds : key[i] = SubSeq(text, 1, n)
        /\ \A i \in KeyIds : key[i] = SubSeq(text, 1, n) => -At(base, walk[n]) - 1 = value[i]
  BY EndsFacts
<1>3. \A i \in KeyIds : key[i] # << >>
  <2> SUFFICES ASSUME NEW i \in KeyIds PROVE key[i] # << >>
    OBVIOUS
  <2>1. key[i] \in Seq(Nat) /\ Len(key[i]) # 0
    BY <1>1, KeyFacts
  <2> QED
    BY <2>1
<1> HIDE DEF walk
<1>4. hits = Spelled(text)
  <2>1. SubSeq(text, 1, 0) = << >>
    OBVIOUS
  <2>2. ~Ends(walk[0])
    <3>1. 0 \in 0..Len(text)
      BY <1>1
    <3> QED
      BY <1>2, <1>3, <2>1, <3>1
  <2>3. \A n : n \in 0..Len(text) <=> n = 0 \/ n \in 1..Len(text)
    BY <1>1
  <2>4. \A n : n \in hits <=> n \in Spelled(text)
    BY <1>2, <2>2, <2>3 DEF Spelled
  <2> HIDE DEF hits
  <2> QED
    BY <2>4
<1>5. hits \in SUBSET Nat /\ IsFiniteSet(hits) /\ hits \subseteq 1..Len(text)
  <2>1. IsFiniteSet(1..Len(text)) /\ 1..Len(text) \subseteq Nat
    BY <1>1, FS_Interval
  <2>2. hits \subseteq 1..Len(text)
    BY <1>4 DEF Spelled
  <2> HIDE DEF hits
  <2> QED
    BY <2>1, <2>2, FS_Subset
<1>6. CommonPrefixSearch(text) = g
  BY DEF CommonPrefixSearch, walk
<1> HIDE DEF hits
<1>7. at \in Seq(hits) /\ m \in Nat
  BY <1>5, AscendingFacts
<1> HIDE DEF at
<1>8. \A k \in 1..m : at[k] \in hits
  BY <1>7, ElementOfSeq
<1>9. Len(g) = m /\ at = [k \in 1..m |-> at[k]]
  BY <1>7
<1>10. \A k \in 1..m : g[k].length = at[k] /\ g[k].value = -At(base, walk[at[k]]) - 1
  OBVIOUS
<1> HIDE DEF g, m
<1>11. [k \in 1..Len(g) |-> g[k].length] = Ascending(Spelled(text))
  <2>1. [k \in 1..Len(g) |-> g[k].length] = at
    BY <1>9, <1>10
  <2> QED
    BY <1>4, <2>1 DEF at
<1>12. ASSUME NEW k \in 1..Len(g)
       PROVE  \E i \in KeyIds : /\ g[k].length \in 1..Len(text)
                                /\ key[i] = SubSeq(text, 1, g[k].length)
                                /\ g[k].value = value[i]
  <2>1. PICK a : a = at[k]
    OBVIOUS
  <2>2. a \in hits /\ g[k].length = a /\ g[k].value = -At(base, walk[a]) - 1
    BY <1>8, <1>9, <1>10, <2>1
  <2>3. a \in 1..Len(text) /\ a \in Spelled(text) /\ a \in 0..Len(text)
    BY <1>1, <1>4, <1>5, <2>2
  <2>4. PICK i \in KeyIds : key[i] = SubSeq(text, 1, a)
    BY <2>3 DEF Spelled
  <2> QED
    BY <1>2, <2>2, <2>3, <2>4
<1>13. /\ \A i \in KeyIds : key[i] = text => ExactMatchSearch(text) = value[i]
       /\ (\A i \in KeyIds : key[i] # text) => ExactMatchSearch(text) = -1
  <2>1. SubSeq(text, 1, Len(text)) = text /\ Len(text) \in 0..Len(text)
    BY <1>1
  <2>2. ExactMatchSearch(text) = IF Ends(walk[Len(text)]) THEN -At(base, walk[Len(text)]) - 1 ELSE -1
    BY DEF ExactMatchSearch, walk
  <2> QED
    BY <1>2, <2>1, <2>2
<1> QED
  BY <1>6, <1>7, <1>9, <1>11, <1>12, <1>13

-----------------------------------------------------------------------------
(* IX. What a compiled dictionary says of its lexicon. *)

(* A sequence that lists a set of numbers, smallest first. *)
Lists(f, S) ==
  /\ f \in Seq(S)
  /\ \A j, k \in 1..Len(f) : j < k => f[j] < f[k]
  /\ \A x \in S : \E k \in 1..Len(f) : f[k] = x

(* There is one such sequence at most. *)
LEMMA OneListing ==
  ASSUME NEW S, S \subseteq Nat, NEW f, NEW g, Lists(f, S), Lists(g, S)
  PROVE  f = g
<1>1. f \in Seq(S) /\ g \in Seq(S) /\ Len(f) \in Nat /\ Len(g) \in Nat
  BY DEF Lists
<1>2. /\ \A k \in 1..Len(f) : f[k] \in S
      /\ \A k \in 1..Len(g) : g[k] \in S
  BY <1>1, ElementOfSeq
<1>3. /\ \A j, k \in 1..Len(f) : j < k => f[j] < f[k]
      /\ \A x \in S : \E k \in 1..Len(f) : f[k] = x
      /\ \A j, k \in 1..Len(g) : j < k => g[j] < g[k]
      /\ \A x \in S : \E k \in 1..Len(g) : g[k] = x
  BY DEF Lists
<1> DEFINE Same(n) == (n \in 1..Len(f) <=> n \in 1..Len(g)) /\ (n \in 1..Len(f) => f[n] = g[n])
           U == {n \in Nat : \A k \in 1..n : Same(k)}
<1>4. 0 \in U
  OBVIOUS
<1>5. ASSUME NEW n \in Nat, n \in U PROVE n + 1 \in U
  <2>1. \A k \in 1..n : Same(k)
    BY <1>5
  <2>2. ASSUME n + 1 \in 1..Len(f) PROVE n + 1 \in 1..Len(g) /\ g[n + 1] <= f[n + 1]
    <3>1. PICK m \in 1..Len(g) : g[m] = f[n + 1]
      BY <1>2, <1>3, <2>2
    <3>2. ~(m <= n)
      <4> SUFFICES ASSUME m <= n PROVE FALSE
        OBVIOUS
      <4>1. m \in 1..n
        BY <1>1
      <4>2. m \in 1..Len(f) /\ f[m] = f[n + 1] /\ m < n + 1
        BY <2>1, <3>1, <4>1
      <4>3. f[m] < f[n + 1] /\ f[m] \in Nat
        BY <1>2, <1>3, <2>2, <4>2
      <4> QED
        BY <4>2, <4>3
    <3>3. n + 1 \in 1..Len(g) /\ (n + 1 = m \/ n + 1 < m)
      BY <1>1, <3>2
    <3>4. g[n + 1] \in Nat /\ g[m] \in Nat
      BY <1>2, <3>3
    <3> QED
      BY <1>3, <3>1, <3>3, <3>4
  <2>3. ASSUME n + 1 \in 1..Len(g) PROVE n + 1 \in 1..Len(f) /\ f[n + 1] <= g[n + 1]
    <3>1. PICK m \in 1..Len(f) : f[m] = g[n + 1]
      BY <1>2, <1>3, <2>3
    <3>2. ~(m <= n)
      <4> SUFFICES ASSUME m <= n PROVE FALSE
        OBVIOUS
      <4>1. m \in 1..n
        BY <1>1
      <4>2. m \in 1..Len(g) /\ g[m] = g[n + 1] /\ m < n + 1
        BY <2>1, <3>1, <4>1
      <4>3. g[m] < g[n + 1] /\ g[m] \in Nat
        BY <1>2, <1>3, <2>3, <4>2
      <4> QED
        BY <4>2, <4>3
    <3>3. n + 1 \in 1..Len(f) /\ (n + 1 = m \/ n + 1 < m)
      BY <1>1, <3>2
    <3>4. f[n + 1] \in Nat /\ f[m] \in Nat
      BY <1>2, <3>3
    <3> QED
      BY <1>3, <3>1, <3>3, <3>4
  <2>4. Same(n + 1)
    <3>1. ASSUME n + 1 \in 1..Len(f) PROVE f[n + 1] = g[n + 1]
      <4>1. n + 1 \in 1..Len(g) /\ f[n + 1] \in Nat /\ g[n + 1] \in Nat
        BY <1>2, <2>2, <3>1
      <4> QED
        BY <2>2, <2>3, <3>1, <4>1
    <3> QED
      BY <2>2, <2>3, <3>1
  <2>5. \A k \in 1..n + 1 : k \in 1..n \/ k = n + 1
    OBVIOUS
  <2> HIDE DEF Same
  <2> QED
    BY <2>1, <2>4, <2>5
<1>6. \A n \in Nat \ {0} : Same(n)
  <2> SUFFICES ASSUME NEW n \in Nat \ {0} PROVE Same(n)
    OBVIOUS
  <2>1. n \in U
    <3> HIDE DEF U
    <3> QED
      BY <1>4, <1>5, NatSetInduction
  <2> HIDE DEF Same
  <2> QED
    BY <2>1
<1>7. Len(f) = Len(g)
  <2>1. Len(f) # 0 => Len(f) \in 1..Len(g)
    <3>1. Len(f) # 0 => Len(f) \in 1..Len(f)
      BY <1>1
    <3> QED
      BY <1>1, <1>6, <3>1
  <2>2. Len(g) # 0 => Len(g) \in 1..Len(f)
    <3>1. Len(g) # 0 => Len(g) \in 1..Len(g)
      BY <1>1
    <3> QED
      BY <1>1, <1>6, <3>1
  <2> QED
    BY <1>1, <2>1, <2>2
<1>8. \A k \in 1..Len(f) : f[k] = g[k]
  BY <1>1, <1>6
<1> QED
  BY <1>1, <1>7, <1>8, SeqEqual

(* What is selected are the elements at the places that are listed. *)
LEMMA SelectLists ==
  ASSUME NEW T, NEW s \in Seq(T), NEW K
  PROVE  \E f : Lists(f, K \cap 1..Len(s)) /\ Select(s, K) = ValuesOf(s, f)
<1> DEFINE n == Len(s)
           I == 1..n
           id == [i \in 1..n |-> i]
           S == K \cap 1..n
<1>1. n \in Nat /\ DOMAIN s = I
  OBVIOUS
<1>2. id \in Seq(I) /\ Len(id) = n /\ \A i \in 1..n : id[i] = i
  BY <1>1
<1>3. ValuesOf(s, id) = s
  <2>1. DOMAIN id = I /\ \A i \in I : s[id[i]] = s[i]
    BY <1>1, <1>2
  <2>2. ValuesOf(s, id) = [i \in I |-> s[i]]
    <3> HIDE DEF id, I
    <3> QED
      BY <2>1 DEF ValuesOf
  <2> HIDE DEF id, I
  <2> QED
    BY <1>1, <2>2
<1> HIDE DEF n, id, I
<1>4. Select(s, K) = ValuesOf(s, Select(id, K))
  <2>1. id \in Seq(DOMAIN s)
    BY <1>1, <1>2
  <2>2. Select(ValuesOf(s, id), K) = ValuesOf(s, Select(id, K))
    BY <2>1, SelectMapped
  <2> QED
    BY <1>3, <2>2
<1>5. PICK F \in [0..Len(id) -> Seq(I)] : Selection(id, K, F)
  BY <1>2, SelectionExists
<1>6. /\ F[0] = << >> /\ F[n] = Select(id, K) /\ F \in [0..n -> Seq(I)]
      /\ \A i \in 1..n : F[i] = IF i \in K THEN Append(F[i - 1], i) ELSE F[i - 1]
  BY <1>2, <1>5 DEF Selection
<1> DEFINE Part(i) == K \cap 1..i
           U == {i \in Nat : i <= n => Lists(F[i], Part(i))}
<1>7. 0 \in U
  BY <1>6 DEF Lists
<1>8. ASSUME NEW i \in Nat, i \in U PROVE i + 1 \in U
  <2> SUFFICES ASSUME i + 1 <= n PROVE Lists(F[i + 1], Part(i + 1))
    OBVIOUS
  <2>1. i + 1 \in 1..n /\ (i + 1) - 1 = i /\ i <= n
    BY <1>1
  <2>2. Lists(F[i], Part(i))
    BY <1>8, <2>1
  <2>3. PICK f : f = F[i]
    OBVIOUS
  <2>4. F[i + 1] = IF i + 1 \in K THEN Append(f, i + 1) ELSE f
    BY <1>6, <2>1, <2>3
  <2>5. /\ f \in Seq(Part(i)) /\ Len(f) \in Nat
        /\ \A j, k \in 1..Len(f) : j < k => f[j] < f[k]
        /\ \A x \in Part(i) : \E k \in 1..Len(f) : f[k] = x
    BY <2>2, <2>3 DEF Lists
  <2>6. \A k \in 1..Len(f) : f[k] \in Part(i)
    <3> HIDE DEF Part
    <3> QED
      BY <2>5, ElementOfSeq
  <2>7. CASE i + 1 \notin K
    <3>1. Part(i + 1) = Part(i)
      BY <2>7
    <3> QED
      BY <2>2, <2>3, <2>4, <2>7, <3>1
  <2>8. CASE i + 1 \in K
    <3>1. Part(i + 1) = Part(i) \cup {i + 1} /\ \A x \in Part(i) : x \in Nat /\ x < i + 1
      BY <2>8
    <3> DEFINE h == Append(f, i + 1)
               m == Len(f)
    <3>2. /\ Len(h) = m + 1 /\ h[m + 1] = i + 1
          /\ \A k \in 1..m : h[k] = f[k]
      BY <2>5
    <3> HIDE DEF Part
    <3>3. h \in Seq(Part(i + 1))
      BY <2>5, <3>1
    <3> HIDE DEF h, m
    <3>4. \A k \in 1..m + 1 : k \in 1..m \/ k = m + 1
      BY <2>5 DEF m
    <3>5. ASSUME NEW j \in 1..m + 1, NEW k \in 1..m + 1, j < k PROVE h[j] < h[k]
      <4>1. j \in 1..m /\ h[j] = f[j] /\ f[j] \in Nat /\ f[j] < i + 1
        <5>1. j \in 1..m
          BY <2>5, <3>5 DEF m
        <5>2. f[j] \in Part(i)
          BY <2>6, <5>1 DEF m
        <5> QED
          BY <3>1, <3>2, <5>1, <5>2
      <4>2. CASE k = m + 1
        BY <3>2, <4>1, <4>2
      <4>3. CASE k \in 1..m
        BY <2>5, <3>2, <3>5, <4>1, <4>3 DEF m
      <4> QED
        BY <3>4, <4>2, <4>3
    <3>6. ASSUME NEW x \in Part(i + 1) PROVE \E k \in 1..m + 1 : h[k] = x
      <4>1. m \in Nat /\ m + 1 \in 1..m + 1 /\ \A k \in 1..m : k \in 1..m + 1
        BY <2>5 DEF m
      <4>2. CASE x = i + 1
        BY <3>2, <4>1, <4>2
      <4>3. CASE x \in Part(i)
        <5>1. PICK k \in 1..m : f[k] = x
          BY <2>5, <4>3 DEF m
        <5> QED
          BY <3>2, <4>1, <5>1
      <4> QED
        BY <3>1, <4>2, <4>3
    <3>7. F[i + 1] = h
      BY <2>4, <2>8 DEF h
    <3> QED
      BY <3>2, <3>3, <3>5, <3>6, <3>7 DEF Lists
  <2> QED
    BY <2>7, <2>8
<1>9. Lists(F[n], Part(n))
  <2>1. n \in U
    <3> HIDE DEF U
    <3> QED
      BY <1>1, <1>7, <1>8, NatSetInduction
  <2> HIDE DEF Part
  <2> QED
    BY <1>1, <2>1
<1> QED
  BY <1>4, <1>6, <1>9 DEF n

(* The entries in the order of the dictionary: by surface, then by line. *)
DictionaryOrder(es, q, n) ==
  /\ n \in Nat \ {0} /\ n <= Len(es) /\ q \in [1..n -> Lines(es)]
  /\ \A i \in Lines(es) : \E k \in 1..n : q[k] = i
  /\ \A k, m \in 1..n : k < m =>
       \/ SurfaceLess(es[q[k]].surface, es[q[m]].surface)
       \/ es[q[k]].surface = es[q[m]].surface /\ q[k] < q[m]

LEMMA CountUpTo == \A n \in Nat : IsFiniteSet(1..n) /\ Cardinality(1..n) = n
<1> SUFFICES ASSUME NEW n \in Nat PROVE IsFiniteSet(1..n) /\ Cardinality(1..n) = n
  OBVIOUS
<1>1. IsFiniteSet(1..n) /\ Cardinality(1..n) = IF 1 > n THEN 0 ELSE n - 1 + 1
  BY FS_Interval
<1> QED
  BY <1>1

(* The lines of the dictionary are the lines of the lexicon that compile() takes,
   by their surfaces, and for one surface in the order of the lexicon. *)
LEMMA LexiconOrder ==
  ASSUME NEW lexicon \in Lexicons
  PROVE  \E n, q : /\ DictionaryOrder(lexicon, q, n)
                   /\ Sorted(lexicon) = [k \in 1..n |-> lexicon[q[k]]]
<1> DEFINE T == {e \in ToSet(lexicon) : e.surface \in Seq(Nat)}
<1>1. \A i \in 1..Len(lexicon) : lexicon[i] \in T
  <2>1. lexicon \in Seq(ToSet(lexicon)) /\ \A i \in 1..Len(lexicon) : lexicon[i].surface \in Seq(Nat)
    BY LookupAssumption
  <2> QED
    BY <2>1
<1>2. lexicon \in Seq(T) /\ \A e \in T : e.surface \in Seq(Nat)
  <2>1. \A e \in T : e.surface \in Seq(Nat)
    OBVIOUS
  <2> HIDE DEF T
  <2> QED
    BY <1>1, <2>1, LookupAssumption
<1> HIDE DEF T
<1>3. PICK n, q :
        /\ n \in Nat /\ n <= Len(lexicon) /\ q \in [1..n -> Lines(lexicon)]
        /\ Sorted(lexicon) = [k \in 1..n |-> lexicon[q[k]]]
        /\ \A i \in Lines(lexicon) : \E k \in 1..n : q[k] = i
        /\ \A k, m \in 1..n : k < m => Before(lexicon, q[k], q[m])
  BY <1>2, SortedOrder
<1>4. PICK i : i \in Lines(lexicon)
  BY LookupAssumption DEF Lines
<1>5. n # 0
  BY <1>3, <1>4
<1>6. DictionaryOrder(lexicon, q, n)
  BY <1>3, <1>5 DEF DictionaryOrder, Before
<1> QED
  BY <1>3, <1>6

(* The entries of one surface: from one start up to the next. *)
BlockEnd(dic, at, k) == IF k = Len(at) THEN Len(dic) + 1 ELSE at[k + 1]
InSurfaceOrder(dic) ==
  \A i, j \in 1..Len(dic) :
    i < j => SurfaceLess(dic[i].surface, dic[j].surface) \/ dic[i].surface = dic[j].surface

Blocks(dic, at) ==
  /\ Len(at) \in Nat \ {0} /\ at[1] = 1
  /\ \A k \in 1..Len(at) :
       /\ at[k] \in 1..Len(dic) /\ BlockEnd(dic, at, k) \in (at[k] + 1)..(Len(dic) + 1)
       /\ \A i \in at[k]..(BlockEnd(dic, at, k) - 1) : dic[i].surface = dic[at[k]].surface
  /\ \A i \in 1..Len(dic) : \E k \in 1..Len(at) : i \in at[k]..(BlockEnd(dic, at, k) - 1)
  /\ \A k, m \in 1..Len(at) : k < m => SurfaceLess(dic[at[k]].surface, dic[at[m]].surface)

LEMMA BlockFacts ==
  ASSUME NEW T, NEW dic \in Seq(T), \A e \in T : e.surface \in Seq(Nat), Len(dic) # 0,
         InSurfaceOrder(dic)
  PROVE  Blocks(dic, Ascending(Starts(dic)))
<1>0. PICK at : at = Ascending(Starts(dic))
  OBVIOUS
<1> DEFINE n == Len(dic)
           m == Len(at)
           S == Starts(dic)
           s(i) == dic[i].surface
           end(k) == BlockEnd(dic, at, k)
<1>1. n \in Nat \ {0} /\ 1 \in 1..n /\ \A i \in 1..n : s(i) \in Seq(Nat)
  OBVIOUS
<1>2. S \subseteq 1..n /\ 1 \in S /\ \A i \in 1..n : i \in S <=> i = 1 \/ s(i) # s(i - 1)
  BY <1>1 DEF Starts
<1>3. S \in SUBSET Nat /\ IsFiniteSet(S)
  <2>1. IsFiniteSet(1..n) /\ 1..n \subseteq Nat
    BY <1>1, CountUpTo
  <2> HIDE DEF S, n
  <2> QED
    BY <1>2, <2>1, FS_Subset
<1>4. /\ at \in Seq(S) /\ m \in Nat
      /\ \A x \in S : \E k \in 1..m : at[k] = x
      /\ \A j, k \in 1..m : j < k => at[j] < at[k]
  <2>1. at = Ascending(S)
    BY <1>0
  <2> HIDE DEF S
  <2> QED
    BY <1>3, <2>1, AscendingFacts
<1> HIDE DEF S
<1>5. \A k \in 1..m : at[k] \in S /\ at[k] \in 1..n
  BY <1>2, <1>4, ElementOfSeq
<1>6. m # 0 /\ at[1] = 1
  <2>1. PICK k \in 1..m : at[k] = 1
    BY <1>2, <1>4
  <2>2. 1 \in 1..m
    BY <1>4, <2>1
  <2>3. k = 1
    <3> SUFFICES ASSUME k # 1 PROVE FALSE
      OBVIOUS
    <3>1. 1 < k
      BY <2>1
    <3>2. at[1] < at[k] /\ at[1] \in 1..n
      BY <1>4, <1>5, <2>2, <3>1
    <3> QED
      BY <1>1, <2>1, <3>2
  <2> QED
    BY <2>1, <2>2, <2>3
<1>7. \A k \in 1..m : end(k) \in (at[k] + 1)..(n + 1)
  <2> SUFFICES ASSUME NEW k \in 1..m PROVE end(k) \in (at[k] + 1)..(n + 1)
    OBVIOUS
  <2>1. CASE k = m
    BY <1>1, <1>5, <2>1 DEF BlockEnd
  <2>2. CASE k # m
    <3>1. k + 1 \in 1..m /\ k < k + 1
      BY <1>4, <2>2
    <3>2. at[k] < at[k + 1] /\ at[k] \in 1..n /\ at[k + 1] \in 1..n
      BY <1>4, <1>5, <3>1
    <3> QED
      BY <1>1, <2>2, <3>2 DEF BlockEnd
  <2> QED
    BY <2>1, <2>2
<1>8. \A k \in 1..m : \A i \in S : i < end(k) => i <= at[k]
  <2> SUFFICES ASSUME NEW k \in 1..m, NEW i \in S, i < end(k), at[k] < i PROVE FALSE
    <3>1. \A k \in 1..m : \A i \in S : at[k] \in Nat /\ i \in Nat
      BY <1>2, <1>5
    <3> QED
      BY <3>1
  <2>1. PICK j \in 1..m : at[j] = i
    BY <1>4
  <2>2. at[k] \in Nat /\ at[j] \in Nat
    BY <1>5
  <2>3. k < j
    <3> SUFFICES ASSUME j <= k PROVE FALSE
      BY <1>4
    <3>1. j = k \/ at[j] < at[k]
      BY <1>4
    <3> QED
      BY <2>1, <2>2, <3>1
  <2>4. k # m /\ k + 1 \in 1..m /\ (k + 1 = j \/ k + 1 < j)
    BY <1>4, <2>3, SMTT(30)
  <2>5. end(k) = at[k + 1] /\ at[k + 1] \in Nat
    BY <1>5, <2>4 DEF BlockEnd
  <2>6. at[k + 1] = at[j] \/ at[k + 1] < at[j]
    BY <1>4, <2>4
  <2> QED
    BY <2>1, <2>2, <2>5, <2>6
<1>9. \A k \in 1..m : \A i \in at[k]..(end(k) - 1) : s(i) = s(at[k])
  <2> SUFFICES ASSUME NEW k \in 1..m PROVE \A i \in at[k]..(end(k) - 1) : s(i) = s(at[k])
    OBVIOUS
  <2>1. PICK a : a = at[k]
    OBVIOUS
  <2>2. PICK e : e = end(k)
    OBVIOUS
  <2>3. a \in 1..n /\ e \in (a + 1)..(n + 1) /\ \A i \in S : i < e => i <= a
    BY <1>5, <1>7, <1>8, <2>1, <2>2
  <2> DEFINE U == {d \in Nat : a + d < e => s(a + d) = s(a)}
  <2>4. 0 \in U
    BY <2>3
  <2>5. ASSUME NEW d \in Nat, d \in U PROVE d + 1 \in U
    <3> SUFFICES ASSUME a + (d + 1) < e PROVE s(a + (d + 1)) = s(a)
      OBVIOUS
    <3>1. s(a + d) = s(a)
      BY <2>3, <2>5
    <3>2. a + (d + 1) \in 1..n /\ ~(a + (d + 1) <= a) /\ (a + (d + 1)) - 1 = a + d /\ a + (d + 1) # 1
      BY <1>1, <2>3
    <3>3. a + (d + 1) \notin S
      BY <2>3, <3>2
    <3> QED
      BY <1>2, <3>1, <3>2, <3>3
  <2>6. Nat \subseteq U
    <3> HIDE DEF U
    <3> QED
      BY <2>4, <2>5, NatSetInduction
  <2>7. ASSUME NEW i \in a..(e - 1) PROVE s(i) = s(a)
    <3>1. i - a \in Nat /\ a + (i - a) = i /\ i < e
      BY <2>3
    <3>2. i - a \in U
      BY <2>6, <3>1
    <3> QED
      BY <3>1, <3>2
  <2> QED
    BY <2>1, <2>2, <2>7
<1>10. \A i \in 1..n : \E k \in 1..m : i \in at[k]..(end(k) - 1)
  <2> DEFINE V == {i \in 1..n : \E k \in 1..m : i \in at[k]..(end(k) - 1)}
  <2> HIDE DEF end
  <2>1. ASSUME NEW i \in S PROVE i \in V
    <3>1. PICK k \in 1..m : at[k] = i
      BY <1>4
    <3>2. i \in 1..n /\ end(k) \in (i + 1)..(n + 1)
      BY <1>2, <1>7, <3>1
    <3>3. i \in at[k]..(end(k) - 1)
      BY <3>1, <3>2
    <3> QED
      BY <3>2, <3>3
  <2>2. 1 \in V
    BY <1>2, <2>1
  <2>3. ASSUME NEW i \in 1..(n - 1), i \in V PROVE i + 1 \in V
    <3>1. CASE i + 1 \in S
      BY <2>1, <3>1
    <3>2. CASE i + 1 \notin S
      <4>1. PICK k \in 1..m : i \in at[k]..(end(k) - 1)
        BY <2>3
      <4>2. PICK e : e = end(k)
        OBVIOUS
      <4>3. i + 1 \in 1..n /\ at[k] \in Nat /\ e \in Nat /\ i < e /\ at[k] <= i /\ e <= n + 1
        BY <1>1, <1>5, <1>7, <4>1, <4>2
      <4>4. e # i + 1
        <5> SUFFICES ASSUME e = i + 1 PROVE FALSE
          OBVIOUS
        <5>1. k # m
          BY <4>2, <4>3, <1>1 DEF end, BlockEnd
        <5>2. k + 1 \in 1..m /\ e = at[k + 1]
          BY <1>4, <4>2, <5>1 DEF end, BlockEnd
        <5> QED
          BY <1>5, <3>2, <5>2
      <4>5. i + 1 \in at[k]..(end(k) - 1)
        BY <4>2, <4>3, <4>4
      <4> QED
        BY <4>3, <4>5
    <3> QED
      BY <3>1, <3>2
  <2>4. 1..n \subseteq V
    <3> HIDE DEF V
    <3>1. n \in Nat /\ \A i \in 1..(n - 1) : i \in V => i + 1 \in V
      BY <1>1, <2>3
    <3> HIDE DEF n
    <3> QED
      BY <2>2, <3>1, IntervalInduction
  <2> QED
    BY <2>4
<1>11. ASSUME NEW j \in 1..m, NEW k \in 1..m, j < k PROVE SurfaceLess(s(at[j]), s(at[k]))
  <2>1. PICK a : a = at[j]
    OBVIOUS
  <2>2. PICK b : b = at[j + 1]
    OBVIOUS
  <2>3. PICK c : c = at[k]
    OBVIOUS
  <2>4. j + 1 \in 1..m /\ j # m /\ (j + 1 = k \/ j + 1 < k)
    BY <1>4, <1>11
  <2>5. end(j) = b
    BY <2>2, <2>4 DEF BlockEnd
  <2>6. /\ a \in 1..n /\ b \in 1..n /\ c \in 1..n /\ a < b /\ (b = c \/ b < c)
        /\ b \in S
    <3>1. a \in 1..n /\ b \in 1..n /\ c \in 1..n /\ b \in S
      BY <1>5, <2>1, <2>2, <2>3, <2>4
    <3>2. j < j + 1
      BY <1>4
    <3>3. a < b
      BY <1>4, <2>1, <2>2, <2>4, <3>2
    <3>4. b = c \/ b < c
      BY <1>4, <2>2, <2>3, <2>4
    <3> QED
      BY <3>1, <3>3, <3>4
  <2>7. b - 1 \in 1..n /\ b - 1 \in a..(b - 1) /\ b # 1 /\ b - 1 < b
    BY <2>6
  <2>8. s(b - 1) = s(a)
    BY <1>9, <2>1, <2>5, <2>7
  <2>9. s(b) # s(b - 1)
    BY <1>2, <2>6, <2>7
  <2>10. SurfaceLess(s(a), s(b))
    <3>1. SurfaceLess(s(b - 1), s(b)) \/ s(b - 1) = s(b)
      BY <2>6, <2>7 DEF InSurfaceOrder
    <3> QED
      BY <2>8, <2>9, <3>1
  <2>11. SurfaceLess(s(b), s(c)) \/ s(b) = s(c)
    BY <2>6 DEF InSurfaceOrder
  <2>12. s(a) \in Seq(Nat) /\ s(b) \in Seq(Nat) /\ s(c) \in Seq(Nat)
    BY <1>1, <2>6
  <2>13. SurfaceLess(s(a), s(c))
    <3> HIDE DEF s
    <3> QED
      BY <2>10, <2>11, <2>12, SurfaceOrder
  <2> QED
    BY <2>1, <2>3, <2>13
<1>12. Blocks(dic, at)
  BY <1>4, <1>5, <1>6, <1>7, <1>9, <1>10, <1>11 DEF Blocks
<1> QED
  BY <1>0, <1>12

(* What becomes of a value that is larger than the integers. *)
LEMMA ToIntFacts ==
  /\ \A r \in 0..MaxInt : ToInt(r) = r
  /\ \A r \in (MaxInt + 1)..(2 * MaxInt + 1) : ToInt(r) < 0
<1> DEFINE h == MaxInt + 1
           d == 2 * h
<1>1. MaxInt \in Nat /\ h \in Nat \ {0} /\ d \in Nat \ {0}
  BY DictionaryAssumption
<1>2. \A r : ToInt(r) = ((r + MaxInt + 1) % d) - h
  BY DEF ToInt
<1>3. \A x \in 0..(d - 1) : x % d = x
  <2> HIDE DEF d
  <2> QED
    BY <1>1
<1>4. \A x \in d..(2 * d - 1) : x % d = x - d
  <2> SUFFICES ASSUME NEW x \in d..(2 * d - 1) PROVE x % d = x - d
    OBVIOUS
  <2> HIDE DEF d
  <2>1. x \in Int /\ x - d \in 0..(d - 1) /\ x = (x - d) + d * 1
    BY <1>1
  <2> QED
    BY <1>1, <2>1
<1>5. ASSUME NEW r \in 0..MaxInt PROVE ToInt(r) = r
  <2>1. r + MaxInt + 1 = r + h /\ r + h \in 0..(d - 1) /\ r \in Nat
    BY <1>1
  <2>2. (r + h) % d = r + h
    <3> HIDE DEF d, h
    <3> QED
      BY <1>3, <2>1
  <2> HIDE DEF d
  <2> QED
    BY <1>1, <1>2, <2>1, <2>2
<1>6. ASSUME NEW r \in (MaxInt + 1)..(2 * MaxInt + 1) PROVE ToInt(r) < 0
  <2>1. PICK x : x = r + MaxInt + 1
    OBVIOUS
  <2>2. x \in d..(2 * d - 1) /\ x \in Int /\ x - d < h
    BY <1>1, <2>1
  <2>3. x % d = x - d
    BY <1>4, <2>2
  <2>4. ToInt(r) = (x % d) - h
    <3> HIDE DEF d, h
    <3> QED
      BY <1>2, <2>1
  <2>5. ToInt(r) = (x - d) - h
    <3> HIDE DEF d, h
    <3> QED
      BY <2>3, <2>4
  <2> HIDE DEF d, h
  <2> QED
    BY <1>1, <2>2, <2>5
<1> QED
  BY <1>5, <1>6

(***************************************************************************)
(* The values of surfaces with less than 256 entries: none is too large    *)
(* unless one before it has come out negative.                             *)
(***************************************************************************)
SmallCounts(m, at, size) ==
  /\ m \in Nat \ {0} /\ at[1] = 1
  /\ \A k \in 1..m : at[k] \in Nat \ {0} /\ size[k] \in 1..255
  /\ \A k \in 1..(m - 1) : at[k + 1] = at[k] + size[k]
  /\ \A k \in 1..m : Pack(size[k], at[k] - 1) >= 0

(* If no packed value is negative, none has wrapped: the first that is too large
   lies past MaxInt by less than MaxInt, because a block has at most 255 entries
   and MaxInt >= 65535, and so comes out negative. *)
LEMMA ValuesFit ==
  ASSUME NEW m, NEW at, NEW size, SmallCounts(m, at, size)
  PROVE  \A k \in 1..m : /\ Pack(size[k], at[k] - 1) % 256 = size[k]
                         /\ Pack(size[k], at[k] - 1) \div 256 = at[k] - 1
<1>0. /\ m \in Nat \ {0} /\ at[1] = 1
      /\ \A k \in 1..m : at[k] \in Nat \ {0} /\ size[k] \in 1..255
      /\ \A k \in 1..(m - 1) : at[k + 1] = at[k] + size[k]
      /\ \A k \in 1..m : Pack(size[k], at[k] - 1) >= 0
  BY DEF SmallCounts
<1> USE <1>0
<1> DEFINE raw(k) == size[k] + (at[k] - 1) * 256
           U == {k \in 1..m : raw(k) <= MaxInt}
<1>1. MaxInt \in Nat /\ MaxInt >= 65535
  BY DictionaryAssumption
<1>2. \A k \in 1..m : raw(k) \in Nat /\ Pack(size[k], at[k] - 1) = ToInt(raw(k))
  <2> SUFFICES ASSUME NEW k \in 1..m PROVE raw(k) \in Nat /\ Pack(size[k], at[k] - 1) = ToInt(raw(k))
    OBVIOUS
  <2>1. at[k] \in Nat \ {0} /\ size[k] \in 1..255
    OBVIOUS
  <2> QED
    BY <2>1, SMTT(30) DEF Pack
<1>3. 1 \in U
  <2>1. 1 \in 1..m /\ size[1] \in 1..255
    OBVIOUS
  <2>2. raw(1) <= MaxInt
    BY <1>1, <2>1
  <2> QED
    BY <2>1, <2>2
<1>4. ASSUME NEW k \in 1..(m - 1), k \in U PROVE k + 1 \in U
  <2>1. k + 1 \in 1..m /\ k \in 1..m
    OBVIOUS
  <2>2. PICK a : a = at[k]
    OBVIOUS
  <2>3. PICK z : z = size[k]
    OBVIOUS
  <2>4. PICK y : y = size[k + 1]
    OBVIOUS
  <2>5. /\ a \in Nat \ {0} /\ z \in 1..255 /\ y \in 1..255 /\ at[k + 1] = a + z
        /\ z + (a - 1) * 256 <= MaxInt
    BY <1>4, <2>1, <2>2, <2>3, <2>4
  <2> DEFINE r == y + (a + z - 1) * 256
  <2>6. raw(k + 1) = r
    BY <2>4, <2>5
  <2>7. r \in Nat /\ r <= 2 * MaxInt + 1
    BY <1>1, <2>5
  <2>8. ~(ToInt(r) < 0)
    <3>1. Pack(size[k + 1], at[k + 1] - 1) >= 0 /\ Pack(size[k + 1], at[k + 1] - 1) = ToInt(raw(k + 1))
      BY <1>2, <2>1
    <3>2. ToInt(r) >= 0
      <4> HIDE DEF raw, r
      <4> QED
        BY <2>6, <3>1
    <3> HIDE DEF r
    <3>3. ToInt(r) \in Int
      <4>1. 2 * (MaxInt + 1) \in Nat \ {0} /\ r + MaxInt + 1 \in Int /\ MaxInt + 1 \in Int
        BY <1>1, <2>7
      <4>2. (r + MaxInt + 1) % (2 * (MaxInt + 1)) \in Int
        BY <4>1
      <4> QED
        BY <4>1, <4>2 DEF ToInt
    <3> QED
      BY <3>2, <3>3
  <2>9. r <= MaxInt
    <3> HIDE DEF r
    <3>1. r \notin (MaxInt + 1)..(2 * MaxInt + 1)
      BY <2>8, ToIntFacts
    <3> QED
      BY <1>1, <2>7, <3>1
  <2> HIDE DEF r, raw
  <2> QED
    BY <2>1, <2>6, <2>9
<1>5. \A k \in 1..m : raw(k) <= MaxInt
  <2>1. 1..m \subseteq U
    <3> HIDE DEF U
    <3> QED
      BY <1>3, <1>4, IntervalInduction
  <2> HIDE DEF raw
  <2> QED
    BY <2>1
<1> SUFFICES ASSUME NEW k \in 1..m
             PROVE  /\ Pack(size[k], at[k] - 1) % 256 = size[k]
                    /\ Pack(size[k], at[k] - 1) \div 256 = at[k] - 1
  OBVIOUS
<1>6. Pack(size[k], at[k] - 1) = raw(k)
  <2> HIDE DEF raw
  <2>1. raw(k) \in 0..MaxInt
    BY <1>1, <1>2, <1>5
  <2> QED
    BY <1>2, <2>1, ToIntFacts
<1>7. PICK a : a = at[k] - 1
  OBVIOUS
<1>8. PICK z : z = size[k]
  OBVIOUS
<1>9. a \in Nat /\ z \in 1..255 /\ raw(k) = z + a * 256
  BY <1>7, <1>8
<1> HIDE <1>0
<1>10. (z + a * 256) % 256 = z /\ (z + a * 256) \div 256 = a
  BY <1>9
<1> QED
  BY <1>6, <1>7, <1>8, <1>9, <1>10

(* What a compiled dictionary says of the lexicon it was made from. *)
LinesOf(es, surface) == {i \in 1..Len(es) : es[i].surface = surface}
TokensIn(es, surface) ==
  LET sel == Select(es, LinesOf(es, surface)) IN [i \in 1..Len(sel) |-> sel[i].token]
ReadFrom(ts, v) == [j \in 1..TokenSize(v) |-> ts[TokenIndex(v) + j]]

Describes(es, ts, ks, vs) ==
  /\ \A i, j \in 1..Len(ks) : i < j => SurfaceLess(ks[i], ks[j])
  /\ {ks[k] : k \in 1..Len(ks)} = {es[i].surface : i \in 1..Len(es)} \ {<< >>}
  /\ \A k \in 1..Len(ks) : vs[k] < 0 => Len(es) * 256 > MaxInt
  /\ (\A k \in 1..Len(ks) : Len(TokensIn(es, ks[k])) < 256 /\ vs[k] >= 0) =>
       \A k \in 1..Len(ks) : ReadFrom(ts, vs[k]) = TokensIn(es, ks[k])

CompiledAs(es, dic, at, ts, ks, vs) ==
  /\ dic = Sorted(es) /\ at = Ascending(Starts(dic))
  /\ ts = [i \in 1..Len(dic) |-> dic[i].token]
  /\ ks = [k \in 1..Len(at) |-> dic[at[k]].surface]
  /\ vs = [k \in 1..Len(at) |-> Pack(BlockEnd(dic, at, k) - at[k], at[k] - 1)]

(* What compile() hands to build() describes the lexicon. *)
LEMMA DictionaryFacts ==
  ASSUME NEW lexicon \in Lexicons, NEW dic, NEW at, NEW ts, NEW ks, NEW vs,
         CompiledAs(lexicon, dic, at, ts, ks, vs)
  PROVE  Describes(lexicon, ts, ks, vs)
<1> DEFINE N == Len(lexicon)
           m == Len(at)
           T == {e \in ToSet(lexicon) : e.surface \in Seq(Nat)}
<1>1. PICK n, q : DictionaryOrder(lexicon, q, n) /\ dic = [k \in 1..n |-> lexicon[q[k]]]
  <2>1. dic = Sorted(lexicon)
    BY DEF CompiledAs
  <2> QED
    BY <2>1, LexiconOrder
<1>2. /\ n \in Nat \ {0} /\ n <= N /\ q \in [1..n -> Lines(lexicon)]
      /\ \A i \in Lines(lexicon) : \E k \in 1..n : q[k] = i
      /\ \A k, l \in 1..n : k < l =>
           \/ SurfaceLess(lexicon[q[k]].surface, lexicon[q[l]].surface)
           \/ lexicon[q[k]].surface = lexicon[q[l]].surface /\ q[k] < q[l]
  BY <1>1 DEF DictionaryOrder
<1>3. /\ N \in Nat /\ \A i \in 1..N : lexicon[i] \in T /\ lexicon[i].surface \in Seq(Nat)
      /\ lexicon \in Seq(T)
  <2> DEFINE S == ToSet(lexicon)
  <2>1. lexicon \in Seq(S) /\ \A i \in 1..N : lexicon[i].surface \in Seq(Nat)
    BY LookupAssumption
  <2>2. \A i \in 1..N : lexicon[i] \in S
    <3> HIDE DEF S
    <3> QED
      BY <2>1, ElementOfSeq
  <2>3. N \in Nat /\ \A i \in 1..N : lexicon[i] \in T
    <3>1. \A i \in 1..N : lexicon[i] \in T
      BY <2>1, <2>2
    <3> HIDE DEF S, T
    <3> QED
      BY <2>1, <3>1
  <2> HIDE DEF S, T
  <2> QED
    BY <2>1, <2>3
<1>4. \A k \in 1..n : /\ q[k] \in 1..N /\ q[k] \in Nat /\ dic[k] = lexicon[q[k]]
                      /\ dic[k].surface \in Seq(Nat) \ {<< >>} /\ dic[k] \in T
  <2> SUFFICES ASSUME NEW k \in 1..n
               PROVE  /\ q[k] \in 1..N /\ q[k] \in Nat /\ dic[k] = lexicon[q[k]]
                      /\ dic[k].surface \in Seq(Nat) \ {<< >>} /\ dic[k] \in T
    OBVIOUS
  <2>1. q[k] \in Lines(lexicon)
    BY <1>2
  <2>2. q[k] \in 1..N /\ lexicon[q[k]].surface # << >>
    BY <2>1 DEF Lines
  <2> HIDE DEF T, N
  <2> QED
    BY <1>1, <1>3, <2>2 DEF N
<1> HIDE DEF N
<1>5. dic \in Seq(T) /\ Len(dic) = n
  <2>1. dic \in [1..n -> T]
    <3> HIDE DEF T
    <3> QED
      BY <1>1, <1>4
  <2> HIDE DEF T
  <2> QED
    BY <1>2, <2>1
<1>6. InSurfaceOrder(dic)
  <2>1. \A i, j \in 1..n :
          i < j => SurfaceLess(dic[i].surface, dic[j].surface) \/ dic[i].surface = dic[j].surface
    <3> SUFFICES ASSUME NEW i \in 1..n, NEW j \in 1..n, i < j
                 PROVE  SurfaceLess(dic[i].surface, dic[j].surface) \/ dic[i].surface = dic[j].surface
      OBVIOUS
    <3>1. dic[i] = lexicon[q[i]] /\ dic[j] = lexicon[q[j]]
      BY <1>4
    <3>2. \/ SurfaceLess(lexicon[q[i]].surface, lexicon[q[j]].surface)
          \/ lexicon[q[i]].surface = lexicon[q[j]].surface
      BY <1>2
    <3> QED
      BY <3>1, <3>2
  <2> QED
    BY <1>5, <2>1 DEF InSurfaceOrder
<1> DEFINE end(k) == BlockEnd(dic, at, k)
<1>7. /\ m \in Nat \ {0} /\ at[1] = 1
      /\ \A k \in 1..m :
           /\ at[k] \in 1..n /\ end(k) \in (at[k] + 1)..(n + 1)
           /\ \A i \in at[k]..(end(k) - 1) : dic[i].surface = dic[at[k]].surface
      /\ \A i \in 1..n : \E k \in 1..m : i \in at[k]..(end(k) - 1)
      /\ \A k, l \in 1..m : k < l => SurfaceLess(dic[at[k]].surface, dic[at[l]].surface)
  <2>1. \A e \in T : e.surface \in Seq(Nat)
    OBVIOUS
  <2>2. Len(dic) # 0
    BY <1>2, <1>5
  <2> HIDE DEF T
  <2>3. /\ Len(at) \in Nat \ {0} /\ at[1] = 1
        /\ \A k \in 1..Len(at) :
             /\ at[k] \in 1..Len(dic) /\ BlockEnd(dic, at, k) \in (at[k] + 1)..(Len(dic) + 1)
             /\ \A i \in at[k]..(BlockEnd(dic, at, k) - 1) : dic[i].surface = dic[at[k]].surface
        /\ \A i \in 1..Len(dic) : \E k \in 1..Len(at) : i \in at[k]..(BlockEnd(dic, at, k) - 1)
        /\ \A k, l \in 1..Len(at) : k < l => SurfaceLess(dic[at[k]].surface, dic[at[l]].surface)
    <3>1. at = Ascending(Starts(dic))
      BY DEF CompiledAs
    <3>2. dic \in Seq(T)
      BY <1>5
    <3> HIDE DEF m, end
    <3>3. Blocks(dic, at)
      BY <1>6, <2>1, <2>2, <3>1, <3>2, BlockFacts
    <3> QED
      BY <3>3 DEF Blocks
  <2> QED
    BY <1>5, <2>3
<1>8. \A k \in 1..(m - 1) : at[k + 1] = end(k)
  BY <1>7 DEF BlockEnd
<1> DEFINE size == [k \in 1..m |-> end(k) - at[k]]
<1>9. \A k \in 1..m : /\ size[k] = end(k) - at[k] /\ size[k] \in Nat \ {0}
                      /\ end(k) = at[k] + size[k] /\ at[k] \in Nat \ {0}
  <2> SUFFICES ASSUME NEW k \in 1..m
               PROVE  /\ size[k] = end(k) - at[k] /\ size[k] \in Nat \ {0}
                      /\ end(k) = at[k] + size[k] /\ at[k] \in Nat \ {0}
    OBVIOUS
  <2>1. PICK a : a = at[k]
    OBVIOUS
  <2>2. PICK e : e = end(k)
    OBVIOUS
  <2>3. a \in 1..n /\ e \in (a + 1)..(n + 1)
    BY <1>7, <2>1, <2>2
  <2>4. size[k] = e - a
    BY <2>1, <2>2
  <2> HIDE DEF end, size
  <2> QED
    BY <1>2, <2>1, <2>2, <2>3, <2>4, SMTT(30)
<1>10. Len(ks) = m /\ \A k \in 1..m : /\ ks[k] = dic[at[k]].surface /\ ks[k] \in Seq(Nat) \ {<< >>}
                                     /\ vs[k] = Pack(size[k], at[k] - 1)
  <2>1. \A k \in 1..m : ks[k] = dic[at[k]].surface /\ vs[k] = Pack(size[k], at[k] - 1)
    BY DEF CompiledAs
  <2>2. Len(ks) = m
    BY <1>7 DEF CompiledAs
  <2> QED
    BY <1>4, <1>7, <2>1, <2>2
<1> HIDE DEF size, T, end
<1>a. \A k \in 1..m : at[k] \in 1..n /\ at[k] < end(k) /\ end(k) <= n + 1
  <2> SUFFICES ASSUME NEW k \in 1..m PROVE at[k] \in 1..n /\ at[k] < end(k) /\ end(k) <= n + 1
    OBVIOUS
  <2>1. at[k] \in 1..n /\ end(k) \in (at[k] + 1)..(n + 1)
    BY <1>7
  <2> HIDE DEF m
  <2> QED
    BY <1>2, <2>1
<1> HIDE DEF m
<1>11. \A k, l \in 1..m : k < l => SurfaceLess(ks[k], ks[l])
  BY <1>7, <1>10
<1>12. {ks[k] : k \in 1..m} = {lexicon[i].surface : i \in 1..N} \ {<< >>}
  <2>1. ASSUME NEW k \in 1..m PROVE ks[k] \in {lexicon[i].surface : i \in 1..N} \ {<< >>}
    <3>1. at[k] \in 1..n
      BY <1>7
    <3>2. q[at[k]] \in 1..N /\ ks[k] = lexicon[q[at[k]]].surface
      BY <1>4, <1>10, <3>1
    <3> QED
      BY <1>10, <3>2
  <2>2. ASSUME NEW i \in 1..N, lexicon[i].surface # << >> PROVE \E k \in 1..m : ks[k] = lexicon[i].surface
    <3>1. i \in Lines(lexicon)
      BY <2>2 DEF Lines, N
    <3>2. PICK j \in 1..n : q[j] = i
      BY <1>2, <3>1
    <3>3. PICK k \in 1..m : j \in at[k]..(end(k) - 1)
      BY <1>7
    <3>4. dic[j].surface = dic[at[k]].surface
      BY <1>7, <3>3
    <3> QED
      BY <1>4, <1>10, <3>2, <3>4
  <2> QED
    BY <2>1, <2>2
<1>13. ASSUME NEW k \in 1..m, vs[k] < 0 PROVE N * 256 > MaxInt
  <2> SUFFICES ASSUME N * 256 <= MaxInt PROVE FALSE
    BY <1>3, DictionaryAssumption
  <2>1. PICK a : a = at[k]
    OBVIOUS
  <2>2. PICK z : z = size[k]
    OBVIOUS
  <2>3. a \in Nat \ {0} /\ z \in Nat \ {0} /\ a + z <= n + 1
    <3>1. end(k) <= n + 1
      BY <1>a
    <3> QED
      BY <1>9, <2>1, <2>2, <3>1
  <2>4. z + (a - 1) * 256 \in 0..MaxInt
    BY <1>2, <1>3, <2>3, DictionaryAssumption
  <2>5. ToInt(z + (a - 1) * 256) = z + (a - 1) * 256
    BY <2>4, ToIntFacts
  <2>6. vs[k] = z + (a - 1) * 256
    BY <1>10, <2>1, <2>2, <2>5 DEF Pack
  <2> QED
    BY <1>13, <2>4, <2>6
<1> DEFINE g(k) == [j \in 1..size[k] |-> q[at[k] - 1 + j]]
<1>14. ASSUME NEW k \in 1..m PROVE Lists(g(k), LinesOf(lexicon, ks[k]))
  <2>1. PICK a : a = at[k]
    OBVIOUS
  <2>2. PICK z : z = size[k]
    OBVIOUS
  <2>3. PICK s : s = ks[k]
    OBVIOUS
  <2>4. a \in 1..n /\ z \in Nat \ {0} /\ end(k) = a + z /\ a + z <= n + 1
    <3>1. end(k) <= n + 1 /\ at[k] \in 1..n
      BY <1>a
    <3> QED
      BY <1>9, <2>1, <2>2, <3>1
  <2>5. \A j \in 1..z : a - 1 + j \in 1..n /\ dic[a - 1 + j].surface = s
    <3> SUFFICES ASSUME NEW j \in 1..z PROVE a - 1 + j \in 1..n /\ dic[a - 1 + j].surface = s
      OBVIOUS
    <3>1. a - 1 + j \in 1..n /\ a - 1 + j \in a..(a + z - 1)
      BY <1>2, <2>4
    <3>2. \A i \in at[k]..(end(k) - 1) : dic[i].surface = dic[at[k]].surface
      BY <1>7
    <3>3. s = dic[at[k]].surface
      BY <1>10, <2>3
    <3>4. \A i \in a..(a + z - 1) : dic[i].surface = s
      BY <2>1, <2>4, <3>2, <3>3
    <3> QED
      BY <3>1, <3>4
  <2> DEFINE L == LinesOf(lexicon, s)
             f == [j \in 1..z |-> q[a - 1 + j]]
  <2>6. \A i : i \in L <=> i \in 1..N /\ lexicon[i].surface = s
    BY DEF LinesOf, N
  <2> HIDE DEF L
  <2>7. \A j \in 1..z : f[j] = q[a - 1 + j] /\ f[j] \in L
    <3> SUFFICES ASSUME NEW j \in 1..z PROVE q[a - 1 + j] \in L
      OBVIOUS
    <3>1. a - 1 + j \in 1..n /\ dic[a - 1 + j].surface = s
      BY <2>5
    <3> QED
      BY <1>4, <2>6, <3>1
  <2>8. f \in [1..z -> L]
    BY <2>7
  <2>9. f \in Seq(L) /\ Len(f) = z
    <3> HIDE DEF f
    <3> QED
      BY <2>4, <2>8
  <2>10. ASSUME NEW i \in 1..z, NEW j \in 1..z, i < j PROVE f[i] < f[j]
    <3>1. PICK x : x = a - 1 + i
      OBVIOUS
    <3>2. PICK y : y = a - 1 + j
      OBVIOUS
    <3>3. x \in 1..n /\ y \in 1..n /\ x < y /\ dic[x].surface = s /\ dic[y].surface = s
      BY <2>4, <2>5, <2>10, <3>1, <3>2
    <3>4. lexicon[q[x]].surface = s /\ lexicon[q[y]].surface = s /\ s \in Seq(Nat)
      BY <1>4, <3>3
    <3>5. ~SurfaceLess(s, s)
      BY <3>4, SurfaceOrder
    <3>6. q[x] < q[y]
      BY <1>2, <3>3, <3>4, <3>5
    <3> HIDE DEF f
    <3> QED
      BY <2>7, <3>1, <3>2, <3>6
  <2>11. ASSUME NEW i \in L PROVE \E j \in 1..z : f[j] = i
    <3>1. i \in 1..N /\ lexicon[i].surface = s /\ s # << >>
      BY <1>10, <2>3, <2>6
    <3>2. PICK l \in 1..n : q[l] = i
      BY <1>2, <3>1 DEF Lines, N
    <3>3. PICK h \in 1..m : l \in at[h]..(end(h) - 1)
      BY <1>7
    <3>4. ks[h] = ks[k]
      <4>1. dic[l].surface = dic[at[h]].surface
        BY <1>7, <3>3
      <4> QED
        BY <1>4, <1>10, <2>3, <3>1, <3>2, <4>1
    <3>5. h = k
      <4>1. ks[k] \in Seq(Nat)
        BY <1>10
      <4>2. ~SurfaceLess(ks[k], ks[k])
        BY <4>1, SurfaceOrder
      <4>3. ~(h < k) /\ ~(k < h)
        BY <1>11, <3>4, <4>2
      <4> QED
        BY <1>7, <4>3
    <3>6. l \in a..(a + z - 1)
      BY <2>1, <2>4, <3>3, <3>5
    <3>7. PICK j : j = l - (a - 1)
      OBVIOUS
    <3>8. j \in 1..z /\ a - 1 + j = l
      BY <2>4, <3>6, <3>7
    <3> HIDE DEF f
    <3> QED
      BY <2>7, <3>2, <3>8
  <2>12. Lists(f, L)
    <3> HIDE DEF f
    <3> QED
      BY <2>9, <2>10, <2>11 DEF Lists
  <2> QED
    BY <2>1, <2>2, <2>3, <2>12 DEF L
<1>15. ASSUME NEW k \in 1..m
       PROVE  TokensIn(lexicon, ks[k]) = [j \in 1..size[k] |-> ts[at[k] - 1 + j]]
  <2>1. PICK s : s = ks[k]
    OBVIOUS
  <2> DEFINE L == LinesOf(lexicon, s)
             sel == Select(lexicon, L)
  <2>2. L \subseteq Nat /\ L \cap 1..Len(lexicon) = L
    BY DEF LinesOf
  <2>3. Lists(g(k), L)
    BY <1>14, <2>1
  <2> HIDE DEF L
  <2>4. PICK f : Lists(f, L) /\ sel = ValuesOf(lexicon, f)
    <3>1. \E f : Lists(f, L \cap 1..Len(lexicon)) /\ Select(lexicon, L) = ValuesOf(lexicon, f)
      BY <1>3, SelectLists
    <3> QED
      BY <2>2, <3>1
  <2>5. f = g(k)
    <3> HIDE DEF g
    <3> QED
      BY <2>2, <2>3, <2>4, OneListing
  <2>6. PICK z : z = size[k]
    OBVIOUS
  <2>7. z \in Nat \ {0} /\ \A j \in 1..z : at[k] - 1 + j \in 1..n
    <3>1. end(k) <= n + 1 /\ at[k] \in 1..n
      BY <1>a
    <3>2. z \in Nat \ {0} /\ at[k] + z <= n + 1
      BY <1>9, <2>6, <3>1
    <3> QED
      BY <1>2, <3>1, <3>2
  <2>8. sel = [j \in 1..z |-> lexicon[q[at[k] - 1 + j]]]
    <3>1. f = [j \in 1..z |-> q[at[k] - 1 + j]]
      BY <2>5, <2>6
    <3>2. DOMAIN f = 1..z /\ \A j \in 1..z : f[j] = q[at[k] - 1 + j]
      BY <3>1
    <3> HIDE DEF sel
    <3> QED
      BY <2>4, <3>2 DEF ValuesOf
  <2> HIDE DEF sel, g
  <2>9. \A j \in 1..z : sel[j].token = ts[at[k] - 1 + j]
    <3> SUFFICES ASSUME NEW j \in 1..z PROVE sel[j].token = ts[at[k] - 1 + j]
      OBVIOUS
    <3>1. PICK x : x = at[k] - 1 + j
      OBVIOUS
    <3>2. x \in 1..n /\ sel[j] = lexicon[q[x]]
      BY <2>7, <2>8, <3>1
    <3>3. sel[j] = dic[x] /\ ts[x] = dic[x].token
      <4>1. ts = [i \in 1..Len(dic) |-> dic[i].token]
        BY DEF CompiledAs
      <4> QED
        BY <1>4, <1>5, <3>2, <4>1
    <3> QED
      BY <3>1, <3>3
  <2>10. Len(sel) = z
    BY <2>7, <2>8
  <2>11. TokensIn(lexicon, s) = [j \in 1..Len(sel) |-> sel[j].token]
    BY DEF TokensIn, sel, L
  <2> QED
    BY <2>1, <2>6, <2>9, <2>10, <2>11
<1>16. ASSUME \A k \in 1..m : Len(TokensIn(lexicon, ks[k])) < 256 /\ vs[k] >= 0
       PROVE  \A k \in 1..m : ReadFrom(ts, vs[k]) = TokensIn(lexicon, ks[k])
  <2>1. \A k \in 1..m : size[k] \in 1..255
    <3> SUFFICES ASSUME NEW k \in 1..m PROVE size[k] \in 1..255
      OBVIOUS
    <3>1. PICK z : z = size[k]
      OBVIOUS
    <3>2. z \in Nat \ {0}
      BY <1>9, <3>1
    <3>3. Len(TokensIn(lexicon, ks[k])) = z
      <4>1. PICK f : f = [j \in 1..z |-> ts[at[k] - 1 + j]]
        OBVIOUS
      <4>2. Len(f) = z
        BY <3>2, <4>1
      <4> QED
        BY <1>15, <3>1, <4>1, <4>2
    <3>4. Len(TokensIn(lexicon, ks[k])) < 256
      BY <1>16
    <3>5. z < 256
      BY <3>3, <3>4
    <3> QED
      BY <3>1, <3>2, <3>5
  <2>2. \A k \in 1..m : /\ Pack(size[k], at[k] - 1) % 256 = size[k]
                        /\ Pack(size[k], at[k] - 1) \div 256 = at[k] - 1
    <3>1. \A k \in 1..m : at[k] \in Nat \ {0} /\ size[k] \in 1..255
      BY <1>9, <2>1
    <3>2. \A k \in 1..(m - 1) : at[k + 1] = at[k] + size[k]
      <4>1. \A k \in 1..(m - 1) : k \in 1..m
        BY <1>7
      <4> QED
        BY <1>8, <1>9, <4>1
    <3>3. \A k \in 1..m : Pack(size[k], at[k] - 1) >= 0
      BY <1>10, <1>16
    <3>4. m \in Nat \ {0} /\ at[1] = 1
      BY <1>7
    <3>5. SmallCounts(m, at, size)
      BY <3>1, <3>2, <3>3, <3>4 DEF SmallCounts
    <3> HIDE DEF g
    <3> QED
      BY <3>5, ValuesFit
  <2> SUFFICES ASSUME NEW k \in 1..m PROVE ReadFrom(ts, vs[k]) = TokensIn(lexicon, ks[k])
    OBVIOUS
  <2>3. TokenSize(vs[k]) = size[k] /\ TokenIndex(vs[k]) = at[k] - 1
    BY <1>10, <2>2 DEF TokenSize, TokenIndex
  <2>4. ReadFrom(ts, vs[k]) = [j \in 1..size[k] |-> ts[at[k] - 1 + j]]
    BY <2>3 DEF ReadFrom
  <2> QED
    BY <1>15, <2>4
<1> QED
  BY <1>10, <1>11, <1>12, <1>13, <1>16 DEF Describes, N

-----------------------------------------------------------------------------
(* X. The words that are found. *)

(***************************************************************************)
(* The inductive invariant of the words that are found: the dictionary     *)
(* describes the lexicon, and unless a value was negative the arrays are a *)
(* trie of the keys, as far as insert() has come.                          *)
(***************************************************************************)
IsTrie == \E place, inner : Trie(place, inner)
Described ==
  /\ entries \in Seq(ToSet(entries)) /\ DOMAIN entries = 1..Len(entries)
  /\ Describes(entries, tokens, key, value)
WordsInv ==
  /\ phase # "compile" =>
       /\ Described
       /\ error = 0 => IsTrie
       /\ error # 0 => todo = << >> /\ \E k \in KeyIds : value[k] < 0
  /\ phase \notin {"compile", "build"} => ~Building
  /\ phase = "refused" => error # 0
  /\ phase \in {"sentence", "viterbi", "died", "done"} => error = 0

(* A step that leaves the dictionary alone keeps what is said of it. *)
LEMMA TrieStays ==
  ASSUME UNCHANGED dictionaryVars
  PROVE  /\ IsTrie' <=> IsTrie
         /\ Described' <=> Described
         /\ KeyIds' = KeyIds
<1>1. /\ key' = key /\ value' = value /\ base' = base /\ check' = check /\ used' = used
      /\ todo' = todo /\ entries' = entries /\ tokens' = tokens
  BY DEF dictionaryVars, arrayVars
<1>2. /\ KeyIds' = KeyIds
      /\ \A i : Levels(i)' = Levels(i)
      /\ \A i, d : Code(i, d)' = Code(i, d) /\ Way(i, d)' = Way(i, d)
      /\ \A n : WayTo(n)' = WayTo(n)
      /\ \A place, inner, n : PendingNode(place, inner, n)' <=> PendingNode(place, inner, n)
      /\ \A place, inner : Placed(place, inner)' <=> Placed(place, inner)
  BY <1>1, WaysStay
<1>3. ASSUME NEW place, NEW inner PROVE Trie(place, inner)' <=> Trie(place, inner)
  <2>1. \A w : BaseOf(place, w)' = BaseOf(place, w)
    BY <1>1 DEF BaseOf, At
  <2>2. \A p : At(check, p)' = At(check, p)
    BY <1>1 DEF At
  <2>3. \A i, d : ChildrenPlaced(place, i, d)' <=> ChildrenPlaced(place, i, d)
    BY <1>1, <1>2, <2>1, <2>2 DEF ChildrenPlaced, BaseOf, At
  <2>4. Branches(place, inner)' <=> Branches(place, inner)
    BY <1>1, <1>2, <2>1, <2>2, <2>3 DEF Branches
  <2>5. \A w : IsPending(w)' <=> IsPending(w)
    BY <1>1, <1>2 DEF IsPending
  <2>6. \A i, d : Visited(place, inner, i, d)' <=> Visited(place, inner, i, d)
    BY <1>1, <1>2, <2>1 DEF Visited
  <2>7. Visits(place, inner)' <=> Visits(place, inner)
    BY <1>1, <1>2, <2>5, <2>6 DEF Visits
  <2> QED
    BY <1>2, <2>4, <2>7 DEF Trie
<1>4. IsTrie' <=> IsTrie
  BY <1>3 DEF IsTrie
<1>5. Described' <=> Described
  BY <1>1 DEF Described
<1> QED
  BY <1>2, <1>4, <1>5

(* build() is given its keys in order, and each of them once. *)
LEMMA DescribedSorted ==
  ASSUME Described
  PROVE  KeysSorted
BY DEF Described, Describes, KeysSorted, KeyIds

(* Compiling a lexicon establishes what WordsInv says of it. *)
LEMMA CompileDescribes ==
  ASSUME NEW lexicon \in Lexicons, Compile(lexicon)
  PROVE  Described' /\ IsTrie' /\ error' = 0
<1>1. KeysTyped(key', value') /\ StartBuild(key', value')
  BY CompileFacts
<1>2. \E place, inner : Trie(place, inner)'
  BY <1>1, StartTrie
<1>3. error' = 0
  BY <1>1 DEF StartBuild
<1>4. PICK dic : dic = Sorted(lexicon)
  OBVIOUS
<1>5. PICK at : at = Ascending(Starts(dic))
  OBVIOUS
<1>6. /\ entries' = lexicon /\ tokens' = [i \in 1..Len(dic) |-> dic[i].token]
      /\ key' = [k \in 1..Len(at) |-> dic[at[k]].surface]
      /\ value' = [k \in 1..Len(at) |-> Pack(BlockEnd(dic, at, k) - at[k], at[k] - 1)]
  BY <1>4, <1>5 DEF Compile, StartBuild, BlockEnd
<1>7. CompiledAs(lexicon, dic, at, tokens', key', value')
  BY <1>4, <1>5, <1>6 DEF CompiledAs
<1>8. Describes(lexicon, tokens', key', value')
  BY <1>7, DictionaryFacts
<1>9. lexicon \in Seq(ToSet(lexicon)) /\ DOMAIN lexicon = 1..Len(lexicon)
  <2>1. PICK T : T = ToSet(lexicon)
    OBVIOUS
  <2>2. lexicon \in Seq(T)
    BY <2>1, LookupAssumption
  <2>3. DOMAIN lexicon = 1..Len(lexicon)
    BY <2>2
  <2> QED
    BY <2>1, <2>2, <2>3
<1>10. entries' \in Seq(ToSet(entries')) /\ DOMAIN entries' = 1..Len(entries')
  BY <1>6, <1>9
<1>11. Described'
  BY <1>6, <1>8, <1>10 DEF Described
<1> QED
  BY <1>2, <1>3, <1>11 DEF IsTrie

(* Every step keeps WordsInv; compile() and build() are the ones that work for it. *)
LEMMA WordsInvStep == LookupInv /\ WordsInv /\ [Next]_vars => WordsInv'
<1> SUFFICES ASSUME LookupInv, WordsInv, [Next]_vars PROVE WordsInv'
  OBVIOUS
<1>1. CASE CompileDictionary
  <2>1. PICK lexicon \in Lexicons : Compile(lexicon)
    BY <1>1 DEF CompileDictionary
  <2>2. Described' /\ IsTrie' /\ error' = 0
    BY <2>1, CompileDescribes
  <2>3. phase' = "build"
    BY <1>1 DEF CompileDictionary
  <2> QED
    BY <2>2, <2>3 DEF WordsInv
<1>2. CASE Build
  <2>1. /\ phase = "build" /\ phase' = "build" /\ entries' = entries /\ tokens' = tokens
        /\ Leaf \/ Insert
    BY <1>2 DEF Build, BuildStep
  <2>2. key' = key /\ value' = value /\ Building
    BY <2>1 DEF Leaf, Insert
  <2>3. ArrayInv /\ Described /\ error = 0 /\ IsTrie
    BY <2>1, <2>2 DEF LookupInv, WordsInv, Building
  <2>4. Described' /\ KeysSorted /\ KeyIds' = KeyIds
    BY <2>1, <2>2, <2>3, DescribedSorted DEF Described, KeyIds
  <2>5. PICK place, inner : Trie(place, inner)
    BY <2>3 DEF IsTrie
  <2>6. CASE Leaf /\ value[Head(todo).left] < 0
    <3>1. todo' = << >> /\ error' = -2
      BY <2>6 DEF Leaf
    <3>2. Head(todo).left \in KeyIds
      <4>1. todo \in Seq(Pending) /\ todo # << >>
        BY <2>2, <2>3 DEF ArrayInv, Building
      <4>2. Head(todo) \in Pending
        BY <4>1
      <4> QED
        BY <4>2 DEF Pending, KeyIds
    <3> QED
      BY <2>1, <2>2, <2>4, <2>6, <3>1, <3>2 DEF WordsInv
  <2>7. CASE Leaf /\ ~(value[Head(todo).left] < 0)
    <3>1. Trie(place, inner)'
      BY <2>3, <2>4, <2>5, <2>7, LeafTrie
    <3>2. error' = 0
      BY <2>3, <2>7 DEF Leaf
    <3> QED
      BY <2>1, <2>4, <3>1, <3>2 DEF WordsInv, IsTrie
  <2>8. CASE Insert
    <3>1. \E q, t : Trie(q, t)'
      BY <2>3, <2>4, <2>5, <2>8, InsertTrie
    <3>2. error' = 0
      BY <2>3, <2>8 DEF Insert
    <3> QED
      BY <2>1, <2>4, <3>1, <3>2 DEF WordsInv, IsTrie
  <2> QED
    BY <2>1, <2>6, <2>7, <2>8
<1>3. ASSUME UNCHANGED dictionaryVars
      PROVE  /\ IsTrie' <=> IsTrie
             /\ Described' <=> Described
             /\ KeyIds' = KeyIds /\ value' = value /\ todo' = todo /\ error' = error
             /\ Building' <=> Building
  <2>1. value' = value /\ todo' = todo /\ error' = error
    BY <1>3 DEF dictionaryVars, arrayVars
  <2>2. Building' <=> Building
    BY <2>1 DEF Building
  <2> QED
    BY <1>3, <2>1, <2>2, TrieStays
<1>4. CASE Opened
  <2>1. /\ phase = "build" /\ ~Building /\ UNCHANGED dictionaryVars
        /\ phase' = IF error = 0 THEN "sentence" ELSE "refused"
    BY <1>4 DEF Opened
  <2> QED
    BY <1>3, <2>1 DEF WordsInv
<1>5. CASE SetSentence \/ SetConstraints \/ InitPartial
  <2>1. phase = "sentence" /\ phase' = "viterbi" /\ UNCHANGED dictionaryVars
    <3>1. \A text, len, constrained, cs :
            Install(text, len, constrained, cs) => phase' = "viterbi" /\ UNCHANGED dictionaryVars
      BY DEF Install
    <3>2. CASE SetSentence
      BY <3>1, <3>2, Zenon DEF SetSentence
    <3>3. CASE SetConstraints
      BY <3>1, <3>3, Zenon DEF SetConstraints
    <3>4. CASE InitPartial
      BY <3>1, <3>4, Zenon DEF InitPartial
    <3> QED
      BY <1>5, <3>2, <3>3, <3>4
  <2> QED
    BY <1>3, <2>1 DEF WordsInv
<1>6. CASE LookupAt \/ Done
  <2>1. phase = "viterbi" /\ phase' \in {"viterbi", "died", "done"} /\ UNCHANGED dictionaryVars
    BY <1>6 DEF LookupAt, Done
  <2> QED
    BY <1>3, <2>1 DEF WordsInv
<1>7. CASE UNCHANGED vars
  <2>1. phase' = phase /\ UNCHANGED dictionaryVars
    BY <1>7 DEF vars
  <2> QED
    BY <1>3, <2>1 DEF WordsInv
<1> QED
  BY <1>1, <1>2, <1>4, <1>5, <1>6, <1>7 DEF Next

(* The dictionary describes its lexicon, and its arrays are a trie, at all times. *)
LEMMA WordsInvariance == Spec => [](LookupInv /\ WordsInv)
<1>1. Init => WordsInv
  BY DEF Init, WordsInv, Building
<1> QED
  BY <1>1, LookupInvInit, LookupInvStep, WordsInvStep, PTL DEF Spec

(* A surface has as many tokens as it has lines. *)
LEMMA TokensCounted ==
  ASSUME NEW T, NEW es \in Seq(T), NEW x
  PROVE  Len(TokensIn(es, x)) = Cardinality(LinesOf(es, x))
<1> DEFINE S == LinesOf(es, x)
<1>1. S \subseteq 1..Len(es) /\ S \cap 1..Len(es) = S /\ S \subseteq Nat
  BY DEF LinesOf
<1> HIDE DEF S
<1>2. PICK f : Lists(f, S) /\ Select(es, S) = ValuesOf(es, f)
  <2>1. \E f : Lists(f, S \cap 1..Len(es)) /\ Select(es, S) = ValuesOf(es, f)
    BY SelectLists
  <2> QED
    BY <1>1, <2>1
<1>3. f \in Seq(S) /\ Len(f) \in Nat /\ DOMAIN f = 1..Len(f)
  BY <1>2 DEF Lists
<1>4. Len(Select(es, S)) = Len(f)
  <2>1. Select(es, S) = [k \in 1..Len(f) |-> es[f[k]]]
    BY <1>2, <1>3 DEF ValuesOf
  <2> QED
    BY <1>3, <2>1
<1>5. Len(TokensIn(es, x)) = Len(f)
  <2>1. TokensIn(es, x) = [j \in 1..Len(Select(es, S)) |-> Select(es, S)[j].token]
    BY DEF TokensIn, S
  <2>2. TokensIn(es, x) = [j \in 1..Len(f) |-> Select(es, S)[j].token]
    BY <1>4, <2>1
  <2> QED
    BY <1>3, <2>2
<1>6. f \in Bijection(1..Len(f), S)
  <2>1. \A j \in 1..Len(f) : f[j] \in S /\ f[j] \in Nat
    BY <1>1, <1>3
  <2>2. \A j, k \in 1..Len(f) : f[j] = f[k] => j = k
    <3> SUFFICES ASSUME NEW j \in 1..Len(f), NEW k \in 1..Len(f), j # k PROVE f[j] # f[k]
      OBVIOUS
    <3>1. j < k \/ k < j
      BY <1>3
    <3>2. \A a, b \in 1..Len(f) : a < b => f[a] < f[b]
      BY <1>2 DEF Lists
    <3> QED
      BY <2>1, <3>1, <3>2
  <2>3. \A e \in S : \E k \in 1..Len(f) : f[k] = e
    BY <1>2 DEF Lists
  <2>4. f \in [1..Len(f) -> S]
    BY <1>3, <2>1
  <2> QED
    BY <2>2, <2>3, <2>4 DEF Bijection, Injection, Surjection, IsInjective
<1>7. Cardinality(S) = Len(f)
  <2>1. IsFiniteSet(1..Len(f)) /\ Cardinality(1..Len(f)) = Len(f)
    BY <1>3, CountUpTo
  <2> QED
    BY <1>6, <2>1, FS_Bijection DEF ExistsBijection
<1> QED
  BY <1>5, <1>7 DEF S

(* A compiled dictionary that could be opened finds what is in the lexicon. *)
LEMMA OpenedFinds ==
  ASSUME ArrayInv, Described, IsTrie, ~Building, CountsFit, NEW t \in Seq(Nat)
  PROVE  FoundIn(t)
<1>1. PICK place, inner : Trie(place, inner)
  BY DEF IsTrie
<1>2. Complete(place)
  BY <1>1, BuiltTrie
<1>3. \A i \in KeyIds : value[i] >= 0
  BY <1>2 DEF Complete
<1>4. Surfaces = {key[i] : i \in KeyIds}
  BY DEF Described, Describes, Surfaces, KeyIds
<1>5. /\ \A s : TokensFor(s) = TokensIn(entries, s)
      /\ \A v : TokensOf(v) = ReadFrom(tokens, v)
  BY DEF TokensFor, EntriesOf, TokensIn, LinesOf, TokensOf, ReadFrom
<1>6. \A i \in KeyIds : TokensOf(value[i]) = TokensFor(key[i])
  <2>1. \A i \in KeyIds : Len(TokensIn(entries, key[i])) < 256
    <3>1. entries \in Seq(ToSet(entries))
      BY DEF Described
    <3>2. \A i \in KeyIds : EntriesOf(key[i]) = LinesOf(entries, key[i])
      BY DEF EntriesOf, LinesOf
    <3>3. \A i \in KeyIds : Cardinality(LinesOf(entries, key[i])) < 256
      BY <1>4, <3>2 DEF CountsFit
    <3> QED
      BY <3>1, <3>3, TokensCounted
  <2>2. (\A i \in 1..Len(key) : Len(TokensIn(entries, key[i])) < 256 /\ value[i] >= 0) =>
          \A i \in 1..Len(key) : ReadFrom(tokens, value[i]) = TokensIn(entries, key[i])
    BY DEF Described, Describes
  <2>3. \A i \in KeyIds : ReadFrom(tokens, value[i]) = TokensIn(entries, key[i])
    BY <1>3, <2>1, <2>2 DEF KeyIds
  <2> QED
    BY <1>5, <2>3
<1> DEFINE results == CommonPrefixSearch(t)
           exact == ExactMatchSearch(t)
<1>7. /\ [k \in 1..Len(results) |-> results[k].length] = Ascending(Spelled(t))
      /\ \A k \in 1..Len(results) : \E i \in KeyIds :
           /\ results[k].length \in 1..Len(t)
           /\ key[i] = SubSeq(t, 1, results[k].length)
           /\ results[k].value = value[i]
      /\ \A i \in KeyIds : key[i] = t => exact = value[i]
      /\ (\A i \in KeyIds : key[i] # t) => exact = -1
  BY <1>2, SearchFinds
<1> HIDE DEF results, exact
<1>8. Spelled(t) = {n \in 1..Len(t) : SubSeq(t, 1, n) \in Surfaces}
  <2>1. \A n : SubSeq(t, 1, n) \in Surfaces <=> \E i \in KeyIds : key[i] = SubSeq(t, 1, n)
    BY <1>4
  <2> QED
    BY <2>1 DEF Spelled
<1>9. \A k \in 1..Len(results) :
        TokensOf(results[k].value) = TokensFor(SubSeq(t, 1, results[k].length))
  BY <1>6, <1>7
<1>10. IF t \in Surfaces THEN TokensOf(exact) = TokensFor(t) ELSE exact = -1
  BY <1>4, <1>6, <1>7
<1> QED
  BY <1>7, <1>8, <1>9, <1>10 DEF FoundIn, results, exact

(***************************************************************************)
(* For every text: once build() has succeeded, the searches find in it     *)
(* what is in the lexicon, with the tokens the lexicon has for it, if no   *)
(* surface has 256 entries or more (the 8 bits of dictionary.cpp's count). *)
(***************************************************************************)
LexiconFound ==
  phase \in {"sentence", "viterbi", "died", "done"} /\ CountsFit =>
    \A t \in Seq(Nat) : FoundIn(t)

THEOREM EveryTextIsSearched == Spec => []LexiconFound
<1>1. LookupInv /\ WordsInv => LexiconFound
  <2> SUFFICES ASSUME LookupInv, WordsInv, phase \in {"sentence", "viterbi", "died", "done"},
                      CountsFit, NEW t \in Seq(Nat)
               PROVE  FoundIn(t)
    BY DEF LexiconFound
  <2>1. ArrayInv /\ Described /\ IsTrie /\ ~Building
    BY DEF LookupInv, WordsInv
  <2> QED
    BY <2>1, OpenedFinds
<1> QED
  BY <1>1, WordsInvariance, PTL

(***************************************************************************)
(* The words that are found are those of the lexicon; build() never meets  *)
(* keys out of order, so that its error -3 cannot occur; and it refuses a  *)
(* lexicon only for its size, whatever the width of the integers.          *)
(***************************************************************************)
THEOREM WordsAreFound == Spec => []WordsFound
<1>1. LookupInv /\ WordsInv => WordsFound
  <2> SUFFICES ASSUME LookupInv, WordsInv PROVE WordsFound
    OBVIOUS
  <2>1. ASSUME phase = "sentence", CountsFit, NEW t \in Surfaces \cup UNION {Texts(n) : n \in 1..4}
        PROVE  FoundIn(t)
    <3>1. ArrayInv /\ Described /\ IsTrie /\ ~Building
      BY <2>1 DEF LookupInv, WordsInv
    <3>2. ASSUME t \in Surfaces PROVE t \in Seq(Nat)
      <4>1. PICK i \in KeyIds : t = key[i]
        BY <3>1, <3>2 DEF Described, Describes, Surfaces, KeyIds
      <4>2. KeysTyped(key, value)
        BY <3>1 DEF ArrayInv
      <4> QED
        BY <4>1, <4>2, KeyFacts
    <3>3. ASSUME NEW n \in 1..4, t \in Texts(n) PROVE t \in Seq(Nat)
      <4>1. t \in [1..n -> Nat]
        BY <3>3 DEF Texts, Space, A, B
      <4> QED
        BY <4>1
    <3> QED
      BY <2>1, <3>1, <3>2, <3>3, OpenedFinds
  <2>2. ASSUME phase = "build", Building PROVE InOrder(Head(todo))
    <3>1. ArrayInv /\ Described /\ IsTrie
      BY <2>2 DEF LookupInv, WordsInv, Building
    <3>2. PICK place, inner : Trie(place, inner)
      BY <3>1 DEF IsTrie
    <3>3. PICK n : n = Head(todo)
      OBVIOUS
    <3>4. n \in Pending /\ n = todo[1] /\ 1 \in 1..Len(todo) /\ KeysTyped(key, value)
      <4>1. todo \in Seq(Pending) /\ todo # << >> /\ KeysTyped(key, value)
        BY <2>2, <3>1 DEF ArrayInv, Building
      <4> QED
        BY <3>3, <4>1
    <3>5. PendingNode(place, inner, n)
      BY <3>2, <3>4 DEF Trie, Visits
    <3>6. KeysSorted
      BY <3>1, DescribedSorted
    <3> QED
      BY <3>3, <3>4, <3>5, <3>6, MeetsOrder
  <2>3. ASSUME phase = "refused" PROVE Len(entries) * 256 > MaxInt
    <3>1. Described /\ \E k \in KeyIds : value[k] < 0
      BY <2>3 DEF WordsInv
    <3> QED
      BY <3>1 DEF Described, Describes, KeyIds
  <2> QED
    BY <2>1, <2>2, <2>3 DEF WordsFound
<1> QED
  BY <1>1, WordsInvariance, PTL
-----------------------------------------------------------------------------
(* XI. The kinds of characters: the bits of CharInfo::type. *)

LEMMA QuotientOf ==
  ASSUME NEW d \in Nat \ {0}, NEW a \in Int, NEW s \in 0..(d - 1)
  PROVE  (a * d + s) \div d = a /\ (a * d + s) % d = s
OBVIOUS

LEMMA Quotient ==
  ASSUME NEW n \in Nat, NEW d \in Nat \ {0}
  PROVE  /\ n \div d \in Nat /\ (n % d) \in 0..(d - 1)
         /\ n = (n \div d) * d + (n % d)
OBVIOUS

(* A multiple of twice the divisor does not change whether the quotient is odd. *)
LEMMA AddAbove ==
  ASSUME NEW p \in Nat \ {0}, NEW k \in Nat, NEW n \in Nat
  PROVE  ((n + (2 * k) * p) \div p) % 2 = (n \div p) % 2
<1>1. PICK a \in Nat, s \in 0..(p - 1) : n = a * p + s /\ n \div p = a
  BY Quotient
<1>2. PICK c \in Nat : c = a + 2 * k
  OBVIOUS
<1>3. n + (2 * k) * p = c * p + s
  BY <1>1, <1>2
<1>4. (n + (2 * k) * p) \div p = c
  BY <1>3, QuotientOf
<1>5. c % 2 = a % 2
  BY <1>2
<1> QED
  BY <1>1, <1>4, <1>5

LEMMA AddAt ==
  ASSUME NEW p \in Nat \ {0}, NEW n \in Nat
  PROVE  ((n + p) \div p) % 2 = 1 - ((n \div p) % 2)
<1>1. PICK a \in Nat, s \in 0..(p - 1) : n = a * p + s /\ n \div p = a
  BY Quotient
<1>2. n + p = (a + 1) * p + s
  BY <1>1
<1>3. (n + p) \div p = a + 1
  BY <1>2, QuotientOf
<1> QED
  BY <1>1, <1>3

(* Where the quotient is even, adding the divisor carries nowhere. *)
LEMMA AddBelow ==
  ASSUME NEW p \in Nat \ {0}, NEW m \in Nat \ {0}, NEW n \in Nat, (n \div p) % 2 = 0
  PROVE  (n + p) \div ((2 * m) * p) = n \div ((2 * m) * p)
<1>1. PICK q \in Nat \ {0} : q = (2 * m) * p
  <2>1. (2 * m) * p \in Nat \ {0}
    OBVIOUS
  <2> QED
    BY <2>1
<1>2. PICK a \in Nat, s \in 0..(q - 1) : n = a * q + s /\ n \div q = a
  BY Quotient
<1>3. PICK c \in Nat, r \in 0..(p - 1) : s = c * p + r
  <2>1. s \in Nat
    OBVIOUS
  <2>2. PICK c \in Nat : c = s \div p
    BY <2>1, Quotient
  <2>3. PICK r \in 0..(p - 1) : r = s % p
    BY <2>1, Quotient
  <2>4. s = (s \div p) * p + (s % p)
    BY <2>1, Quotient
  <2>5. s = c * p + r
    BY <2>2, <2>3, <2>4
  <2> QED
    BY <2>5
<1>4. c < 2 * m
  <2> SUFFICES ASSUME c >= 2 * m PROVE FALSE
    OBVIOUS
  <2>1. c * p >= (2 * m) * p
    OBVIOUS
  <2> QED
    BY <1>1, <1>3, <2>1
<1>5. n \div p = a * (2 * m) + c
  <2>1. PICK e \in Nat : e = a * (2 * m) + c
    OBVIOUS
  <2>2. n = e * p + r
    BY <1>1, <1>2, <1>3, <2>1
  <2> QED
    BY <2>1, <2>2, QuotientOf
<1>6. c % 2 = 0
  <2>1. PICK x \in Nat : x = a * m
    OBVIOUS
  <2>2. n \div p = 2 * x + c
    BY <1>5, <2>1
  <2> QED
    BY <2>2
<1>7. c + 1 < 2 * m
  BY <1>4, <1>6
<1>8. s + p < q
  <2>1. s + p = (c + 1) * p + r
    BY <1>3
  <2>2. (c + 2) * p <= (2 * m) * p
    <3>1. c + 2 <= 2 * m
      BY <1>7
    <3> QED
      BY <3>1
  <2>3. (c + 2) * p = (c + 1) * p + p
    OBVIOUS
  <2> QED
    BY <1>1, <2>1, <2>2, <2>3
<1>9. n + p = a * q + (s + p) /\ s + p \in 0..(q - 1)
  BY <1>2, <1>8
<1>10. (n + p) \div q = a
  BY <1>9, QuotientOf
<1> QED
  BY <1>1, <1>2, <1>10
-----------------------------------------------------------------------------
(* A bit is a positive number, and a multiple of each lower one. *)
LEMMA BitFacts ==
  /\ \A i \in 0..TypeBits : Bit[i] \in Nat \ {0}
  /\ Bit[0] = 1 /\ \A i \in 1..TypeBits : Bit[i] = 2 * Bit[i - 1]
<1> DEFINE n == TypeBits
           step == [x \in (1..n) \X Nat |-> 2 * x[2]]
           rec(i, h) == IF i = 0 THEN 1 ELSE 2 * h[i - 1]
<1>1. n \in Nat
  BY DEF TypeBits
<1>2. step \in [(1..n) \X Nat -> Nat]
  <2> HIDE DEF n
  <2> QED
    OBVIOUS
<1>3. PICK f : Iteration(f, n, Nat, 1, step)
  <2>1. 1 \in Nat
    OBVIOUS
  <2> HIDE DEF step, n
  <2> QED
    BY <1>1, <1>2, <2>1, IterationExists
<1> HIDE DEF n
<1>4. f \in [0..n -> Nat] /\ f[0] = 1 /\ \A i \in 1..n : f[i] = 2 * f[i - 1]
  <2>1. f \in [0..n -> Nat] /\ f[0] = 1 /\ \A i \in 1..n : f[i] = step[<<i, f[i - 1]>>]
    BY <1>3 DEF Iteration
  <2>2. ASSUME NEW i \in 1..n PROVE step[<<i, f[i - 1]>>] = 2 * f[i - 1]
    <3>1. i - 1 \in 0..n
      BY <1>1
    <3>2. <<i, f[i - 1]>> \in (1..n) \X Nat
      BY <2>1, <3>1
    <3> QED
      BY <3>2
  <2> HIDE DEF step
  <2> QED
    BY <2>1, <2>2
<1>5. f = [i \in 0..n |-> rec(i, f)]
  <2>1. ASSUME NEW i \in 0..n PROVE f[i] = rec(i, f)
    <3>1. i = 0 \/ (i \in 1..n /\ i # 0)
      BY <1>1
    <3> QED
      BY <1>4, <3>1
  <2> HIDE DEF rec
  <2> QED
    BY <1>4, <2>1
<1>6. Bit = [i \in 0..n |-> rec(i, Bit)]
  <2>1. Bit = CHOOSE h : h = [i \in 0..n |-> rec(i, h)]
    BY DEF Bit, n
  <2> HIDE DEF rec
  <2> QED
    BY <1>5, <2>1
<1>7. Bit[0] = 1 /\ \A i \in 1..n : Bit[i] = 2 * Bit[i - 1]
  <2>1. \A i \in 0..n : Bit[i] = rec(i, Bit)
    <3> HIDE DEF rec
    <3> QED
      BY <1>6
  <2>2. 0 \in 0..n /\ \A i \in 1..n : i \in 0..n /\ i # 0
    BY <1>1
  <2> QED
    BY <2>1, <2>2
<1> DEFINE U == {i \in Nat : i <= n => Bit[i] \in Nat \ {0}}
<1>8. 0 \in U
  BY <1>7
<1>9. ASSUME NEW i \in Nat, i \in U PROVE i + 1 \in U
  <2> SUFFICES ASSUME i + 1 <= n PROVE Bit[i + 1] \in Nat \ {0}
    OBVIOUS
  <2>1. i + 1 \in 1..n /\ (i + 1) - 1 = i /\ Bit[i] \in Nat \ {0}
    BY <1>1, <1>9
  <2>2. Bit[i + 1] = 2 * Bit[i]
    BY <1>7, <2>1
  <2> QED
    BY <2>1, <2>2
<1>10. Nat \subseteq U
  <2> HIDE DEF U
  <2> QED
    BY <1>8, <1>9, NatSetInduction
<1>11. \A i \in 0..n : Bit[i] \in Nat \ {0}
  <2>1. \A i \in 0..n : i \in Nat /\ i <= n
    BY <1>1
  <2> QED
    BY <1>10, <2>1
<1> QED
  BY <1>7, <1>11 DEF n

LEMMA BitMultiples ==
  ASSUME NEW i \in 0..TypeBits, NEW j \in 0..TypeBits, i < j
  PROVE  \E m \in Nat \ {0} : Bit[j] = (2 * m) * Bit[i]
<1> DEFINE n == TypeBits
           U == {d \in Nat : i + 1 + d <= n => \E m \in Nat \ {0} : Bit[i + 1 + d] = (2 * m) * Bit[i]}
<1>1. n \in Nat /\ i \in Nat /\ j \in Nat /\ j <= n
  BY DEF TypeBits
<1> HIDE DEF n
<1>2. \A k \in 0..n : Bit[k] \in Nat \ {0}
  BY BitFacts DEF n
<1>3. \A k \in 1..n : Bit[k] = 2 * Bit[k - 1]
  BY BitFacts DEF n
<1>4. 0 \in U
  <2> SUFFICES ASSUME i + 1 <= n PROVE \E m \in Nat \ {0} : Bit[i + 1] = (2 * m) * Bit[i]
    BY <1>1
  <2>1. i + 1 \in 1..n /\ (i + 1) - 1 = i /\ i \in 0..n
    BY <1>1
  <2>2. Bit[i + 1] = (2 * 1) * Bit[i]
    BY <1>2, <1>3, <2>1
  <2> QED
    BY <2>2
<1>5. ASSUME NEW d \in Nat, d \in U PROVE d + 1 \in U
  <2> SUFFICES ASSUME i + 1 + (d + 1) <= n
               PROVE  \E m \in Nat \ {0} : Bit[i + 1 + (d + 1)] = (2 * m) * Bit[i]
    OBVIOUS
  <2>1. PICK k \in 0..n : k = i + 1 + d
    BY <1>1
  <2>2. i + 1 + (d + 1) = k + 1 /\ k + 1 \in 1..n /\ (k + 1) - 1 = k /\ i \in 0..n
    BY <1>1, <2>1
  <2>3. PICK m \in Nat \ {0} : Bit[k] = (2 * m) * Bit[i]
    BY <1>1, <1>5, <2>1
  <2>4. Bit[k + 1] = (2 * (2 * m)) * Bit[i]
    <3>1. Bit[k + 1] = 2 * Bit[k]
      BY <1>3, <2>2
    <3>2. PICK b \in Nat : b = Bit[i]
      BY <1>2, <2>2
    <3>3. 2 * ((2 * m) * b) = (2 * (2 * m)) * b
      OBVIOUS
    <3> QED
      BY <2>3, <3>1, <3>2, <3>3
  <2>5. 2 * m \in Nat \ {0}
    OBVIOUS
  <2> QED
    BY <2>2, <2>4, <2>5
<1>6. Nat \subseteq U
  <2> HIDE DEF U
  <2> QED
    BY <1>4, <1>5, NatSetInduction
<1>7. j - (i + 1) \in Nat /\ i + 1 + (j - (i + 1)) = j
  BY <1>1
<1>8. j - (i + 1) \in U
  BY <1>6, <1>7
<1> QED
  BY <1>1, <1>7, <1>8

(* Adding a bit that is not set sets that bit and no other. *)
LEMMA BitAdded ==
  ASSUME NEW x \in 0..(Bit[TypeBits] - 1), NEW b \in 0..(TypeBits - 1), ~HasBit(x, b)
  PROVE  /\ x + Bit[b] \in 0..(Bit[TypeBits] - 1)
         /\ \A i \in 0..(TypeBits - 1) : HasBit(x + Bit[b], i) <=> i = b \/ HasBit(x, i)
<1> DEFINE n == TypeBits
<1>1. n \in Nat /\ b \in 0..n /\ n \in 0..n /\ b < n
  BY DEF TypeBits
<1>2. PICK p \in Nat \ {0} : p = Bit[b]
  BY <1>1, BitFacts
<1>3. PICK t \in Nat \ {0} : t = Bit[n]
  BY <1>1, BitFacts
<1>4. x \in Nat /\ x < t
  BY <1>3
<1>5. (x \div p) % 2 = 0
  <2>1. (x \div p) % 2 # 1
    BY <1>2 DEF HasBit
  <2>2. x \div p \in Nat
    BY <1>4, Quotient
  <2> QED
    BY <2>1, <2>2
<1> HIDE DEF n
<1>6. x + p < t
  <2>1. PICK m \in Nat \ {0} : t = (2 * m) * p
    <3>1. \E m \in Nat \ {0} : Bit[n] = (2 * m) * Bit[b]
      BY <1>1, BitMultiples DEF n
    <3> QED
      BY <1>2, <1>3, <3>1
  <2>2. (x + p) \div t = x \div t
    BY <1>4, <1>5, <2>1, AddBelow
  <2>3. x \div t = 0
    <3>1. x = 0 * t + x /\ x \in 0..(t - 1)
      BY <1>4
    <3> QED
      BY <3>1, QuotientOf
  <2>4. x + p = 0 * t + ((x + p) % t) /\ (x + p) % t \in 0..(t - 1)
    <3>1. x + p \in Nat
      BY <1>4
    <3> QED
      BY <2>2, <2>3, <3>1, Quotient
  <2> QED
    BY <2>4
<1>7. ASSUME NEW i \in 0..(n - 1) PROVE HasBit(x + p, i) <=> i = b \/ HasBit(x, i)
  <2>1. i \in 0..n /\ (i < b \/ i = b \/ b < i)
    BY <1>1
  <2>2. PICK d \in Nat \ {0} : d = Bit[i]
    BY <2>1, BitFacts DEF n
  <2>3. CASE i < b
    <3>1. \E m \in Nat \ {0} : Bit[b] = (2 * m) * Bit[i]
      BY <1>1, <2>1, <2>3, BitMultiples DEF n
    <3>2. PICK m \in Nat \ {0} : p = (2 * m) * d
      BY <1>2, <2>2, <3>1
    <3>3. ((x + p) \div d) % 2 = (x \div d) % 2
      BY <1>4, <3>2, AddAbove
    <3> QED
      BY <1>1, <2>2, <2>3, <3>3 DEF HasBit
  <2>4. CASE i = b
    <3>1. ((x + p) \div p) % 2 = 1 - ((x \div p) % 2)
      BY <1>4, AddAt
    <3>2. ((x + p) \div p) % 2 = 1
      BY <1>5, <3>1
    <3> QED
      BY <1>2, <2>4, <3>2 DEF HasBit
  <2>5. CASE b < i
    <3>1. \E m \in Nat \ {0} : Bit[i] = (2 * m) * Bit[b]
      BY <1>1, <2>1, <2>5, BitMultiples DEF n
    <3>2. PICK m \in Nat \ {0} : d = (2 * m) * p
      BY <1>2, <2>2, <3>1
    <3>3. (x + p) \div d = x \div d
      BY <1>4, <1>5, <3>2, AddBelow
    <3> QED
      BY <1>1, <2>2, <2>5, <3>3 DEF HasBit
  <2> QED
    BY <2>1, <2>3, <2>4, <2>5
<1>8. x + p \in 0..(t - 1)
  BY <1>4, <1>6
<1> QED
  BY <1>2, <1>3, <1>7, <1>8 DEF n
(* Every category has a bit of the field. *)
LEMMA CategoriesFit ==
  /\ CategoryIds \subseteq 0..(TypeBits - 1) /\ CategoryIds \subseteq 0..TypeBits
  /\ DefaultCategory \in CategoryIds
<1>1. PICK n \in 2..17 : n = Len(Categories)
  BY CategoryAssumption
<1>2. CategoryIds = 0..(n - 1)
  BY <1>1 DEF CategoryIds
<1>3. 0..(n - 1) \subseteq 0..17 /\ 0..(n - 1) \subseteq 0..18 /\ 0 \in 0..(n - 1)
  OBVIOUS
<1>4. 0..(TypeBits - 1) = 0..17 /\ 0..TypeBits = 0..18
  BY DEF TypeBits
<1> QED
  BY <1>2, <1>3, <1>4 DEF DefaultCategory

(***************************************************************************)
(* What encode() makes of categories that are named once each has the bits *)
(* of exactly these categories: no bit is added to itself, and the sum     *)
(* fits the field.                                                         *)
(***************************************************************************)
LEMMA EncodeBits ==
  ASSUME NEW cats \in Seq(CategoryIds), IsInjective(cats)
  PROVE  \A i \in 0..(TypeBits - 1) : HasBit(Encode(cats).type, i) <=> i \in ToSet(cats)
<1> DEFINE n == Len(cats)
           t == Bit[TypeBits]
           rec(i, h) == IF i = 0 THEN 0 ELSE h[i - 1] + Bit[cats[i]]
           F == CHOOSE h : h = [i \in 0..n |-> rec(i, h)]
           step == [x \in (1..n) \X Nat |-> x[2] + Bit[cats[x[1]]]]
<1>1. n \in Nat /\ t \in Nat \ {0}
  <2>1. TypeBits \in 0..TypeBits
    BY DEF TypeBits
  <2> QED
    BY <2>1, BitFacts
<1>2. ASSUME NEW k \in 1..n
      PROVE  cats[k] \in 0..(TypeBits - 1) /\ Bit[cats[k]] \in Nat \ {0}
  <2>1. cats[k] \in CategoryIds
    BY ElementOfSeq
  <2>2. cats[k] \in 0..(TypeBits - 1) /\ cats[k] \in 0..TypeBits
    BY <2>1, CategoriesFit
  <2> QED
    BY <2>2, BitFacts
<1>3. step \in [(1..n) \X Nat -> Nat]
  <2>1. ASSUME NEW x \in (1..n) \X Nat PROVE x[2] + Bit[cats[x[1]]] \in Nat
    <3>1. x[1] \in 1..n /\ x[2] \in Nat
      OBVIOUS
    <3>2. Bit[cats[x[1]]] \in Nat
      BY <1>2, <3>1
    <3> QED
      BY <3>1, <3>2
  <2> HIDE DEF n
  <2> QED
    BY <2>1
<1>4. PICK f : Iteration(f, n, Nat, 0, step)
  <2>1. 0 \in Nat
    OBVIOUS
  <2> HIDE DEF step, n
  <2> QED
    BY <1>1, <1>3, <2>1, IterationExists
<1>5. f \in [0..n -> Nat] /\ f[0] = 0 /\ \A i \in 1..n : f[i] = f[i - 1] + Bit[cats[i]]
  <2>1. f \in [0..n -> Nat] /\ f[0] = 0 /\ \A i \in 1..n : f[i] = step[<<i, f[i - 1]>>]
    BY <1>4 DEF Iteration
  <2>2. ASSUME NEW i \in 1..n PROVE step[<<i, f[i - 1]>>] = f[i - 1] + Bit[cats[i]]
    <3>1. i - 1 \in 0..n
      BY <1>1
    <3>2. PICK h \in Nat : h = f[i - 1]
      BY <2>1, <3>1
    <3>3. step[<<i, h>>] = h + Bit[cats[i]]
      <4> HIDE DEF n
      <4> QED
        OBVIOUS
    <3> HIDE DEF step
    <3> QED
      BY <3>2, <3>3
  <2> HIDE DEF step
  <2> QED
    BY <2>1, <2>2
<1> HIDE DEF step
<1>6. f = [i \in 0..n |-> rec(i, f)]
  <2>1. ASSUME NEW i \in 0..n PROVE f[i] = rec(i, f)
    <3>1. i = 0 \/ (i \in 1..n /\ i # 0)
      BY <1>1
    <3> HIDE DEF n
    <3> QED
      BY <1>5, <3>1
  <2> HIDE DEF rec, n
  <2> QED
    BY <1>5, <2>1
<1>7. F = [i \in 0..n |-> rec(i, F)]
  <2> HIDE DEF rec, n
  <2> QED
    BY <1>6
<1>8. F[0] = 0 /\ \A i \in 1..n : F[i] = F[i - 1] + Bit[cats[i]]
  <2>1. \A i \in 0..n : F[i] = rec(i, F)
    <3> HIDE DEF rec, F, n
    <3> QED
      BY <1>7
  <2>2. 0 \in 0..n /\ \A i \in 1..n : i \in 0..n /\ i # 0
    BY <1>1
  <2> HIDE DEF F, n
  <2> QED
    BY <2>1, <2>2
<1>9. Encode(cats).type = F[n] % t
  BY DEF Encode
<1> HIDE DEF F
<1> DEFINE Has(k, i) == \E j \in 1..k : cats[j] = i
           U == {k \in Nat : k <= n =>
                   /\ F[k] \in 0..(t - 1)
                   /\ \A i \in 0..(TypeBits - 1) : HasBit(F[k], i) <=> Has(k, i)}
<1>10. 0 \in U
  <2>1. 0 \in 0..(t - 1)
    BY <1>1
  <2>2. ASSUME NEW i \in 0..(TypeBits - 1) PROVE ~HasBit(0, i)
    <3>1. i \in 0..TypeBits
      BY DEF TypeBits
    <3>2. PICK d \in Nat \ {0} : d = Bit[i]
      BY <3>1, BitFacts
    <3>3. 0 = 0 * d + 0 /\ 0 \in 0..(d - 1)
      OBVIOUS
    <3>4. 0 \div d = 0
      BY <3>3, QuotientOf
    <3>5. (0 \div d) % 2 # 1
      BY <3>4
    <3> QED
      BY <3>2, <3>5 DEF HasBit
  <2>3. \A i : ~Has(0, i)
    OBVIOUS
  <2> HIDE DEF Has, t
  <2> QED
    BY <1>8, <2>1, <2>2, <2>3
<1>11. ASSUME NEW k \in Nat, k \in U PROVE k + 1 \in U
  <2> SUFFICES ASSUME k + 1 <= n
               PROVE  /\ F[k + 1] \in 0..(t - 1)
                      /\ \A i \in 0..(TypeBits - 1) : HasBit(F[k + 1], i) <=> Has(k + 1, i)
    <3>1. k + 1 \in Nat
      OBVIOUS
    <3> HIDE DEF Has, t, n
    <3> QED
      BY <3>1
  <2>1. k + 1 \in 1..n /\ (k + 1) - 1 = k /\ k <= n
    BY <1>1
  <2>2. PICK x : x = F[k]
    OBVIOUS
  <2>3. PICK b : b = cats[k + 1]
    OBVIOUS
  <2>4. x \in 0..(t - 1) /\ \A i \in 0..(TypeBits - 1) : HasBit(x, i) <=> Has(k, i)
    <3> HIDE DEF Has, t, n
    <3> QED
      BY <1>11, <2>1, <2>2
  <2>5. b \in 0..(TypeBits - 1) /\ F[k + 1] = x + Bit[b]
    BY <1>2, <1>8, <2>1, <2>2, <2>3
  <2>6. ~Has(k, b)
    <3> SUFFICES ASSUME NEW j \in 1..k, cats[j] = b PROVE FALSE
      OBVIOUS
    <3>1. j \in DOMAIN cats /\ k + 1 \in DOMAIN cats /\ j # k + 1
      BY <1>1, <2>1
    <3> QED
      BY <2>3, <3>1 DEF IsInjective
  <2>7. ~HasBit(x, b)
    <3> HIDE DEF Has
    <3> QED
      BY <2>4, <2>5, <2>6
  <2>8. /\ x + Bit[b] \in 0..(t - 1)
        /\ \A i \in 0..(TypeBits - 1) : HasBit(x + Bit[b], i) <=> i = b \/ HasBit(x, i)
    <3>1. x \in 0..(Bit[TypeBits] - 1)
      BY <2>4
    <3> QED
      BY <2>5, <2>7, <3>1, BitAdded
  <2>9. \A i : Has(k + 1, i) <=> i = b \/ Has(k, i)
    <3>1. \A j : j \in 1..(k + 1) <=> j = k + 1 \/ j \in 1..k
      OBVIOUS
    <3> QED
      BY <2>3, <3>1
  <2> HIDE DEF Has, t
  <2> QED
    BY <2>4, <2>5, <2>8, <2>9
<1>12. n \in U
  <2> HIDE DEF U, n
  <2> QED
    BY <1>1, <1>10, <1>11, NatSetInduction
<1>13. F[n] \in 0..(t - 1) /\ \A i \in 0..(TypeBits - 1) : HasBit(F[n], i) <=> Has(n, i)
  <2>1. n <= n
    BY <1>1
  <2> HIDE DEF Has, t, n
  <2> QED
    BY <1>12, <2>1
<1>14. F[n] % t = F[n]
  <2>1. PICK x : x = F[n]
    OBVIOUS
  <2>2. PICK d \in Nat \ {0} : d = t
    BY <1>1
  <2> HIDE DEF t
  <2>3. x \in 0..(d - 1) /\ x = 0 * d + x
    BY <1>13, <2>1, <2>2
  <2>4. x % d = x
    BY <2>3, QuotientOf
  <2> QED
    BY <2>1, <2>2, <2>4
<1>15. \A i : i \in ToSet(cats) <=> Has(n, i)
  BY DEF ToSet
<1> HIDE DEF Has, t
<1> QED
  BY <1>9, <1>13, <1>14, <1>15

(* The information of a character is made of the categories of its last    *)
(* range, those that char.def puts it into.                                *)
LEMMA TableEncodes ==
  ASSUME CharsTyped, NEW t
  PROVE  Table(t) = Encode(CategoriesOf(t)) /\ CategoriesOf(t) \in Seq(CategoryIds)
<1> DEFINE K == {i \in 1..Len(ranges) : ranges[i].low <= t /\ t <= ranges[i].high}
           rs == Select(ranges, K)
<1>1. K = RangesOf(t) /\ K \subseteq 1..Len(ranges) /\ Len(ranges) \in Nat
  BY DEF RangesOf, CharsTyped
<1>2. CategoriesOf(t) = IF rs = << >> THEN <<DefaultCategory>> ELSE rs[Len(rs)].cats
  BY DEF CategoriesOf
<1> HIDE DEF K
<1>3. PICK f : Lists(f, K) /\ rs = ValuesOf(ranges, f)
  <2>1. \E f : Lists(f, K \cap 1..Len(ranges)) /\ Select(ranges, K) = ValuesOf(ranges, f)
    <3>1. PICK T : T = ToSet(ranges)
      OBVIOUS
    <3>2. ranges \in Seq(T)
      BY <3>1 DEF CharsTyped
    <3> QED
      BY <3>2, SelectLists
  <2>2. K \cap 1..Len(ranges) = K
    BY <1>1
  <2> QED
    BY <2>1, <2>2
<1> HIDE DEF rs
<1>4. f \in Seq(K) /\ Len(f) \in Nat /\ Len(rs) = Len(f)
      /\ \A k \in 1..Len(f) : f[k] \in K /\ rs[k] = ranges[f[k]]
  <2>1. f \in Seq(K)
    BY <1>3 DEF Lists
  <2>2. Len(f) \in Nat /\ \A k \in 1..Len(f) : f[k] \in K
    BY <2>1, ElementOfSeq
  <2> QED
    BY <1>3, <2>1, <2>2 DEF ValuesOf
<1>5. CASE K = {}
  <2>1. Len(f) = 0
    BY <1>4, <1>5
  <2>2. rs = << >>
    BY <1>3, <2>1 DEF ValuesOf
  <2>3. <<DefaultCategory>> \in Seq(CategoryIds)
    <3>1. DefaultCategory \in CategoryIds
      BY CategoriesFit
    <3> QED
      BY <3>1
  <2> QED
    BY <1>1, <1>2, <1>5, <2>2, <2>3 DEF Table
<1>6. CASE K # {}
  <2>1. IsFiniteSet(K) /\ K \in SUBSET Nat
    <3>1. IsFiniteSet(1..Len(ranges)) /\ 1..Len(ranges) \subseteq Nat
      BY <1>1, FS_Interval
    <3> QED
      BY <1>1, <3>1, FS_Subset
  <2>2. PICK m \in K : m = Max(K) /\ \A x \in K : x <= m
    BY <1>6, <2>1, MaxOfFinite
  <2>3. PICK k \in 1..Len(f) : f[k] = m
    BY <1>3 DEF Lists
  <2>4. k = Len(f)
    <3> SUFFICES ASSUME k < Len(f) PROVE FALSE
      BY <1>4
    <3>1. Len(f) \in 1..Len(f)
      BY <1>4
    <3>2. f[k] < f[Len(f)] /\ f[Len(f)] \in K
      BY <1>3, <1>4, <3>1 DEF Lists
    <3>3. f[Len(f)] <= m /\ f[Len(f)] \in Nat /\ m \in Nat
      BY <2>1, <2>2, <3>2
    <3> QED
      BY <2>3, <3>2, <3>3
  <2>5. rs # << >> /\ rs[Len(rs)] = ranges[m]
    <3>1. Len(rs) # 0 /\ rs[Len(rs)] = ranges[m]
      BY <1>4, <2>3, <2>4
    <3> QED
      BY <3>1
  <2>6. ranges[m].cats \in Seq(CategoryIds)
    BY <1>1, <2>2 DEF CharsTyped
  <2> QED
    BY <1>1, <1>2, <1>6, <2>2, <2>5, <2>6 DEF Table
<1> QED
  BY <1>5, <1>6

(***************************************************************************)
(* isKindOf() is what char.def says: two characters have a bit in common   *)
(* exactly if their ranges have a category in common (char_property.cpp).  *)
(***************************************************************************)
THEOREM KindsAreDefined == Spec => []KindsAsDefined
<1>1. LookupInv => KindsAsDefined
  <2> SUFFICES ASSUME LookupInv, phase = "build",
                      NEW c \in {t \in MCNul..B : IsInjective(CategoriesOf(t))},
                      NEW d \in {t \in MCNul..B : IsInjective(CategoriesOf(t))}
               PROVE  IsKindOf(Table(c), Table(d)) <=>
                        ToSet(CategoriesOf(c)) \cap ToSet(CategoriesOf(d)) # {}
    BY DEF KindsAsDefined
  <2>1. CharsTyped
    BY DEF LookupInv
  <2>2. PICK p : p = CategoriesOf(c)
    OBVIOUS
  <2>3. PICK q : q = CategoriesOf(d)
    OBVIOUS
  <2>4. /\ Table(c) = Encode(p) /\ p \in Seq(CategoryIds) /\ IsInjective(p)
        /\ Table(d) = Encode(q) /\ q \in Seq(CategoryIds) /\ IsInjective(q)
    BY <2>1, <2>2, <2>3, TableEncodes
  <2>5. \A i \in 0..(TypeBits - 1) : HasBit(Table(c).type, i) <=> i \in ToSet(p)
    BY <2>4, EncodeBits
  <2>6. \A i \in 0..(TypeBits - 1) : HasBit(Table(d).type, i) <=> i \in ToSet(q)
    BY <2>4, EncodeBits
  <2>7. ToSet(p) \subseteq 0..(TypeBits - 1)
    <3>2. CategoryIds \subseteq 0..(TypeBits - 1)
      BY CategoriesFit
    <3>3. \A k \in 1..Len(p) : p[k] \in CategoryIds
      BY <2>4, ElementOfSeq
    <3>4. DOMAIN p = 1..Len(p)
      BY <2>4
    <3> QED
      BY <3>2, <3>3, <3>4 DEF ToSet
  <2>8. IsKindOf(Table(c), Table(d)) <=> ToSet(p) \cap ToSet(q) # {}
    BY <2>5, <2>6, <2>7 DEF IsKindOf
  <2> QED
    BY <2>2, <2>3, <2>8
<1> QED
  BY <1>1, LookupInvariance, PTL
=============================================================================
