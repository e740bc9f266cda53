-------------------------- MODULE WordCloudProofs ---------------------------
(***************************************************************************)
(* Theorems about the page and the process it starts, for any texts, sizes *)
(* of pipes and of buffers: what mecab has analysed when it ends is what   *)
(* the page has written.                                                   *)
(***************************************************************************)
EXTENDS MCWordCloud, InductionLemmas

-----------------------------------------------------------------------------
(* Joining, and leaving out ends of lines. *)

(* Text is passed on character by character. *)
LEMMA PassedOn ==
  ASSUME NEW T, NEW l \in Seq(T), NEW q \in Seq(T), q # << >>, NEW u \in Seq(T)
  PROVE  /\ Head(q) \in T /\ Tail(q) \in Seq(T) /\ Append(l, Head(q)) \in Seq(T)
         /\ Append(l, Head(q)) \o Tail(q) = l \o q
         /\ Append(l, Head(q)) \o (Tail(q) \o u) = l \o (q \o u)
<1>1. PICK x \in T, p \in Seq(T) : x = Head(q) /\ p = Tail(q) /\ q = <<x>> \o p
  <2>1. Head(q) \in T /\ Tail(q) \in Seq(T) /\ q = <<Head(q)>> \o Tail(q)
    OBVIOUS
  <2> QED
    BY <2>1
<1>2. <<x>> \in Seq(T) /\ Append(l, x) = l \o <<x>> /\ Append(l, x) \in Seq(T)
  OBVIOUS
<1>3. (l \o <<x>>) \o p = l \o q
  BY <1>1, <1>2, ConcatAssociative
<1>4. p \o u \in Seq(T) /\ q \o u = <<x>> \o (p \o u)
  BY <1>1, <1>2, ConcatAssociative, ConcatProperties
<1>5. (l \o <<x>>) \o (p \o u) = l \o (q \o u)
  BY <1>2, <1>4, ConcatAssociative, SMTT(30)
<1> QED
  BY <1>1, <1>2, <1>3, <1>5

LEMMA AppendJoins ==
  ASSUME NEW T, NEW x \in T
  PROVE  <<x>> \in Seq(T) /\ \A q \in Seq(T) : Append(q, x) = q \o <<x>>
OBVIOUS

LEMMA WithoutAppended ==
  ASSUME NEW T, NEW p \in Seq(T), NEW x \in T
  PROVE  /\ WithoutNL(p) \in Seq(T) /\ Append(p, x) \in Seq(T)
         /\ WithoutNL(Append(p, x)) = IF x = NL THEN WithoutNL(p) ELSE Append(WithoutNL(p), x)
<1> DEFINE q == Append(p, x)
           J == {i \in 1..Len(p) : p[i] # NL}
           K == {i \in 1..Len(q) : q[i] # NL}
<1>1. q \in Seq(T) /\ Len(p) \in Nat /\ Len(q) = Len(p) + 1 /\ q[Len(p) + 1] = x
      /\ \A i \in 1..Len(p) : q[i] = p[i]
  OBVIOUS
<1> HIDE DEF q
<1>2. \A i \in 1..Len(p) : i \in J <=> i \in K
  BY <1>1
<1>3. Len(p) + 1 \in K <=> x # NL
  BY <1>1
<1>4. WithoutNL(p) = Select(p, J) /\ WithoutNL(q) = Select(q, K)
  BY DEF WithoutNL
<1> HIDE DEF J, K
<1>5. Select(q, K) = IF Len(p) + 1 \in K THEN Append(Select(p, J), x) ELSE Select(p, J)
  BY <1>2, SelectAppended DEF q
<1>6. Select(p, J) \in Seq(T)
  BY SelectFacts
<1> QED
  BY <1>1, <1>3, <1>4, <1>5, <1>6 DEF q

LEMMA WithoutEmpty ==
  WithoutNL(<< >>) = << >>
<1>1. << >> \in Seq({}) /\ Len(<< >>) = 0
  OBVIOUS
<1>2. PICK F : Selection(<< >>, {i \in 1..Len(<< >>) : << >>[i] # NL}, F)
  BY <1>1, SelectionExists
<1> QED
  BY <1>1, <1>2 DEF Selection, WithoutNL

(* What is left of two texts is what is left of each. *)
LEMMA WithoutJoined ==
  ASSUME NEW T, NEW p \in Seq(T), NEW q \in Seq(T)
  PROVE  WithoutNL(p \o q) = WithoutNL(p) \o WithoutNL(q)
<1> DEFINE U == {k \in Nat : \A r \in Seq(T) :
                   Len(r) = k => WithoutNL(p \o r) = WithoutNL(p) \o WithoutNL(r)}
<1>1. ASSUME NEW r \in Seq(T) PROVE WithoutNL(r) \in Seq(T)
  <2>1. CASE r = << >>
    BY <2>1, WithoutEmpty
  <2>2. CASE r # << >>
    BY <2>2, WithoutAppended
  <2> QED
    BY <2>1, <2>2
<1>2. 0 \in U
  <2> SUFFICES ASSUME NEW r \in Seq(T), Len(r) = 0
               PROVE  WithoutNL(p \o r) = WithoutNL(p) \o WithoutNL(r)
    OBVIOUS
  <2>1. r = << >> /\ p \o r = p
    OBVIOUS
  <2>2. WithoutNL(p) \o << >> = WithoutNL(p)
    BY <1>1, ConcatEmptySeq
  <2> QED
    BY <2>1, <2>2, WithoutEmpty
<1>3. ASSUME NEW k \in Nat, k \in U PROVE k + 1 \in U
  <2> SUFFICES ASSUME NEW r \in Seq(T), Len(r) = k + 1
               PROVE  WithoutNL(p \o r) = WithoutNL(p) \o WithoutNL(r)
    OBVIOUS
  <2>1. PICK h \in Seq(T), x \in T : r = Append(h, x) /\ Len(h) = k
    <3>1. SubSeq(r, 1, k) \in Seq(T) /\ r[k + 1] \in T /\ Len(SubSeq(r, 1, k)) = k
          /\ r = Append(SubSeq(r, 1, k), r[k + 1])
      OBVIOUS
    <3> QED
      BY <3>1
  <2>2. p \o h \in Seq(T) /\ p \o r = Append(p \o h, x)
    BY <2>1
  <2>3. WithoutNL(p \o h) = WithoutNL(p) \o WithoutNL(h)
    BY <1>3, <2>1
  <2>4. WithoutNL(p \o r) = IF x = NL THEN WithoutNL(p \o h) ELSE Append(WithoutNL(p \o h), x)
    BY <2>2, WithoutAppended
  <2>5. WithoutNL(r) = IF x = NL THEN WithoutNL(h) ELSE Append(WithoutNL(h), x)
    BY <2>1, WithoutAppended
  <2>6. PICK y \in Seq(T) : y = WithoutNL(p)
    BY <1>1
  <2>7. PICK z \in Seq(T) : z = WithoutNL(h)
    BY <1>1, <2>1
  <2>8. Append(y \o z, x) = y \o Append(z, x)
    <3>1. PICK w \in Seq(T) : w = y \o z
      BY ConcatProperties
    <3>2. <<x>> \in Seq(T) /\ Append(z, x) = z \o <<x>> /\ Append(w, x) = w \o <<x>>
      BY AppendJoins
    <3>3. PICK e \in Seq(T) : e = <<x>>
      BY <3>2
    <3>4. (y \o z) \o e = y \o (z \o e)
      BY ConcatAssociative, SMTT(30)
    <3> QED
      BY <3>1, <3>2, <3>3, <3>4
  <2> QED
    BY <2>3, <2>4, <2>5, <2>6, <2>7, <2>8
<1>4. Len(q) \in U
  <2>1. Len(q) \in Nat
    OBVIOUS
  <2> HIDE DEF U
  <2> QED
    BY <1>2, <1>3, <2>1, NatSetInduction
<1> QED
  BY <1>4

-----------------------------------------------------------------------------
(* A piece without an end of line is in one of the lines. *)
LEMMA LineHolds ==
  ASSUME NEW T, NEW t \in Seq(T), NEW a \in Nat, NEW m \in Nat \ {0}, a + m <= Len(t),
         \A i \in 1..m : t[a + i] # NL
  PROVE  \E k \in DOMAIN LinesOf(t) : Len(LinesOf(t)[k]) \in Nat /\ Len(LinesOf(t)[k]) >= m
<1> DEFINE ends == {0} \cup {i \in 1..Len(t) : t[i] = NL} \cup {Len(t) + 1}
           at == Ascending(ends)
           lines == [k \in 1..(Len(at) - 1) |-> SubSeq(t, at[k] + 1, at[k + 1] - 1)]
<1>1. Len(t) \in Nat
  OBVIOUS
<1>2. ends \in SUBSET Nat /\ IsFiniteSet(ends) /\ 0 \in ends /\ Len(t) + 1 \in ends
  <2>1. ends \subseteq 0..(Len(t) + 1)
    BY <1>1
  <2>2. IsFiniteSet(0..(Len(t) + 1)) /\ 0..(Len(t) + 1) \subseteq Nat
    BY <1>1, FS_Interval
  <2> QED
    BY <2>1, <2>2, FS_Subset
<1>3. \A e \in ends : e <= a \/ e >= a + m + 1
  <2> SUFFICES ASSUME NEW e \in ends, e > a, e <= a + m PROVE FALSE
    BY <1>1, <1>2
  <2>1. e \in 1..Len(t) /\ t[e] = NL
    BY <1>1
  <2>2. e - a \in 1..m /\ a + (e - a) = e
    BY <2>1
  <2> QED
    BY <2>1, <2>2
<1>4. LinesOf(t) = IF Last(lines) = << >> THEN Front(lines) ELSE lines
  BY DEF LinesOf
<1> HIDE DEF ends
<1>5. /\ Cardinality(ends) \in Nat
      /\ at \in Seq(ends) /\ Len(at) = Cardinality(ends)
      /\ \A x \in ends : \E k \in 1..Len(at) : at[k] = x
      /\ \A j, k \in 1..Len(at) : j < k => at[j] < at[k]
  BY <1>2, AscendingFacts
<1> HIDE DEF at
<1>6. \A k \in 1..Len(at) : at[k] \in ends /\ at[k] \in Nat
  BY <1>2, <1>5, ElementOfSeq
<1>7. PICK k \in 1..(Len(at) - 1) : at[k] <= a /\ at[k + 1] >= a + m + 1
  <2> DEFINE P == {k \in 1..Len(at) : at[k] <= a}
  <2>1. PICK x \in 1..Len(at) : at[x] = 0
    BY <1>2, <1>5
  <2>2. PICK y \in 1..Len(at) : at[y] = Len(t) + 1
    BY <1>2, <1>5
  <2>3. P \in SUBSET Nat /\ IsFiniteSet(P) /\ P # {}
    <3>1. IsFiniteSet(1..Len(at)) /\ P \subseteq 1..Len(at) /\ P \subseteq Nat
      <4>1. PICK c \in Nat : c = Len(at)
        BY <1>5
      <4>2. IsFiniteSet(1..c)
        BY FS_Interval
      <4> QED
        BY <4>1, <4>2
    <3>2. x \in P
      BY <2>1
    <3> QED
      BY <3>1, <3>2, FS_Subset
  <2>4. PICK k \in P : \A j \in P : j <= k
    BY <2>3, MaxOfFinite
  <2>5. k \in 1..Len(at) /\ at[k] <= a
    OBVIOUS
  <2>6. k # y /\ y \notin P
    BY <1>1, <2>2, <2>5
  <2>7. k < y
    <3> SUFFICES ASSUME y < k PROVE FALSE
      BY <1>5, <2>5, <2>6
    <3>1. at[y] < at[k] /\ at[y] \in Nat /\ at[k] \in Nat
      BY <1>5, <1>6, <2>5
    <3> QED
      BY <1>1, <2>2, <2>5, <3>1
  <2>8. k + 1 \in 1..Len(at) /\ k \in 1..(Len(at) - 1) /\ ~(k + 1 <= k)
    BY <1>5, <2>5, <2>7
  <2>9. ~(at[k + 1] <= a)
    BY <2>4, <2>8
  <2>10. at[k + 1] >= a + m + 1
    BY <1>3, <1>6, <2>8, <2>9
  <2> QED
    BY <2>5, <2>8, <2>10
<1>8. Len(lines) = Len(at) - 1 /\ DOMAIN lines = 1..(Len(at) - 1)
      /\ lines[k] = SubSeq(t, at[k] + 1, at[k + 1] - 1) /\ Len(at) - 1 \in Nat
  <2>1. PICK c \in Nat : c = Len(at) - 1
    BY <1>5
  <2>2. DOMAIN lines = 1..(Len(at) - 1)
    OBVIOUS
  <2>3. lines[k] = SubSeq(t, at[k] + 1, at[k + 1] - 1)
    OBVIOUS
  <2>4. Len(lines) = c
    <3>1. lines = [i \in 1..c |-> SubSeq(t, at[i] + 1, at[i + 1] - 1)]
      BY <2>1
    <3> HIDE DEF lines
    <3> QED
      BY <3>1
  <2> QED
    BY <2>1, <2>2, <2>3, <2>4
<1>9. Len(lines[k]) \in Nat /\ Len(lines[k]) >= m
  <2>1. PICK x \in Nat : x = at[k]
    BY <1>5, <1>6
  <2>2. PICK y \in Nat : y = at[k + 1]
    <3>1. k + 1 \in 1..Len(at)
      BY <1>5
    <3> QED
      BY <1>6, <3>1
  <2>3. PICK z : z = SubSeq(t, x + 1, y - 1)
    OBVIOUS
  <2>4. Len(z) = (y - 1) - (x + 1) + 1
    <3>1. x + 1 <= y - 1
      BY <1>7, <2>1, <2>2
    <3>2. x + 1 \in 1..Len(t) /\ y - 1 \in (x + 1)..Len(t)
      <4>1. y <= Len(t) + 1
        <5>1. k + 1 \in 1..Len(at)
          BY <1>5
        <5>2. at[k + 1] \in ends
          BY <1>6, <5>1
        <5> QED
          BY <1>1, <2>2, <5>2 DEF ends
      <4> QED
        BY <1>1, <3>1, <4>1
    <3>3. \A i \in (x + 1)..(y - 1) : t[i] \in T
      <4>1. \A i \in (x + 1)..(y - 1) : i \in 1..Len(t)
        BY <1>1, <3>2
      <4> QED
        BY <4>1, ElementOfSeq
    <3> QED
      BY <2>3, <3>1, <3>3, SubSeqProperties
  <2>5. lines[k] = z
    BY <1>8, <2>1, <2>2, <2>3
  <2> HIDE DEF lines
  <2> QED
    BY <1>7, <2>1, <2>2, <2>4, <2>5
<1> HIDE DEF lines
<1>10. CASE Last(lines) # << >>
  BY <1>4, <1>8, <1>9, <1>10
<1>11. CASE Last(lines) = << >>
  <2>1. lines[Len(lines)] = << >>
    BY <1>11 DEF Last
  <2>2. k # Len(lines)
    BY <1>9, <2>1
  <2>3. k \in 1..(Len(lines) - 1)
    BY <1>8, <2>2
  <2>4. Front(lines) = SubSeq(lines, 1, Len(lines) - 1)
    BY DEF Front
  <2>5. LinesOf(t) = [i \in 1..(Len(lines) - 1) |-> lines[i]]
    <3>1. SubSeq(lines, 1, Len(lines) - 1) = [i \in 1..(Len(lines) - 1) |-> lines[i]]
      BY <1>8, <2>3
    <3> QED
      BY <1>4, <1>11, <2>4, <3>1
  <2>6. k \in DOMAIN LinesOf(t) /\ LinesOf(t)[k] = lines[k]
    BY <2>3, <2>5
  <2> QED
    BY <1>9, <2>6
<1> QED
  BY <1>10, <1>11

-----------------------------------------------------------------------------
(* What has been read from the pipe, and what of it has been analysed. *)

Chars == ToSet(rows[row]) \cup {NL}

Held == IF pc = "write" THEN << >> ELSE sentence

(***************************************************************************)
(* The text of the row is what has been read, the line that is being read, *)
(* what is in the pipe and what is still to be written; and what has been  *)
(* read, but for ends of lines, is what was analysed and is held for it.   *)
(***************************************************************************)
Read(read) ==
  /\ read \in Seq(Chars)
  /\ rows[row] = read \o (line \o (inPipe \o text))
  /\ WithoutNL(read) = WithoutNL(FlattenSeq(parsed) \o Held)

Accounted ==
  /\ line \in Seq(Chars) /\ inPipe \in Seq(Chars) /\ text \in Seq(Chars)
  /\ sentence \in Seq(Chars) /\ parsed \in Seq(Seq(Chars))
  /\ \A i \in 1..Len(line) : line[i] # NL
  /\ pc \in {"parse", "write"} => line = << >>
  /\ pc = "getline" /\ ~partial => sentence = << >>
  /\ pc = "exited" => pagePc = "read" /\ inPipe = << >> /\ line = << >> /\ sentence = << >>
  /\ \E read : Read(read)

LinesFit == \A k \in DOMAIN LinesOf(rows[row]) : Len(LinesOf(rows[row])[k]) < LineBufSize

AccountInv ==
  /\ rows \in Rows /\ row \in Nat \ {0} /\ partial \in BOOLEAN
  /\ pc \in {"getline", "parse", "write", "exited", "failed"}
  /\ pagePc \in {"row", "write", "read", "count", "done"}
  /\ pagePc \in {"write", "read"} => row \in 1..Len(rows)
  /\ pagePc = "write" => inOpen
  /\ pagePc = "read" => ~inOpen /\ text = << >>
  /\ pagePc \in {"write", "read"} /\ pc # "failed" /\ (partial => LinesFit) => Accounted

LEMMA RowFacts ==
  ASSUME AccountInv, row \in 1..Len(rows)
  PROVE  rows[row] \in Seq(Chars) /\ NL \in Chars
<1>1. rows[row] \in Seq(ToSet(rows[row]))
  BY PageAssumption DEF AccountInv
<1>2. ToSet(rows[row]) \subseteq Chars /\ NL \in Chars
  BY DEF Chars
<1> HIDE DEF Chars
<1>3. PICK t, P : t = rows[row] /\ P = ToSet(rows[row]) /\ t \in Seq(P) /\ P \subseteq Chars
  BY <1>1, <1>2
<1>4. t \in Seq(Chars)
  BY <1>3, SeqMonotonic
<1> QED
  BY <1>2, <1>3, <1>4

-----------------------------------------------------------------------------
(* Reading on: ends of lines do not count. *)
MaybeEnded(l) == {l, Append(l, NL)}

LEMMA ReadOn ==
  ASSUME NEW T, NL \in T, NEW read \in Seq(T), NEW done \in Seq(T), NEW held \in Seq(T),
         NEW l \in Seq(T), WithoutNL(read) = WithoutNL(done \o held),
         NEW a \in MaybeEnded(l), NEW b \in MaybeEnded(l)
  PROVE  /\ a \in Seq(T) /\ held \o b \in Seq(T) /\ read \o a \in Seq(T)
         /\ WithoutNL(read \o a) = WithoutNL(done \o (held \o b))
<1>1. a \in Seq(T) /\ b \in Seq(T) /\ WithoutNL(a) = WithoutNL(l) /\ WithoutNL(b) = WithoutNL(l)
  BY WithoutAppended DEF MaybeEnded
<1>2. WithoutNL(read \o a) = WithoutNL(done \o held) \o WithoutNL(l)
  <2>1. PICK c \in Seq(T) : c = a
    BY <1>1
  <2>2. WithoutNL(read \o c) = WithoutNL(read) \o WithoutNL(c)
    BY WithoutJoined
  <2> QED
    BY <1>1, <2>1, <2>2
<1>3. PICK p \in Seq(T) : p = done \o held
  BY ConcatProperties
<1>4. WithoutNL(p \o b) = WithoutNL(p) \o WithoutNL(l)
  BY <1>1, WithoutJoined
<1>5. (done \o held) \o b = done \o (held \o b)
  <2>1. PICK y \in Seq(T) : y = b
    BY <1>1
  <2>2. (done \o held) \o y = done \o (held \o y)
    BY ConcatAssociative
  <2> QED
    BY <2>1, <2>2
<1> QED
  BY <1>1, <1>2, <1>3, <1>4, <1>5, ConcatProperties

(* What is read moves from one text to the end of the other. *)
LEMMA ReadBehind ==
  \A x, y, z \in Seq(Chars) : x \o (y \o z) = (x \o y) \o (<< >> \o z)
<1> SUFFICES ASSUME NEW x \in Seq(Chars), NEW y \in Seq(Chars), NEW z \in Seq(Chars)
             PROVE  x \o (y \o z) = (x \o y) \o (<< >> \o z)
  OBVIOUS
<1>1. << >> \o z = z
  BY ConcatEmptySeq
<1> QED
  BY <1>1, ConcatAssociative

LEMMA ReadCharAccounts ==
  ASSUME AccountInv, Accounted, ReadChar, UNCHANGED pageVars, row \in 1..Len(rows)
  PROVE  Accounted'
<1>1. /\ Chars' = Chars /\ pc = "getline" /\ pc' = pc /\ inPipe # << >> /\ Head(inPipe) # NL
      /\ line' = Append(line, Head(inPipe)) /\ inPipe' = Tail(inPipe) /\ text' = text
      /\ sentence' = sentence /\ parsed' = parsed /\ partial' = partial /\ rows'[row'] = rows[row]
  BY DEF ReadChar, pageVars, Chars
<1>2. /\ line \in Seq(Chars) /\ inPipe \in Seq(Chars) /\ text \in Seq(Chars)
      /\ sentence \in Seq(Chars) /\ parsed \in Seq(Seq(Chars))
      /\ \A i \in 1..Len(line) : line[i] # NL
      /\ ~partial => sentence = << >>
  BY <1>1 DEF Accounted
<1>3. PICK read : Read(read)
  BY DEF Accounted
<1>4. /\ Head(inPipe) \in Chars /\ inPipe' \in Seq(Chars) /\ line' \in Seq(Chars)
      /\ line' \o (inPipe' \o text) = line \o (inPipe \o text)
  <2>1. Head(inPipe) \in Chars /\ Tail(inPipe) \in Seq(Chars)
    BY <1>1, <1>2, PassedOn
  <2>2. Append(line, Head(inPipe)) \in Seq(Chars)
    BY <1>1, <1>2, PassedOn
  <2>3. Append(line, Head(inPipe)) \o (Tail(inPipe) \o text) = line \o (inPipe \o text)
    <3>1. PICK l \in Seq(Chars), q \in Seq(Chars), u \in Seq(Chars) :
            l = line /\ q = inPipe /\ u = text /\ q # << >>
      BY <1>1, <1>2
    <3>2. Append(l, Head(q)) \o (Tail(q) \o u) = l \o (q \o u)
      BY <3>1, PassedOn, SMTT(30)
    <3> QED
      BY <3>1, <3>2
  <2> QED
    BY <1>1, <2>1, <2>2, <2>3
<1>5. \A i \in 1..Len(line') : line'[i] # NL
  <2>1. PICK h \in Chars : h = Head(inPipe)
    BY <1>4
  <2>2. Len(line') = Len(line) + 1 /\ line'[Len(line) + 1] = h
        /\ \A i \in 1..Len(line) : line'[i] = line[i]
    BY <1>1, <1>2, <2>1, AppendProperties
  <2>3. \A i \in 1..Len(line') : i \in 1..Len(line) \/ i = Len(line) + 1
    BY <1>2, <2>2
  <2> QED
    BY <1>1, <1>2, <2>1, <2>2, <2>3
<1>6. Read(read)'
  BY <1>1, <1>3, <1>4 DEF Read, Held
<1> QED
  BY <1>1, <1>2, <1>4, <1>5, <1>6 DEF Accounted

(* The line that was read, with or without its end, is added to what is held. *)
LEMMA LineRead ==
  ASSUME NL \in Chars, line \in Seq(Chars), sentence \in Seq(Chars),
         parsed \in Seq(Seq(Chars)), NEW read, Read(read), pc # "write",
         NEW a \in MaybeEnded(line), NEW b \in MaybeEnded(line)
  PROVE  /\ a \in Seq(Chars) /\ sentence \o b \in Seq(Chars) /\ read \o a \in Seq(Chars)
         /\ WithoutNL(read \o a) = WithoutNL(FlattenSeq(parsed) \o (sentence \o b))
<1>1. PICK held \in Seq(Chars), l \in Seq(Chars) : held = sentence /\ l = line
  OBVIOUS
<1>2. PICK d \in Seq(Chars) : d = FlattenSeq(parsed)
  BY FlattenAppended
<1>3. read \in Seq(Chars) /\ WithoutNL(read) = WithoutNL(d \o held)
  BY <1>1, <1>2 DEF Read, Held
<1>4. a \in MaybeEnded(l) /\ b \in MaybeEnded(l)
  BY <1>1
<1>5. a \in Seq(Chars) /\ held \o b \in Seq(Chars) /\ read \o a \in Seq(Chars)
  BY <1>3, <1>4, ReadOn
<1>6. WithoutNL(read \o a) = WithoutNL(d \o (held \o b))
  BY <1>3, <1>4, ReadOn
<1> QED
  BY <1>1, <1>2, <1>5, <1>6

LEMMA ReadNewlineAccounts ==
  ASSUME AccountInv, Accounted, ReadNewline, UNCHANGED pageVars, row \in 1..Len(rows)
  PROVE  Accounted'
<1>1. /\ Chars' = Chars /\ pc = "getline" /\ inPipe # << >> /\ Head(inPipe) = NL
      /\ line' = << >> /\ inPipe' = Tail(inPipe) /\ text' = text
      /\ parsed' = parsed /\ partial' = partial /\ rows'[row'] = rows[row]
      /\ pc' \in {"parse", "getline"}
      /\ IF partial THEN sentence' = sentence \o Append(line, NL)
         ELSE sentence' = line /\ pc' = "parse"
  BY DEF ReadNewline, AfterLine, pageVars, Chars
<1>2. /\ line \in Seq(Chars) /\ inPipe \in Seq(Chars) /\ text \in Seq(Chars)
      /\ sentence \in Seq(Chars) /\ parsed \in Seq(Seq(Chars))
      /\ ~partial => sentence = << >>
  BY <1>1 DEF Accounted
<1>3. PICK read : Read(read)
  BY DEF Accounted
<1>4. PICK a, b : a = Append(line, NL) /\ b = IF partial THEN a ELSE line
  OBVIOUS
<1>5. a \in MaybeEnded(line) /\ b \in MaybeEnded(line) /\ NL \in Chars
  BY <1>4, RowFacts DEF MaybeEnded
<1>6. /\ sentence \o b \in Seq(Chars) /\ read \o a \in Seq(Chars) /\ a \in Seq(Chars)
      /\ WithoutNL(read \o a) = WithoutNL(FlattenSeq(parsed) \o (sentence \o b))
  BY <1>1, <1>2, <1>3, <1>5, LineRead
<1>7. PICK l \in Seq(Chars), q \in Seq(Chars), u \in Seq(Chars) :
        l = line /\ q = inPipe /\ u = text /\ q # << >>
  BY <1>1, <1>2
<1>8. PICK p \in Seq(Chars), w \in Seq(Chars) :
        p = inPipe' /\ w = p \o u /\ a \o w = line \o (inPipe \o text)
  <2>1. Tail(q) \in Seq(Chars) /\ Append(l, Head(q)) \o (Tail(q) \o u) = l \o (q \o u)
    BY <1>7, PassedOn, SMTT(30)
  <2>2. Tail(q) \o u \in Seq(Chars)
    BY <2>1, ConcatProperties
  <2> QED
    BY <1>1, <1>4, <1>7, <2>1, <2>2
<1>9. PICK next : next = read \o a
  OBVIOUS
<1>10. rows[row] = next \o (<< >> \o (p \o u))
  <2>1. rows[row] = read \o (a \o w) /\ read \in Seq(Chars)
    BY <1>3, <1>8 DEF Read
  <2>2. PICK x \in Seq(Chars), y \in Seq(Chars), z \in Seq(Chars) : x = read /\ y = a /\ z = w
    BY <1>6, <2>1, <1>8
  <2>3. x \o (y \o z) = (x \o y) \o (<< >> \o z)
    BY ReadBehind, SMTT(30)
  <2> QED
    BY <1>8, <1>9, <2>1, <2>2, <2>3
<1>11. sentence' = sentence \o b
  <2>1. << >> \o line = line
    BY <1>2, ConcatEmptySeq
  <2> QED
    BY <1>1, <1>2, <1>4, <2>1
<1>12. Read(next)'
  BY <1>1, <1>6, <1>7, <1>8, <1>9, <1>10, <1>11 DEF Read, Held
<1>13. << >> \in Seq(Chars) /\ \A i \in 1..Len(<< >>) : << >>[i] # NL
  OBVIOUS
<1> QED
  BY <1>1, <1>2, <1>6, <1>8, <1>11, <1>12, <1>13 DEF Accounted

(* With lines that fit, the buffer is not full within a line. *)
LEMMA NeverFull ==
  ASSUME AccountInv, Accounted, pc = "getline", inPipe # << >>, Head(inPipe) # NL,
         partial, LinesFit, row \in 1..Len(rows)
  PROVE  Len(line) # BufSize - 1
<1> SUFFICES ASSUME Len(line) = LineBufSize - 1 PROVE FALSE
  BY DEF BufSize
<1>1. PICK read : Read(read)
  BY DEF Accounted
<1>2. /\ line \in Seq(Chars) /\ inPipe \in Seq(Chars) /\ text \in Seq(Chars)
      /\ read \in Seq(Chars) /\ \A i \in 1..Len(line) : line[i] # NL
      /\ rows[row] = read \o (line \o (inPipe \o text))
  BY <1>1 DEF Accounted, Read
<1>3. PICK h \in Chars, w \in Seq(Chars), r \in Seq(Chars) :
        /\ h = Head(inPipe) /\ w = Append(line, h) /\ r = Tail(inPipe) \o text
        /\ line \o (inPipe \o text) = w \o r
  <2>1. Head(inPipe) \in Chars /\ Tail(inPipe) \in Seq(Chars)
    BY <1>2, PassedOn
  <2>2. Append(line, Head(inPipe)) \in Seq(Chars)
    BY <1>2, PassedOn
  <2>3. Append(line, Head(inPipe)) \o (Tail(inPipe) \o text) = line \o (inPipe \o text)
    <3>1. PICK l \in Seq(Chars), q \in Seq(Chars), u \in Seq(Chars) :
            l = line /\ q = inPipe /\ u = text /\ q # << >>
      BY <1>2
    <3>2. Append(l, Head(q)) \o (Tail(q) \o u) = l \o (q \o u)
      BY <3>1, PassedOn, SMTT(30)
    <3> QED
      BY <3>1, <3>2
  <2>4. Tail(inPipe) \o text \in Seq(Chars)
    BY <1>2, <2>1, ConcatProperties
  <2> QED
    BY <2>1, <2>2, <2>3, <2>4
<1>4. PICK m \in Nat \ {0} : m = LineBufSize
  BY ProcessAssumption
<1>5. Len(w) = m /\ \A i \in 1..m : w[i] # NL
  <2>1. /\ Len(w) = Len(line) + 1 /\ w[Len(line) + 1] = h
        /\ \A i \in 1..Len(line) : w[i] = line[i]
    BY <1>2, <1>3, AppendProperties
  <2>2. Len(w) = m /\ Len(line) = m - 1
    BY <1>4, <2>1
  <2>3. \A i \in 1..m : i \in 1..Len(line) \/ i = Len(line) + 1
    BY <2>2
  <2> QED
    BY <1>2, <1>3, <2>1, <2>2, <2>3
<1>6. PICK t : t = rows[row]
  OBVIOUS
<1>7. PICK y \in Seq(Chars) : y = w \o r /\ Len(y) = m + Len(r) /\ \A i \in 1..m : y[i] = w[i]
  <2>1. /\ w \o r \in Seq(Chars) /\ Len(w \o r) = Len(w) + Len(r)
        /\ \A i \in 1..Len(w) + Len(r) : (w \o r)[i] = IF i <= Len(w) THEN w[i] ELSE r[i - Len(w)]
    BY ConcatProperties
  <2>2. Len(r) \in Nat
    OBVIOUS
  <2>3. \A i \in 1..m : i \in 1..Len(w) + Len(r) /\ i <= Len(w)
    BY <1>5, <2>2
  <2> QED
    BY <1>5, <2>1, <2>3
<1>8. PICK a \in Nat : a = Len(read)
  BY <1>2
<1>9. t \in Seq(Chars) /\ t = read \o y
  BY <1>2, <1>3, <1>6, <1>7, RowFacts
<1>10. /\ Len(t) = a + (m + Len(r)) /\ Len(r) \in Nat
       /\ \A i \in 1..m : t[a + i] = y[i]
  <2>1. /\ Len(read \o y) = Len(read) + Len(y)
        /\ \A i \in 1..Len(read) + Len(y) :
             (read \o y)[i] = IF i <= Len(read) THEN read[i] ELSE y[i - Len(read)]
    BY <1>2, ConcatProperties
  <2>2. Len(r) \in Nat
    OBVIOUS
  <2>3. ASSUME NEW i \in 1..m PROVE t[a + i] = y[i]
    <3>1. a + i \in 1..Len(read) + Len(y) /\ ~(a + i <= Len(read)) /\ (a + i) - Len(read) = i
      BY <1>7, <1>8, <2>2
    <3> QED
      BY <1>9, <2>1, <3>1
  <2> QED
    BY <1>7, <1>8, <1>9, <2>1, <2>2, <2>3
<1>11. a + m <= Len(t) /\ \A i \in 1..m : t[a + i] # NL
  BY <1>5, <1>7, <1>10
<1>12. PICK k \in DOMAIN LinesOf(t) : Len(LinesOf(t)[k]) \in Nat /\ Len(LinesOf(t)[k]) >= m
  BY <1>9, <1>11, LineHolds
<1>13. Len(LinesOf(t)[k]) < m
  BY <1>4, <1>6 DEF LinesFit
<1> QED
  BY <1>12, <1>13

LEMMA BufferFullAccounts ==
  ASSUME AccountInv, Accounted, BufferFull, UNCHANGED pageVars, row \in 1..Len(rows),
         partial => LinesFit
  PROVE  Accounted'
<1>1. ~partial
  BY NeverFull DEF BufferFull
<1>2. /\ Chars' = Chars /\ pc = "getline" /\ pc' = "parse" /\ line' = << >> /\ inPipe' = inPipe
      /\ text' = text /\ parsed' = parsed /\ partial' = partial /\ rows'[row'] = rows[row]
      /\ sentence' = line
  BY <1>1 DEF BufferFull, pageVars, Chars
<1>3. /\ line \in Seq(Chars) /\ inPipe \in Seq(Chars) /\ text \in Seq(Chars)
      /\ sentence \in Seq(Chars) /\ parsed \in Seq(Seq(Chars)) /\ sentence = << >>
  BY <1>1, <1>2 DEF Accounted
<1>4. PICK read : Read(read)
  BY DEF Accounted
<1>5. PICK a : a = line
  OBVIOUS
<1>6. a \in MaybeEnded(line) /\ NL \in Chars
  BY <1>5, RowFacts DEF MaybeEnded
<1>7. /\ sentence \o a \in Seq(Chars) /\ read \o a \in Seq(Chars) /\ a \in Seq(Chars)
      /\ WithoutNL(read \o a) = WithoutNL(FlattenSeq(parsed) \o (sentence \o a))
  BY <1>2, <1>3, <1>4, <1>6, LineRead
<1>8. sentence' = sentence \o a
  <2>1. << >> \o line = line
    BY <1>3, ConcatEmptySeq
  <2> QED
    BY <1>2, <1>3, <1>5, <2>1
<1>9. PICK next, w : next = read \o a /\ w = inPipe \o text /\ w \in Seq(Chars)
  <2>1. inPipe \o text \in Seq(Chars)
    BY <1>3, ConcatProperties
  <2> QED
    BY <2>1
<1>10. rows[row] = next \o (<< >> \o (inPipe \o text))
  <2>1. rows[row] = read \o (a \o w) /\ read \in Seq(Chars)
    BY <1>4, <1>5, <1>9 DEF Read
  <2>2. PICK x \in Seq(Chars), y \in Seq(Chars), z \in Seq(Chars) : x = read /\ y = a /\ z = w
    BY <1>7, <2>1, <1>9
  <2>3. x \o (y \o z) = (x \o y) \o (<< >> \o z)
    BY ReadBehind
  <2> QED
    BY <1>9, <2>1, <2>2, <2>3
<1>11. Read(next)'
  BY <1>2, <1>7, <1>8, <1>9, <1>10 DEF Read, Held
<1>12. << >> \in Seq(Chars) /\ \A i \in 1..Len(<< >>) : << >>[i] # NL
  OBVIOUS
<1> QED
  BY <1>2, <1>3, <1>7, <1>8, <1>11, <1>12 DEF Accounted

LEMMA ReadEofAccounts ==
  ASSUME AccountInv, Accounted, ReadEof, UNCHANGED pageVars, row \in 1..Len(rows),
         pagePc \in {"write", "read"}
  PROVE  Accounted'
<1>1. /\ Chars' = Chars /\ pc = "getline" /\ line' = << >> /\ inPipe = << >> /\ inPipe' = << >>
      /\ pagePc = "read" /\ pagePc' = "read" /\ text = << >> /\ text' = << >>
      /\ parsed' = parsed /\ partial' = partial /\ rows'[row'] = rows[row]
      /\ pc' = IF sentence' = << >> THEN "exited" ELSE "parse"
      /\ sentence' = IF line = << >> THEN sentence
                     ELSE IF partial THEN sentence \o Append(line, NL) ELSE line
  BY DEF ReadEof, pageVars, Chars, AccountInv
<1>2. /\ line \in Seq(Chars) /\ sentence \in Seq(Chars) /\ parsed \in Seq(Seq(Chars))
      /\ ~partial => sentence = << >>
  BY <1>1 DEF Accounted
<1>3. PICK read : Read(read)
  BY DEF Accounted
<1>4. PICK b : b = IF line = << >> THEN << >> ELSE IF partial THEN Append(line, NL) ELSE line
  OBVIOUS
<1>5. line \in MaybeEnded(line) /\ b \in MaybeEnded(line) /\ NL \in Chars
  BY <1>4, RowFacts DEF MaybeEnded
<1>6. /\ sentence \o b \in Seq(Chars) /\ read \o line \in Seq(Chars)
      /\ WithoutNL(read \o line) = WithoutNL(FlattenSeq(parsed) \o (sentence \o b))
  BY <1>1, <1>2, <1>3, <1>5, LineRead
<1>7. sentence' = sentence \o b
  <2>1. << >> \o line = line /\ sentence \o << >> = sentence
    BY <1>2, ConcatEmptySeq
  <2> QED
    BY <1>1, <1>2, <1>4, <2>1
<1>8. PICK next : next = read \o line
  OBVIOUS
<1>9. rows[row] = next \o (<< >> \o (<< >> \o << >>))
  <2>1. /\ rows[row] = read \o (line \o (<< >> \o << >>)) /\ read \in Seq(Chars)
    BY <1>1, <1>3 DEF Read
  <2>2. << >> \o << >> = << >>
    OBVIOUS
  <2>3. line \o << >> = line /\ (read \o line) \o << >> = read \o line
    BY <1>2, <1>6, <2>1, ConcatEmptySeq
  <2> QED
    BY <1>8, <2>1, <2>2, <2>3
<1>10. Read(next)'
  <2>1. pc' # "write"
    BY <1>1
  <2> QED
    BY <1>1, <1>6, <1>7, <1>8, <1>9, <2>1 DEF Read, Held
<1>11. << >> \in Seq(Chars) /\ \A i \in 1..Len(<< >>) : << >>[i] # NL
  OBVIOUS
<1> QED
  BY <1>1, <1>2, <1>6, <1>7, <1>10, <1>11 DEF Accounted

LEMMA AnalysingAccounts ==
  ASSUME AccountInv, Accounted, Parse \/ Write \/ (Written /\ pc' # "failed"),
         UNCHANGED pageVars, row \in 1..Len(rows)
  PROVE  Accounted'
<1>1. /\ Chars' = Chars /\ line' = line /\ inPipe' = inPipe /\ text' = text
      /\ partial' = partial /\ rows'[row'] = rows[row] /\ pagePc' = pagePc
  BY DEF Parse, Write, Written, pageVars, Chars
<1>2. /\ line \in Seq(Chars) /\ inPipe \in Seq(Chars) /\ text \in Seq(Chars)
      /\ sentence \in Seq(Chars) /\ parsed \in Seq(Seq(Chars))
      /\ \A i \in 1..Len(line) : line[i] # NL
      /\ pc \in {"parse", "write"} => line = << >>
  BY DEF Accounted
<1>3. PICK read : Read(read)
  BY DEF Accounted
<1>4. CASE Parse
  <2>1. pc = "parse" /\ pc' = "write" /\ parsed' = Append(parsed, sentence) /\ sentence' = sentence
    BY <1>4 DEF Parse
  <2>2. PICK p \in Seq(Seq(Chars)), q \in Seq(Chars) : p = parsed /\ q = sentence
    BY <1>2
  <2>3. Append(p, q) \in Seq(Seq(Chars)) /\ FlattenSeq(Append(p, q)) = FlattenSeq(p) \o q
        /\ FlattenSeq(p) \o q \in Seq(Chars)
    <3>1. FlattenSeq(Append(p, q)) = FlattenSeq(p) \o q /\ FlattenSeq(p) \in Seq(Chars)
      BY FlattenAppended
    <3> QED
      BY <3>1, ConcatProperties
  <2>4. (FlattenSeq(p) \o q) \o << >> = FlattenSeq(p) \o q
    BY <2>3, ConcatEmptySeq
  <2>5. Read(read)'
    BY <1>1, <1>3, <2>1, <2>2, <2>3, <2>4 DEF Read, Held
  <2> QED
    BY <1>1, <1>2, <2>1, <2>2, <2>3, <2>5 DEF Accounted
<1>5. CASE Write
  <2>1. pc = "write" /\ pc' = pc /\ parsed' = parsed /\ sentence' = sentence
    BY <1>5 DEF Write
  <2>2. Read(read)'
    BY <1>1, <1>3, <2>1 DEF Read, Held
  <2> QED
    BY <1>1, <1>2, <2>1, <2>2 DEF Accounted
<1>6. CASE Written /\ pc' # "failed"
  <2>1. pc = "write" /\ pc' = "getline" /\ parsed' = parsed /\ sentence' = << >>
    BY <1>6 DEF Written
  <2>2. Read(read)'
    BY <1>1, <1>3, <2>1 DEF Read, Held
  <2>3. << >> \in Seq(Chars)
    OBVIOUS
  <2> QED
    BY <1>1, <1>2, <2>1, <2>2, <2>3 DEF Accounted
<1> QED
  BY <1>4, <1>5, <1>6

-----------------------------------------------------------------------------
(* The page *)

LEMMA ProcOpenAccounts ==
  ASSUME AccountInv, ProcOpen
  PROVE  AccountInv'
<1>1. /\ rows' = rows /\ row' = row /\ partial' = partial /\ pc' = "getline" /\ pagePc' = "write"
      /\ inOpen' = TRUE /\ text' = rows[row] /\ inPipe' = << >> /\ line' = << >>
      /\ sentence' = << >> /\ parsed' = << >> /\ row <= Len(rows) /\ Chars' = Chars
  BY DEF ProcOpen, StartProcess, Chars
<1>2. row \in 1..Len(rows)
  <2>1. Len(rows) \in Nat /\ row \in Nat \ {0}
    BY PageAssumption DEF AccountInv
  <2> QED
    BY <1>1, <2>1
<1>3. PICK t \in Seq(Chars) : t = rows[row]
  BY <1>2, RowFacts
<1>4. << >> \in Seq(Chars) /\ << >> \in Seq(Seq(Chars)) /\ \A i \in 1..Len(<< >>) : << >>[i] # NL
  OBVIOUS
<1>5. << >> \o (<< >> \o (<< >> \o t)) = t
  BY ConcatEmptySeq
<1>6. FlattenSeq(<< >>) \o << >> = << >>
  <2>1. Len(<< >>) = 0
    OBVIOUS
  <2>2. FlattenSeq(<< >>) = << >>
    BY <2>1 DEF FlattenSeq
  <2>3. << >> \o << >> = << >>
    OBVIOUS
  <2> QED
    BY <2>2, <2>3
<1>7. Read(<< >>)'
  BY <1>1, <1>3, <1>4, <1>5, <1>6 DEF Read, Held
<1>8. Accounted'
  BY <1>1, <1>3, <1>4, <1>7 DEF Accounted
<1> QED
  BY <1>1, <1>2, <1>8 DEF AccountInv

LEMMA FWriteAccounts ==
  ASSUME AccountInv, Accounted, FWrite, row \in 1..Len(rows)
  PROVE  Accounted'
<1>1. /\ Chars' = Chars /\ pc' = pc /\ text # << >> /\ pagePc' = pagePc
      /\ inPipe' = Append(inPipe, Head(text)) /\ text' = Tail(text) /\ line' = line
      /\ sentence' = sentence /\ parsed' = parsed /\ partial' = partial /\ rows'[row'] = rows[row]
      /\ pc # "exited"
  BY DEF FWrite, Chars, Running
<1>2. /\ line \in Seq(Chars) /\ inPipe \in Seq(Chars) /\ text \in Seq(Chars)
      /\ sentence \in Seq(Chars) /\ parsed \in Seq(Seq(Chars))
  BY DEF Accounted
<1>3. PICK read : Read(read)
  BY DEF Accounted
<1>4. PICK l \in Seq(Chars), q \in Seq(Chars) : l = inPipe /\ q = text /\ q # << >>
  BY <1>1, <1>2
<1>5. Append(l, Head(q)) \in Seq(Chars) /\ Tail(q) \in Seq(Chars)
      /\ Append(l, Head(q)) \o Tail(q) = l \o q
  BY <1>2, <1>4, PassedOn, SMTT(30)
<1>6. inPipe' \in Seq(Chars) /\ text' \in Seq(Chars) /\ inPipe' \o text' = inPipe \o text
  BY <1>1, <1>4, <1>5
<1>7. Read(read)'
  BY <1>1, <1>3, <1>6 DEF Read, Held
<1> QED
  BY <1>1, <1>2, <1>6, <1>7 DEF Accounted

LEMMA PageAccounts ==
  ASSUME AccountInv, PageStep
  PROVE  AccountInv'
<1>1. CASE ProcOpen
  BY <1>1, ProcOpenAccounts
<1>2. CASE FWrite
  <2>1. /\ pagePc = "write" /\ pagePc' = pagePc /\ rows' = rows /\ row' = row /\ pc' = pc
        /\ partial' = partial /\ inOpen' = inOpen /\ LinesFit' = LinesFit
    BY <1>2 DEF FWrite, LinesFit
  <2>2. ASSUME pc # "failed", partial => LinesFit PROVE Accounted'
    <3>1. Accounted /\ row \in 1..Len(rows)
      BY <2>1, <2>2 DEF AccountInv
    <3> QED
      BY <1>2, <3>1, FWriteAccounts
  <2> QED
    BY <2>1, <2>2 DEF AccountInv
<1>3. CASE FWriteFails
  <2>1. /\ pagePc = "write" /\ pagePc' = pagePc /\ rows' = rows /\ row' = row /\ pc' = pc
        /\ partial' = partial /\ inOpen' = inOpen /\ LinesFit' = LinesFit
        /\ pc \notin {"getline", "parse", "write"}
    BY <1>3 DEF FWriteFails, LinesFit, processVars, Running
  <2>2. ASSUME pc # "failed", partial => LinesFit PROVE FALSE
    <3>1. Accounted /\ pc = "exited"
      BY <2>1, <2>2 DEF AccountInv
    <3> QED
      BY <2>1, <3>1 DEF Accounted
  <2> QED
    BY <2>1, <2>2 DEF AccountInv
<1>4. CASE FClose
  <2>1. /\ pagePc = "write" /\ pagePc' = "read" /\ rows' = rows /\ row' = row /\ pc' = pc
        /\ partial' = partial /\ inOpen' = FALSE /\ text = << >> /\ text' = << >>
        /\ inPipe' = inPipe /\ line' = line /\ sentence' = sentence /\ parsed' = parsed
        /\ Chars' = Chars
    BY <1>4 DEF FClose, Chars
  <2>2. ASSUME pc # "failed", partial => LinesFit PROVE Accounted'
    <3>1. Accounted
      BY <2>1, <2>2 DEF AccountInv
    <3>2. PICK read : Read(read)
      BY <3>1 DEF Accounted
    <3>3. Read(read)'
      BY <2>1, <3>2 DEF Read, Held
    <3> QED
      BY <2>1, <3>1, <3>3 DEF Accounted
  <2>3. LinesFit' = LinesFit
    BY <2>1 DEF LinesFit
  <2> QED
    BY <2>1, <2>2, <2>3 DEF AccountInv
<1>5. CASE FGets
  <2>1. /\ pagePc = "read" /\ pagePc' = pagePc /\ rows' = rows /\ row' = row /\ pc' = pc
        /\ partial' = partial /\ inOpen' = inOpen /\ text' = text
        /\ inPipe' = inPipe /\ line' = line /\ sentence' = sentence /\ parsed' = parsed
        /\ Chars' = Chars
    BY <1>5 DEF FGets, Chars
  <2>2. ASSUME pc # "failed", partial => LinesFit PROVE Accounted'
    <3>1. Accounted
      BY <2>1, <2>2 DEF AccountInv
    <3>2. PICK read : Read(read)
      BY <3>1 DEF Accounted
    <3>3. Read(read)'
      BY <2>1, <3>2 DEF Read, Held
    <3> QED
      BY <2>1, <3>1, <3>3 DEF Accounted
  <2>3. LinesFit' = LinesFit
    BY <2>1 DEF LinesFit
  <2> QED
    BY <2>1, <2>2, <2>3 DEF AccountInv
<1>6. CASE FGetsAtEof \/ Exec \/ CountLine \/ WriteTable
  <2>1. /\ pagePc' \in {"row", "count", "done"} /\ rows' = rows /\ row' \in Nat \ {0}
        /\ pc' = pc /\ partial' = partial
    BY <1>6 DEF AccountInv, FGetsAtEof, Exec, CountLine, WriteTable, processVars
  <2> QED
    BY <2>1 DEF AccountInv
<1> QED
  BY <1>1, <1>2, <1>3, <1>4, <1>5, <1>6 DEF PageStep

-----------------------------------------------------------------------------
LEMMA AccountInvStep ==
  AccountInv /\ [Next]_vars => AccountInv'
<1> SUFFICES ASSUME AccountInv, [Next]_vars PROVE AccountInv'
  OBVIOUS
<1>1. CASE PageStep
  BY <1>1, PageAccounts
<1>2. CASE Mecab
  <2>1. /\ pagePc' = pagePc /\ rows' = rows /\ row' = row /\ text' = text /\ UNCHANGED pageVars
        /\ LinesFit' = LinesFit
    BY <1>2 DEF Mecab, pageVars, LinesFit
  <2>2. /\ inOpen' = inOpen /\ partial' = partial
        /\ pc' \in {"getline", "parse", "write", "exited", "failed"} /\ pc # "failed"
    BY <1>2 DEF Mecab, ProcessStep, ReadChar, ReadNewline, AfterLine, BufferFull, ReadEof,
                Parse, Write, Written
  <2>3. ASSUME pagePc \in {"write", "read"}, pc' # "failed", partial => LinesFit
        PROVE  Accounted'
    <3>1. Accounted /\ row \in 1..Len(rows)
      BY <2>2, <2>3 DEF AccountInv
    <3>2. CASE ReadChar
      BY <2>1, <3>1, <3>2, ReadCharAccounts
    <3>3. CASE ReadNewline
      BY <2>1, <3>1, <3>3, ReadNewlineAccounts
    <3>4. CASE BufferFull
      BY <2>1, <2>3, <3>1, <3>4, BufferFullAccounts
    <3>5. CASE ReadEof
      BY <2>1, <2>3, <3>1, <3>5, ReadEofAccounts
    <3>6. CASE Parse \/ Write \/ Written
      BY <2>1, <2>3, <3>1, <3>6, AnalysingAccounts
    <3> QED
      BY <1>2, <3>2, <3>3, <3>4, <3>5, <3>6 DEF Mecab, ProcessStep
  <2> QED
    BY <2>1, <2>2, <2>3 DEF AccountInv
<1>3. CASE UNCHANGED vars
  <2>1. /\ rows' = rows /\ row' = row /\ partial' = partial /\ pc' = pc /\ pagePc' = pagePc
        /\ inOpen' = inOpen /\ text' = text /\ inPipe' = inPipe /\ line' = line
        /\ sentence' = sentence /\ parsed' = parsed /\ Chars' = Chars
    BY <1>3 DEF vars, processVars, pageVars, Chars
  <2>2. LinesFit' = LinesFit
    BY <2>1 DEF LinesFit
  <2>3. ASSUME Accounted PROVE Accounted'
    <3>1. PICK read : Read(read)
      BY <2>3 DEF Accounted
    <3>2. Read(read)'
      BY <2>1, <3>1 DEF Read, Held
    <3> QED
      BY <2>1, <2>3, <3>2 DEF Accounted
  <2> QED
    BY <2>1, <2>2, <2>3 DEF AccountInv
<1> QED
  BY <1>1, <1>2, <1>3 DEF Next

LEMMA AccountInvGivesNothingLost ==
  AccountInv => NothingLost
<1> SUFFICES ASSUME AccountInv, pc = "exited", pagePc = "read", partial => LinesFit
             PROVE  WithoutNL(FlattenSeq(parsed)) = WithoutNL(rows[row])
  BY DEF NothingLost, LinesFit
<1>1. Accounted /\ text = << >>
  BY DEF AccountInv
<1>2. inPipe = << >> /\ line = << >> /\ sentence = << >> /\ parsed \in Seq(Seq(Chars))
  BY <1>1 DEF Accounted
<1>3. PICK read : Read(read)
  BY <1>1 DEF Accounted
<1>4. /\ read \in Seq(Chars) /\ rows[row] = read \o (<< >> \o (<< >> \o << >>))
      /\ WithoutNL(read) = WithoutNL(FlattenSeq(parsed) \o << >>)
  BY <1>1, <1>2, <1>3 DEF Read, Held
<1>5. << >> \o (<< >> \o << >>) = << >> /\ read \o << >> = read
  BY <1>4, ConcatEmptySeq
<1>6. PICK d \in Seq(Chars) : d = FlattenSeq(parsed)
  BY <1>2, FlattenAppended
<1>7. d \o << >> = d
  BY ConcatEmptySeq
<1> QED
  BY <1>4, <1>5, <1>6, <1>7

(***************************************************************************)
(* At every moment the text of the row is what mecab has read of it, the   *)
(* line being read, what is in the pipe and what the page has still to     *)
(* write; and mecab has analysed what it has read, but for what it holds.  *)
(***************************************************************************)
THEOREM TextIsAccounted ==
  Spec => []AccountInv
<1>1. Init => AccountInv
  <2> SUFFICES ASSUME Init PROVE AccountInv
    OBVIOUS
  <2>1. partial \in BOOLEAN
    BY PageAssumption DEF Init
  <2> QED
    BY <2>1 DEF Init, AccountInv
<1> QED
  BY <1>1, AccountInvStep, PTL DEF Spec

(***************************************************************************)
(* When mecab has ended normally, it has analysed the whole text of the    *)
(* row in order, whatever the sizes of the pipes and buffers, whether the  *)
(* lines fit or not; in partial mode if they fit.                          *)
(***************************************************************************)
THEOREM NothingIsLost ==
  Spec => []NothingLost
BY TextIsAccounted, AccountInvGivesNothingLost, PTL
=============================================================================
