------------------------- MODULE LatticeMemoryProofs -------------------------
(***************************************************************************)
(* Theorems about a lattice in a caller's hands, for any texts, results    *)
(* and sizes of chunks.  The first part is about which sentence its parts  *)
(* belong to: whatever call comes next, constraints have the length of the *)
(* sentence that is set, and what was analysed is that sentence.           *)
(*                                                                         *)
(* The second part is what alloc() of a ChunkFreeList promises: since the  *)
(* list was started over, no byte is handed out twice, and each is in a    *)
(* chunk.  The list only moves forward, to chunk and place in that order,  *)
(* so what was handed out lies before where it is (Taken), and what is     *)
(* handed out next does not.                                               *)
(*                                                                         *)
(* The third part is about the strings that stay in use when the list is   *)
(* started over.  set_result() without a copy leaves the sentence in       *)
(* memory that the features are allocated from; the result they were cut   *)
(* from was there before it and was longer than they are (RoomBefore), so  *)
(* each goes where the result was, or before (Below).                      *)
(***************************************************************************)
EXTENDS LatticeMemory, InductionLemmas, SequenceTheorems, TLAPS

-----------------------------------------------------------------------------
(* set_sentence() sets the sentence in a lattice that it has cleared. *)
LEMMA SetSentenceFacts ==
  ASSUME NEW l \in Lattices, NEW pointer \in Sentences, NEW text \in Texts
  PROVE  LET s == SetSentence(l, pointer, text) IN
         /\ s \in Lattices /\ s.size = Size[text]
         /\ s.requestType = l.requestType
         /\ s.sentence = IF l.requestType \cap AllowAllocate # {}
                         THEN InFreeList(text) ELSE pointer
         /\ s.boundary = 0 /\ s.features = 0 /\ s.parsed = NoText
<1> DEFINE c == Clear(l)
           p == IF l.requestType \cap AllowAllocate # {} THEN InFreeList(text) ELSE pointer
           s == [c EXCEPT !.sentence = p, !.size = Size[text]]
<1>1. /\ c \in Lattices /\ c.requestType = l.requestType
      /\ c.boundary = 0 /\ c.features = 0 /\ c.parsed = NoText
  BY DEF Lattices, Clear, Sentences, Thetas
<1>2. Size[text] \in Nat /\ p \in Sentences
  BY LatticeAssumption DEF Sentences
<1>3. SetSentence(l, pointer, text) = s
  BY DEF SetSentence
<1> HIDE DEF c, p
<1>4. /\ s \in Lattices /\ s.requestType = l.requestType /\ s.size = Size[text]
      /\ s.sentence = p /\ s.boundary = 0 /\ s.features = 0 /\ s.parsed = NoText
  BY <1>1, <1>2 DEF Lattices
<1> QED
  BY <1>3, <1>4 DEF p

(* A constraint concerns the sentence that is set, and leaves it there. *)
LEMMA ConstraintFacts ==
  ASSUME NEW l \in Lattices, Fits(l),
         NEW k \in {SetBoundary(l), SetFeature(l)}
  PROVE  /\ k \in Lattices /\ Fits(k)
         /\ k.sentence = l.sentence /\ k.size = l.size /\ k.parsed = l.parsed
<1> DEFINE b == [l EXCEPT !.boundary = l.size + 4]
<1>1. l.size + 4 \in Nat /\ l.size + 4 # 0
  BY DEF Lattices
<1>2. SetBoundary(l) = b
  BY <1>1 DEF SetBoundary, Fits
<1>3. /\ b \in Lattices /\ b.boundary = l.size + 4 /\ b.features = l.features
      /\ b.sentence = l.sentence /\ b.size = l.size /\ b.parsed = l.parsed
  BY <1>1 DEF Lattices
<1>4. CASE k = SetBoundary(l)
  BY <1>1, <1>2, <1>3, <1>4 DEF Fits
<1>5. CASE k = SetFeature(l)
  <2> HIDE DEF b
  <2>1. k = [b EXCEPT !.features = l.size + 4]
    BY <1>1, <1>2, <1>3, <1>5 DEF SetFeature, Fits
  <2>2. /\ k \in Lattices /\ k.features = l.size + 4 /\ k.boundary = b.boundary
        /\ k.sentence = b.sentence /\ k.size = b.size /\ k.parsed = b.parsed
    BY <1>1, <1>3, <2>1 DEF Lattices
  <2> QED
    BY <1>1, <1>3, <2>2 DEF Fits
<1> QED
  BY <1>4, <1>5

(* initPartial() keeps the sentence, or makes one of the partial format. *)
LEMMA InitPartialFacts ==
  ASSUME NEW l \in Lattices, Fits(l), NEW text \in Texts
  PROVE  LET p == InitPartial(l, text)
             partial == "PARTIAL" \in l.requestType
         IN
         /\ p \in Lattices /\ Fits(p)
         /\ p.parsed = IF partial THEN NoText ELSE l.parsed
         /\ p.size = IF partial THEN Size[Partial[text]] ELSE l.size
         /\ p.sentence = IF partial THEN InFreeList(Partial[text]) ELSE l.sentence
<1>1. CASE "PARTIAL" \notin l.requestType
  <2>1. InitPartial(l, text) \in {l, SetBoundary(l)}
    BY <1>1 DEF InitPartial
  <2> QED
    BY <1>1, <2>1, ConstraintFacts
<1>2. CASE "PARTIAL" \in l.requestType
  <2> DEFINE s == SetSentence(l, InLocal(Partial[text]), Partial[text])
  <2>1. Partial[text] \in Texts /\ InLocal(Partial[text]) \in Sentences
    BY LatticeAssumption DEF Sentences
  <2>2. /\ s \in Lattices /\ s.sentence = InFreeList(Partial[text])
        /\ s.size = Size[Partial[text]] /\ s.boundary = 0 /\ s.features = 0 /\ s.parsed = NoText
    BY <1>2, <2>1, SetSentenceFacts DEF AllowAllocate
  <2>3. InitPartial(l, text) \in {SetBoundary(s), SetFeature(s)}
    BY <1>2 DEF InitPartial
  <2> HIDE DEF s
  <2> QED
    BY <1>2, <2>2, <2>3, ConstraintFacts DEF Fits
<1> QED
  BY <1>1, <1>2

-----------------------------------------------------------------------------
(* The size is that of the sentence, and so is the analysis. *)
Sized(l, b) ==
  l.sentence # NoSentence => Read(l, b) \in Texts /\ l.size = Size[Read(l, b)]
Parsed(l) ==
  l.parsed # NoText =>
    /\ l.sentence # NoSentence
    /\ l.size = Size[l.parsed]
    /\ l.sentence # InCaller => l.sentence.text = l.parsed

Good(l, b) == l \in Lattices /\ Fits(l) /\ Sized(l, b) /\ Parsed(l)

SessionInvariant == buffer \in Texts /\ Good(lattice, buffer)

(* set_sentence() with memory that holds the text. *)
LEMMA SetSentenceGood ==
  ASSUME NEW l \in Lattices, NEW pointer \in Sentences \ {NoSentence}, NEW b \in Texts,
         NEW text \in Texts, text = IF pointer = InCaller THEN b ELSE pointer.text
  PROVE  LET s == SetSentence(l, pointer, text) IN
         Good(s, b) /\ s.parsed = NoText /\ s.sentence # NoSentence
           /\ (s.sentence = InCaller \/ s.sentence.text = text)
           /\ s.size = Size[text]
<1> DEFINE s == SetSentence(l, pointer, text)
<1>1. /\ s \in Lattices /\ s.size = Size[text]
      /\ s.sentence \in {InFreeList(text), pointer}
      /\ s.boundary = 0 /\ s.features = 0 /\ s.parsed = NoText
  BY SetSentenceFacts
<1>2. InFreeList(text) # InCaller /\ InFreeList(text) # NoSentence
      /\ InFreeList(text).text = text
  BY DEF InFreeList, InCaller, NoSentence
<1> SUFFICES Good(s, b) /\ s.parsed = NoText /\ s.sentence # NoSentence
             /\ (s.sentence = InCaller \/ s.sentence.text = text) /\ s.size = Size[text]
  OBVIOUS
<1> HIDE DEF s
<1>3. Read(s, b) = text /\ s.sentence # NoSentence
  BY <1>1, <1>2 DEF Read
<1> QED
  BY <1>1, <1>2, <1>3 DEF Good, Fits, Sized, Parsed

(* A lattice that was changed elsewhere only. *)
LEMMA SameSentence ==
  ASSUME NEW l, NEW b, Good(l, b), NEW k \in Lattices,
         k.sentence = l.sentence, k.size = l.size, k.parsed = l.parsed, Fits(k)
  PROVE  Good(k, b)
BY DEF Good, Sized, Parsed, Read

(* A parse of a sentence that is set, in partial mode or not. *)
LEMMA AnalyzeGood ==
  ASSUME NEW l, NEW b \in Texts, Good(l, b)
  PROVE  Good(Analyze(l, b), b)
<1> DEFINE text == Read(l, b)
           p == InitPartial(l, text)
           a == [p EXCEPT !.layers = @ + 1]
           partial == "PARTIAL" \in l.requestType
<1>1. CASE l.sentence = NoSentence
  BY <1>1 DEF Analyze
<1>2. CASE l.sentence # NoSentence
  <2>1. text \in Texts /\ l.size = Size[text] /\ l \in Lattices /\ Fits(l) /\ Parsed(l)
    BY <1>2 DEF Good, Sized
  <2>2. Partial[text] \in Texts
    BY <2>1, LatticeAssumption
  <2>3. /\ p \in Lattices /\ Fits(p) /\ p.parsed = IF partial THEN NoText ELSE l.parsed
        /\ p.size = IF partial THEN Size[Partial[text]] ELSE l.size
        /\ p.sentence = IF partial THEN InFreeList(Partial[text]) ELSE l.sentence
    BY <2>1, InitPartialFacts
  <2>4. Text(l, b) = Read(p, b)
    BY DEF Text
  <2> HIDE DEF p
  <2>5. p.sentence # NoSentence
    BY <1>2, <2>3 DEF InFreeList, NoSentence
  <2>6. /\ Read(p, b) = IF partial THEN Partial[text] ELSE text
        /\ p.sentence # InCaller => p.sentence.text = Read(p, b)
    BY <2>3 DEF InFreeList, InCaller, Read
  <2>7. Sized(p, b)
    BY <2>1, <2>2, <2>3, <2>6 DEF Sized
  <2>8. Parsed(p)
    BY <2>1, <2>3 DEF Parsed
  <2>9. /\ a \in Lattices /\ Fits(a) /\ a.sentence = p.sentence
        /\ a.size = p.size /\ a.parsed = p.parsed
    BY <2>3 DEF Lattices, Fits
  <2>10. Good(a, b)
    <3> HIDE DEF a
    <3> QED
      BY <2>3, <2>7, <2>8, <2>9, SameSentence DEF Good
  <2>11. Analyze(l, b) = IF ~CanAnalyze(l, b) THEN a
           ELSE StartNBest([a EXCEPT !.parsed = Read(p, b),
             !.thetaUsed = IF "MARGINAL_PROB" \in a.requestType THEN a.theta ELSE @])
    BY <1>2, <2>4 DEF Analyze, p
  <2>12. CASE ~CanAnalyze(l, b)
    BY <2>10, <2>11, <2>12
  <2>13. CASE CanAnalyze(l, b)
    <3> DEFINE used == IF "MARGINAL_PROB" \in a.requestType THEN a.theta ELSE a.thetaUsed
               d == [a EXCEPT !.parsed = Read(p, b), !.thetaUsed = used]
               n == [d EXCEPT !.agenda = [live |-> TRUE, left |-> NPaths]]
    <3> HIDE DEF a
    <3>1. used \in Thetas \cup {"none"} /\ Read(p, b) \in Texts
      BY <2>1, <2>2, <2>6, <2>9 DEF Lattices
    <3>2. Analyze(l, b) = StartNBest(d)
      BY <2>11, <2>13
    <3> HIDE DEF used
    <3>3. /\ d \in Lattices /\ d.parsed = Read(p, b) /\ d.sentence = p.sentence
          /\ d.size = p.size /\ d.boundary = a.boundary /\ d.features = a.features
          /\ d.size = a.size
      BY <2>9, <3>1 DEF Lattices
    <3> HIDE DEF d
    <3>4. Good(d, b)
      <4>1. Fits(d)
        BY <2>9, <3>3 DEF Fits
      <4>2. Sized(d, b) /\ Parsed(d)
        BY <2>5, <2>6, <2>7, <3>3 DEF Sized, Parsed, Read
      <4> QED
        BY <3>3, <4>1, <4>2 DEF Good
    <3>5. Good(n, b)
      <4>1. [live |-> TRUE, left |-> NPaths] \in [live : BOOLEAN, left : Nat]
        BY LatticeAssumption
      <4>2. /\ n \in Lattices /\ n.sentence = d.sentence /\ n.size = d.size
            /\ n.parsed = d.parsed /\ Fits(n)
        BY <3>3, <3>4, <4>1 DEF Lattices, Fits, Good
      <4> HIDE DEF n
      <4> QED
        BY <3>4, <4>2, SameSentence
    <3> QED
      BY <3>2, <3>4, <3>5 DEF StartNBest
  <2> QED
    BY <2>12, <2>13
<1> QED
  BY <1>1, <1>2

(* next(), also through enumNBestAsString(), changes the agenda only. *)
LEMMA NextGood ==
  ASSUME NEW l, NEW b, Good(l, b), NEW n \in Nat
  PROVE  Good(NextOf(l, n), b)
<1> DEFINE left == IF l.agenda.left < n THEN 0 ELSE l.agenda.left - n
           k == [l EXCEPT !.agenda = [l.agenda EXCEPT !.left = left]]
<1>1. l \in Lattices /\ Fits(l) /\ l.agenda \in [live : BOOLEAN, left : Nat]
  BY DEF Good, Lattices
<1>2. left \in Nat
  BY <1>1
<1>3. NextOf(l, n) \in {l, k}
  BY DEF NextOf
<1> HIDE DEF left
<1>4. [l.agenda EXCEPT !.left = left] \in [live : BOOLEAN, left : Nat]
  BY <1>1, <1>2
<1>5. /\ k \in Lattices /\ Fits(k)
      /\ k.sentence = l.sentence /\ k.size = l.size /\ k.parsed = l.parsed
  BY <1>1, <1>4 DEF Lattices, Fits
<1> HIDE DEF k
<1> QED
  BY <1>3, <1>5, SameSentence

LEMMA InitSession == Init => SessionInvariant
<1> SUFFICES ASSUME Init PROVE SessionInvariant
  OBVIOUS
<1>1. NewLattice \in Lattices
  BY DEF NewLattice, NoAgenda, Lattices, Sentences, Thetas
<1>2. /\ NewLattice.sentence = NoSentence /\ NewLattice.parsed = NoText
      /\ NewLattice.boundary = 0 /\ NewLattice.features = 0
  BY DEF NewLattice
<1> QED
  BY <1>1, <1>2 DEF Init, SessionInvariant, Good, Fits, Sized, Parsed

LEMMA NextSession == SessionInvariant /\ [Next]_vars => SessionInvariant'
<1> SUFFICES ASSUME SessionInvariant, [Next]_vars PROVE SessionInvariant'
  OBVIOUS
<1>1. buffer \in Texts /\ lattice \in Lattices /\ Fits(lattice) /\ Good(lattice, buffer)
  BY DEF SessionInvariant, Good
<1>2. CASE CallerWrites
  BY <1>2 DEF CallerWrites, SessionInvariant, Good, Sized, Read
<1>3. CASE ClearLattice
  <2> DEFINE c == Clear(lattice)
  <2>1. /\ c \in Lattices /\ c.sentence = NoSentence /\ c.parsed = NoText
        /\ c.boundary = 0 /\ c.features = 0
    BY <1>1 DEF Clear, Lattices, Sentences, Thetas
  <2> HIDE DEF c
  <2>2. Good(c, buffer)
    BY <2>1 DEF Good, Fits, Sized, Parsed
  <2> QED
    BY <1>1, <1>3, <2>2 DEF ClearLattice, SessionInvariant, c
<1>4. CASE SetLatticeSentence
  <2>1. InCaller \in Sentences \ {NoSentence}
    BY DEF Sentences, InCaller, NoSentence
  <2>2. Good(SetSentence(lattice, InCaller, buffer), buffer)
    BY <1>1, <2>1, SetSentenceGood
  <2> QED
    BY <1>1, <1>4, <2>2 DEF SetLatticeSentence, SessionInvariant
<1>5. CASE SetRequestType
  <2>1. PICK type \in SUBSET Flags : lattice' = [lattice EXCEPT !.requestType = type]
    BY <1>1, <1>5, SettableAssumption DEF SetRequestType, Lattices
  <2>2. /\ lattice' \in Lattices /\ Fits(lattice') /\ lattice'.sentence = lattice.sentence
        /\ lattice'.size = lattice.size /\ lattice'.parsed = lattice.parsed
    BY <1>1, <2>1 DEF Lattices, Fits
  <2> QED
    BY <1>1, <1>5, <2>2, SameSentence DEF SetRequestType, SessionInvariant
<1>6. CASE SetTheta
  <2>1. /\ lattice' \in Lattices /\ Fits(lattice') /\ lattice'.sentence = lattice.sentence
        /\ lattice'.size = lattice.size /\ lattice'.parsed = lattice.parsed
    BY <1>1, <1>6 DEF SetTheta, Lattices, Fits, Thetas
  <2> QED
    BY <1>1, <1>6, <2>1, SameSentence DEF SetTheta, SessionInvariant
<1>7. CASE SetConstraint
  BY <1>1, <1>7, ConstraintFacts, SameSentence DEF SetConstraint, SessionInvariant
<1>8. CASE Parse
  BY <1>1, <1>8, AnalyzeGood DEF Parse, SessionInvariant
<1>9. CASE NextResult
  BY <1>1, <1>9, NextGood DEF NextResult, SessionInvariant
<1>10. ASSUME NEW n \in Counts, EnumNBestAsString(n) PROVE SessionInvariant'
  <2>1. lattice' = lattice \/ (n \in Nat /\ lattice' = NextOf(lattice, n))
    BY <1>10 DEF EnumNBestAsString, EnumNBest
  <2> QED
    BY <1>1, <1>10, <2>1, NextGood DEF EnumNBestAsString, SessionInvariant
<1>11. CASE SetGoldenResult
  <2> DEFINE text == Partial[buffer]
             s == SetSentence(lattice, NotLive(text), text)
             r == [s EXCEPT !.layers = 1, !.parsed = text]
  <2>1. text \in Texts
    BY <1>1, LatticeAssumption
  <2>2. /\ NotLive(text) \in Sentences \ {NoSentence} /\ NotLive(text) # InCaller
        /\ NotLive(text).text = text
    BY <2>1 DEF Sentences, NotLive, InCaller, NoSentence
  <2>3. /\ Good(s, buffer) /\ s.sentence # NoSentence /\ s.size = Size[text]
        /\ s.sentence = InCaller \/ s.sentence.text = text
    BY <1>1, <2>1, <2>2, SetSentenceGood
  <2> HIDE DEF s, text
  <2>4. /\ r \in Lattices /\ Fits(r) /\ r.sentence = s.sentence /\ r.size = s.size
        /\ r.parsed = text
    BY <2>1, <2>3 DEF Good, Lattices, Fits
  <2>5. lattice' = r
    BY <1>11 DEF SetGoldenResult, SetResult, s, text
  <2> HIDE DEF r
  <2>6. Good(r, buffer)
    BY <2>3, <2>4 DEF Good, Sized, Parsed, Read
  <2> QED
    BY <1>1, <1>11, <2>5, <2>6 DEF SetGoldenResult, SessionInvariant
<1>12. CASE UNCHANGED vars
  BY <1>12 DEF vars, SessionInvariant
<1> QED
  BY <1>2, <1>3, <1>4, <1>5, <1>6, <1>7, <1>8, <1>9, <1>10, <1>11, <1>12 DEF Next

(* The copies of strings do not change what a call does to the lattice. *)
LEMMA SessionStep == [MemoryNext]_memoryVars => [Next]_vars
  BY DEF MemoryNext, memoryVars, Next, WithoutStrings, ClearStrings, SentenceStrings,
         ParseStrings, ResultStrings

LEMMA SessionSteps == MemorySpec => Spec
<1>1. MemoryInit => Init
  BY DEF MemoryInit
<1> QED
  BY <1>1, SessionStep, PTL DEF MemorySpec, Spec

LEMMA SessionInvariance == MemorySpec => []SessionInvariant
BY InitSession, NextSession, SessionSteps, PTL DEF Spec

(***************************************************************************)
(* Whatever calls a lattice gets, with whatever texts, its constraint      *)
(* vectors have the length its sentence asks for, and features are         *)
(* constrained only together with boundaries.                              *)
(***************************************************************************)
THEOREM ConstraintsStayFitting == MemorySpec => []ConstraintsFit
<1>1. SessionInvariant => ConstraintsFit
  BY DEF SessionInvariant, Good, Fits, ConstraintsFit
<1> QED
  BY <1>1, SessionInvariance, PTL

(***************************************************************************)
(* The nodes of a lattice are never of another text than its sentence,     *)
(* through partial parses, given results and lattices that are used again. *)
(***************************************************************************)
THEOREM AnalysisIsOfSentence == MemorySpec => []ParsedIsSentence
<1>1. SessionInvariant => ParsedIsSentence
  BY DEF SessionInvariant, Good, Parsed, ParsedIsSentence
<1> QED
  BY <1>1, SessionInvariance, PTL

-----------------------------------------------------------------------------
FreeLists ==
  {list \in [li : Nat, pi : Nat, sizes : Seq(Nat)] :
     /\ list.li <= Len(list.sizes)
     /\ list.li = Len(list.sizes) => list.pi = 0}

Regions == [chunk : Nat, from : Nat, to : Nat]
Taken(r, list) ==
  r.chunk < list.li \/ (r.chunk = list.li /\ r.to <= list.pi)
Apart(r, s) == r.chunk = s.chunk => r.to <= s.from \/ s.to <= r.from

(* The region that alloc(req) returns. *)
Region(list, req) ==
  [chunk |-> Place(list, req).chunk, from |-> Place(list, req).at,
   to |-> Place(list, req).at + req]

(* The loop of alloc() ends at the first chunk with room. *)
LEMMA ChunkForFacts ==
  ASSUME NEW list \in FreeLists, NEW req \in Nat
  PROVE  LET c == ChunkFor(list, req) IN
         /\ c \in list.li..Len(list.sizes)
         /\ c = Len(list.sizes) \/ HasRoom(list, c, req)
         /\ \A d \in list.li..(c - 1) : ~HasRoom(list, d, req)
<1> DEFINE chunks == Len(list.sizes)
           ends == {c \in list.li..chunks : c = chunks \/ HasRoom(list, c, req)}
<1>1. list.li \in Nat /\ chunks \in Nat /\ list.li <= chunks
  BY DEF FreeLists
<1>2. chunks \in ends /\ ends \subseteq Nat
  BY <1>1
<1>3. PICK first \in ends : \A c \in ends : first <= c
  BY <1>2, SmallestOf
<1>4. first \in list.li..chunks /\ (first = chunks \/ HasRoom(list, first, req))
  OBVIOUS
<1>5. ASSUME NEW d \in list.li..(first - 1) PROVE ~HasRoom(list, d, req)
  <2>1. d \in list.li..chunks /\ ~(first <= d)
    BY <1>1, <1>4
  <2>2. d \notin ends
    BY <2>1, <1>3
  <2> QED
    BY <2>1, <2>2
<1>6. \E c \in list.li..chunks :
        /\ c = chunks \/ HasRoom(list, c, req)
        /\ \A d \in list.li..(c - 1) : ~HasRoom(list, d, req)
  BY <1>4, <1>5
<1> QED
  BY <1>6 DEF ChunkFor

LEMMA AllocFacts ==
  ASSUME NEW list \in FreeLists, NEW req \in Nat \ {0}
  PROVE  LET r == Region(list, req) IN
         /\ r \in Regions /\ Alloc(list, req) \in FreeLists
         /\ r.to <= Alloc(list, req).sizes[r.chunk + 1]
         /\ Alloc(list, req).li = r.chunk /\ Alloc(list, req).pi = r.to
         /\ r.chunk >= list.li /\ (r.chunk = list.li => r.from = list.pi)
<1> DEFINE c == ChunkFor(list, req)
           from == FreeFrom(list, c)
           new == IF req > DefaultSize THEN req ELSE DefaultSize
<1>1. c \in list.li..Len(list.sizes) /\ (c = Len(list.sizes) \/ HasRoom(list, c, req))
  BY ChunkForFacts
<1>2. list.li \in Nat /\ list.pi \in Nat /\ list.sizes \in Seq(Nat)
      /\ list.li <= Len(list.sizes) /\ (list.li = Len(list.sizes) => list.pi = 0)
  BY DEF FreeLists
<1>3. c \in Nat /\ from \in Nat /\ new \in Nat /\ req <= new
  BY <1>1, <1>2, ChunkAssumption DEF FreeFrom
<1>4. Alloc(list, req) = [li |-> c, pi |-> from + req,
        sizes |-> IF c = Len(list.sizes) THEN Append(list.sizes, new) ELSE list.sizes]
  BY DEF Alloc
<1>5. Region(list, req) = [chunk |-> c, from |-> from, to |-> from + req]
  BY DEF Region, Place
<1>6. CASE c = Len(list.sizes)
  <2>1. from = 0
    BY <1>2, <1>6 DEF FreeFrom
  <2> DEFINE grown == Append(list.sizes, new)
  <2>2. grown \in Seq(Nat) /\ Len(grown) = c + 1 /\ grown[c + 1] = new
    BY <1>2, <1>3, <1>6
  <2>3. Alloc(list, req) = [li |-> c, pi |-> from + req, sizes |-> grown]
    BY <1>4, <1>6
  <2> HIDE DEF grown, c, from, new
  <2>4. Alloc(list, req) \in FreeLists
    BY <1>3, <2>2, <2>3 DEF FreeLists
  <2> QED
    BY <1>1, <1>2, <1>3, <1>5, <2>1, <2>2, <2>3, <2>4 DEF Regions, from, c, FreeFrom
<1>7. CASE c # Len(list.sizes)
  <2>1. c < Len(list.sizes) /\ from + req < list.sizes[c + 1]
    BY <1>1, <1>2, <1>3, <1>7 DEF HasRoom
  <2>2. Alloc(list, req) = [li |-> c, pi |-> from + req, sizes |-> list.sizes]
    BY <1>4, <1>7
  <2>3. list.sizes[c + 1] \in Nat
    BY <1>2, <1>3, <2>1
  <2>4. c = list.li => from = list.pi
    BY DEF FreeFrom
  <2> HIDE DEF c, from, new
  <2>5. Alloc(list, req) \in FreeLists
    BY <1>2, <1>3, <2>1, <2>2 DEF FreeLists
  <2> QED
    BY <1>1, <1>2, <1>3, <1>5, <2>1, <2>2, <2>3, <2>4, <2>5 DEF Regions
<1> QED
  BY <1>6, <1>7

(***************************************************************************)
(* A string that is allocated lies in one chunk and shares no byte with    *)
(* any string that was allocated since the list was started over; all of   *)
(* them then lie before the list's place again.                            *)
(***************************************************************************)
THEOREM AllocatedOnce ==
  ASSUME NEW list \in FreeLists, NEW req \in Nat \ {0},
         NEW r \in Regions, Taken(r, list)
  PROVE  LET s == Region(list, req) IN
         /\ Apart(r, s)
         /\ s.to <= Alloc(list, req).sizes[s.chunk + 1]
         /\ Alloc(list, req) \in FreeLists
         /\ Taken(r, Alloc(list, req)) /\ Taken(s, Alloc(list, req))
<1> DEFINE s == Region(list, req)
<1>1. /\ s \in Regions /\ Alloc(list, req) \in FreeLists
      /\ s.to <= Alloc(list, req).sizes[s.chunk + 1]
      /\ Alloc(list, req).li = s.chunk /\ Alloc(list, req).pi = s.to
      /\ s.chunk >= list.li /\ (s.chunk = list.li => s.from = list.pi)
  BY AllocFacts
<1>2. s.to = s.from + req
  BY DEF Region
<1> HIDE DEF s
<1>3. list.li \in Nat /\ list.pi \in Nat
  BY DEF FreeLists
<1> QED
  BY <1>1, <1>2, <1>3 DEF Taken, Apart, Regions, s

-----------------------------------------------------------------------------
(* The strings of a memory, and what strdup() adds to them. *)
Strings == [name : Nat, chunk : Nat, from : Nat, to : Nat]
Inside(s, list) == s.chunk < Len(list.sizes) /\ s.to <= list.sizes[s.chunk + 1]
Memories == [list : FreeLists, strings : SUBSET Strings]

KeptApart(mem) ==
  /\ mem \in Memories
  /\ \A s \in mem.strings : Inside(s, mem.list)
  /\ \A s, t \in mem.strings : s # t => Apart(s, t)
AllTaken(mem) == \A s \in mem.strings : Taken(s, mem.list)

(* The list only gets more chunks. *)
LEMMA ChunksStay ==
  ASSUME NEW list \in FreeLists, NEW req \in Nat \ {0}
  PROVE  /\ Len(Alloc(list, req).sizes) \in Nat /\ Len(list.sizes) \in Nat
         /\ Len(list.sizes) <= Len(Alloc(list, req).sizes)
         /\ \A c \in Nat : c < Len(list.sizes) =>
              Alloc(list, req).sizes[c + 1] = list.sizes[c + 1]
<1> DEFINE new == IF req > DefaultSize THEN req ELSE DefaultSize
           grown == Append(list.sizes, new)
<1>1. list.sizes \in Seq(Nat) /\ new \in Nat
  BY ChunkAssumption DEF FreeLists
<1>2. Alloc(list, req).sizes \in {list.sizes, grown}
  BY DEF Alloc
<1>3. /\ Len(list.sizes) \in Nat /\ Len(grown) = Len(list.sizes) + 1
      /\ \A c \in 1..Len(list.sizes) : grown[c] = list.sizes[c]
  BY <1>1
<1>4. \A c \in Nat : c < Len(list.sizes) => c + 1 \in 1..Len(list.sizes)
  BY <1>3
<1> HIDE DEF grown
<1> QED
  BY <1>2, <1>3, <1>4

LEMMA StringFacts ==
  ASSUME NEW list \in FreeLists, NEW name \in Nat, NEW size \in Nat
  PROVE  LET s == StringIn(list, name, size)
             after == Alloc(list, size + 2)
         IN /\ s \in Strings /\ after \in FreeLists /\ Inside(s, after)
            /\ s.to + 1 = after.pi /\ s.chunk = after.li /\ s.from + size + 1 = s.to
            /\ s.chunk >= list.li /\ (s.chunk = list.li => s.from = list.pi)
            /\ Taken(s, after)
            /\ \A r \in Strings : Inside(r, list) => Inside(r, after)
            /\ \A r \in Strings : Taken(r, list) => Taken(r, after) /\ Apart(r, s)
<1> DEFINE s == StringIn(list, name, size)
           after == Alloc(list, size + 2)
           g == Region(list, size + 2)
<1>1. size + 2 \in Nat \ {0}
  OBVIOUS
<1>2. /\ g \in Regions /\ after \in FreeLists /\ g.to <= after.sizes[g.chunk + 1]
      /\ after.li = g.chunk /\ after.pi = g.to
      /\ g.chunk >= list.li /\ (g.chunk = list.li => g.from = list.pi)
  BY <1>1, AllocFacts
<1>3. s = [name |-> name, chunk |-> g.chunk, from |-> g.from, to |-> g.from + size + 1]
      /\ g.to = g.from + (size + 2)
  BY DEF StringIn, Region
<1>4. after.sizes \in Seq(Nat)
  BY <1>2 DEF FreeLists
<1>5. g.chunk < Len(after.sizes)
  <2>1. after.li <= Len(after.sizes) /\ (after.li = Len(after.sizes) => after.pi = 0)
        /\ Len(after.sizes) \in Nat /\ after.li \in Nat
    BY <1>2 DEF FreeLists
  <2>2. after.pi # 0
    BY <1>2, <1>3 DEF Regions
  <2> QED
    BY <1>2, <2>1, <2>2
<1>6. /\ Len(after.sizes) \in Nat /\ Len(list.sizes) \in Nat
      /\ Len(list.sizes) <= Len(after.sizes)
      /\ \A c \in Nat : c < Len(list.sizes) => after.sizes[c + 1] = list.sizes[c + 1]
  BY <1>1, ChunksStay
<1>7. list.li \in Nat /\ list.pi \in Nat
  BY DEF FreeLists
<1> HIDE DEF after, g, s
<1>8. s \in Strings /\ s.chunk = g.chunk /\ s.from = g.from /\ s.to = g.from + size + 1
  BY <1>2, <1>3 DEF Strings, Regions
<1>9. /\ g.from \in Nat /\ g.chunk \in Nat /\ after.sizes[g.chunk + 1] \in Nat
      /\ s.to + 1 = g.to
  <2>1. g.chunk + 1 \in 1..Len(after.sizes)
    BY <1>2, <1>5, <1>6 DEF Regions
  <2> QED
    BY <1>2, <1>3, <1>4, <1>8, <2>1, ElementOfSeq DEF Regions
<1>10. Inside(s, after) /\ Taken(s, after)
  BY <1>2, <1>3, <1>5, <1>8, <1>9 DEF Inside, Taken
<1>11. \A r \in Strings : Inside(r, list) => Inside(r, after)
  BY <1>6 DEF Inside, Strings
<1>12. ASSUME NEW r \in Strings, Taken(r, list)
       PROVE  Taken(r, after) /\ Apart(r, s)
  BY <1>2, <1>3, <1>7, <1>8, <1>9, <1>12 DEF Taken, Apart, Strings
<1> QED
  BY <1>2, <1>3, <1>8, <1>9, <1>10, <1>11, <1>12 DEF s, after

LEMMA StrDupKeepsApart ==
  ASSUME NEW mem, KeptApart(mem), AllTaken(mem), NEW name \in Nat, NEW size \in Nat
  PROVE  KeptApart(StrDup(mem, name, size)) /\ AllTaken(StrDup(mem, name, size))
<1> DEFINE s == StringIn(mem.list, name, size)
           after == Alloc(mem.list, size + 2)
<1>1. mem.list \in FreeLists /\ mem.strings \subseteq Strings
  BY DEF KeptApart, Memories
<1>2. StrDup(mem, name, size) = [list |-> after, strings |-> mem.strings \cup {s}]
  BY DEF StrDup
<1>3. /\ s \in Strings /\ after \in FreeLists /\ Inside(s, after) /\ Taken(s, after)
      /\ \A r \in Strings : Inside(r, mem.list) => Inside(r, after)
      /\ \A r \in Strings : Taken(r, mem.list) => Taken(r, after) /\ Apart(r, s)
  BY <1>1, StringFacts
<1> HIDE DEF s, after
<1>4. \A r \in mem.strings : Apart(r, s) /\ Apart(s, r)
  BY <1>1, <1>3 DEF AllTaken, Apart
<1> QED
  BY <1>1, <1>2, <1>3, <1>4 DEF KeptApart, AllTaken, Memories

LEMMA StrDupType ==
  ASSUME NEW mem \in Memories, NEW name \in Nat, NEW size \in Nat
  PROVE  StrDup(mem, name, size) \in Memories
<1>1. mem.list \in FreeLists /\ mem.strings \subseteq Strings
  BY DEF Memories
<1>2. /\ StringIn(mem.list, name, size) \in Strings
      /\ Alloc(mem.list, size + 2) \in FreeLists
  BY <1>1, StringFacts
<1> QED
  BY <1>1, <1>2 DEF StrDup, Memories

-----------------------------------------------------------------------------
(***************************************************************************)
(* The sums and copies of a result, which are defined line by line.        *)
(***************************************************************************)
LEMMA TotalFacts ==
  ASSUME NEW N \in Nat, NEW lengths \in [1..N -> Nat]
  PROVE  \E sum \in [0..N -> Nat] :
           /\ TotalOf(lengths) = sum[N] /\ sum[0] = 0
           /\ \A i \in 1..N : sum[i] = sum[i - 1] + lengths[i]
<1> DEFINE I == 0..N
           add == [x \in (1..N) \X Nat |-> x[2] + lengths[x[1]]]
           entry(i, h) == IF i = 0 THEN 0 ELSE h[i - 1] + lengths[i]
           F == CHOOSE h : h = [i \in I |-> entry(i, h)]
<1>1. Len(lengths) = N
  BY LenProperties
<1>2. add \in [(1..N) \X Nat -> Nat]
  OBVIOUS
<1>3. \A i \in 1..N : \A m \in Nat : add[<<i, m>>] = m + lengths[i]
  OBVIOUS
<1>4. PICK f \in [I -> Nat] : f[0] = 0 /\ \A i \in 1..N : f[i] = add[<<i, f[i - 1]>>]
  <2> HIDE DEF add, entry, F, I
  <2>1. 0 \in Nat
    OBVIOUS
  <2>2. \E f : Iteration(f, N, Nat, 0, add)
    BY <1>2, <2>1, IterationExists
  <2> QED
    BY <2>2 DEF I, Iteration
<1>5. \A i \in I : i # 0 => i \in 1..N /\ i - 1 \in I
  OBVIOUS
<1>6. 0 \in I /\ N \in I /\ 1..N \subseteq I /\ \A i \in 1..N : i # 0
  OBVIOUS
<1>7. \A i \in I : f[i] = entry(i, f)
  <2> HIDE DEF add, I
  <2> QED
    BY <1>3, <1>4, <1>5
<1>8. F = [i \in I |-> entry(i, F)]
  <2>1. f = [i \in I |-> entry(i, f)]
    <3> HIDE DEF entry, I
    <3> QED
      BY <1>7
  <2> HIDE DEF entry, I
  <2> QED
    BY <2>1
<1>9. TotalOf(lengths) = F[N]
  BY <1>1 DEF TotalOf
<1>10. \A i \in I : F[i] = entry(i, F)
  <2> HIDE DEF entry, I, F
  <2> QED
    BY <1>8
<1>11. F \in [I -> Nat]
  <2> DEFINE T == {k \in Nat : k \in I => F[k] \in Nat}
  <2>1. 0 \in T
    <3> HIDE DEF F, I
    <3> QED
      BY <1>6, <1>10
  <2>2. ASSUME NEW k \in Nat, k \in T PROVE k + 1 \in T
    <3> SUFFICES ASSUME k + 1 \in I PROVE F[k + 1] \in Nat
      OBVIOUS
    <3>1. k \in I /\ k + 1 \in 1..N /\ (k + 1) - 1 = k
      OBVIOUS
    <3>2. F[k + 1] = F[k] + lengths[k + 1]
      <4> HIDE DEF F, I
      <4> QED
        BY <1>6, <1>10, <3>1
    <3> HIDE DEF F
    <3> QED
      BY <2>2, <3>1, <3>2
  <2>3. Nat \subseteq T
    <3> HIDE DEF T
    <3> QED
      BY <2>1, <2>2, NatSetInduction
  <2>4. \A i \in I : F[i] \in Nat
    <3> HIDE DEF F
    <3> QED
      BY <2>3
  <2> HIDE DEF entry, I, F
  <2> QED
    BY <1>8, <2>4
<1>12. F[0] = 0 /\ \A i \in 1..N : F[i] = F[i - 1] + lengths[i]
  <2> HIDE DEF F, I
  <2> QED
    BY <1>6, <1>10
<1> HIDE DEF F
<1> QED
  BY <1>9, <1>11, <1>12

Lines == Seq([surface : Nat, feature : Nat])

LEMMA LineFacts ==
  ASSUME NEW lines \in Lines
  PROVE  /\ Len(lines) \in Nat
         /\ \A i \in 1..Len(lines) :
              i \in Nat /\ lines[i].surface \in Nat /\ lines[i].feature \in Nat
<1> DEFINE L == [surface : Nat, feature : Nat]
<1>1. lines \in Seq(L)
  BY DEF Lines
<1> HIDE DEF L
<1>2. Len(lines) \in Nat /\ \A i \in 1..Len(lines) : lines[i] \in L
  BY <1>1, ElementOfSeq
<1> QED
  BY <1>2 DEF L

LEMMA CopiedFacts ==
  ASSUME NEW mem \in Memories, NEW lines \in Lines
  PROVE  \E m \in [0..Len(lines) -> Memories] :
           /\ FeaturesCopied(mem, lines) = m[Len(lines)] /\ m[0] = mem
           /\ \A i \in 1..Len(lines) : m[i] = StrDup(m[i - 1], i, lines[i].feature)
<1> DEFINE N == Len(lines)
           I == 0..N
           copy == [x \in (1..N) \X Memories |-> StrDup(x[2], x[1], lines[x[1]].feature)]
           entry(i, h) == IF i = 0 THEN mem ELSE StrDup(h[i - 1], i, lines[i].feature)
           F == CHOOSE h : h = [i \in I |-> entry(i, h)]
<1>1. N \in Nat /\ \A i \in 1..N : i \in Nat /\ lines[i].feature \in Nat
  BY LineFacts
<1> HIDE DEF N
<1>2. \A i \in 1..N : \A m \in Memories : StrDup(m, i, lines[i].feature) \in Memories
  BY <1>1, StrDupType
<1>3. copy \in [(1..N) \X Memories -> Memories]
  <2>1. \A x \in (1..N) \X Memories : StrDup(x[2], x[1], lines[x[1]].feature) \in Memories
    BY <1>2
  <2> QED
    BY <2>1
<1>4. \A i \in 1..N : \A m \in Memories :
        copy[<<i, m>>] = StrDup(m, i, lines[i].feature)
  OBVIOUS
<1>5. PICK f \in [I -> Memories] : f[0] = mem /\ \A i \in 1..N : f[i] = copy[<<i, f[i - 1]>>]
  <2> HIDE DEF copy, entry, F, I
  <2>1. \E f : Iteration(f, N, Memories, mem, copy)
    BY <1>1, <1>3, IterationExists
  <2> QED
    BY <2>1 DEF I, Iteration
<1>6. \A i \in I : i # 0 => i \in 1..N /\ i - 1 \in I
  BY <1>1
<1>7. 0 \in I /\ N \in I /\ 1..N \subseteq I /\ \A i \in 1..N : i # 0
  BY <1>1
<1>8. \A i \in I : f[i] = entry(i, f)
  <2> HIDE DEF copy, I
  <2> QED
    BY <1>4, <1>5, <1>6
<1>9. F = [i \in I |-> entry(i, F)]
  <2>1. f = [i \in I |-> entry(i, f)]
    <3> HIDE DEF entry, I
    <3> QED
      BY <1>8
  <2> HIDE DEF entry, I
  <2> QED
    BY <2>1
<1>10. FeaturesCopied(mem, lines) = F[N]
  BY DEF FeaturesCopied, N
<1>11. \A i \in I : F[i] = entry(i, F)
  <2> HIDE DEF entry, I, F
  <2> QED
    BY <1>9
<1>12. F[0] = mem /\ \A i \in 1..N : F[i] = StrDup(F[i - 1], i, lines[i].feature)
  <2> HIDE DEF F, I
  <2> QED
    BY <1>7, <1>11
<1>13. F \in [I -> Memories]
  <2> DEFINE T == {k \in Nat : k \in I => F[k] \in Memories}
  <2>1. 0 \in T
    <3> HIDE DEF F, I
    <3> QED
      BY <1>12
  <2>2. ASSUME NEW k \in Nat, k \in T PROVE k + 1 \in T
    <3> SUFFICES ASSUME k + 1 \in I PROVE F[k + 1] \in Memories
      OBVIOUS
    <3>1. k \in I /\ k + 1 \in 1..N /\ (k + 1) - 1 = k
      BY <1>1
    <3> HIDE DEF F
    <3> QED
      BY <1>2, <1>12, <2>2, <3>1
  <2>3. Nat \subseteq T
    <3> HIDE DEF T
    <3> QED
      BY <2>1, <2>2, NatSetInduction
  <2>4. \A i \in I : F[i] \in Memories
    <3> HIDE DEF F
    <3> QED
      BY <1>1, <2>3
  <2> HIDE DEF entry, I, F
  <2> QED
    BY <1>9, <2>4
<1> HIDE DEF F
<1> QED
  BY <1>10, <1>12, <1>13 DEF N

-----------------------------------------------------------------------------
(* Features that are copied into memory nothing else is in. *)
LEMMA FeaturesKeepApart ==
  ASSUME NEW mem, KeptApart(mem), AllTaken(mem), NEW lines \in Lines
  PROVE  KeptApart(FeaturesCopied(mem, lines))
<1> DEFINE N == Len(lines)
<1>1. mem \in Memories
  BY DEF KeptApart
<1>2. PICK m \in [0..N -> Memories] :
        /\ FeaturesCopied(mem, lines) = m[N] /\ m[0] = mem
        /\ \A i \in 1..N : m[i] = StrDup(m[i - 1], i, lines[i].feature)
  BY <1>1, CopiedFacts
<1>3. N \in Nat /\ \A i \in 1..N : i \in Nat /\ lines[i].feature \in Nat
  BY LineFacts
<1> HIDE DEF N
<1> DEFINE T == {k \in Nat : k <= N => KeptApart(m[k]) /\ AllTaken(m[k])}
<1>4. 0 \in T
  BY <1>2
<1>5. ASSUME NEW k \in Nat, k \in T PROVE k + 1 \in T
  <2> SUFFICES ASSUME k + 1 <= N PROVE KeptApart(m[k + 1]) /\ AllTaken(m[k + 1])
    OBVIOUS
  <2>1. k + 1 \in 1..N /\ (k + 1) - 1 = k /\ k <= N
    BY <1>3
  <2>2. m[k + 1] = StrDup(m[k], k + 1, lines[k + 1].feature)
    BY <1>2, <2>1
  <2>3. KeptApart(m[k]) /\ AllTaken(m[k])
    BY <1>5, <2>1
  <2> QED
    BY <1>3, <2>1, <2>2, <2>3, StrDupKeepsApart
<1>6. Nat \subseteq T
  <2> HIDE DEF T
  <2> QED
    BY <1>4, <1>5, NatSetInduction
<1>7. N \in T
  BY <1>3, <1>6
<1> QED
  BY <1>2, <1>3, <1>7

(***************************************************************************)
(* One copy into a chunk with `room' bytes that lie before the sentence,   *)
(* `used' of which are used: it goes there or into a chunk before it, and  *)
(* the list does not grow.                                                 *)
(***************************************************************************)
RoomBefore(sentence, sizes, c, room) ==
  /\ c < Len(sizes) /\ room <= sizes[c + 1]
  /\ sentence.chunk >= c /\ (sentence.chunk = c => sentence.from >= room)

Below(mem, sentence, c, used) ==
  /\ KeptApart(mem) /\ mem.list.li <= c
  /\ mem.list.li = c => mem.list.pi <= used
  /\ \A s \in mem.strings : s # sentence => Taken(s, mem.list)
  /\ sentence \in mem.strings

LEMMA StrDupBelow ==
  ASSUME NEW mem, NEW sentence, NEW c \in Nat, NEW used \in Nat, NEW room \in Nat,
         NEW name \in Nat, NEW size \in Nat, NEW next \in Nat,
         next = used + size + 2, next < room,
         Below(mem, sentence, c, used), RoomBefore(sentence, mem.list.sizes, c, room)
  PROVE  /\ Below(StrDup(mem, name, size), sentence, c, next)
         /\ StrDup(mem, name, size).list.sizes = mem.list.sizes
<1> DEFINE list == mem.list
           req == size + 2
           first == ChunkFor(list, req)
           s == StringIn(list, name, size)
           after == Alloc(list, req)
<1>1. /\ list \in FreeLists /\ mem.strings \subseteq Strings /\ sentence \in mem.strings
      /\ list.li <= c /\ (list.li = c => list.pi <= used)
  BY DEF Below, KeptApart, Memories
<1>2. list.li \in Nat /\ list.pi \in Nat /\ list.sizes \in Seq(Nat) /\ Len(list.sizes) \in Nat
  BY <1>1 DEF FreeLists
<1>3. req \in Nat
  OBVIOUS
<1>4. FreeFrom(list, c) <= used /\ FreeFrom(list, c) \in Nat
  BY <1>1, <1>2 DEF FreeFrom
<1>5. HasRoom(list, c, req)
  <2>1. c + 1 \in 1..Len(list.sizes) /\ room <= list.sizes[c + 1]
    BY <1>2 DEF RoomBefore
  <2>2. list.sizes[c + 1] \in Nat
    BY <1>2, <2>1, ElementOfSeq
  <2> QED
    BY <1>4, <2>1, <2>2 DEF HasRoom
<1>6. first <= c /\ first \in Nat /\ first # Len(list.sizes)
  <2>1. /\ first \in list.li..Len(list.sizes)
        /\ \A d \in list.li..(first - 1) : ~HasRoom(list, d, req)
    BY <1>1, <1>3, ChunkForFacts
  <2> HIDE DEF first, list, req
  <2>2. first \in Nat
    BY <1>2, <2>1
  <2>3. c \notin list.li..(first - 1)
    BY <1>5, <2>1
  <2>4. first <= c /\ c < Len(list.sizes)
    BY <1>1, <1>2, <2>2, <2>3 DEF RoomBefore, list
  <2> QED
    BY <1>2, <2>2, <2>4
<1>7. after.li = first /\ after.pi = FreeFrom(list, first) + req /\ after.sizes = list.sizes
  BY <1>6 DEF Alloc
<1>8. first = c => after.pi <= used + size + 2
  BY <1>4, <1>7
<1>9. /\ s \in Strings /\ after \in FreeLists /\ Inside(s, after) /\ Taken(s, after)
      /\ s.to + 1 = after.pi /\ s.chunk = after.li
      /\ \A r \in Strings : Inside(r, list) => Inside(r, after)
      /\ \A r \in Strings : Taken(r, list) => Taken(r, after) /\ Apart(r, s)
  BY <1>1, StringFacts, ZenonT(30)
<1>10. StrDup(mem, name, size) = [list |-> after, strings |-> mem.strings \cup {s}]
  BY DEF StrDup
<1> HIDE DEF s, after, first, list, req
<1>11. Apart(sentence, s)
  <2>1. sentence \in Strings
    BY <1>1
  <2>2. ASSUME sentence.chunk = s.chunk PROVE s.to <= sentence.from
    <3>1. first = c /\ sentence.chunk = c
      BY <1>6, <1>7, <1>9, <2>1, <2>2 DEF Strings, RoomBefore
    <3>2. after.pi <= used + size + 2 /\ sentence.from >= room
      BY <1>8, <3>1 DEF RoomBefore
    <3>3. s.to \in Nat /\ sentence.from \in Nat
      BY <1>9, <2>1 DEF Strings
    <3> QED
      BY <1>9, <3>2, <3>3
  <2> QED
    BY <2>2 DEF Apart
<1>12. \A r \in mem.strings : Apart(r, s) /\ Apart(s, r)
  <2>1. \A r \in mem.strings : r # sentence => Apart(r, s)
    BY <1>1, <1>9 DEF Below, list
  <2> QED
    BY <1>11, <2>1 DEF Apart
<1>13. KeptApart(StrDup(mem, name, size))
  BY <1>1, <1>9, <1>10, <1>12 DEF Below, KeptApart, Memories, list
<1>14. \A r \in mem.strings \cup {s} : r # sentence => Taken(r, after)
  BY <1>1, <1>9 DEF Below, list
<1> QED
  BY <1>1, <1>6, <1>7, <1>8, <1>10, <1>13, <1>14 DEF Below, list

(* All features of a result, if they need less than there is room for. *)
LEMMA FeaturesBelow ==
  ASSUME NEW mem, NEW sentence, NEW c \in Nat, NEW room \in Nat, NEW lines \in Lines,
         NEW sum \in [0..Len(lines) -> Nat], sum[0] = 0, sum[Len(lines)] < room,
         \A i \in 1..Len(lines) : sum[i] >= sum[i - 1] + lines[i].feature + 2,
         Below(mem, sentence, c, 0), RoomBefore(sentence, mem.list.sizes, c, room)
  PROVE  KeptApart(FeaturesCopied(mem, lines))
<1> DEFINE N == Len(lines)
<1>1. mem \in Memories
  BY DEF Below, KeptApart
<1>2. PICK m \in [0..N -> Memories] :
        /\ FeaturesCopied(mem, lines) = m[N] /\ m[0] = mem
        /\ \A i \in 1..N : m[i] = StrDup(m[i - 1], i, lines[i].feature)
  BY <1>1, CopiedFacts
<1>3. N \in Nat /\ \A i \in 1..N : i \in Nat /\ lines[i].feature \in Nat
  BY LineFacts
<1>4. /\ sum \in [0..N -> Nat] /\ sum[N] < room
      /\ \A i \in 1..N : sum[i] >= sum[i - 1] + lines[i].feature + 2
  OBVIOUS
<1> HIDE DEF N
<1>5. \A i \in 0..N : sum[i] <= sum[N]
  <2> DEFINE T == {k \in Nat : k <= N => sum[N - k] <= sum[N]}
  <2>1. 0 \in T
    BY <1>3, <1>4
  <2>2. ASSUME NEW k \in Nat, k \in T PROVE k + 1 \in T
    <3> SUFFICES ASSUME k + 1 <= N PROVE sum[N - (k + 1)] <= sum[N]
      OBVIOUS
    <3>1. /\ N - k \in 1..N /\ (N - k) - 1 = N - (k + 1) /\ k <= N
          /\ N - k \in 0..N /\ N - (k + 1) \in 0..N /\ N \in 0..N
      BY <1>3
    <3>2. sum[N - k] >= sum[N - (k + 1)] + lines[N - k].feature + 2
      BY <1>4, <3>1
    <3>3. /\ sum[N - k] \in Nat /\ sum[N - (k + 1)] \in Nat /\ sum[N] \in Nat
          /\ lines[N - k].feature \in Nat
      BY <1>3, <1>4, <3>1
    <3>4. sum[N - k] <= sum[N]
      BY <2>2, <3>1
    <3> DEFINE before == sum[N - (k + 1)]
               here == sum[N - k]
               all == sum[N]
               size == lines[N - k].feature
    <3>5. /\ here >= before + size + 2 /\ here <= all
          /\ here \in Nat /\ before \in Nat /\ all \in Nat /\ size \in Nat
      BY <3>2, <3>3, <3>4
    <3> HIDE DEF before, here, all, size
    <3>6. before <= all
      BY <3>5
    <3> QED
      BY <3>6 DEF before, all
  <2>3. Nat \subseteq T
    <3> HIDE DEF T
    <3> QED
      BY <2>1, <2>2, NatSetInduction
  <2>4. ASSUME NEW i \in 0..N PROVE sum[i] <= sum[N]
    <3>1. N - i \in Nat /\ N - i <= N /\ N - (N - i) = i
      BY <1>3
    <3>2. N - i \in T
      BY <2>3, <3>1
    <3> QED
      BY <3>1, <3>2
  <2> QED
    BY <2>4
<1> DEFINE Copied(k) == Below(m[k], sentence, c, sum[k]) /\ m[k].list.sizes = mem.list.sizes
           T == {k \in Nat : k <= N => Copied(k)}
<1>6. 0 \in T
  BY <1>2
<1>7. ASSUME NEW k \in Nat, k \in T PROVE k + 1 \in T
  <2> SUFFICES ASSUME k + 1 <= N PROVE Copied(k + 1)
    OBVIOUS
  <2>1. k + 1 \in 1..N /\ (k + 1) - 1 = k /\ k <= N /\ k \in 0..N /\ k + 1 \in 0..N
    BY <1>3
  <2> DEFINE size == lines[k + 1].feature
  <2>2. m[k + 1] = StrDup(m[k], k + 1, size)
    BY <1>2, <2>1
  <2>3. Copied(k)
    BY <1>7, <2>1
  <2>4. /\ sum[k + 1] >= sum[k] + size + 2 /\ sum[k + 1] <= sum[N]
        /\ sum[k] \in Nat /\ size \in Nat /\ sum[k + 1] \in Nat /\ sum[N] \in Nat
    BY <1>3, <1>4, <1>5, <2>1
  <2>5. sum[k] + size + 2 < room
    BY <1>4, <2>4, SMTT(30)
  <2> HIDE DEF size
  <2>6. /\ Below(m[k + 1], sentence, c, sum[k] + size + 2)
        /\ m[k + 1].list.sizes = mem.list.sizes
    <3>1. /\ Below(m[k], sentence, c, sum[k]) /\ m[k].list.sizes = mem.list.sizes
          /\ RoomBefore(sentence, m[k].list.sizes, c, room)
      BY <2>3
    <3> DEFINE old == m[k]
               used == sum[k]
               name == k + 1
               next == sum[k] + size + 2
    <3>2. /\ name \in Nat /\ used \in Nat /\ size \in Nat /\ next \in Nat
          /\ next = used + size + 2 /\ next < room
      BY <2>4, <2>5
    <3> HIDE DEF T, Copied
    <3>3. Below(old, sentence, c, used) /\ RoomBefore(sentence, old.list.sizes, c, room)
      BY <3>1
    <3> HIDE DEF old, used, name, next
    <3>4. /\ Below(StrDup(old, name, size), sentence, c, next)
          /\ StrDup(old, name, size).list.sizes = old.list.sizes
      BY <3>2, <3>3, StrDupBelow
    <3> QED
      BY <2>2, <3>1, <3>4 DEF old, used, name, next
  <2>7. m[k + 1].list.pi \in Nat
    <3>1. m[k + 1] \in Memories
      BY <1>2, <2>1
    <3> QED
      BY <3>1 DEF Memories, FreeLists
  <2>8. Below(m[k + 1], sentence, c, sum[k + 1])
    BY <2>4, <2>6, <2>7 DEF Below
  <2> QED
    BY <2>6, <2>8
<1>8. Nat \subseteq T
  <2> HIDE DEF T
  <2> QED
    BY <1>6, <1>7, NatSetInduction
<1>9. Copied(N)
  <2>1. N \in T
    BY <1>3, <1>8
  <2> QED
    BY <1>3, <2>1
<1> QED
  BY <1>2, <1>9 DEF Below

(* How long a result is, and that its features alone are shorter. *)
LEMMA ResultFacts ==
  ASSUME NEW text \in Texts, NEW r \in Results(text)
  PROVE  /\ r.lines \in Lines /\ Surfaces(r) \in Nat /\ ResultLength(r) \in Nat
         /\ \E sum \in [0..Len(r.lines) -> Nat] :
              /\ sum[0] = 0 /\ sum[Len(r.lines)] < ResultLength(r) + 2
              /\ \A i \in 1..Len(r.lines) :
                   sum[i] >= sum[i - 1] + r.lines[i].feature + 2
<1> DEFINE lines == r.lines
           N == Len(lines)
           surfaces == [i \in 1..N |-> lines[i].surface]
           lengths == [i \in 1..N |-> lines[i].surface + lines[i].feature + 2]
<1>1. /\ lines \in Lines /\ r.tail \in {"EOS", "newline", "none"}
      /\ lines = << >> => r.tail # "none"
  BY ResultsAssumption DEF Lines
<1>2. N \in Nat /\ \A i \in 1..N : lines[i].surface \in Nat /\ lines[i].feature \in Nat
  BY <1>1, LineFacts
<1>3. N = 0 => lines = << >>
  <2>1. \E S : lines \in Seq(S)
    BY <1>1 DEF Lines
  <2> QED
    BY <2>1, EmptySeq
<1>4. Surfaces(r) = TotalOf(surfaces) /\ ResultLength(r) = TotalOf(lengths) + TailLength(r.tail)
  BY DEF Surfaces, ResultLength
<1> HIDE DEF N, lines
<1>5. surfaces \in [1..N -> Nat] /\ lengths \in [1..N -> Nat]
  BY <1>2
<1>6. Surfaces(r) \in Nat
  <2>1. \E sum \in [0..N -> Nat] : TotalOf(surfaces) = sum[N]
    BY <1>2, <1>5, TotalFacts
  <2> QED
    BY <1>2, <1>4, <2>1
<1>7. PICK sum \in [0..N -> Nat] :
        /\ TotalOf(lengths) = sum[N] /\ sum[0] = 0
        /\ \A i \in 1..N : sum[i] = sum[i - 1] + lengths[i]
  BY <1>2, <1>5, TotalFacts
<1>8. \A i \in 1..N : sum[i] >= sum[i - 1] + lines[i].feature + 2
  <2> SUFFICES ASSUME NEW i \in 1..N PROVE sum[i] >= sum[i - 1] + lines[i].feature + 2
    OBVIOUS
  <2>1. sum[i - 1] \in Nat /\ sum[i] = sum[i - 1] + (lines[i].surface + lines[i].feature + 2)
    BY <1>2, <1>7
  <2> QED
    BY <1>2, <2>1
<1>9. sum[N] \in Nat /\ (N # 0 => sum[N] >= 2)
  <2>1. sum[N] \in Nat
    BY <1>2
  <2>2. ASSUME N # 0 PROVE sum[N] >= 2
    <3>1. N \in 1..N /\ N - 1 \in 0..N
      BY <1>2, <2>2
    <3>2. /\ sum[N] >= sum[N - 1] + lines[N].feature + 2 /\ sum[N - 1] \in Nat
          /\ lines[N].feature \in Nat
      BY <1>2, <1>8, <3>1
    <3> QED
      BY <2>1, <3>2
  <2> QED
    BY <2>1, <2>2
<1>10. TailLength(r.tail) \in {4, 0, -1} /\ (r.tail # "none" => TailLength(r.tail) >= 0)
  BY <1>1 DEF TailLength
<1>11. N = 0 => TailLength(r.tail) >= 0
  BY <1>1, <1>3, <1>10
<1>12. ResultLength(r) \in Nat /\ sum[N] < ResultLength(r) + 2
  BY <1>4, <1>7, <1>9, <1>10, <1>11
<1> QED
  BY <1>1, <1>6, <1>7, <1>8, <1>12 DEF N, lines

-----------------------------------------------------------------------------
(* A list that is started over has nothing in use. *)
LEMMA FreeFacts ==
  ASSUME NEW list \in FreeLists
  PROVE  /\ Free(list) \in FreeLists /\ Free(list).li = 0 /\ Free(list).pi = 0
         /\ Free(list).sizes = list.sizes
<1> DEFINE S == Seq(Nat)
<1>1. list \in [li : Nat, pi : Nat, sizes : S] /\ Len(list.sizes) \in Nat
  BY DEF FreeLists
<1> HIDE DEF S
<1>2. Free(list) \in [li : Nat, pi : Nat, sizes : S]
  BY <1>1 DEF Free
<1>3. Free(list).li = 0 /\ Free(list).pi = 0
  BY <1>1 DEF Free
<1>4. Free(list).sizes = list.sizes
  BY <1>1 DEF Free
<1> QED
  BY <1>1, <1>2, <1>3, <1>4 DEF FreeLists, S

LEMMA StartedFacts ==
  ASSUME NEW mem, mem.list \in FreeLists
  PROVE  KeptApart(Started(mem)) /\ AllTaken(Started(mem))
<1> DEFINE list == Free(mem.list)
<1>1. list \in FreeLists
  BY FreeFacts
<1>2. Started(mem) = [list |-> list, strings |-> {}]
  BY DEF Started
<1> HIDE DEF list
<1> QED
  BY <1>1, <1>2 DEF KeptApart, AllTaken, Memories

LEMMA SentenceKeepsApart ==
  ASSUME NEW mem, mem.list \in FreeLists, NEW size \in Nat
  PROVE  KeptApart(SentenceSet(mem, size))
           /\ (Copies => AllTaken(SentenceSet(mem, size)))
<1>1. KeptApart(Started(mem)) /\ AllTaken(Started(mem))
  BY StartedFacts
<1>2. SentenceName \in Nat
  BY DEF SentenceName
<1>3. /\ KeptApart(StrDup(Started(mem), SentenceName, size))
      /\ AllTaken(StrDup(Started(mem), SentenceName, size))
  BY <1>1, <1>2, StrDupKeepsApart
<1> QED
  BY <1>1, <1>3 DEF SentenceSet

(***************************************************************************)
(* The result a lattice is given lies before the sentence that is joined   *)
(* from it, and its features are shorter than it.                          *)
(***************************************************************************)
LEMMA ResultKeepsApart ==
  ASSUME NEW mem \in Memories, NEW text \in Texts, NEW r \in Results(text)
  PROVE  KeptApart(ResultSet(mem, r))
<1> DEFINE total == ResultLength(r) + 2
           size == Surfaces(r)
           given == Alloc(mem.list, total)
           joined == StringIn(given, SentenceName, size)
           after == Alloc(given, size + 2)
           used == [mem EXCEPT !.list = after]
           set == SentenceSet(used, size)
           copied == [set EXCEPT !.strings = IF Copies THEN @ ELSE {joined}]
<1>1. r.lines \in Lines /\ size \in Nat /\ ResultLength(r) \in Nat
  BY ResultFacts
<1>2. total \in Nat \ {0} /\ SentenceName \in Nat /\ size + 2 \in Nat \ {0}
  BY <1>1 DEF SentenceName
<1>3. ResultSet(mem, r) = FeaturesCopied(copied, r.lines)
  BY DEF ResultSet
<1>4. mem.list \in FreeLists /\ used.list = after
  BY DEF Memories
<1> HIDE DEF total, size
<1>5. /\ given \in FreeLists
      /\ given.li \in Nat /\ given.pi \in Nat /\ total <= given.pi
      /\ given.pi <= given.sizes[given.li + 1] /\ given.li < Len(given.sizes)
  <2> DEFINE g == Region(mem.list, total)
  <2>1. /\ g \in Regions /\ given \in FreeLists /\ g.to <= given.sizes[g.chunk + 1]
        /\ given.li = g.chunk /\ given.pi = g.to
    BY <1>2, <1>4, AllocFacts
  <2>2. g.to = g.from + total
    BY DEF Region
  <2> HIDE DEF g, given
  <2>3. /\ given.li <= Len(given.sizes) /\ (given.li = Len(given.sizes) => given.pi = 0)
        /\ Len(given.sizes) \in Nat /\ given.li \in Nat /\ given.pi \in Nat
    BY <2>1 DEF FreeLists
  <2> QED
    BY <1>2, <2>1, <2>2, <2>3 DEF Regions
<1> HIDE DEF given
<1>6. /\ joined \in Strings /\ after \in FreeLists /\ Inside(joined, after)
      /\ joined.chunk >= given.li /\ (joined.chunk = given.li => joined.from = given.pi)
  BY <1>1, <1>2, <1>5, StringFacts
<1>7. /\ Len(given.sizes) <= Len(after.sizes) /\ Len(given.sizes) \in Nat
      /\ Len(after.sizes) \in Nat
      /\ after.sizes[given.li + 1] = given.sizes[given.li + 1]
  BY <1>2, <1>5, ChunksStay
<1> HIDE DEF joined, after
<1>8. KeptApart(set) /\ (Copies => AllTaken(set))
  <2>1. used.list \in FreeLists
    BY <1>6, <1>4
  <2> HIDE DEF used
  <2> QED
    BY <1>1, <2>1, SentenceKeepsApart
<1>9. CASE Copies
  <2>1. copied = set
    BY <1>8, <1>9 DEF KeptApart, Memories
  <2> HIDE DEF copied, set
  <2> QED
    BY <1>1, <1>3, <1>8, <1>9, <2>1, FeaturesKeepApart
<1>10. CASE ~Copies
  <2> DEFINE list == Free(after)
  <2>1. set = [list |-> list, strings |-> {}]
    BY <1>10, <1>4 DEF SentenceSet, Started
  <2>2. copied = [list |-> list, strings |-> {joined}]
    BY <1>10, <2>1
  <2>3. /\ list \in FreeLists /\ list.li = 0 /\ list.pi = 0 /\ list.sizes = after.sizes
    BY <1>6, FreeFacts
  <2> HIDE DEF list, set, copied
  <2>4. KeptApart(copied)
    BY <1>6, <2>2, <2>3 DEF KeptApart, Memories, Inside
  <2>5. Below(copied, joined, given.li, 0)
    BY <1>5, <2>2, <2>3, <2>4 DEF Below
  <2>6. RoomBefore(joined, copied.list.sizes, given.li, total)
    <3>1. given.sizes[given.li + 1] \in Nat
      <4>1. given.sizes \in Seq(Nat) /\ given.li + 1 \in 1..Len(given.sizes)
        BY <1>5, <1>7 DEF FreeLists
      <4> QED
        BY <4>1, ElementOfSeq
    <3>2. total <= after.sizes[given.li + 1]
      BY <1>2, <1>5, <1>7, <3>1
    <3>3. joined.chunk = given.li => joined.from >= total
      BY <1>2, <1>5, <1>6
    <3> QED
      BY <1>5, <1>6, <1>7, <2>2, <2>3, <3>2, <3>3 DEF RoomBefore
  <2>7. PICK sum \in [0..Len(r.lines) -> Nat] :
          /\ sum[0] = 0 /\ sum[Len(r.lines)] < total
          /\ \A i \in 1..Len(r.lines) :
               sum[i] >= sum[i - 1] + r.lines[i].feature + 2
    BY ResultFacts DEF total
  <2> QED
    BY <1>1, <1>2, <1>3, <1>5, <2>5, <2>6, <2>7, FeaturesBelow
<1> QED
  BY <1>9, <1>10

-----------------------------------------------------------------------------
(* The invariant of the strings, which the next call needs nothing else of. *)
MemoryInvariant == SessionInvariant /\ KeptApart(memory)

LEMMA InitMemory == MemoryInit => MemoryInvariant
<1> SUFFICES ASSUME MemoryInit PROVE MemoryInvariant
  OBVIOUS
<1>1. SessionInvariant
  BY InitSession DEF MemoryInit
<1>2. EmptyFreeList \in FreeLists
  BY DEF EmptyFreeList, FreeLists
<1> QED
  BY <1>1, <1>2 DEF MemoryInit, NoMemory, MemoryInvariant, KeptApart, Memories

LEMMA NextMemory == MemoryInvariant /\ [MemoryNext]_memoryVars => MemoryInvariant'
<1> SUFFICES ASSUME MemoryInvariant, [MemoryNext]_memoryVars PROVE MemoryInvariant'
  OBVIOUS
<1>1. SessionInvariant /\ KeptApart(memory) /\ memory \in Memories
  BY DEF MemoryInvariant, KeptApart
<1>2. memory.list \in FreeLists
  BY <1>1 DEF Memories
<1>3. SessionInvariant'
  BY <1>1, NextSession, SessionStep
<1>4. buffer \in Texts /\ Size \in [Texts -> Nat] /\ Partial \in [Texts -> Texts]
  BY <1>1, LatticeAssumption DEF SessionInvariant
<1>5. KeptApart(memory')
  <2>1. CASE WithoutStrings
    BY <1>1, <2>1 DEF WithoutStrings
  <2>2. CASE ClearStrings
    BY <1>2, <2>2, StartedFacts DEF ClearStrings
  <2>3. CASE SentenceStrings
    BY <1>2, <1>4, <2>3, SentenceKeepsApart DEF SentenceStrings
  <2>4. CASE ParseStrings
    <3>1. CASE lattice.sentence # NoSentence /\ "PARTIAL" \in lattice.requestType
      <4> DEFINE size == Size[Partial[Read(lattice, buffer)]]
      <4>1. Read(lattice, buffer) \in Texts
        BY <1>1, <3>1 DEF SessionInvariant, Good, Sized
      <4>2. size \in Nat /\ memory' = SentenceSet(memory, size)
        BY <1>4, <2>4, <3>1, <4>1 DEF ParseStrings
      <4> HIDE DEF size
      <4> QED
        BY <1>2, <4>2, SentenceKeepsApart
    <3>2. CASE ~(lattice.sentence # NoSentence /\ "PARTIAL" \in lattice.requestType)
      BY <1>1, <2>4, <3>2 DEF ParseStrings
    <3> QED
      BY <3>1, <3>2
  <2>5. CASE ResultStrings
    <3>1. PICK r \in Results(Partial[buffer]) : memory' = ResultSet(memory, r)
      BY <2>5 DEF ResultStrings
    <3>2. Partial[buffer] \in Texts
      BY <1>4
    <3> QED
      BY <1>1, <3>1, <3>2, ResultKeepsApart
  <2>6. CASE UNCHANGED memoryVars
    BY <1>1, <2>6 DEF memoryVars
  <2> QED
    BY <2>1, <2>2, <2>3, <2>4, <2>5, <2>6 DEF MemoryNext
<1> QED
  BY <1>3, <1>5 DEF MemoryInvariant

(***************************************************************************)
(* Whatever calls are made, whatever the results and the sizes of chunks   *)
(* are, no string a lattice uses is written over: neither the copy of the  *)
(* sentence by set_sentence() nor, in set_result() without a copy, the     *)
(* sentence in memory that is handed out again by the features.            *)
(***************************************************************************)
THEOREM StringsStayApart == MemorySpec => []StringsApart
<1>1. KeptApart(memory) => StringsApart
  BY DEF KeptApart, Inside, Apart, StringsApart
<1>2. MemoryInvariant => StringsApart
  BY <1>1 DEF MemoryInvariant
<1> QED
  BY <1>2, InitMemory, NextMemory, PTL DEF MemorySpec
=============================================================================
