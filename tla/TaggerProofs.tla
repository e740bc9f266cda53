---------------------------- MODULE TaggerProofs -----------------------------
(***************************************************************************)
(* For any set of texts, sizes and partial formats, and any sequence of    *)
(* calls: the properties of TaggerSession, proved from one inductive       *)
(* invariant.  A parse starts from a lattice that set_sentence() has       *)
(* cleared, so what it leaves behind depends on the call's text and on the *)
(* tagger's settings alone (ParseFacts); nothing else disturbs it but      *)
(* next(), which only takes results from the agenda.                       *)
(***************************************************************************)
EXTENDS TaggerSession, TLAPS

-----------------------------------------------------------------------------
(***************************************************************************)
(* What set_sentence() leaves: a cleared lattice with the new sentence,    *)
(* the request type and the agenda as they were.                           *)
(***************************************************************************)
LEMMA SetSentenceFacts ==
  ASSUME NEW l \in Lattices, NEW pointer \in Sentences, NEW text \in Texts
  PROVE  LET s == SetSentence(l, pointer, text) IN
         /\ s \in Lattices
         /\ s.requestType = l.requestType /\ s.size = Size[text]
         /\ s.sentence = IF l.requestType \cap AllowAllocate # {}
                         THEN InFreeList(text) ELSE pointer
         /\ s.boundary = 0 /\ s.features = 0 /\ s.parsed = NoText
         /\ s.layers = 0 /\ s.thetaUsed = "none" /\ s.theta = "default"
<1> DEFINE c == Clear(l)
<1>1. /\ c \in Lattices
      /\ c.requestType = l.requestType
      /\ c.boundary = 0 /\ c.features = 0 /\ c.parsed = NoText
      /\ c.layers = 0 /\ c.thetaUsed = "none" /\ c.theta = "default"
  BY DEF Lattices, Clear, Sentences, Thetas
<1>2. Size[text] \in Nat
  BY LatticeAssumption
<1>3. InFreeList(text) \in Sentences
  BY DEF Sentences
<1> DEFINE p == IF l.requestType \cap AllowAllocate # {} THEN InFreeList(text) ELSE pointer
<1>4. p \in Sentences
  BY <1>3
<1>5. SetSentence(l, pointer, text) = [c EXCEPT !.sentence = p, !.size = Size[text]]
  BY DEF SetSentence
<1> HIDE DEF c, p
<1> QED
  <2>1. /\ [c EXCEPT !.sentence = p, !.size = Size[text]] \in Lattices
        /\ [c EXCEPT !.sentence = p, !.size = Size[text]].requestType = l.requestType
        /\ [c EXCEPT !.sentence = p, !.size = Size[text]].size = Size[text]
        /\ [c EXCEPT !.sentence = p, !.size = Size[text]].sentence = p
        /\ [c EXCEPT !.sentence = p, !.size = Size[text]].boundary = 0
        /\ [c EXCEPT !.sentence = p, !.size = Size[text]].features = 0
        /\ [c EXCEPT !.sentence = p, !.size = Size[text]].parsed = NoText
        /\ [c EXCEPT !.sentence = p, !.size = Size[text]].layers = 0
        /\ [c EXCEPT !.sentence = p, !.size = Size[text]].thetaUsed = "none"
        /\ [c EXCEPT !.sentence = p, !.size = Size[text]].theta = "default"
    BY <1>1, <1>2, <1>4 DEF Lattices
  <2> QED
    BY <2>1, <1>5 DEF p

(* Constraints that are set are of the size of the lattice's sentence. *)
LEMMA ConstraintFacts ==
  ASSUME NEW l \in Lattices, Fits(l),
         NEW k \in {SetBoundary(l), SetFeature(l)}
  PROVE  /\ k \in Lattices /\ Fits(k)
         /\ k.requestType = l.requestType /\ k.sentence = l.sentence /\ k.size = l.size
         /\ k.parsed = l.parsed /\ k.theta = l.theta /\ k.thetaUsed = l.thetaUsed
<1>1. l.size + 4 \in Nat /\ l.size + 4 # 0
  BY DEF Lattices
<1> DEFINE b == [l EXCEPT !.boundary = l.size + 4]
<1>2. SetBoundary(l) = b
  BY <1>1 DEF SetBoundary, Fits
<1>3. /\ b \in Lattices /\ b.boundary = l.size + 4 /\ b.features = l.features
      /\ b.size = l.size
      /\ b.requestType = l.requestType /\ b.sentence = l.sentence
      /\ b.parsed = l.parsed /\ b.theta = l.theta /\ b.thetaUsed = l.thetaUsed
  BY <1>1 DEF Lattices
<1>4. CASE k = SetBoundary(l)
  BY <1>1, <1>2, <1>3, <1>4 DEF Fits
<1>5. CASE k = SetFeature(l)
  <2> HIDE DEF b
  <2>1. k = [b EXCEPT !.features = l.size + 4]
    BY <1>1, <1>2, <1>3, <1>5 DEF SetFeature, Fits
  <2>2. /\ [b EXCEPT !.features = l.size + 4] \in Lattices
        /\ k.features = l.size + 4 /\ k.boundary = b.boundary /\ k.size = b.size
        /\ k.requestType = b.requestType /\ k.sentence = b.sentence
        /\ k.parsed = b.parsed /\ k.theta = b.theta /\ k.thetaUsed = b.thetaUsed
    BY <1>1, <1>3, <2>1 DEF Lattices
  <2>3. k \in Lattices
    BY <2>1, <2>2
  <2>4. Fits(k)
    BY <1>1, <1>3, <2>2 DEF Fits
  <2> QED
    BY <1>3, <2>2, <2>3, <2>4
<1> QED
  BY <1>4, <1>5

(***************************************************************************)
(* initPartial(): in partial mode a new sentence with constraints of its   *)
(* own, the copy of what is left of the text; else nothing changes.        *)
(***************************************************************************)
LEMMA InitPartialFacts ==
  ASSUME NEW l \in Lattices, Fits(l), NEW text \in Texts
  PROVE  LET p == InitPartial(l, text)
             partial == "PARTIAL" \in l.requestType
         IN
         /\ p \in Lattices /\ Fits(p)
         /\ p.requestType = l.requestType
         /\ p.parsed = IF partial THEN NoText ELSE l.parsed
         /\ p.thetaUsed = IF partial THEN "none" ELSE l.thetaUsed
         /\ p.size = IF partial THEN Size[Partial[text]] ELSE l.size
         /\ p.sentence = IF partial THEN InFreeList(Partial[text]) ELSE l.sentence
         /\ p.theta = IF partial THEN "default" ELSE l.theta
<1>1. CASE "PARTIAL" \notin l.requestType
  <2>1. InitPartial(l, text) \in {l, SetBoundary(l)}
    BY <1>1 DEF InitPartial
  <2> QED
    BY <1>1, <2>1, ConstraintFacts
<1>2. CASE "PARTIAL" \in l.requestType
  <2> DEFINE s == SetSentence(l, InLocal(Partial[text]), Partial[text])
  <2>1. Partial[text] \in Texts
    BY LatticeAssumption
  <2>2. InLocal(Partial[text]) \in Sentences
    BY <2>1 DEF Sentences
  <2>3. /\ s \in Lattices /\ s.requestType = l.requestType
        /\ s.sentence = InFreeList(Partial[text]) /\ s.size = Size[Partial[text]]
        /\ s.boundary = 0 /\ s.features = 0 /\ s.parsed = NoText
        /\ s.thetaUsed = "none" /\ s.theta = "default"
    BY <1>2, <2>1, <2>2, SetSentenceFacts DEF AllowAllocate
  <2>4. InitPartial(l, text) \in {SetBoundary(s), SetFeature(s)}
    BY <1>2 DEF InitPartial
  <2> HIDE DEF s
  <2>5. Fits(s)
    BY <2>3 DEF Fits
  <2> QED
    BY <1>2, <2>3, <2>4, <2>5, ConstraintFacts
<1> QED
  BY <1>1, <1>2

-----------------------------------------------------------------------------
(* The properties of TaggerSession, of a lattice l and what it was made of. *)
Outlives(l) == l.sentence.memory \notin {"local", "started over"}
Searchable(l) == l.parsed # NoText /\ "NBEST" \in l.requestType => l.agenda.live
Answers(l, text, t) ==
  l.parsed # NoText =>
    /\ l.parsed = IF "PARTIAL" \in l.requestType THEN Partial[text] ELSE text
    /\ l.thetaUsed = IF "MARGINAL_PROB" \notin l.requestType THEN "none"
                     ELSE IF "PARTIAL" \in l.requestType THEN "default" ELSE t

Consistent(l, text, t) ==
  l \in Lattices /\ Fits(l) /\ Outlives(l) /\ Searchable(l) /\ Answers(l, text, t)

TaggerInvariant ==
  /\ buffer \in Texts
  /\ requestType \in SUBSET Flags /\ theta \in Thetas
  /\ Consistent(lattice, argument.text, argument.theta)

-----------------------------------------------------------------------------
(***************************************************************************)
(* A parse, whatever state the lattice was in: what it leaves is           *)
(* consistent with the call's text and the tagger's theta.                 *)
(***************************************************************************)
Cleared(l) ==
  l \in Lattices /\ l.boundary = 0 /\ l.features = 0 /\ l.parsed = NoText
    /\ l.thetaUsed = "none"

LEMMA PreparedFacts ==
  ASSUME NEW extra \in SUBSET Flags, lattice \in Lattices, buffer \in Texts,
         requestType \in SUBSET Flags, theta \in Thetas
  PROVE  /\ Cleared(Prepared(extra))
         /\ Prepared(extra).sentence \in {InCaller, InFreeList(buffer)}
         /\ Prepared(extra).theta = theta
<1> DEFINE s == SetSentence(lattice, InCaller, buffer)
<1>1. InCaller \in Sentences
  BY DEF Sentences
<1>2. /\ s \in Lattices /\ s.sentence \in {InCaller, InFreeList(buffer)}
      /\ s.boundary = 0 /\ s.features = 0 /\ s.parsed = NoText /\ s.thetaUsed = "none"
  BY <1>1, SetSentenceFacts
<1>3. Prepared(extra) = [s EXCEPT !.requestType = requestType \cup extra, !.theta = theta]
  BY DEF Prepared
<1>4. requestType \cup extra \in SUBSET Flags
  OBVIOUS
<1> HIDE DEF s
<1> QED
  BY <1>2, <1>3, <1>4 DEF Lattices, Cleared

LEMMA ParseFacts ==
  ASSUME NEW extra \in SUBSET Flags, lattice \in Lattices, buffer \in Texts,
         requestType \in SUBSET Flags, theta \in Thetas
  PROVE  Consistent(Analyze(Prepared(extra), buffer), buffer, theta)
<1> DEFINE l == Prepared(extra)
           p == InitPartial(l, buffer)
           a == [p EXCEPT !.layers = @ + 1]
           partial == "PARTIAL" \in l.requestType
<1>1. /\ Cleared(l) /\ l.theta = theta
      /\ l.sentence \in {InCaller, InFreeList(buffer)}
  BY PreparedFacts
<1>2. l.sentence # NoSentence /\ Read(l, buffer) = buffer
  BY <1>1 DEF InCaller, InFreeList, NoSentence, Read
<1> SUFFICES Consistent(Analyze(l, buffer), buffer, theta)
  OBVIOUS
<1> HIDE DEF l
<1>3. /\ p \in Lattices /\ Fits(p) /\ p.requestType = l.requestType
      /\ p.parsed = NoText /\ p.thetaUsed = "none"
      /\ p.sentence = IF partial THEN InFreeList(Partial[buffer]) ELSE l.sentence
      /\ p.theta = IF partial THEN "default" ELSE l.theta
  BY <1>1, InitPartialFacts DEF Cleared, Fits
<1>4. p.sentence \in {InCaller, InFreeList(buffer), InFreeList(Partial[buffer])}
  BY <1>1, <1>3
<1>5. Text(l, buffer) = IF partial THEN Partial[buffer] ELSE buffer
  BY <1>1, <1>2, <1>3 DEF Text, Read, InCaller, InFreeList
<1>6. Text(l, buffer) \in Texts
  BY <1>5, LatticeAssumption
<1>7. Analyze(l, buffer) =
        IF ~CanAnalyze(l, buffer) THEN a
        ELSE StartNBest([a EXCEPT
               !.parsed = Text(l, buffer),
               !.thetaUsed = IF "MARGINAL_PROB" \in a.requestType THEN a.theta ELSE @])
  BY <1>2 DEF Analyze
<1> HIDE DEF p
<1>8. /\ a \in Lattices /\ a.boundary = p.boundary /\ a.features = p.features
      /\ a.size = p.size /\ a.requestType = p.requestType /\ a.parsed = NoText
      /\ a.thetaUsed = "none" /\ a.sentence = p.sentence /\ a.theta = p.theta
  BY <1>3 DEF Lattices
<1> HIDE DEF a
<1>9. Fits(a) /\ Outlives(a)
  <2>1. Fits(a)
    BY <1>3, <1>8 DEF Fits
  <2>2. a.sentence.memory \in {"caller", "own"}
    BY <1>4, <1>8 DEF InCaller, InFreeList
  <2> QED
    BY <2>1, <2>2 DEF Outlives
<1>10. CASE ~CanAnalyze(l, buffer)
  BY <1>7, <1>8, <1>9, <1>10 DEF Consistent, Searchable, Answers
<1>11. CASE CanAnalyze(l, buffer)
  <2> DEFINE used == IF "MARGINAL_PROB" \in a.requestType THEN a.theta ELSE a.thetaUsed
             d == [a EXCEPT !.parsed = Text(l, buffer), !.thetaUsed = used]
             n == [d EXCEPT !.agenda = [live |-> TRUE, left |-> NPaths]]
  <2>1. used \in Thetas \cup {"none"}
    BY <1>8 DEF Lattices
  <2> HIDE DEF used
  <2>2. /\ d \in Lattices /\ d.parsed = Text(l, buffer) /\ d.thetaUsed = used
        /\ d.boundary = a.boundary /\ d.features = a.features /\ d.size = a.size
        /\ d.requestType = a.requestType /\ d.sentence = a.sentence
    BY <1>6, <1>8, <2>1 DEF Lattices
  <2>3. Answers(d, buffer, theta)
    BY <1>1, <1>3, <1>5, <1>8, <2>2 DEF Answers, used
  <2>4. Fits(d) /\ Outlives(d)
    BY <1>9, <2>2 DEF Fits, Outlives
  <2>5. Analyze(l, buffer) = IF "NBEST" \in d.requestType THEN n ELSE d
    BY <1>7, <1>11 DEF StartNBest, used
  <2> HIDE DEF d
  <2>6. /\ n \in Lattices /\ n.parsed = d.parsed /\ n.thetaUsed = d.thetaUsed
        /\ n.boundary = d.boundary /\ n.features = d.features /\ n.size = d.size
        /\ n.requestType = d.requestType /\ n.sentence = d.sentence
        /\ n.agenda.live = TRUE
    <3>1. [live |-> TRUE, left |-> NPaths] \in [live : BOOLEAN, left : Nat]
      BY LatticeAssumption
    <3> QED
      BY <2>2, <3>1 DEF Lattices
  <2> HIDE DEF n
  <2>7. CASE "NBEST" \in d.requestType
    <3>1. Fits(n)
      BY <2>4, <2>6 DEF Fits
    <3>2. Outlives(n)
      BY <2>4, <2>6 DEF Outlives
    <3>3. Answers(n, buffer, theta)
      BY <2>3, <2>6 DEF Answers
    <3>4. Searchable(n)
      BY <2>6 DEF Searchable
    <3> QED
      BY <2>5, <2>6, <2>7, <3>1, <3>2, <3>3, <3>4 DEF Consistent
  <2>8. CASE "NBEST" \notin d.requestType
    BY <2>2, <2>3, <2>4, <2>5, <2>8 DEF Consistent, Searchable
  <2> QED
    BY <2>7, <2>8
<1> QED
  BY <1>10, <1>11

(* next() and enumNBestAsString() take results from the agenda, no more. *)
LEMMA NextFacts ==
  ASSUME NEW l, NEW text, NEW t, Consistent(l, text, t), NEW n \in Nat
  PROVE  Consistent(NextOf(l, n), text, t)
<1> DEFINE left == IF l.agenda.left < n THEN 0 ELSE l.agenda.left - n
           k == [l EXCEPT !.agenda = [l.agenda EXCEPT !.left = left]]
<1>1. l \in Lattices /\ l.agenda \in [live : BOOLEAN, left : Nat]
  BY DEF Consistent, Lattices
<1>2. left \in Nat
  BY <1>1
<1> HIDE DEF left
<1>3. /\ [l.agenda EXCEPT !.left = left] \in [live : BOOLEAN, left : Nat]
      /\ [l.agenda EXCEPT !.left = left].live = l.agenda.live
  BY <1>1, <1>2
<1>4. /\ k \in Lattices /\ k.parsed = l.parsed /\ k.thetaUsed = l.thetaUsed
      /\ k.boundary = l.boundary /\ k.features = l.features /\ k.size = l.size
      /\ k.requestType = l.requestType /\ k.sentence = l.sentence
      /\ k.agenda.live = l.agenda.live
  BY <1>1, <1>3 DEF Lattices
<1>5. NextOf(l, n) = IF "NBEST" \in l.requestType THEN k ELSE l
  BY DEF NextOf, left
<1> HIDE DEF k
<1>6. Consistent(k, text, t)
  BY <1>4 DEF Consistent, Fits, Outlives, Searchable, Answers
<1> QED
  BY <1>5, <1>6

-----------------------------------------------------------------------------
LEMMA InitInvariant == Init => TaggerInvariant
<1> SUFFICES ASSUME Init PROVE TaggerInvariant
  OBVIOUS
<1>1. buffer \in Texts /\ theta \in Thetas /\ requestType \in SUBSET Flags
  BY CallerAssumption DEF Init, Thetas
<1>2. NewLattice \in Lattices
  BY DEF NewLattice, NoAgenda, Lattices, Sentences, Thetas
<1>3. /\ NewLattice.boundary = 0 /\ NewLattice.features = 0
      /\ NewLattice.parsed = NoText /\ NewLattice.sentence = NoSentence
  BY DEF NewLattice
<1>4. NoSentence.memory = "none"
  BY DEF NoSentence
<1>5. Consistent(lattice, argument.text, argument.theta)
  BY <1>2, <1>3, <1>4 DEF Init, Consistent, Fits, Outlives, Searchable, Answers
<1> QED
  BY <1>1, <1>5 DEF TaggerInvariant

LEMMA NextInvariant == TaggerInvariant /\ [Next]_vars => TaggerInvariant'
<1> SUFFICES ASSUME TaggerInvariant, [Next]_vars PROVE TaggerInvariant'
  OBVIOUS
<1> USE DEF TaggerInvariant
<1>0. lattice \in Lattices
  BY DEF Consistent
<1>1. CASE CallerWrites
  BY <1>1 DEF CallerWrites
<1>2. CASE SetRequestType
  BY <1>2, CallerAssumption DEF SetRequestType
<1>3. CASE SetTheta
  BY <1>3 DEF SetTheta
<1>4. ASSUME NEW level \in 0..2, SetLatticeLevel(level)
      PROVE  TaggerInvariant'
  <2>1. LevelFlags[level] \in SUBSET Flags
    BY DEF LevelFlags, Flags
  <2> QED
    BY <1>4, <2>1 DEF SetLatticeLevel
<1>5. CASE Parse
  <2>1. Consistent(Analyze(Prepared({}), buffer), buffer, theta)
    BY <1>0, ParseFacts
  <2> QED
    BY <1>5, <2>1 DEF Parse, Parsing
<1>6. Consistent(Analyze(Prepared({"NBEST"}), buffer), buffer, theta)
  <2>1. {"NBEST"} \in SUBSET Flags
    BY DEF Flags
  <2> QED
    BY <1>0, <2>1, ParseFacts
<1>7. CASE ParseNBestInit
  BY <1>6, <1>7 DEF ParseNBestInit, Parsing
<1>8. ASSUME NEW n \in Counts, ParseNBest(n)
      PROVE  TaggerInvariant'
  <2> DEFINE l == Analyze(Prepared({"NBEST"}), buffer)
  <2>1. n \in Nat
    BY CallerAssumption
  <2>2. lattice' \in {l, NextOf(l, n)}
    BY <1>8 DEF ParseNBest, EnumNBest
  <2> HIDE DEF l
  <2>3. Consistent(lattice', buffer, theta)
    BY <1>6, <2>1, <2>2, NextFacts DEF l
  <2> QED
    BY <1>8, <2>3 DEF ParseNBest, Parsing
<1>9. CASE NextResult
  <2>1. Consistent(NextOf(lattice, 1), argument.text, argument.theta)
    BY NextFacts
  <2> QED
    BY <1>9, <2>1 DEF NextResult
<1>10. CASE UNCHANGED vars
  BY <1>10 DEF vars
<1> QED
  BY <1>1, <1>2, <1>3, <1>4, <1>5, <1>7, <1>8, <1>9, <1>10 DEF Next

LEMMA Invariance == Spec => []TaggerInvariant
BY InitInvariant, NextInvariant, PTL DEF Spec

(***************************************************************************)
(* The constraint vectors of the tagger's lattice always have the length   *)
(* of its sentence, so the tokenizer's unchecked accesses stay inside.     *)
(***************************************************************************)
THEOREM ConstraintsAlwaysFit == Spec => []ConstraintsFit
<1>1. TaggerInvariant => ConstraintsFit
  BY DEF TaggerInvariant, Consistent, Fits, ConstraintsFit
<1> QED
  BY <1>1, Invariance, PTL

(***************************************************************************)
(* Between calls the sentence is never in memory that is gone: neither in  *)
(* the buffer of initPartial() nor in a string handed out again.           *)
(***************************************************************************)
THEOREM SentenceAlwaysOutlives == Spec => []SentenceOutlivesCall
<1>1. TaggerInvariant => SentenceOutlivesCall
  BY DEF TaggerInvariant, Consistent, Outlives, SentenceOutlivesCall
<1> QED
  BY <1>1, Invariance, PTL

(***************************************************************************)
(* After a successful parse for N-best, next() enumerates that parse.      *)
(***************************************************************************)
THEOREM ResultsAreOfLastParse == Spec => []ResultsOfLastParse
<1>1. TaggerInvariant => ResultsOfLastParse
  BY DEF TaggerInvariant, Consistent, Searchable, ResultsOfLastParse
<1> QED
  BY <1>1, Invariance, PTL

(***************************************************************************)
(* Whatever was parsed and set before, a successful parse is of the text   *)
(* passed to it and uses the theta of the tagger, or in partial mode the   *)
(* stripped text and the default theta.                                    *)
(***************************************************************************)
THEOREM ParsesItsArgument == Spec => []ParsesArgument
<1>1. TaggerInvariant => ParsesArgument
  BY DEF TaggerInvariant, Consistent, Answers, ParsesArgument, InPartialMode
<1> QED
  BY <1>1, Invariance, PTL
=============================================================================
