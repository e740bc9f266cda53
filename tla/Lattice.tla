------------------------------ MODULE Lattice -------------------------------
(***************************************************************************)
(* LatticeImpl (mecab-0.996/src/tagger.cpp) and what Viterbi::analyze      *)
(* makes of it, as operators on a record.  What matters here is which      *)
(* sentence each part of a lattice belongs to and whose memory it is in;   *)
(* how a sentence is cut is the subject of Viterbi.                        *)
(*                                                                         *)
(* Nodes, paths and copied strings are taken from free lists, which        *)
(* clear() starts over: what was taken from them before is overwritten by  *)
(* later nodes and strings, it is no longer live.                          *)
(***************************************************************************)
EXTENDS Integers

CONSTANTS
  Texts,              \* sentences a caller may pass
  TooLong,            \* those that the search refuses
  NPaths              \* how many ways there are to cut a sentence

(***************************************************************************)
(* A text in the format of partial parsing is its tokens, joined, with the *)
(* features some of them have: record `partial' of such a text.            *)
(***************************************************************************)
CONSTANTS Size, Partial, HasFeature

ASSUME LatticeAssumption ==
  /\ TooLong \subseteq Texts
  /\ NPaths \in Nat \ {0}
  /\ Size \in [Texts -> Nat]
  /\ Partial \in [Texts -> Texts]
  /\ HasFeature \subseteq Texts

Flags == {"NBEST", "PARTIAL", "MARGINAL_PROB", "ALL_MORPHS", "ALLOCATE_SENTENCE"}
AllowAllocate == {"ALLOCATE_SENTENCE", "PARTIAL"}

(* sentence_: null, into the caller's memory, into the buffer of a function *)
(* that has returned, or a copy in the lattice's own free list.             *)
NoSentence == [memory |-> "none"]
InCaller == [memory |-> "caller"]
InLocal(text) == [memory |-> "local", text |-> text]
InFreeList(text) == [memory |-> "own", text |-> text]
NotLive(text) == [memory |-> "started over", text |-> text]

Thetas == {"default", "chosen"}

NoText == "no text"
NoAgenda == [live |-> FALSE, left |-> 0]

NewLattice ==
  [sentence |-> NoSentence, size |-> 0, requestType |-> {}, theta |-> "default",
   layers |-> 0,        \* analyses whose nodes are in begin_nodes_, end_nodes_
   parsed |-> NoText,   \* the text the last complete analysis was of
   thetaUsed |-> "none",   \* the one Z_ and the probabilities were made with
   boundary |-> 0, features |-> 0,     \* lengths of the constraint vectors
   agenda |-> NoAgenda]

(* The states of sentence_ and of a lattice. *)
Sentences ==
  {NoSentence, InCaller} \cup {InLocal(t) : t \in Texts}
    \cup {InFreeList(t) : t \in Texts} \cup {NotLive(t) : t \in Texts}

Lattices ==
  [sentence : Sentences, size : Nat, requestType : SUBSET Flags, theta : Thetas,
   layers : Nat, parsed : Texts \cup {NoText}, thetaUsed : Thetas \cup {"none"},
   boundary : Nat, features : Nat, agenda : [live : BOOLEAN, left : Nat]]

(* Whatever constraints there are were made for a sentence of this size. *)
Fits(l) == l.boundary \in {0, l.size + 4} /\ l.features \in {0, l.boundary}

-----------------------------------------------------------------------------
ClearKeepConstraints(l) ==    \* mutant: the constraint vectors are forgotten
  [l EXCEPT !.agenda.live = FALSE, !.layers = 0, !.parsed = NoText,
            !.size = 0, !.theta = "default", !.thetaUsed = "none",
            !.sentence = NoSentence]

Clear(l) ==
  [l EXCEPT !.agenda.live = FALSE, !.layers = 0, !.parsed = NoText,
            !.boundary = 0, !.features = 0,
            !.size = 0, !.theta = "default", !.thetaUsed = "none",
            !.sentence = NoSentence]

SetSentenceAllocate(l, pointer, text) ==    \* mutant: PARTIAL does not copy
  LET c == Clear(l) IN
  [c EXCEPT !.sentence = IF "ALLOCATE_SENTENCE" \in l.requestType
                         THEN InFreeList(text) ELSE pointer,
            !.size = Size[text]]

SetSentenceUncleared(l, pointer, text) ==    \* mutant: clear() is not called
  [l EXCEPT !.sentence = IF l.requestType \cap AllowAllocate # {}
                         THEN InFreeList(text) ELSE pointer,
            !.size = Size[text]]

(* set_sentence(): pointer is what the caller passes, text what it reads. *)
SetSentence(l, pointer, text) ==
  LET c == Clear(l) IN
  [c EXCEPT !.sentence = IF l.requestType \cap AllowAllocate # {}
                         THEN InFreeList(text) ELSE pointer,
            !.size = Size[text]]

Read(l, buffer) == IF l.sentence = InCaller THEN buffer ELSE l.sentence.text

(***************************************************************************)
(* initPartial(): the constraints of a text in partial format replace all  *)
(* others, and set_sentence() is called for what is left of the text.      *)
(***************************************************************************)
SetBoundary(l) == [l EXCEPT !.boundary = IF @ = 0 THEN l.size + 4 ELSE @]
SetFeatureOnly(l) ==    \* mutant: the boundaries of the token are not set
  [l EXCEPT !.features = IF @ = 0 THEN l.size + 4 ELSE @]
SetFeature(l) ==
  [SetBoundary(l) EXCEPT !.features = IF @ = 0 THEN l.size + 4 ELSE @]

InitPartial(l, text) ==
  IF "PARTIAL" \notin l.requestType
  THEN IF l.boundary # 0 THEN SetBoundary(l) ELSE l
  ELSE LET s == SetSentence(l, InLocal(Partial[text]), Partial[text]) IN
       IF text \in HasFeature THEN SetFeature(s) ELSE SetBoundary(s)

(***************************************************************************)
(* The buffer initPartial() writes the stripped text and its zero byte     *)
(* into has room for lattice->size() bytes.  A text that has nothing to    *)
(* strip, not even the line `EOS' partial.html asks for, does not fit:     *)
(* os.str() is null, and set_sentence() ends the process.                  *)
(***************************************************************************)
Text(l, buffer) == Read(InitPartial(l, Read(l, buffer)), buffer)

Survives(l, buffer) ==
  l.sentence # NoSentence /\ "PARTIAL" \in l.requestType =>
    Size[Partial[Read(l, buffer)]] < l.size

(***************************************************************************)
(* analyze(): a lattice without a sentence is refused, one with a sentence *)
(* that is too long only after nodes were added to it.                     *)
(***************************************************************************)
CanAnalyze(l, buffer) ==
  l.sentence # NoSentence /\ Text(l, buffer) \notin TooLong

StartNBestNever(l) == l    \* mutant: initNBest() does nothing

StartNBest(l) ==
  IF "NBEST" \in l.requestType
  THEN [l EXCEPT !.agenda = [live |-> TRUE, left |-> NPaths]]
  ELSE l

Analyze(l, buffer) ==
  IF l.sentence = NoSentence THEN l ELSE
  LET p == [InitPartial(l, Read(l, buffer)) EXCEPT !.layers = @ + 1] IN
  IF ~CanAnalyze(l, buffer) THEN p
  ELSE StartNBest([p EXCEPT
         !.parsed = Text(l, buffer),
         !.thetaUsed = IF "MARGINAL_PROB" \in p.requestType THEN p.theta ELSE @])

-----------------------------------------------------------------------------
(* next(): n results, as far as there are any, are taken from the agenda. *)
CanNext(l) == "NBEST" \in l.requestType /\ l.agenda.left > 0

NextOf(l, n) ==
  IF "NBEST" \in l.requestType
  THEN [l EXCEPT !.agenda.left = IF @ < n THEN 0 ELSE @ - n]
  ELSE l

(* enumNBestAsString(n), which refuses other numbers than 1 to 512. *)
NBEST_MAX == 512
EnumNBest(l, n) == IF n \in 1..NBEST_MAX THEN NextOf(l, n) ELSE l

(***************************************************************************)
(* set_result(): the text of the given result becomes the sentence and its *)
(* nodes the lattice.                                                      *)
(***************************************************************************)
SetResult(l, text) ==
  [SetSentence(l, NotLive(text), text)
     EXCEPT !.layers = 1, !.parsed = text]
=============================================================================
