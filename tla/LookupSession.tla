--------------------------- MODULE LookupSession ----------------------------
(***************************************************************************)
(* From a lexicon to the words of a sentence: compiling the dictionary     *)
(* (DoubleArray, Dictionary), the constraints a caller or a text in        *)
(* partial format puts on a sentence (LatticeImpl in tagger.cpp,           *)
(* initPartial in viterbi.cpp), and the lookups of Viterbi::viterbi() at   *)
(* every position where a word ends.                                       *)
(***************************************************************************)
EXTENDS Tokenizer

CONSTANTS
  Lexicons, CharDefs,     \* what can be compiled
  Sentences,              \* [memory, lsize] a caller can pass
  Features,               \* features of constraints
  PartialTexts            \* texts in partial format: sequences of
                          \* [surface, feature], feature may be NoFeature

(***************************************************************************)
(* A lexicon has a word; its surfaces, and the texts, are bytes.  A range  *)
(* of char.def has a category, and only such as are defined                *)
(* (char_property.cpp:56).  A sentence is a part of what is in memory.     *)
(***************************************************************************)
ASSUME LookupAssumption ==
  /\ \A lexicon \in Lexicons :
       /\ lexicon \in Seq(ToSet(lexicon))
       /\ \A i \in 1..Len(lexicon) : lexicon[i].surface \in Seq(Nat)
       /\ \E i \in 1..Len(lexicon) : lexicon[i].surface # << >>
  /\ \A ranged \in CharDefs :
       /\ ranged \in Seq(ToSet(ranged))
       /\ \A i \in 1..Len(ranged) : ranged[i].cats \in Seq(CategoryIds) \ {<< >>}
  /\ \A s \in Sentences : s.memory \in Seq(Nat) /\ s.lsize \in 0..Len(s.memory)
  /\ \A lines \in PartialTexts :
       /\ lines \in Seq(ToSet(lines))
       /\ \A i \in 1..Len(lines) : lines[i].surface \in Seq(Nat)

VARIABLES
  phase,
  pos,        \* where viterbi() is
  found       \* the nodes found so far, as [begin, node]

vars == <<dictionaryVars, ranges, latticeVars, phase, pos, found>>

Init ==
  /\ phase = "compile" /\ pos = 0 /\ found = {}
  /\ entries = << >> /\ tokens = << >> /\ ranges = << >>
  /\ key = << >> /\ value = << >> /\ base = << >> /\ check = << >>
  /\ used = {} /\ nextCheckPos = 0 /\ todo = << >> /\ error = 0
  /\ memory = << >> /\ lsize = 0 /\ partial = FALSE
  /\ boundary = << >> /\ feature = << >>

CompileDictionary ==
  /\ phase = "compile"
  /\ \E lexicon \in Lexicons : Compile(lexicon)
  /\ ranges' \in CharDefs
  /\ phase' = "build"
  /\ UNCHANGED <<latticeVars, pos, found>>

Build ==
  /\ phase = "build" /\ BuildStep
  /\ UNCHANGED <<entries, tokens, ranges, latticeVars, phase, pos, found>>

(* The tools check the result of build() and stop, or write the dictionary. *)
Opened ==
  /\ phase = "build" /\ ~Building
  /\ phase' = IF error = 0 THEN "sentence" ELSE "refused"
  /\ UNCHANGED <<dictionaryVars, ranges, latticeVars, pos, found>>

-----------------------------------------------------------------------------
(* Constraints: cs is a record of the two vectors *)

NoConstraints(size) == [boundary |-> [p \in 0..(size + 3) |-> ANY],
                        feature |-> [p \in 0..(size + 3) |-> NoFeature]]

SetBoundary(cs, p, type) == [cs EXCEPT !.boundary[p] = type]

(* set_feature_constraint() *)
SetFeature(cs, size, begin, endPos, f) ==
  LET end == Min({endPos, size}) IN
  IF begin >= endPos THEN cs
  ELSE [boundary |-> [p \in DOMAIN cs.boundary |->
                        IF p \in {begin, end} THEN TOKEN
                        ELSE IF p \in (begin + 1)..(end - 1) THEN INSIDE
                        ELSE cs.boundary[p]],
        feature |-> [cs.feature EXCEPT ![begin] = f]]

TextOf(lines) == FlattenSeq([i \in 1..Len(lines) |-> lines[i].surface])

(* initPartial() with the request type PARTIAL: the constraints line by line. *)
PartialConstraints(lines) ==
  LET size == Len(TextOf(lines))
      after[i \in 0..Len(lines)] ==
        IF i = 0 THEN [cs |-> NoConstraints(size), pos |-> 0]
        ELSE
          LET before == after[i - 1]
              end == before.pos + Len(lines[i].surface)
              cut == SetBoundary(SetBoundary(before.cs, before.pos, TOKEN), end, TOKEN)
          IN [pos |-> end,
              cs |-> IF lines[i].feature = NoFeature THEN cut
                     ELSE SetFeature(cut, size, before.pos, end, lines[i].feature)]
  IN after[Len(lines)].cs

Install(text, size, constrained, cs) ==
  /\ memory' = text /\ lsize' = size /\ partial' = constrained
  /\ boundary' = cs.boundary /\ feature' = cs.feature
  /\ phase' = "viterbi" /\ pos' = 0 /\ found' = {}
  /\ UNCHANGED <<dictionaryVars, ranges>>

(* A sentence without constraints. *)
SetSentence ==
  /\ phase = "sentence"
  /\ \E s \in Sentences : Install(s.memory, s.lsize, FALSE, NoConstraints(s.lsize))

(* A sentence whose caller sets constraints; initPartial() adds both ends. *)
SetConstraints ==
  /\ phase = "sentence"
  /\ \E s \in Sentences :
       \E inner \in [1..(s.lsize - 1) -> {ANY, TOKEN, INSIDE}], f \in Features \cup {NoFeature} :
       \E from \in 0..(s.lsize - 1) : \E to \in (from + 1)..s.lsize :
         LET bounds == [NoConstraints(s.lsize) EXCEPT !.boundary =
                          [p \in DOMAIN @ |-> IF p \in DOMAIN inner THEN inner[p] ELSE ANY]]
             set == IF f = NoFeature THEN bounds
                    ELSE SetFeature(bounds, s.lsize, from, to, f)
         IN Install(s.memory, s.lsize, TRUE,
                    SetBoundary(SetBoundary(set, 0, TOKEN), s.lsize, TOKEN))

InitPartial ==
  /\ phase = "sentence"
  /\ \E lines \in PartialTexts :
       Install(TextOf(lines), Len(TextOf(lines)), TRUE, PartialConstraints(lines))

-----------------------------------------------------------------------------
Reached(p) == p = 0 \/ \E n \in found : n.node.end = p

(* One round of the loop of viterbi(): a lookup where a word ends. *)
LookupAt ==
  /\ phase = "viterbi" /\ pos < lsize
  /\ LET nodes == IF Reached(pos) THEN Lookup(pos) ELSE NoNodes
         dies == nodes = Dies
     IN
     /\ found' = IF dies THEN found
                 ELSE found \cup {[begin |-> pos, node |-> nodes[k]] : k \in 1..Len(nodes)}
     /\ phase' = IF dies THEN "died" ELSE phase
     /\ pos' = IF dies THEN pos ELSE pos + 1
  /\ UNCHANGED <<dictionaryVars, ranges, latticeVars>>

Done ==
  /\ phase = "viterbi" /\ pos = lsize
  /\ phase' = "done"
  /\ UNCHANGED <<dictionaryVars, ranges, latticeVars, pos, found>>

Next == CompileDictionary \/ Build \/ Opened \/ SetSentence \/ SetConstraints
        \/ InitPartial \/ LookupAt \/ Done

Spec == Init /\ [][Next]_vars
=============================================================================
