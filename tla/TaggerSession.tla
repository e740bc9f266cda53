--------------------------- MODULE TaggerSession ----------------------------
(***************************************************************************)
(* TaggerImpl (mecab-0.996/src/tagger.cpp) with the lattice it keeps for   *)
(* itself: one caller, any sequence of calls, the caller writing into its  *)
(* text buffer between them.  What a call returns as a string is left out: *)
(* formatting a result, or failing to, changes the output buffer and the   *)
(* error message only.                                                     *)
(***************************************************************************)
EXTENDS Lattice

CONSTANTS       \* what the caller passes
  Counts,       \* to parseNBest()
  Settable      \* to set_request_type() and the setters of single flags

ASSUME CallerAssumption == Counts \subseteq Nat /\ Settable \subseteq Flags

VARIABLES
  buffer,                  \* the text in the caller's memory
  lattice,
  requestType, theta,      \* of the tagger
  argument                 \* text and theta of the last parse

vars == <<buffer, lattice, requestType, theta, argument>>

Init ==
  /\ buffer \in Texts
  /\ lattice = NewLattice
  /\ requestType \in {{}} \cup {{f} : f \in Settable}
  /\ theta = "default"
  /\ argument = [text |-> NoText, theta |-> "default"]

-----------------------------------------------------------------------------
(* The caller's memory and the setters. *)

CallerWrites ==
  /\ buffer' \in Texts
  /\ UNCHANGED <<lattice, requestType, theta, argument>>

SetRequestType ==
  /\ \E f \in Settable :
       requestType' \in {requestType \cup {f}, requestType \ {f}}
  /\ UNCHANGED <<buffer, lattice, theta, argument>>

SetTheta ==
  /\ theta' \in Thetas
  /\ UNCHANGED <<buffer, lattice, requestType, argument>>

(* set_lattice_level(): flags are added and never taken away. *)
LevelFlags == [level \in 0..2 |->
  CASE level = 0 -> {} [] level = 1 -> {"NBEST"} [] level = 2 -> {"MARGINAL_PROB"}]

SetLatticeLevel(level) ==
  /\ requestType' = requestType \cup LevelFlags[level]
  /\ UNCHANGED <<buffer, lattice, theta, argument>>

-----------------------------------------------------------------------------
(***************************************************************************)
(* The beginning of every parse: set_sentence(), then initRequestType(),   *)
(* then analyze().  extra is NBEST in the N-best functions.                *)
(***************************************************************************)
PreparedOnce(extra) ==    \* mutant: a sentence that is set is not replaced
  [(IF lattice.sentence = NoSentence THEN SetSentence(lattice, InCaller, buffer)
    ELSE [Clear(lattice) EXCEPT !.sentence = lattice.sentence, !.size = lattice.size])
   EXCEPT !.requestType = requestType \cup extra, !.theta = theta]

Prepared(extra) ==
  [SetSentence(lattice, InCaller, buffer) EXCEPT
     !.requestType = requestType \cup extra, !.theta = theta]

Parsing(extra) ==
  /\ Survives(Prepared(extra), buffer)
  /\ argument' = [text |-> buffer, theta |-> theta]
  /\ UNCHANGED <<buffer, requestType, theta>>

(* parse() and parseToNode() *)
Parse ==
  /\ Parsing({})
  /\ lattice' = Analyze(Prepared({}), buffer)

ParseNBestInit ==
  /\ Parsing({"NBEST"})
  /\ lattice' = Analyze(Prepared({"NBEST"}), buffer)

ParseNBest(n) ==
  /\ Parsing({"NBEST"})
  /\ LET l == Analyze(Prepared({"NBEST"}), buffer) IN
     lattice' = IF CanAnalyze(Prepared({"NBEST"}), buffer) THEN EnumNBest(l, n) ELSE l

(* next() and nextNode() *)
NextResult ==
  /\ lattice' = NextOf(lattice, 1)
  /\ UNCHANGED <<buffer, requestType, theta, argument>>

Next ==
  \/ CallerWrites \/ SetRequestType \/ SetTheta
  \/ \E level \in 0..2 : SetLatticeLevel(level)
  \/ Parse \/ ParseNBestInit
  \/ \E n \in Counts : ParseNBest(n)
  \/ NextResult

Spec == Init /\ [][Next]_vars

-----------------------------------------------------------------------------
(***************************************************************************)
(* The constraint vectors were made for the sentence that is set now: the  *)
(* tokenizer indexes them by position without a check.                     *)
(***************************************************************************)
ConstraintsFit ==
  /\ lattice.boundary \in {0, lattice.size + 4}
  /\ lattice.features \in {0, lattice.size + 4}

(***************************************************************************)
(* No sentence is left in the buffer of initPartial(), which has returned, *)
(* or in a string the free list has handed out again.                      *)
(***************************************************************************)
SentenceOutlivesCall ==
  lattice.sentence.memory \notin {"local", "started over"}

(***************************************************************************)
(* After a parse for N-best that succeeds the agenda next() goes on with   *)
(* was made by that parse, never left behind by an earlier one.            *)
(***************************************************************************)
ResultsOfLastParse ==
  lattice.parsed # NoText /\ "NBEST" \in lattice.requestType => lattice.agenda.live

(***************************************************************************)
(* A successful parse is of the text that was passed to it, stripped of    *)
(* its constraints in partial mode, whatever parses and settings came      *)
(* before; probabilities are computed with the tagger's theta, except in   *)
(* partial mode, where initPartial() puts it back to the default.          *)
(***************************************************************************)
InPartialMode == "PARTIAL" \in lattice.requestType

ParsesArgument ==
  lattice.parsed # NoText =>
    /\ lattice.parsed = IF InPartialMode THEN Partial[argument.text] ELSE argument.text
    /\ lattice.thetaUsed =
         IF "MARGINAL_PROB" \notin lattice.requestType THEN "none"
         ELSE IF InPartialMode THEN "default" ELSE argument.theta
=============================================================================
