--------------------------- MODULE LatticeSession ---------------------------
(***************************************************************************)
(* A lattice that a caller made with Model::createLattice() and uses       *)
(* through the Lattice interface (mecab.h:782-1057), parsing it with any   *)
(* tagger: any sequence of calls.                                          *)
(***************************************************************************)
EXTENDS Lattice

CONSTANTS
  Counts,       \* what the caller passes to enumNBestAsString()
  Settable,     \* flags the caller sets
  MaxLayers     \* bound: how often a sentence is parsed without being set anew

ASSUME SettableAssumption == Settable \subseteq Flags

VARIABLES
  buffer,    \* the text in the caller's memory
  lattice,
  live       \* whether the last next() read nodes of the sentence that is set

vars == <<buffer, lattice, live>>

Init ==
  /\ buffer \in Texts
  /\ lattice = NewLattice
  /\ live = TRUE

(* The lattice does not own a sentence that it has not copied: as long as  *)
(* it points to the caller's memory, the caller leaves it alone.           *)
CallerWrites ==
  /\ lattice.sentence # InCaller
  /\ buffer' \in Texts
  /\ UNCHANGED <<lattice, live>>

ClearLattice ==
  /\ lattice' = Clear(lattice)
  /\ UNCHANGED <<buffer, live>>

SetLatticeSentence ==
  /\ lattice' = SetSentence(lattice, InCaller, buffer)
  /\ UNCHANGED <<buffer, live>>

(* set_request_type(), add_request_type() and remove_request_type() *)
SetRequestType ==
  /\ \E f \in Settable :
       lattice' \in {[lattice EXCEPT !.requestType = @ \cup {f}],
                     [lattice EXCEPT !.requestType = @ \ {f}]}
  /\ UNCHANGED <<buffer, live>>

SetTheta ==
  /\ lattice' = [lattice EXCEPT !.theta = "chosen"]
  /\ UNCHANGED <<buffer, live>>

(* The caller sets constraints for positions of the sentence it has set. *)
SetConstraint ==
  /\ lattice.sentence # NoSentence
  /\ lattice' \in {SetBoundary(lattice), SetFeature(lattice)}
  /\ UNCHANGED <<buffer, live>>

(* parse() of a lattice by a tagger; in partial mode it sets the sentence. *)
Parse ==
  /\ lattice.layers < MaxLayers
  /\ Survives(lattice, buffer)
  /\ lattice' = Analyze(lattice, buffer)
  /\ UNCHANGED <<buffer, live>>

NextResult ==
  /\ lattice' = NextOf(lattice, 1)
  /\ live' = (CanNext(lattice) => lattice.agenda.live)
  /\ UNCHANGED buffer

EnumNBestAsString(n) ==
  /\ lattice' = EnumNBest(lattice, n)
  /\ live' = (CanNext(lattice) /\ lattice' # lattice => lattice.agenda.live)
  /\ UNCHANGED buffer

SetGoldenResult ==
  /\ lattice' = SetResult(lattice, Partial[buffer])
  /\ UNCHANGED <<buffer, live>>

Next ==
  \/ CallerWrites \/ ClearLattice \/ SetLatticeSentence \/ SetRequestType
  \/ SetTheta \/ SetConstraint \/ Parse \/ NextResult
  \/ \E n \in Counts : EnumNBestAsString(n)
  \/ SetGoldenResult

Spec == Init /\ [][Next]_vars

-----------------------------------------------------------------------------
(***************************************************************************)
(* The constraint vectors were made for the sentence that is set now: the  *)
(* tokenizer indexes them by position without a check.  Where features are *)
(* constrained there are boundaries too, so that analyze() sees that there *)
(* are constraints.                                                        *)
(***************************************************************************)
ConstraintsFit ==
  /\ lattice.boundary \in {0, lattice.size + 4}
  /\ lattice.features \in {0, lattice.boundary}

(***************************************************************************)
(* The nodes there are belong to the sentence: a parsed lattice has one,   *)
(* and the copy of a partial parse is the text without its constraints.    *)
(***************************************************************************)
ParsedIsSentence ==
  lattice.parsed # NoText =>
    /\ lattice.sentence # NoSentence
    /\ lattice.size = Size[lattice.parsed]
    /\ lattice.sentence # InCaller => lattice.sentence.text = lattice.parsed

(***************************************************************************)
(* mecab.h:892, next() returns false if no more results are available: it  *)
(* never continues the enumeration of a sentence that has been cleared.    *)
(***************************************************************************)
NextReadsLiveNodes == live
=============================================================================
