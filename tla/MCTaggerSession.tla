-------------------------- MODULE MCTaggerSession --------------------------
(***************************************************************************)
(* A plain text and one that is too long; two texts in partial format,     *)
(* one with features that stands for the first, one without that stands    *)
(* for the second.                                                         *)
(***************************************************************************)
EXTENDS TaggerSession

MCSize == [plain |-> 2, marked |-> 8, huge |-> 4, fragments |-> 9]
MCPartial == [plain |-> "plain", marked |-> "plain", huge |-> "huge", fragments |-> "huge"]
=============================================================================
