-------------------------- MODULE MCLatticeSession --------------------------
(* Texts as in MCTaggerSession. *)
EXTENDS LatticeSession

MCSize == [plain |-> 2, marked |-> 8, huge |-> 4, fragments |-> 9]
MCPartial == [plain |-> "plain", marked |-> "plain", huge |-> "huge", fragments |-> "huge"]
=============================================================================
