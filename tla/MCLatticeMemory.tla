-------------------------- MODULE MCLatticeMemory ---------------------------
(***************************************************************************)
(* Results of one and two lines, without features and with long ones, that *)
(* fit the first chunk, get a chunk of their own, or whose sentence does.  *)
(***************************************************************************)
EXTENDS LatticeMemory, MCLatticeSession

Line(surface, feature) == [surface |-> surface, feature |-> feature]
Result(lines, tail) == [lines |-> lines, tail |-> tail]
MCResults(text) ==
  IF Size[text] = 2
  THEN {Result(<<Line(1, 0), Line(1, 0)>>, "none"), Result(<<Line(2, 1)>>, "EOS"),
        Result(<<Line(1, 3), Line(1, 1)>>, "newline")}
  ELSE {Result(<<Line(1, 3), Line(3, 3)>>, "newline")}
=============================================================================
