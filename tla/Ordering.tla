------------------------------ MODULE Ordering ------------------------------
EXTENDS Integers, Sequences, FiniteSets

(* The elements of a finite set of numbers as a sequence, smallest first. *)
Ascending(S) ==
  [k \in 1..Cardinality(S) |-> CHOOSE x \in S : Cardinality({y \in S : y < x}) = k - 1]

(* The elements of a sequence that stand at the places in K, in order. *)
Select(s, K) ==
  LET f[i \in 0..Len(s)] ==
        IF i = 0 THEN << >>
        ELSE IF i \in K THEN Append(f[i - 1], s[i]) ELSE f[i - 1]
  IN f[Len(s)]

(* How often an element is in a sequence. *)
Times(s, e) == Cardinality({n \in DOMAIN s : s[n] = e})
=============================================================================
