---------------------------- MODULE DoubleArray ----------------------------
(***************************************************************************)
(* Darts::DoubleArrayImpl (mecab-0.996/src/darts.h): a trie over byte      *)
(* strings in two arrays, built from sorted keys and searched for one key  *)
(* or for all keys a text begins with.  A node of the trie is a cell; its  *)
(* children are the cells base + code, each of which names that base in    *)
(* check.  Code 0 ends a key, code c + 1 is byte c.  The arrays are zero   *)
(* wherever nothing was stored; that they grow, and how large they are, is left out.*)
(***************************************************************************)
EXTENDS Integers, Sequences, FiniteSets, FiniteSetsExt, SequencesExt, Ordering

VARIABLES
  key, value,        \* key_, value_: what is built in
  base, check,       \* array_
  used,              \* used_: the bases in use
  nextCheckPos,      \* next_check_pos_
  todo,              \* siblings that insert() still has to visit, next first
  error              \* error_

arrayVars == <<key, value, base, check, used, nextCheckPos, todo, error>>

At(f, p) == IF p \in DOMAIN f THEN f[p] ELSE 0

-----------------------------------------------------------------------------
(* build() *)

Code(i, depth) == IF Len(key[i]) = depth THEN 0 ELSE key[i][depth + 1] + 1

(* The keys left .. right - 1 that are long enough to have a code. *)
Within(n) == {i \in n.left..(n.right - 1) : Len(key[i]) >= n.depth}
Codes(n) == {Code(i, n.depth) : i \in Within(n)}
InOrder(n) == \A i, j \in Within(n) : i < j => Code(i, n.depth) <= Code(j, n.depth)

(* fetch(): the children of a node, one for each code, in order. *)
Fetch(n) ==
  LET first(c) == Min({i \in Within(n) : Code(i, n.depth) = c})
      after(c) == {d \in Codes(n) : d > c}
      child(c) == [depth |-> n.depth + 1, code |-> c, left |-> first(c),
                   right |-> IF after(c) = {} THEN n.right ELSE first(Min(after(c)))]
      codes == Ascending(Codes(n))
  IN [k \in 1..Len(codes) |-> child(codes[k])]

(* Cells where the children could be put, scanned upwards from a start. *)
StartPos(codes) == Max({Min(codes) + 1, nextCheckPos})
FitsUnused(codes, p) ==    \* mutant: two nodes may get the same base
  \A c \in codes : At(check, p - Min(codes) + c) = 0
Fits(codes, p) ==
  /\ p - Min(codes) \notin used
  /\ \A c \in codes : At(check, p - Min(codes) + c) = 0

Highest(codes) ==    \* the scan ends there at the latest: all above is free
  Max({StartPos(codes)} \cup DOMAIN check \cup used) + Max(codes) + 1
FirstPos(codes) ==
  Min({p \in StartPos(codes)..Highest(codes) : Fits(codes, p)})

(* Where the next scan starts, so that full stretches are left out. *)
NextCheckPos(codes, pos) ==
  LET free == Min({p \in StartPos(codes)..pos : At(check, p) = 0})
      full == Cardinality({p \in StartPos(codes)..pos : At(check, p) # 0})
  IN IF 100 * full >= 95 * (pos - free + 1) THEN pos ELSE free

Begin(codes) == FirstPos(codes) - Min(codes)

StartBuild(keys, values) ==
  /\ key' = keys /\ value' = values
  /\ base' = [p \in {0} |-> 1] /\ check' = << >>
  /\ used' = {} /\ nextCheckPos' = 0 /\ error' = 0
  /\ todo' = <<[cell |-> 0, depth |-> 0, left |-> 1, right |-> Len(keys) + 1]>>

Building == todo # << >>

(* A key ends here: its value, which must not be negative. *)
Leaf ==
  LET n == Head(todo) IN
  /\ Building /\ Within(n) = {}
  /\ base' = [p \in DOMAIN base \cup {n.cell} |->
                IF p = n.cell THEN -value[n.left] - 1 ELSE base[p]]
  /\ error' = IF value[n.left] < 0 THEN -2 ELSE error
  /\ todo' = IF value[n.left] < 0 THEN << >> ELSE Tail(todo)
  /\ UNCHANGED <<key, value, check, used, nextCheckPos>>

(* insert(): the children get cells, and are visited before what follows.  *)
(* Keys that are not sorted, error -3, cannot come from a dictionary.      *)
Insert ==
  LET n == Head(todo)
      codes == Codes(n)
      begin == Begin(codes)
      cells == {begin + c : c \in codes}
      children == Fetch(n)
  IN
  /\ Building /\ Within(n) # {} /\ InOrder(n)
  /\ nextCheckPos' = NextCheckPos(codes, FirstPos(codes))
  /\ used' = used \cup {begin}
  /\ check' = [p \in DOMAIN check \cup cells |-> IF p \in cells THEN begin ELSE check[p]]
  /\ base' = [p \in DOMAIN base \cup {n.cell} |-> IF p = n.cell THEN begin ELSE base[p]]
  /\ todo' = [k \in 1..Len(children) |->
                [cell |-> begin + children[k].code, depth |-> children[k].depth,
                 left |-> children[k].left, right |-> children[k].right]]
             \o Tail(todo)
  /\ UNCHANGED <<key, value, error>>

BuildStep == Leaf \/ Insert

-----------------------------------------------------------------------------
(* Searching *)

(* The base that is reached over the first i bytes of a text, or 0. *)
Walk(text) ==
  LET f[i \in 0..Len(text)] ==
        IF i = 0 THEN At(base, 0)
        ELSE LET b == f[i - 1]
                 p == b + text[i] + 1
             IN IF b # 0 /\ At(check, p) = b THEN At(base, p) ELSE 0
  IN f

Ends(b) == b > 0 /\ At(check, b) = b /\ At(base, b) < 0

(* commonPrefixSearch(): the values of all keys text begins with, shortest *)
(* first, each with its length.                                            *)
CommonPrefixSearch(text) ==
  LET walk == Walk(text)
      hits == {i \in 0..Len(text) : Ends(walk[i])}
      at == Ascending(hits)
  IN [k \in 1..Len(at) |-> [value |-> -At(base, walk[at[k]]) - 1, length |-> at[k]]]

(* exactMatchSearch(): the value of a key, -1 if there is none. *)
ExactMatchSearch(text) ==
  LET b == Walk(text)[Len(text)]
  IN IF Ends(b) THEN -At(base, b) - 1 ELSE -1
=============================================================================
