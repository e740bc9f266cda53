--------------------------- MODULE LatticeMemory ----------------------------
(***************************************************************************)
(* LatticeSession with the copies of strings that a lattice keeps: its own *)
(* copy of the sentence, and, after set_result(), the features of the      *)
(* nodes.  Each is in a chunk of the allocator's list, which every clear() *)
(* starts over.                                                            *)
(*                                                                         *)
(* set_result() copies the result it is given, joins the surfaces in it    *)
(* and copies the sentence behind it, and then calls set_sentence(): the   *)
(* list starts over, and unless the request type asks for a copy the       *)
(* sentence stays in memory the list will hand out again.                  *)
(***************************************************************************)
EXTENDS LatticeSession, ChunkFreeList

CONSTANTS
  Results(_),    \* texts that give a sentence as a result: lines with the lengths
                 \* of surface and feature, and how the last line ends
  MaxChunks      \* bound: a chunk made for a long string has no room for the same
                 \* string again, so that setting it again makes another chunk

(* The last line may go without its newline, if there is one. *)
ASSUME ResultsAssumption ==
  \A text \in Texts : \A r \in Results(text) :
    /\ r.lines \in Seq([surface : Nat, feature : Nat])
    /\ r.tail \in {"EOS", "newline", "none"}
    /\ r.lines = << >> => r.tail # "none"

VARIABLE memory  \* the list, and where the strings are that are in use

memoryVars == <<vars, memory>>

NoMemory == [list |-> EmptyFreeList, strings |-> {}]

Started(mem) == [list |-> Free(mem.list), strings |-> {}]

(* Allocator::strdup(): a string and its zero byte, with two bytes to spare. *)
SentenceName == 0
StringIn(list, name, size) ==
  LET p == Place(list, size + 2)
  IN [name |-> name, chunk |-> p.chunk, from |-> p.at, to |-> p.at + size + 1]
StrDup(mem, name, size) ==
  [list |-> Alloc(mem.list, size + 2),
   strings |-> mem.strings \cup {StringIn(mem.list, name, size)}]

Copies == lattice.requestType \cap AllowAllocate # {}
SentenceSet(mem, size) ==
  IF Copies THEN StrDup(Started(mem), SentenceName, size) ELSE Started(mem)

TotalOf(lengths) ==
  LET sum[n \in 0..Len(lengths)] == IF n = 0 THEN 0 ELSE sum[n - 1] + lengths[n]
  IN sum[Len(lengths)]
Surfaces(r) == TotalOf([i \in 1..Len(r.lines) |-> r.lines[i].surface])
TailLength(tail) == CASE tail = "EOS" -> 4 [] tail = "newline" -> 0 [] OTHER -> -1
ResultLength(r) ==
  TotalOf([i \in 1..Len(r.lines) |-> r.lines[i].surface + r.lines[i].feature + 2])
    + TailLength(r.tail)

(* The features of the nodes, one after the other. *)
FeaturesCopied(mem, lines) ==
  LET copied[n \in 0..Len(lines)] ==
        IF n = 0 THEN mem ELSE StrDup(copied[n - 1], n, lines[n].feature)
  IN copied[Len(lines)]

ResultSetInPlace(mem, r) ==    \* mutant: the result is cut up where it is
  LET joined == StringIn(mem.list, SentenceName, Surfaces(r))
      set == SentenceSet(StrDup(mem, SentenceName, Surfaces(r)), Surfaces(r))
  IN FeaturesCopied([set EXCEPT !.strings = IF Copies THEN @ ELSE {joined}], r.lines)

ResultSet(mem, r) ==
  LET given == Alloc(mem.list, ResultLength(r) + 2)
      joined == StringIn(given, SentenceName, Surfaces(r))
      set == SentenceSet([mem EXCEPT !.list = Alloc(given, Surfaces(r) + 2)], Surfaces(r))
  IN FeaturesCopied([set EXCEPT !.strings = IF Copies THEN @ ELSE {joined}], r.lines)

MemoryInit == Init /\ memory = NoMemory

WithoutStrings ==
  /\ \/ CallerWrites \/ SetRequestType \/ SetTheta \/ SetConstraint \/ NextResult
     \/ \E n \in Counts : EnumNBestAsString(n)
  /\ UNCHANGED memory

ClearStrings == ClearLattice /\ memory' = Started(memory)

SentenceStrings == SetLatticeSentence /\ memory' = SentenceSet(memory, Size[buffer])

(* initPartial() sets the sentence that is left without the constraints. *)
ParseStrings ==
  /\ Parse
  /\ memory' = IF lattice.sentence # NoSentence /\ "PARTIAL" \in lattice.requestType
               THEN SentenceSet(memory, Size[Partial[Read(lattice, buffer)]])
               ELSE memory

ResultStrings ==
  /\ SetGoldenResult
  /\ \E r \in Results(Partial[buffer]) : memory' = ResultSet(memory, r)

MemoryNext ==
  /\ WithoutStrings \/ ClearStrings \/ SentenceStrings \/ ParseStrings \/ ResultStrings
  /\ Len(memory.list.sizes)' <= MaxChunks

MemorySpec == MemoryInit /\ [][MemoryNext]_memoryVars

-----------------------------------------------------------------------------
(***************************************************************************)
(* No string the lattice uses is written over by another, and each is in   *)
(* memory the list owns, although the sentence of a result is in memory    *)
(* that is handed out again: the features that go there are shorter than   *)
(* the result they come from, which lay before the sentence.               *)
(***************************************************************************)
StringsApart ==
  /\ \A s \in memory.strings : s.to <= memory.list.sizes[s.chunk + 1]
  /\ \A s, t \in memory.strings :
       s # t /\ s.chunk = t.chunk => s.to <= t.from \/ t.to <= s.from
=============================================================================
