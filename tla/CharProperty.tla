---------------------------- MODULE CharProperty ----------------------------
(***************************************************************************)
(* MeCab::CharProperty (mecab-0.996/src/char_property.cpp,                 *)
(* char_property.h): char.def lists categories and gives ranges of         *)
(* characters the categories they belong to; compiling it packs what       *)
(* belongs to a character into one CharInfo of 18 + 8 + 4 + 1 + 1 bits.    *)
(* Category i is bit i of type.                                            *)
(***************************************************************************)
EXTENDS Integers, Sequences, FiniteSets, FiniteSetsExt

CONSTANTS
  Categories,    \* category_ary: [invoke, group, length] of each, in order;
                 \* the first is DEFAULT
  Nul            \* the character that ends a sentence

ASSUME CategoryAssumption ==
  /\ Len(Categories) \in 2..17
  /\ \A i \in 1..Len(Categories) :
       /\ Categories[i].invoke \in BOOLEAN /\ Categories[i].group \in BOOLEAN
       /\ Categories[i].length \in 0..15

VARIABLE
  ranges    \* the ranges of char.def: sequence of [low, high, cats], cats a
            \* sequence of category numbers

CategoryIds == 0..(Len(Categories) - 1)
DefaultCategory == 0
TypeBits == 18

-----------------------------------------------------------------------------
(* 1 << i *)
Bit[i \in 0..TypeBits] == IF i = 0 THEN 1 ELSE 2 * Bit[i - 1]

(* encode(): types are added up, the rest is that of the first category. *)
EncodeFirst(cats) ==    \* mutant: only the first category counts
  [type |-> Bit[cats[1]], defaultType |-> cats[1]]
Encode(cats) ==
  LET sum[i \in 0..Len(cats)] == IF i = 0 THEN 0 ELSE sum[i - 1] + Bit[cats[i]]
  IN [type |-> sum[Len(cats)] % Bit[TypeBits], defaultType |-> cats[1]]

(* The table: a range overwrites those before it. *)
RangesOf(t) == {i \in 1..Len(ranges) : ranges[i].low <= t /\ t <= ranges[i].high}
Table(t) ==
  Encode(IF RangesOf(t) = {} THEN <<DefaultCategory>> ELSE ranges[Max(RangesOf(t))].cats)

Invoke(info) == Categories[info.defaultType + 1].invoke
Group(info) == Categories[info.defaultType + 1].group
Length(info) == Categories[info.defaultType + 1].length

(* isKindOf(): the types have a bit in common. *)
HasBit(n, i) == (n \div Bit[i]) % 2 = 1
IsKindOf(c, d) == \E i \in 0..(TypeBits - 1) : HasBit(c.type, i) /\ HasBit(d.type, i)

-----------------------------------------------------------------------------
(***************************************************************************)
(* seekToOtherType(): from position begin of the text memory on, passes    *)
(* over characters that are of the kind of the one before them, the first  *)
(* of the kind of info, until position end.  It returns where it came to,  *)
(* how many characters it passed, and fail, the last character it looked   *)
(* at.  Past its end the memory is taken to hold Nul.                      *)
(***************************************************************************)
CharAt(memory, p) == IF p < Len(memory) THEN memory[p + 1] ELSE Nul
InfoAt(memory, p) == Table(CharAt(memory, p))

Passes(memory, begin, p, info) ==
  \A q \in begin..(p - 1) :
    IsKindOf(IF q = begin THEN info ELSE InfoAt(memory, q - 1), InfoAt(memory, q))

SeekToOtherType(memory, begin, end, info) ==
  LET last == IF begin <= end THEN end ELSE Len(memory) + 1
      p == Max({q \in begin..Max({begin, last}) : Passes(memory, begin, q, info)})
      looked == IF p = end THEN p - 1 ELSE p
  IN [pos |-> p, clen |-> p - begin, fail |-> InfoAt(memory, looked)]
=============================================================================
