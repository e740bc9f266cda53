--------------------------- MODULE ChunkFreeList ----------------------------
(***************************************************************************)
(* ChunkFreeList (mecab-0.996/src/freelist.h), the list a lattice takes    *)
(* its copies of strings from.  A list is where the next string goes,      *)
(* place pi in chunk li (both counted from 0), and the sizes of the chunks *)
(* there are.  free() only starts the list over: the chunks stay, and what *)
(* was taken before is handed out again.                                   *)
(***************************************************************************)
EXTENDS Integers, Sequences

CONSTANT DefaultSize
ASSUME ChunkAssumption == DefaultSize \in Nat \ {0}

EmptyFreeList == [li |-> 0, pi |-> 0, sizes |-> << >>]
Free(list) == [list EXCEPT !.li = 0, !.pi = 0]

(* Where the chunk c is free from, once the loop has come to it. *)
FreeFrom(list, c) == IF c = list.li THEN list.pi ELSE 0
HasRoom(list, c, req) == FreeFrom(list, c) + req < list.sizes[c + 1]

(* The first chunk that has room, a new one if none has. *)
ChunkFor(list, req) ==
  LET chunks == Len(list.sizes) IN
  CHOOSE c \in list.li..chunks :
    /\ c = chunks \/ HasRoom(list, c, req)
    /\ \A d \in list.li..(c - 1) : ~HasRoom(list, d, req)

Alloc(list, req) ==
  LET c == ChunkFor(list, req)
      new == IF req > DefaultSize THEN req ELSE DefaultSize
  IN [li |-> c, pi |-> FreeFrom(list, c) + req,
      sizes |-> IF c = Len(list.sizes) THEN Append(list.sizes, new) ELSE list.sizes]

(* What alloc(req) returns is the place before the one it leaves. *)
Place(list, req) == [chunk |-> ChunkFor(list, req),
                     at |-> FreeFrom(list, ChunkFor(list, req))]
=============================================================================
