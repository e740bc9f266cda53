------------------------------- MODULE RWLock -------------------------------
(***************************************************************************)
(* MeCab::read_write_mutex (mecab-0.996/src/thread.h): the spin lock that  *)
(* ModelImpl keeps, taken for reading by TaggerImpl::parse and for writing *)
(* by ModelImpl::swap.  It is a word, l_, and a counter of announced       *)
(* writers, write_pending_, both changed by atomic operations only.        *)
(*                                                                         *)
(* Every atomic operation and every load of a shared word is one step of   *)
(* the thread that executes it; a failed test of a spin loop changes       *)
(* nothing and is a stuttering step.  pc[t] is where the thread is:        *)
(*   out      outside the lock          rcheck  first loop of read_lock    *)
(*   radd     before the atomic_add     rwait   second loop of read_lock   *)
(*   reading  read_lock has returned    wcas    the loop of write_lock     *)
(*   writing  write_lock has returned   wdec    between the two steps of   *)
(*                                              write_unlock               *)
(***************************************************************************)
EXTENDS Integers, FiniteSets

CONSTANTS
  Readers,      \* threads that call read_lock
  Writers,      \* threads that call write_lock (a thread may do both)
  OsxAtomics    \* TRUE when config.h defines HAVE_OSX_ATOMIC_OPS

ASSUME RWLockAssumption ==
  /\ IsFiniteSet(Readers)
  /\ IsFiniteSet(Writers)
  /\ OsxAtomics \in BOOLEAN

VARIABLES
  l,             \* l_: kRcIncr per reader inside, plus kWaFlag for a writer
  writePending,  \* write_pending_
  pc

lockVars == <<l, writePending, pc>>

Threads == Readers \cup Writers
PCs == {"out", "rcheck", "radd", "rwait", "reading", "wcas", "writing", "wdec"}

kWaFlag == 1
kRcIncr == 2

LockInit ==
  /\ l = 0
  /\ writePending = 0
  /\ pc = [t \in Threads |-> "out"]

Goto(t, from, to) ==
  /\ pc[t] = from
  /\ pc' = [pc EXCEPT ![t] = to]

-----------------------------------------------------------------------------
(* read_lock and read_unlock *)

ReadLock(t) ==
  /\ t \in Readers
  /\ Goto(t, "out", "rcheck")
  /\ UNCHANGED <<l, writePending>>

PassPendingUnchecked(t) ==   \* mutant: the first loop is missing
  /\ Goto(t, "rcheck", "radd")
  /\ UNCHANGED <<l, writePending>>

PassPending(t) ==
  /\ writePending <= 0
  /\ Goto(t, "rcheck", "radd")
  /\ UNCHANGED <<l, writePending>>

AddReader(t) ==
  /\ Goto(t, "radd", "rwait")
  /\ l' = l + kRcIncr
  /\ UNCHANGED writePending

PassFlagUnchecked(t) ==      \* mutant: the second loop is missing
  /\ Goto(t, "rwait", "reading")
  /\ UNCHANGED <<l, writePending>>

PassFlag(t) ==
  /\ l % 2 # kWaFlag
  /\ Goto(t, "rwait", "reading")
  /\ UNCHANGED <<l, writePending>>

ReadUnlockTwice(t) ==        \* mutant: unlocks with the wrong increment
  /\ Goto(t, "reading", "out")
  /\ l' = l - kWaFlag
  /\ UNCHANGED writePending

ReadUnlock(t) ==
  /\ Goto(t, "reading", "out")
  /\ l' = l - kRcIncr
  /\ UNCHANGED writePending

-----------------------------------------------------------------------------
(* write_lock and write_unlock *)

WriteLock(t) ==
  /\ t \in Writers
  /\ Goto(t, "out", "wcas")
  /\ writePending' = writePending + 1
  /\ UNCHANGED l

(***************************************************************************)
(* What compare_and_swap(&l_, 0, kWaFlag) returns, as the condition of the *)
(* loop: __sync_val_compare_and_swap and InterlockedCompareExchange return *)
(* the old value, OSAtomicCompareAndSwapInt whether the swap was done.     *)
(***************************************************************************)
CasReturnsTrue == IF OsxAtomics THEN l = 0 ELSE l # 0

CompareAndSwap(t) ==
  /\ pc[t] = "wcas"
  /\ l' = IF l = 0 THEN kWaFlag ELSE l
  /\ pc' = IF CasReturnsTrue THEN pc ELSE [pc EXCEPT ![t] = "writing"]
  /\ UNCHANGED writePending

WriteUnlockFlagTwice(t) ==   \* mutant: takes back a reader's share
  /\ Goto(t, "writing", "wdec")
  /\ l' = l - kRcIncr
  /\ UNCHANGED writePending

WriteUnlockFlag(t) ==
  /\ Goto(t, "writing", "wdec")
  /\ l' = l - kWaFlag
  /\ UNCHANGED writePending

WriteUnlockForgotten(t) ==   \* mutant: write_pending_ is not taken back
  /\ Goto(t, "wdec", "out")
  /\ UNCHANGED <<l, writePending>>

WriteUnlockPending(t) ==
  /\ Goto(t, "wdec", "out")
  /\ writePending' = writePending - 1
  /\ UNCHANGED l

-----------------------------------------------------------------------------
(***************************************************************************)
(* A thread inside a lock operation, or holding the lock, is scheduled     *)
(* again: the loops yield the processor and the critical sections return.  *)
(* Nobody is obliged to take the lock.                                     *)
(***************************************************************************)
ReadStep(t) == PassPending(t) \/ AddReader(t) \/ PassFlag(t) \/ ReadUnlock(t)
WriteStep(t) == CompareAndSwap(t) \/ WriteUnlockFlag(t) \/ WriteUnlockPending(t)
LockStep(t) == ReadStep(t) \/ WriteStep(t)

LockNext == \E t \in Threads : ReadLock(t) \/ WriteLock(t) \/ LockStep(t)

LockSpec == LockInit /\ [][LockNext]_lockVars
FairLockSpec == LockSpec /\ \A t \in Threads : WF_lockVars(LockStep(t))

-----------------------------------------------------------------------------
Reading == {t \in Threads : pc[t] = "reading"}
Writing == {t \in Threads : pc[t] = "writing"}

(***************************************************************************)
(* The types; neither counter ever goes below zero.                        *)
(***************************************************************************)
LockTypeOK ==
  /\ l \in Nat
  /\ writePending \in Nat
  /\ pc \in [Threads -> PCs]

(***************************************************************************)
(* A writer that has returned from write_lock is alone: no other writer    *)
(* and no reader is between its lock and its unlock.                       *)
(***************************************************************************)
MutualExclusion == \A w \in Writing : Reading = {} /\ Writing = {w}

(***************************************************************************)
(* The lock word never drifts: whatever the interleaving of its atomic     *)
(* operations, l_ counts the readers between their add and their unlock,   *)
(* its low bit says that a writer is inside, and write_pending_ counts the *)
(* writers between announcing themselves and the end of write_unlock.      *)
(***************************************************************************)
Counted == {t \in Threads : pc[t] \in {"rwait", "reading"}}
Announced == {t \in Threads : pc[t] \in {"wcas", "writing", "wdec"}}

LockWord ==
  /\ l = kRcIncr * Cardinality(Counted) + (IF Writing = {} THEN 0 ELSE kWaFlag)
  /\ writePending = Cardinality(Announced)

(***************************************************************************)
(* Writers are not shut out: while a writer is in the loop of write_lock,  *)
(* some writer gets in, however many readers keep calling read_lock.       *)
(***************************************************************************)
WritersProgress ==
  (\E w \in Threads : pc[w] = "wcas") ~> (Writing # {})

(***************************************************************************)
(* Once writers stop coming, every reader that waits gets in.              *)
(***************************************************************************)
ReadersProgress ==
  \A r \in Threads :
    <>[](writePending = 0) => (pc[r] = "rcheck" ~> pc[r] = "reading")

-----------------------------------------------------------------------------
(* The lock as its users see it. *)
Abstract == INSTANCE AbstractRWLock WITH readers <- Reading, writers <- Writing
ImplementsAbstract == Abstract!Spec
=============================================================================
