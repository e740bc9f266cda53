-------------------------- MODULE ModelSwapProofs ---------------------------
(***************************************************************************)
(* Theorems about RWLock and ModelSwap, for any finite sets of parsing and *)
(* swapping threads, any set of models, and the atomic operations whose    *)
(* compare_and_swap returns the old value (gcc and Windows).  Where it     *)
(* returns success the lock excludes nobody.                               *)
(*                                                                         *)
(* Part I is about the lock and about the history variable of MCRWLock.    *)
(* Part II is about the model: every step of ModelSwap is a step of the    *)
(* lock or leaves it alone, so mutual exclusion carries over (StepInv).    *)
(* What is needed beside it: a thread's job agrees with where it is in the *)
(* lock (Stages), and a Viterbi that was current once never becomes        *)
(* current again, as each model is passed to swap only once (Fresh,        *)
(* Retired).  createTagger stays out of the lock; what it reads are the    *)
(* fields of models in place, since these differ only while a swap assigns *)
(* (Settings, Copies).                                                     *)
(***************************************************************************)
EXTENDS ModelSwap, MCRWLock, FiniteSetTheorems, TLAPS

-----------------------------------------------------------------------------
(* I. The lock. *)

LockInv == LockTypeOK /\ LockWord /\ MutualExclusion

(* The sets the counters count are finite. *)
LEMMA ClassesFinite ==
  /\ IsFiniteSet(Threads)
  /\ IsFiniteSet(Counted) /\ Cardinality(Counted) \in Nat
  /\ IsFiniteSet(Announced) /\ Cardinality(Announced) \in Nat
<1>1. IsFiniteSet(Threads)
  BY RWLockAssumption, FS_Union DEF Threads
<1>2. Counted \subseteq Threads /\ Announced \subseteq Threads
  BY DEF Counted, Announced
<1>3. IsFiniteSet(Counted) /\ IsFiniteSet(Announced)
  BY <1>1, <1>2, FS_Subset
<1> QED
  BY <1>1, <1>3, FS_CardinalityType

(* How one thread's move changes the classes of threads. *)
LEMMA Moves ==
  ASSUME LockTypeOK, NEW t \in Threads, NEW from, NEW to \in PCs,
         Goto(t, from, to)
  PROVE  /\ pc[t] = from
         /\ pc' \in [Threads -> PCs]
         /\ Reading' = IF to = "reading" THEN Reading \cup {t}
                                         ELSE Reading \ {t}
         /\ Writing' = IF to = "writing" THEN Writing \cup {t}
                                         ELSE Writing \ {t}
         /\ Counted' = IF to \in {"rwait", "reading"}
                       THEN Counted \cup {t} ELSE Counted \ {t}
         /\ Announced' = IF to \in {"wcas", "writing", "wdec"}
                         THEN Announced \cup {t} ELSE Announced \ {t}
BY DEF Goto, LockTypeOK, Reading, Writing, Counted, Announced

(* A thread that is not in a class leaves it unchanged. *)
LEMMA Outside ==
  ASSUME NEW S, NEW t, t \notin S
  PROVE  S \ {t} = S
OBVIOUS

LEMMA InitInv == LockInit => LockInv
<1> SUFFICES ASSUME LockInit PROVE LockInv
  OBVIOUS
<1>1. LockTypeOK
  BY DEF LockInit, LockTypeOK, PCs
<1>2. Counted = {} /\ Announced = {} /\ Writing = {}
  BY DEF LockInit, Counted, Announced, Writing
<1>3. LockWord
  BY <1>2, FS_EmptySet DEF LockWord, LockInit, kRcIncr, kWaFlag
<1>4. MutualExclusion
  BY <1>2 DEF MutualExclusion
<1> QED
  BY <1>1, <1>3, <1>4 DEF LockInv

(***************************************************************************)
(* Every step of a thread preserves the lock word and mutual exclusion.    *)
(***************************************************************************)
LEMMA StepInv ==
  ASSUME ~OsxAtomics, LockInv, [LockNext]_lockVars
  PROVE  LockInv'
<1> USE ClassesFinite DEF LockInv, kRcIncr, kWaFlag
<1> DEFINE flag == IF Writing = {} THEN 0 ELSE 1
<1>0. l = 2 * Cardinality(Counted) + flag /\ writePending = Cardinality(Announced)
  BY DEF LockWord
<1>1. ASSUME NEW t \in Threads, ReadLock(t) PROVE LockInv'
  <2>1. Goto(t, "out", "rcheck") /\ l' = l /\ writePending' = writePending
    BY <1>1 DEF ReadLock
  <2>2. Reading' = Reading /\ Writing' = Writing
        /\ Counted' = Counted /\ Announced' = Announced /\ LockTypeOK'
    BY <2>1, Moves DEF PCs, Reading, Writing, Counted, Announced, LockTypeOK
  <2> QED
    BY <2>1, <2>2 DEF LockWord, MutualExclusion
<1>2. ASSUME NEW t \in Threads, PassPending(t) PROVE LockInv'
  <2>1. Goto(t, "rcheck", "radd") /\ l' = l /\ writePending' = writePending
    BY <1>2 DEF PassPending
  <2>2. Reading' = Reading /\ Writing' = Writing
        /\ Counted' = Counted /\ Announced' = Announced /\ LockTypeOK'
    BY <2>1, Moves DEF PCs, Reading, Writing, Counted, Announced, LockTypeOK
  <2> QED
    BY <2>1, <2>2 DEF LockWord, MutualExclusion
<1>3. ASSUME NEW t \in Threads, AddReader(t) PROVE LockInv'
  <2>1. Goto(t, "radd", "rwait") /\ l' = l + 2 /\ writePending' = writePending
    BY <1>3 DEF AddReader
  <2>2. Reading' = Reading /\ Writing' = Writing
        /\ Counted' = Counted \cup {t} /\ t \notin Counted
        /\ Announced' = Announced /\ LockTypeOK'
    BY <2>1, Moves DEF PCs, Reading, Writing, Counted, Announced, LockTypeOK
  <2>3. Cardinality(Counted') = Cardinality(Counted) + 1
    BY <2>2, FS_AddElement
  <2>4. LockWord'
    BY <2>1, <2>2, <2>3, <1>0 DEF LockWord
  <2> QED
    BY <2>2, <2>4 DEF MutualExclusion
<1>4. ASSUME NEW t \in Threads, PassFlag(t) PROVE LockInv'
  <2>1. Goto(t, "rwait", "reading") /\ l' = l /\ writePending' = writePending
        /\ l % 2 # 1
    BY <1>4 DEF PassFlag
  <2>2. Writing = {}
    BY <2>1, <1>0
  <2>3. Writing' = Writing /\ Counted' = Counted /\ Announced' = Announced
        /\ LockTypeOK'
    BY <2>1, Moves DEF PCs, Writing, Counted, Announced, LockTypeOK
  <2> QED
    BY <2>1, <2>2, <2>3 DEF LockWord, MutualExclusion
<1>5. ASSUME NEW t \in Threads, ReadUnlock(t) PROVE LockInv'
  <2>1. Goto(t, "reading", "out") /\ l' = l - 2 /\ writePending' = writePending
    BY <1>5 DEF ReadUnlock
  <2>2. Reading' \subseteq Reading /\ Writing' = Writing
        /\ Counted' = Counted \ {t} /\ t \in Counted
        /\ Announced' = Announced /\ pc' \in [Threads -> PCs]
    BY <2>1, Moves DEF PCs, Reading, Writing, Counted, Announced, LockTypeOK
  <2>3. Cardinality(Counted') = Cardinality(Counted) - 1
        /\ Cardinality(Counted') \in Nat
    BY <2>2, FS_RemoveElement, FS_CardinalityType
  <2>4. LockWord' /\ LockTypeOK'
    BY <2>1, <2>2, <2>3, <1>0 DEF LockWord, LockTypeOK
  <2> QED
    BY <2>2, <2>4 DEF MutualExclusion
<1>6. ASSUME NEW t \in Threads, WriteLock(t) PROVE LockInv'
  <2>1. Goto(t, "out", "wcas") /\ l' = l /\ writePending' = writePending + 1
    BY <1>6 DEF WriteLock
  <2>2. Reading' = Reading /\ Writing' = Writing /\ Counted' = Counted
        /\ Announced' = Announced \cup {t} /\ t \notin Announced /\ LockTypeOK'
    BY <2>1, Moves DEF PCs, Reading, Writing, Counted, Announced, LockTypeOK
  <2>3. Cardinality(Announced') = Cardinality(Announced) + 1
    BY <2>2, FS_AddElement
  <2>4. LockWord'
    BY <2>1, <2>2, <2>3, <1>0 DEF LockWord
  <2> QED
    BY <2>2, <2>4 DEF MutualExclusion
<1>7. ASSUME NEW t \in Threads, CompareAndSwap(t) PROVE LockInv'
  <2>1. CASE l # 0
    <3>1. UNCHANGED lockVars
      BY <1>7, <2>1 DEF CompareAndSwap, CasReturnsTrue, lockVars
    <3> QED
      BY <3>1 DEF lockVars, LockTypeOK, LockWord, MutualExclusion,
                  Reading, Writing, Counted, Announced
  <2>2. CASE l = 0
    <3>1. Goto(t, "wcas", "writing") /\ l' = 1 /\ writePending' = writePending
      BY <1>7, <2>2 DEF CompareAndSwap, CasReturnsTrue, Goto
    <3>2. Cardinality(Counted) = 0 /\ Writing = {}
      BY <2>2, <1>0
    <3>3. Counted = {}
      BY <3>2, FS_EmptySet
    <3>4. Writing' = {t} /\ Counted' = {} /\ Announced' = Announced
          /\ LockTypeOK'
      BY <3>1, <3>2, <3>3, Moves DEF PCs, Announced, LockTypeOK
    <3>5. Reading' = {}
      BY <3>4 DEF Reading, Counted
    <3>6. LockWord'
      BY <3>1, <3>2, <3>3, <3>4, <1>0 DEF LockWord
    <3> QED
      BY <3>4, <3>5, <3>6 DEF MutualExclusion
  <2> QED
    BY <2>1, <2>2
<1>8. ASSUME NEW t \in Threads, WriteUnlockFlag(t) PROVE LockInv'
  <2>1. Goto(t, "writing", "wdec") /\ l' = l - 1 /\ writePending' = writePending
    BY <1>8 DEF WriteUnlockFlag
  <2>2. Writing = {t}
    BY <2>1 DEF Goto, Writing, MutualExclusion
  <2>3. Writing' = {} /\ Counted' = Counted /\ Announced' = Announced
        /\ pc' \in [Threads -> PCs]
    BY <2>1, <2>2, Moves DEF PCs, Counted, Announced, LockTypeOK
  <2>4. LockWord' /\ LockTypeOK'
    BY <2>1, <2>2, <2>3, <1>0 DEF LockWord, LockTypeOK
  <2> QED
    BY <2>3, <2>4 DEF MutualExclusion
<1>9. ASSUME NEW t \in Threads, WriteUnlockPending(t) PROVE LockInv'
  <2>1. Goto(t, "wdec", "out") /\ l' = l /\ writePending' = writePending - 1
    BY <1>9 DEF WriteUnlockPending
  <2>2. Reading' = Reading /\ Writing' = Writing /\ Counted' = Counted
        /\ Announced' = Announced \ {t} /\ t \in Announced
        /\ pc' \in [Threads -> PCs]
    BY <2>1, Moves DEF PCs, Reading, Writing, Counted, Announced, LockTypeOK
  <2>3. Cardinality(Announced') = Cardinality(Announced) - 1
        /\ Cardinality(Announced') \in Nat
    BY <2>2, FS_RemoveElement, FS_CardinalityType
  <2>4. LockWord' /\ LockTypeOK'
    BY <2>1, <2>2, <2>3, <1>0 DEF LockWord, LockTypeOK
  <2> QED
    BY <2>2, <2>4 DEF MutualExclusion
<1>10. CASE UNCHANGED lockVars
  BY <1>10 DEF lockVars, LockTypeOK, LockWord, MutualExclusion,
               Reading, Writing, Counted, Announced
<1> QED
  BY <1>1, <1>2, <1>3, <1>4, <1>5, <1>6, <1>7, <1>8, <1>9, <1>10
  DEF LockNext, LockStep, ReadStep, WriteStep

(***************************************************************************)
(* The lock word stays equal to what it counts, in every reachable state.  *)
(***************************************************************************)
THEOREM LockInvariant ==
  ASSUME ~OsxAtomics
  PROVE  LockSpec => [](LockTypeOK /\ LockWord /\ MutualExclusion)
<1>1. LockInv /\ [LockNext]_lockVars => LockInv'
  BY StepInv
<1>2. LockInv => LockTypeOK /\ LockWord /\ MutualExclusion
  BY DEF LockInv
<1> QED
  BY <1>1, <1>2, InitInv, PTL DEF LockSpec

-----------------------------------------------------------------------------
(***************************************************************************)
(* The lock implements AbstractRWLock.  A thread is in a reader's state    *)
(* only if it is a reader, and the same for writers; with the invariant    *)
(* above, every step then enters, leaves or stutters in the abstract lock. *)
(***************************************************************************)
Roles ==
  \A t \in Threads :
    /\ pc[t] \in {"rcheck", "radd", "rwait", "reading"} => t \in Readers
    /\ pc[t] \in {"wcas", "writing", "wdec"} => t \in Writers

LEMMA RolesStep ==
  ASSUME LockTypeOK, Roles, [LockNext]_lockVars
  PROVE  Roles'
<1>1. ASSUME NEW t \in Threads, ReadLock(t) \/ WriteLock(t) PROVE Roles'
  BY <1>1 DEF LockTypeOK, Roles, ReadLock, WriteLock, Goto
<1>2. ASSUME NEW t \in Threads, ReadStep(t) PROVE Roles'
  BY <1>2 DEF LockTypeOK, Roles, ReadStep, PassPending, AddReader, PassFlag,
              ReadUnlock, Goto
<1>3. ASSUME NEW t \in Threads, WriteStep(t) PROVE Roles'
  BY <1>3 DEF LockTypeOK, Roles, WriteStep, CompareAndSwap, WriteUnlockFlag,
              WriteUnlockPending, Goto
<1>4. CASE UNCHANGED lockVars
  BY <1>4 DEF lockVars, Roles
<1> QED
  BY <1>1, <1>2, <1>3, <1>4 DEF LockNext, LockStep

LEMMA StepSimulation ==
  ASSUME ~OsxAtomics, LockInv, Roles, [LockNext]_lockVars
  PROVE  [Abstract!Next]_<<Reading, Writing>>
<1> USE ClassesFinite DEF kRcIncr, kWaFlag
<1>1. LockTypeOK /\ MutualExclusion /\ LockWord
  BY DEF LockInv
<1>2. ASSUME NEW t \in Threads,
             ReadLock(t) \/ PassPending(t) \/ AddReader(t) \/ WriteLock(t)
             \/ WriteUnlockPending(t)
      PROVE  UNCHANGED <<Reading, Writing>>
  <2>1. PICK from \in PCs, to \in PCs :
          /\ Goto(t, from, to)
          /\ {from, to} \cap {"reading", "writing"} = {}
    BY <1>2 DEF ReadLock, PassPending, AddReader, WriteLock,
                WriteUnlockPending, PCs
  <2> QED
    BY <1>1, <2>1, Moves DEF Reading, Writing
<1>3. ASSUME NEW t \in Threads, PassFlag(t) PROVE Abstract!Next
  <2>1. Goto(t, "rwait", "reading") /\ l % 2 # 1
    BY <1>3 DEF PassFlag
  <2>2. Writing = {}
    BY <1>1, <2>1 DEF LockWord
  <2>3. t \in Readers /\ t \notin Reading
    BY <2>1 DEF Roles, Goto, Reading
  <2>4. Reading' = Reading \cup {t} /\ Writing' = Writing
    BY <1>1, <2>1, <2>2, Moves DEF PCs
  <2> QED
    BY <2>2, <2>3, <2>4 DEF Abstract!Next, Abstract!BeginRead
<1>4. ASSUME NEW t \in Threads, ReadUnlock(t) PROVE Abstract!Next
  <2>1. Goto(t, "reading", "out")
    BY <1>4 DEF ReadUnlock
  <2>2. t \in Readers /\ t \in Reading /\ t \notin Writing
    BY <2>1 DEF Roles, Goto, Reading, Writing
  <2>3. Reading' = Reading \ {t} /\ Writing' = Writing
    BY <1>1, <2>1, <2>2, Moves DEF PCs
  <2> QED
    BY <2>2, <2>3 DEF Abstract!Next, Abstract!EndRead
<1>5. ASSUME NEW t \in Threads, CompareAndSwap(t)
      PROVE  Abstract!Next \/ UNCHANGED <<Reading, Writing>>
  <2>1. CASE l # 0
    BY <1>5, <2>1 DEF CompareAndSwap, CasReturnsTrue, Reading, Writing
  <2>2. CASE l = 0
    <3>1. Goto(t, "wcas", "writing")
      BY <1>5, <2>2 DEF CompareAndSwap, CasReturnsTrue, Goto
    <3>2. Cardinality(Counted) = 0 /\ Writing = {}
      BY <1>1, <2>2 DEF LockWord
    <3>3. Reading = {}
      BY <3>2, FS_EmptySet DEF Counted, Reading
    <3>4. Writing' = {t} /\ Reading' = Reading
      BY <1>1, <3>1, <3>2, <3>3, Moves DEF PCs
    <3>5. t \in Writers
      BY <3>1 DEF Roles, Goto
    <3> QED
      BY <3>2, <3>3, <3>4, <3>5 DEF Abstract!Next, Abstract!BeginWrite
  <2> QED
    BY <2>1, <2>2
<1>6. ASSUME NEW t \in Threads, WriteUnlockFlag(t) PROVE Abstract!Next
  <2>1. Goto(t, "writing", "wdec")
    BY <1>6 DEF WriteUnlockFlag
  <2>2. t \in Writers /\ t \in Writing /\ t \notin Reading
    BY <2>1 DEF Roles, Goto, Reading, Writing
  <2>3. Writing' = Writing \ {t} /\ Reading' = Reading
    BY <1>1, <2>1, <2>2, Moves, SMTT(30) DEF PCs
  <2> QED
    BY <2>2, <2>3 DEF Abstract!Next, Abstract!EndWrite
<1>7. CASE UNCHANGED lockVars
  BY <1>7 DEF lockVars, Reading, Writing
<1> QED
  BY <1>2, <1>3, <1>4, <1>5, <1>6, <1>7
  DEF LockNext, LockStep, ReadStep, WriteStep

(***************************************************************************)
(* Every behaviour of the lock is one of the abstract reader-writer lock.  *)
(***************************************************************************)
THEOREM Refinement ==
  ASSUME ~OsxAtomics
  PROVE  LockSpec => ImplementsAbstract
<1>1. LockInit => Roles /\ Abstract!Init
  BY DEF LockInit, Roles, Abstract!Init, Reading, Writing
<1>2. LockInv => LockTypeOK
  BY DEF LockInv
<1>3. LockInv /\ Roles /\ [LockNext]_lockVars
        => LockInv' /\ Roles' /\ [Abstract!Next]_<<Reading, Writing>>
  BY <1>2, StepInv, RolesStep, StepSimulation
<1> QED
  BY <1>1, <1>3, InitInv, PTL DEF LockSpec, ImplementsAbstract, Abstract!Spec

-----------------------------------------------------------------------------
(***************************************************************************)
(* Writer preference: a reader that came after a waiting writer is still   *)
(* in the first loop of read_lock, because the writer is among those that  *)
(* write_pending_ counts.                                                  *)
(***************************************************************************)
LateInv ==
  /\ late \subseteq Threads \X Threads
  /\ \A p \in late : pc[p[1]] = "wcas" /\ pc[p[2]] = "rcheck"

(* While a writer waits, write_pending_ is not 0 and no thread passes. *)
LEMMA WaitingIsAnnounced ==
  ASSUME LockInv, NEW w \in Waiting
  PROVE  writePending > 0
<1>1. w \in Announced
  BY DEF Waiting, Announced
<1>2. Cardinality(Announced) # 0 /\ Cardinality(Announced) \in Nat
  BY <1>1, ClassesFinite, FS_EmptySet
<1> QED
  BY <1>2 DEF LockInv, LockWord

(* A thread in the first loop stays there while a writer waits. *)
LEMMA StaysInLoop ==
  ASSUME LockInv, Waiting # {}, LockNext, NEW r \in Threads, pc[r] = "rcheck"
  PROVE  pc[r]' = "rcheck"
<1>1. PICK t \in Threads : ReadLock(t) \/ WriteLock(t) \/ LockStep(t)
  BY DEF LockNext
<1>2. ~PassPending(t)
  BY WaitingIsAnnounced DEF PassPending, LockInv, LockTypeOK
<1>3. pc' = pc \/ \E from, to : from # "rcheck" /\ Goto(t, from, to)
  BY <1>1, <1>2
     DEF LockStep, ReadStep, WriteStep, ReadLock, AddReader, PassFlag, ReadUnlock,
         WriteLock, CompareAndSwap, WriteUnlockFlag, WriteUnlockPending, Goto
<1> QED
  BY <1>3 DEF Goto, LockInv, LockTypeOK

LEMMA LateStep ==
  ASSUME LockInv, LateInv, [HistoryNext]_<<lockVars, late>>
  PROVE  LateInv'
<1>1. CASE HistoryNext
  <2> SUFFICES ASSUME NEW p \in late'
               PROVE  p \in Threads \X Threads /\ pc[p[1]]' = "wcas" /\ pc[p[2]]' = "rcheck"
    BY DEF LateInv
  <2>1. p \in late \cup (Waiting \X Arriving) /\ pc[p[1]]' = "wcas"
    BY <1>1 DEF HistoryNext
  <2>2. CASE p \in late
    <3>1. p[1] \in Waiting /\ p[2] \in Threads /\ pc[p[2]] = "rcheck"
      BY <2>2 DEF LateInv, Waiting
    <3>2. pc[p[2]]' = "rcheck"
      BY <1>1, <3>1, StaysInLoop DEF HistoryNext
    <3> QED
      BY <2>1, <2>2, <3>2 DEF LateInv
  <2>3. CASE p \in Waiting \X Arriving
    BY <2>1, <2>3 DEF Waiting, Arriving
  <2> QED
    BY <2>1, <2>2, <2>3
<1>2. CASE UNCHANGED <<lockVars, late>>
  BY <1>2 DEF lockVars, LateInv
<1> QED
  BY <1>1, <1>2

(***************************************************************************)
(* The lock prefers writers (thread.h:75), however many there are of       *)
(* either kind: a reader that calls read_lock after a writer has announced *)
(* itself does not hold the lock before that writer does.                  *)
(***************************************************************************)
THEOREM WritersFirst ==
  ASSUME ~OsxAtomics
  PROVE  HistorySpec => []WriterPreference
<1>1. HistoryInit => LockInv /\ LateInv
  BY InitInv DEF HistoryInit, LateInv
<1>2. LockInv /\ LateInv /\ [HistoryNext]_<<lockVars, late>> => (LockInv /\ LateInv)'
  <2>1. [HistoryNext]_<<lockVars, late>> => [LockNext]_lockVars
    BY DEF HistoryNext
  <2> QED
    BY <2>1, StepInv, LateStep
<1>3. LateInv => WriterPreference
  BY DEF LateInv, WriterPreference
<1> QED
  BY <1>1, <1>2, <1>3, PTL DEF HistorySpec

-----------------------------------------------------------------------------
(* II. The model. *)

SwapTypes ==
  /\ viterbi \in AllModels
  /\ deleted \in [AllModels -> Nat]
  /\ passed \subseteq Models
  /\ job \in [Threads -> Jobs]
  /\ ptr \in [Threads -> AllModels \cup {None}]
  /\ arg \in [Threads -> AllModels \cup {None}]

(* Where in the lock a thread is, by its job, and whether it has loaded. *)
Stages ==
  \A t \in Threads :
    /\ job[t] \in {"idle", "parsed", "access", "created", "loaded", "delete"}
         \cup Creating => pc[t] = "out"
    /\ job[t] = "parse" => pc[t] \in {"rcheck", "radd", "rwait", "reading"}
    /\ job[t] = "locking" => pc[t] \in {"wcas", "writing"}
    /\ job[t] \in {"setRequestType", "setTheta"} => pc[t] = "writing"
    /\ job[t] = "installed" => pc[t] \in {"writing", "wdec"}
    /\ job[t] \in {"idle", "created"} \cup Creating => ptr[t] = None
    /\ InUse(t) => pc[t] = "reading"
    /\ job[t] \in Swapping => t \in Writers /\ ptr[t] # None

(* The models that swap has still to install; no two swaps install one. *)
Pending == {t \in Threads : job[t] \in {"loaded", "locking"}}
Upcoming == (Models \ passed) \cup {arg[t] : t \in Pending}

Fresh ==
  /\ \A t \in Pending : arg[t] \in passed
  /\ \A t, u \in Pending : arg[t] = arg[u] => t = u
  /\ viterbi \notin Upcoming
  /\ \A t \in Threads : ptr[t] \notin Upcoming

(* What a swap replaced, and what was deleted, is not the model's. *)
Retired ==
  /\ \A t \in Threads : job[t] \in Swapping /\ t \notin Pending => ptr[t] # viterbi
  /\ \A m \in AllModels : deleted[m] > 0 => m \notin Upcoming \cup {viterbi}

(* Between the assignments of a swap the fields differ, but not else. *)
Settings ==
  /\ \A t \in Threads :
       /\ Installing(t) => arg[t] = viterbi
       /\ job[t] = "setTheta" => requestType = viterbi
  /\ (\A t \in Threads : ~Installing(t)) => requestType = viterbi /\ theta = viterbi

Loaded == \A t \in Threads : InUse(t) => ptr[t] = viterbi

(* The fields of the model, and what createTagger has copied of them, are  *)
(* those of models that were in place since it was called.                 *)
IsTagger(r) == r = [requestType |-> r.requestType, theta |-> r.theta]
Copies ==
  /\ DOMAIN tagger = Threads /\ DOMAIN seen = Threads
  /\ \A t \in Threads :
       /\ IsTagger(tagger[t])
       /\ job[t] \in Creating => {viterbi, requestType, theta} \subseteq seen[t]
       /\ job[t] \in Creating \cup {"created"} => tagger[t].requestType \in seen[t]
       /\ job[t] \in {"copyTheta", "copyRequestType", "created"} =>
            tagger[t].theta \in seen[t]

SwapInv ==
  /\ LockInv /\ SwapTypes /\ Stages /\ Fresh /\ Retired /\ Settings /\ Loaded
  /\ Copies

(* Only for a single swapping thread: it loads and deletes one by one. *)
SingleWriter == \A s, t \in Writers : s = t
OneByOne ==
  /\ \A t \in Threads : job[t] \in Swapping => deleted[ptr[t]] = 0
  /\ \A t \in Pending : ptr[t] = viterbi
  /\ \A m \in AllModels :
       \/ m \in Upcoming \cup {viterbi} \/ deleted[m] = 1
       \/ \E t \in Threads : job[t] \in Swapping /\ ptr[t] = m
  /\ \A m \in AllModels : deleted[m] <= 1

-----------------------------------------------------------------------------
(* The steps of createTagger and the end of the tagger's life change       *)
(* nothing but the tagger and the job.                                     *)
CreatorJobs == {"idle", "created"} \cup Creating
CreatorStep(t) ==
  CreateTagger(t) \/ OpenTheta(t) \/ CopyTheta(t) \/ CopyRequestType(t) \/ DropTagger(t)

LEMMA CreatorMoves ==
  ASSUME SwapTypes, NEW t \in Threads, CreatorStep(t)
  PROVE  /\ UNCHANGED <<lockVars, viterbi, requestType, theta, deleted, passed, ptr, arg>>
         /\ job[t] \in CreatorJobs
         /\ \E j \in CreatorJobs : job' = [job EXCEPT ![t] = j]
<1> USE DEF Does, settings, CreatorJobs, Creating
<1>1. CASE CreateTagger(t) \/ OpenTheta(t)
  BY <1>1 DEF CreateTagger, OpenTheta
<1>2. CASE CopyTheta(t) \/ CopyRequestType(t) \/ DropTagger(t)
  BY <1>2 DEF CopyTheta, CopyRequestType, DropTagger
<1> QED
  BY <1>1, <1>2 DEF CreatorStep

-----------------------------------------------------------------------------
(* Every step is a step of the lock or leaves the lock alone. *)
LEMMA LockFollows == Next => [LockNext]_lockVars
<1> SUFFICES ASSUME NEW t \in Threads, Call(t) \/ Continue(t)
             PROVE  [LockNext]_lockVars
  BY DEF Next
<1>1. CASE Parse(t) \/ SwapLock(t) \/ ReturnFromParse(t) \/ SwapUnlock(t) \/ LockLoop(t)
  BY <1>1 DEF Parse, SwapLock, ReturnFromParse, SwapUnlock, LockLoop,
              LockNext, LockStep, ReadStep, WriteStep
<1>2. CASE \/ LoadViterbi(t) \/ DropResult(t) \/ Access(t) \/ ReturnFromAccess(t)
           \/ \E m \in Models : Swap(t, m)
  BY <1>2 DEF LoadViterbi, DropResult, Access, ReturnFromAccess, Swap
<1>3. CASE \/ InstallViterbi(t) \/ InstallRequestType(t) \/ InstallTheta(t)
           \/ DeleteOld(t)
  BY <1>3 DEF InstallViterbi, InstallRequestType, InstallTheta, DeleteOld
<1>4. CASE CreatorStep(t)
  BY <1>4 DEF CreatorStep, CreateTagger, OpenTheta, CopyTheta, CopyRequestType, DropTagger
<1> QED
  BY <1>1, <1>2, <1>3, <1>4 DEF Call, Continue, CreatorStep

LEMMA TypesStep ==
  ASSUME SwapTypes, Stages, Fresh, Next
  PROVE  SwapTypes'
<1> SUFFICES ASSUME NEW t \in Threads, Call(t) \/ Continue(t) PROVE SwapTypes'
  BY DEF Next
<1> USE DEF SwapTypes, Does, SetPtr, Jobs, settings
<1>1. CASE LockLoop(t) \/ LoadViterbi(t) \/ ReturnFromParse(t) \/ Parse(t) \/ DropResult(t)
  BY <1>1 DEF LockLoop, LoadViterbi, ReturnFromParse, Parse, DropResult, modelVars
<1>2. CASE Access(t) \/ ReturnFromAccess(t) \/ SwapLock(t) \/ SwapUnlock(t)
  BY <1>2 DEF Access, ReturnFromAccess, SwapLock, SwapUnlock
<1>3. ASSUME NEW m \in Models, Swap(t, m) PROVE SwapTypes'
  BY <1>3 DEF Swap, AllModels
<1>4. CASE InstallViterbi(t)
  <2>1. arg[t] \in AllModels
    BY <1>4 DEF InstallViterbi, Fresh, Pending, AllModels
  <2> QED
    BY <1>4, <2>1 DEF InstallViterbi
<1>5. CASE InstallRequestType(t) \/ InstallTheta(t)
  BY <1>5 DEF InstallRequestType, InstallTheta
<1>6. CASE DeleteOld(t)
  BY <1>6 DEF DeleteOld, Stages, Swapping
<1>7. CASE CreatorStep(t)
  BY <1>7, CreatorMoves DEF CreatorJobs
<1> QED
  BY <1>1, <1>2, <1>3, <1>4, <1>5, <1>6, <1>7 DEF Call, Continue, CreatorStep

(* A thread's steps leave the stages of the other threads alone. *)
LEMMA StagesStep ==
  ASSUME SwapTypes, LockTypeOK, Stages, Next
  PROVE  Stages'
<1> SUFFICES ASSUME NEW t \in Threads, Call(t) \/ Continue(t) PROVE Stages'
  BY DEF Next
<1> USE DEF SwapTypes, LockTypeOK, Stages, Does, SetPtr, Goto, InUse,
        Swapping, Creating, settings
<1>1. CASE Parse(t)
  BY <1>1 DEF Parse, ReadLock
<1>2. CASE DropResult(t) \/ ReturnFromAccess(t) \/ DeleteOld(t)
  BY <1>2 DEF DropResult, ReturnFromAccess, DeleteOld, lockVars
<1>3. CASE Access(t) \/ LoadViterbi(t)
  BY <1>3 DEF Access, LoadViterbi, lockVars
<1>4. ASSUME NEW m \in Models, Swap(t, m) PROVE Stages'
  BY <1>4, SwapAssumption DEF Swap, lockVars
<1>5. CASE LockLoop(t)
  BY <1>5 DEF LockLoop, modelVars, PassPending, AddReader, PassFlag, CompareAndSwap
<1>6. CASE ReturnFromParse(t)
  BY <1>6 DEF ReturnFromParse, ReadUnlock
<1>7. CASE SwapLock(t)
  BY <1>7 DEF SwapLock, WriteLock
<1>8. CASE InstallViterbi(t) \/ InstallRequestType(t) \/ InstallTheta(t)
  BY <1>8 DEF InstallViterbi, InstallRequestType, InstallTheta, lockVars
<1>9. CASE SwapUnlock(t)
  BY <1>9 DEF SwapUnlock, WriteUnlockFlag, WriteUnlockPending
<1>10. CASE CreatorStep(t)
  BY <1>10, CreatorMoves DEF CreatorJobs, lockVars
<1> QED
  BY <1>1, <1>2, <1>3, <1>4, <1>5, <1>6, <1>7, <1>8, <1>9, <1>10
  DEF Call, Continue, CreatorStep

(* Upcoming shrinks by what is installed, and is otherwise unchanged. *)
LEMMA UpcomingMoves ==
  ASSUME SwapTypes, Fresh, NEW t \in Threads, Call(t) \/ Continue(t)
  PROVE  /\ InstallViterbi(t) =>
              Pending' = Pending \ {t} /\ Upcoming' = Upcoming \ {arg[t]}
         /\ \A m \in Models : Swap(t, m) =>
              Pending' = Pending \cup {t} /\ Upcoming' = Upcoming
         /\ ~(InstallViterbi(t) \/ \E m \in Models : Swap(t, m)) =>
              Pending' = Pending /\ Upcoming' = Upcoming
<1> USE DEF SwapTypes, Does, SetPtr, settings, Pending, Upcoming, Fresh
<1>1. ASSUME InstallViterbi(t)
      PROVE  Pending' = Pending \ {t} /\ Upcoming' = Upcoming \ {arg[t]}
  BY <1>1 DEF InstallViterbi
<1>2. ASSUME NEW m \in Models, Swap(t, m)
      PROVE  Pending' = Pending \cup {t} /\ Upcoming' = Upcoming
  <2>1. Pending' = Pending \cup {t} /\ t \notin Pending
        /\ passed' = passed \cup {m} /\ m \notin passed
        /\ arg' = [arg EXCEPT ![t] = m]
    BY <1>2 DEF Swap
  <2> QED
    BY <2>1
<1>3. CASE LockLoop(t) \/ LoadViterbi(t) \/ ReturnFromParse(t) \/ Parse(t) \/ DropResult(t)
  <2>1. Pending' = Pending /\ passed' = passed /\ arg' = arg
    BY <1>3 DEF LockLoop, LoadViterbi, ReturnFromParse, Parse, DropResult, modelVars
  <2> QED
    BY <1>3, <2>1 DEF LockLoop, LoadViterbi, ReturnFromParse, Parse, DropResult,
                      modelVars, InstallViterbi, Swap
<1>4. CASE Access(t) \/ ReturnFromAccess(t) \/ SwapLock(t) \/ SwapUnlock(t)
           \/ InstallRequestType(t) \/ InstallTheta(t) \/ DeleteOld(t)
  <2>1. Pending' = Pending /\ passed' = passed /\ arg' = arg
    BY <1>4 DEF Access, ReturnFromAccess, SwapLock, SwapUnlock, InstallRequestType,
                InstallTheta, DeleteOld
  <2> QED
    BY <1>1, <1>2, <2>1
<1>5. CASE CreatorStep(t)
  <2>1. Pending' = Pending /\ passed' = passed /\ arg' = arg
    BY <1>5, CreatorMoves DEF CreatorJobs, Creating
  <2> QED
    BY <1>1, <1>2, <2>1
<1> QED
  BY <1>1, <1>2, <1>3, <1>4, <1>5 DEF Call, Continue, CreatorStep

(***************************************************************************)
(* While a swap assigns, no analysis runs and no other swap assigns.       *)
(***************************************************************************)
LEMMA Alone ==
  ASSUME LockInv, SwapTypes, Stages, NEW t \in Threads, pc[t] = "writing"
  PROVE  \A u \in Threads : ~InUse(u) /\ (Installing(u) => u = t)
BY DEF LockInv, MutualExclusion, Reading, Writing, Stages, Installing

LEMMA FreshStep ==
  ASSUME SwapTypes, Stages, Fresh, Next
  PROVE  Fresh'
<1> SUFFICES ASSUME NEW t \in Threads, Call(t) \/ Continue(t) PROVE Fresh'
  BY DEF Next
<1>0. None \notin Upcoming
  BY SwapAssumption DEF Fresh, Upcoming, SwapTypes, AllModels
<1>1. CASE InstallViterbi(t)
  <2>1. Pending' = Pending \ {t} /\ Upcoming' = Upcoming \ {arg[t]} /\ t \in Pending
    BY <1>1, UpcomingMoves DEF InstallViterbi, Does, Pending
  <2>2. viterbi' = arg[t] /\ passed' = passed /\ arg' = arg /\ ptr' = ptr
    BY <1>1 DEF InstallViterbi
  <2> QED
    BY <2>1, <2>2 DEF Fresh
<1>2. ASSUME NEW m \in Models, Swap(t, m) PROVE Fresh'
  <2>1. Pending' = Pending \cup {t} /\ Upcoming' = Upcoming /\ t \notin Pending
    BY <1>2, UpcomingMoves DEF Swap, Does, Pending
  <2>2. passed' = passed \cup {m} /\ m \notin passed /\ viterbi' = viterbi
        /\ arg' = [arg EXCEPT ![t] = m] /\ ptr' = [ptr EXCEPT ![t] = viterbi]
    BY <1>2 DEF Swap, SetPtr
  <2> QED
    BY <2>1, <2>2 DEF Fresh, SwapTypes, Pending
<1>3. CASE ~(InstallViterbi(t) \/ \E m \in Models : Swap(t, m))
  <2>1. Pending' = Pending /\ Upcoming' = Upcoming
    BY <1>3, UpcomingMoves
  <2>2. viterbi' = viterbi /\ passed' = passed /\ arg' = arg
        /\ (ptr' = ptr \/ ptr' = [ptr EXCEPT ![t] = None]
                       \/ ptr' = [ptr EXCEPT ![t] = viterbi])
    <3>1. CASE CreatorStep(t)
      BY <3>1, CreatorMoves
    <3>2. CASE ~CreatorStep(t)
      BY <1>3, <3>2
      DEF Call, Continue, CreatorStep, Parse, DropResult, Access, LockLoop, LoadViterbi,
          ReturnFromParse, ReturnFromAccess, SwapLock, InstallRequestType,
          InstallTheta, SwapUnlock, DeleteOld, SetPtr, modelVars, settings
    <3> QED
      BY <3>1, <3>2
  <2> QED
    BY <1>0, <2>1, <2>2 DEF Fresh, SwapTypes
<1> QED
  BY <1>1, <1>2, <1>3

LEMMA RetiredStep ==
  ASSUME SwapTypes, Stages, Fresh, Retired, Next
  PROVE  Retired'
<1> SUFFICES ASSUME NEW t \in Threads, Call(t) \/ Continue(t) PROVE Retired'
  BY DEF Next
<1>1. CASE InstallViterbi(t)
  <2>1. Pending' = Pending \ {t} /\ Upcoming' = Upcoming \ {arg[t]}
        /\ arg[t] \in Upcoming
    BY <1>1, UpcomingMoves DEF InstallViterbi, Does, Pending, Upcoming
  <2>2. viterbi' = arg[t] /\ ptr' = ptr /\ deleted' = deleted
    BY <1>1 DEF InstallViterbi
  <2> QED
    BY <2>1, <2>2 DEF Retired, Fresh
<1>2. ASSUME NEW m \in Models, Swap(t, m) PROVE Retired'
  <2>1. Pending' = Pending \cup {t} /\ Upcoming' = Upcoming
    BY <1>2, UpcomingMoves
  <2> QED
    BY <1>2, <2>1 DEF Swap, Does, SetPtr, Retired, SwapTypes, settings
<1>3. CASE DeleteOld(t)
  <2>1. Pending' = Pending /\ Upcoming' = Upcoming
    BY <1>3, UpcomingMoves DEF DeleteOld, Does, InstallViterbi, Swap
  <2>2. ptr[t] # viterbi /\ ptr[t] \notin Upcoming
    BY <1>3 DEF DeleteOld, Does, Retired, Fresh, Swapping, Pending
  <2>3. viterbi' = viterbi /\ job' = [job EXCEPT ![t] = "idle"]
        /\ ptr' = [ptr EXCEPT ![t] = None]
        /\ deleted' = [deleted EXCEPT ![ptr[t]] = @ + 1]
    BY <1>3 DEF DeleteOld, Does, SetPtr
  <2>4. \A m \in AllModels : deleted'[m] > 0 => deleted[m] > 0 \/ m = ptr[t]
    BY <2>3 DEF SwapTypes
  <2> QED
    BY <2>1, <2>2, <2>3, <2>4 DEF Retired, SwapTypes, Swapping
<1>4. CASE \/ LockLoop(t) \/ LoadViterbi(t) \/ ReturnFromParse(t) \/ Parse(t)
           \/ DropResult(t) \/ Access(t) \/ ReturnFromAccess(t) \/ SwapLock(t)
           \/ InstallRequestType(t) \/ InstallTheta(t) \/ SwapUnlock(t)
  <2>1. viterbi' = viterbi /\ deleted' = deleted
        /\ \A u \in Threads : job'[u] \in Swapping =>
             job[u] \in Swapping /\ ptr'[u] = ptr[u]
    BY <1>4 DEF LockLoop, LoadViterbi, ReturnFromParse, Parse, DropResult, Access,
                ReturnFromAccess, SwapLock, InstallRequestType, InstallTheta,
                SwapUnlock, modelVars, Does, SetPtr, Swapping, SwapTypes, settings
  <2>2. ~InstallViterbi(t) /\ \A m \in Models : ~Swap(t, m)
    <3>1. CASE LockLoop(t) \/ LoadViterbi(t) \/ SwapUnlock(t)
      BY <3>1 DEF LockLoop, LoadViterbi, SwapUnlock, modelVars, SwapTypes, Does,
                  InstallViterbi, Swap
    <3>2. CASE \/ ReturnFromParse(t) \/ Parse(t) \/ DropResult(t) \/ Access(t)
               \/ ReturnFromAccess(t) \/ SwapLock(t) \/ InstallRequestType(t)
               \/ InstallTheta(t)
      BY <3>2 DEF ReturnFromParse, Parse, DropResult, Access, ReturnFromAccess,
                  SwapLock, InstallRequestType, InstallTheta, Does, SwapTypes,
                  InstallViterbi, Swap
    <3> QED
      BY <1>4, <3>1, <3>2
  <2>3. Pending' = Pending /\ Upcoming' = Upcoming
    BY <2>2, UpcomingMoves
  <2> QED
    BY <2>1, <2>3 DEF Retired
<1>5. CASE CreatorStep(t)
  <2>1. viterbi' = viterbi /\ deleted' = deleted /\ ptr' = ptr
        /\ \A u \in Threads : job'[u] \in Swapping => job[u] \in Swapping
    BY <1>5, CreatorMoves DEF CreatorJobs, Creating, Swapping, SwapTypes
  <2>2. Pending' = Pending /\ Upcoming' = Upcoming
    BY <1>5, CreatorMoves DEF CreatorJobs, Creating, Pending, Upcoming, SwapTypes
  <2> QED
    BY <2>1, <2>2 DEF Retired
<1> QED
  BY <1>1, <1>2, <1>3, <1>4, <1>5 DEF Call, Continue, CreatorStep

-----------------------------------------------------------------------------
LEMMA SettingsStep ==
  ASSUME LockInv, SwapTypes, Stages, Settings, Next
  PROVE  Settings'
<1> SUFFICES ASSUME NEW t \in Threads, Call(t) \/ Continue(t) PROVE Settings'
  BY DEF Next
<1> USE DEF Does, SwapTypes, Installing
<1>1. CASE InstallViterbi(t)
  <2>1. \A u \in Threads : Installing(u) => u = t
    BY <1>1, Alone DEF InstallViterbi
  <2>2. viterbi' = arg[t] /\ arg' = arg /\ job' = [job EXCEPT ![t] = "setRequestType"]
    BY <1>1 DEF InstallViterbi
  <2> QED
    BY <2>1, <2>2 DEF Settings
<1>2. CASE InstallRequestType(t)
  <2>1. requestType' = arg[t] /\ arg' = arg /\ viterbi' = viterbi /\ Installing(t)
        /\ job' = [job EXCEPT ![t] = "setTheta"]
    BY <1>2 DEF InstallRequestType
  <2>2. \A u \in Threads : Installing(u) => u = t
    BY <2>1, Alone DEF Stages
  <2> QED
    BY <2>1, <2>2 DEF Settings
<1>3. CASE InstallTheta(t)
  <2>1. theta' = arg[t] /\ arg' = arg /\ viterbi' = viterbi /\ job[t] = "setTheta"
        /\ requestType' = requestType /\ job' = [job EXCEPT ![t] = "installed"]
    BY <1>3 DEF InstallTheta
  <2>2. \A u \in Threads : Installing(u) => u = t
    BY <2>1, Alone DEF Stages
  <2> QED
    BY <2>1, <2>2 DEF Settings
<1>4. CASE \/ LockLoop(t) \/ LoadViterbi(t) \/ ReturnFromParse(t) \/ Parse(t)
           \/ DropResult(t) \/ Access(t) \/ ReturnFromAccess(t) \/ SwapLock(t)
           \/ SwapUnlock(t) \/ DeleteOld(t) \/ \E m \in Models : Swap(t, m)
  <2>1. UNCHANGED <<viterbi, requestType, theta>>
    BY <1>4 DEF LockLoop, LoadViterbi, ReturnFromParse, Parse, DropResult, Access,
                ReturnFromAccess, SwapLock, SwapUnlock, DeleteOld, Swap, modelVars,
                settings
  <2>2. \A u \in Threads :
          /\ Installing(u)' <=> Installing(u)
          /\ Installing(u) => arg'[u] = arg[u] /\ job'[u] = job[u]
    BY <1>4 DEF LockLoop, LoadViterbi, ReturnFromParse, Parse, DropResult, Access,
                ReturnFromAccess, SwapLock, SwapUnlock, DeleteOld, Swap, modelVars
  <2> QED
    BY <2>1, <2>2 DEF Settings
<1>5. CASE CreatorStep(t)
  <2>1. UNCHANGED <<viterbi, requestType, theta, arg>>
        /\ \A u \in Threads :
             /\ Installing(u)' <=> Installing(u)
             /\ Installing(u) => job'[u] = job[u]
    BY <1>5, CreatorMoves DEF CreatorJobs, Creating
  <2> QED
    BY <2>1 DEF Settings
<1> QED
  BY <1>1, <1>2, <1>3, <1>4, <1>5 DEF Call, Continue, CreatorStep

LEMMA LoadedStep ==
  ASSUME LockInv, SwapTypes, Stages, Loaded, Next
  PROVE  Loaded'
<1> SUFFICES ASSUME NEW t \in Threads, Call(t) \/ Continue(t) PROVE Loaded'
  BY DEF Next
<1> USE DEF Does, SetPtr, SwapTypes, InUse
<1>1. CASE InstallViterbi(t)
  <2>1. \A u \in Threads : ~InUse(u)
    BY <1>1, Alone DEF InstallViterbi
  <2> QED
    BY <1>1, <2>1 DEF InstallViterbi, Loaded
<1>2. CASE LoadViterbi(t)
  BY <1>2 DEF LoadViterbi, Loaded
<1>3. CASE \/ LockLoop(t) \/ ReturnFromParse(t) \/ Parse(t)
           \/ DropResult(t) \/ Access(t) \/ ReturnFromAccess(t) \/ SwapLock(t)
           \/ SwapUnlock(t) \/ DeleteOld(t) \/ InstallRequestType(t)
           \/ InstallTheta(t) \/ \E m \in Models : Swap(t, m)
  <2>1. viterbi' = viterbi /\ \A u \in Threads : InUse(u)' => InUse(u) /\ ptr'[u] = ptr[u]
    BY <1>3 DEF LockLoop, ReturnFromParse, Parse, DropResult, Access,
                ReturnFromAccess, SwapLock, SwapUnlock, DeleteOld, Swap, modelVars,
                InstallRequestType, InstallTheta, Stages
  <2> QED
    BY <2>1 DEF Loaded
<1>4. CASE CreatorStep(t)
  BY <1>4, CreatorMoves DEF CreatorJobs, Creating, Loaded
<1> QED
  BY <1>1, <1>2, <1>3, <1>4 DEF Call, Continue, CreatorStep

(***************************************************************************)
(* createTagger reads without the lock.  The fields it may read are those  *)
(* of the model in place or, while a swap assigns, also of the one before, *)
(* and seen has both.                                                      *)
(***************************************************************************)
LEMMA CopiesStep ==
  ASSUME LockInv, SwapTypes, Stages, Settings, Copies, Next
  PROVE  Copies'
<1> SUFFICES ASSUME NEW t \in Threads, Call(t) \/ Continue(t) PROVE Copies'
  BY DEF Next
<1> USE DEF Does, SwapTypes, IsTagger, settings
<1>1. CASE InstallViterbi(t)
  <2>1. viterbi' = arg[t] /\ UNCHANGED <<requestType, theta, tagger>>
        /\ job' = [job EXCEPT ![t] = "setRequestType"]
        /\ seen' = [u \in Threads |-> IF job[u] \in Creating THEN seen[u] \cup {arg[t]}
                                                           ELSE seen[u]]
    BY <1>1 DEF InstallViterbi
  <2>2. \A u \in Threads : job'[u] \in Creating \cup {"created"} => job[u] = job'[u]
    BY <2>1 DEF Creating
  <2> QED
    BY <2>1, <2>2 DEF Copies, Creating
<1>2. CASE InstallRequestType(t) \/ InstallTheta(t)
  <2>1. arg[t] = viterbi
    BY <1>2 DEF InstallRequestType, InstallTheta, Settings, Installing
  <2>2. UNCHANGED <<viterbi, tagger, seen>>
        /\ requestType' \in {requestType, viterbi} /\ theta' \in {theta, viterbi}
    BY <1>2, <2>1 DEF InstallRequestType, InstallTheta, taggerVars
  <2>3. \A u \in Threads : job'[u] \in Creating \cup {"created"} => job[u] = job'[u]
    BY <1>2 DEF InstallRequestType, InstallTheta, Creating
  <2> QED
    BY <2>2, <2>3 DEF Copies, Creating
<1>3. CASE CreateTagger(t)
  <2>1. requestType \in InPlace /\ theta \in InPlace /\ viterbi \in InPlace
    BY DEF InPlace, Settings
  <2>2. UNCHANGED <<viterbi, requestType, theta>>
        /\ job' = [job EXCEPT ![t] = "openTheta"]
        /\ tagger' = [tagger EXCEPT ![t].requestType = requestType]
        /\ seen' = [seen EXCEPT ![t] = InPlace]
    BY <1>3 DEF CreateTagger
  <2> QED
    BY <2>1, <2>2 DEF Copies, Creating
<1>4. CASE OpenTheta(t) \/ CopyTheta(t)
  <2>1. UNCHANGED <<viterbi, requestType, theta, seen>> /\ job[t] \in Creating
        /\ job' \in {[job EXCEPT ![t] = "copyTheta"], [job EXCEPT ![t] = "copyRequestType"]}
    BY <1>4 DEF OpenTheta, CopyTheta, Creating
  <2>2. PICK m \in seen[t] : tagger' = [tagger EXCEPT ![t].theta = m]
    BY <1>4 DEF OpenTheta, CopyTheta, Copies, Creating
  <2> QED
    BY <2>1, <2>2 DEF Copies, Creating
<1>5. CASE CopyRequestType(t)
  <2>1. UNCHANGED <<viterbi, requestType, theta, seen>> /\ job[t] = "copyRequestType"
        /\ job' = [job EXCEPT ![t] = "created"]
    BY <1>5 DEF CopyRequestType
  <2>2. PICK m \in seen[t] : tagger' = [tagger EXCEPT ![t].requestType = m]
    BY <1>5 DEF CopyRequestType, Copies, Creating
  <2> QED
    BY <2>1, <2>2 DEF Copies, Creating
<1>6. CASE DropTagger(t)
  <2>1. UNCHANGED <<viterbi, requestType, theta>> /\ job' = [job EXCEPT ![t] = "idle"]
        /\ tagger' = [tagger EXCEPT ![t] = NoTagger] /\ seen' = [seen EXCEPT ![t] = {}]
    BY <1>6 DEF DropTagger
  <2> QED
    BY <2>1 DEF Copies, Creating, NoTagger
<1>7. CASE \/ LockLoop(t) \/ LoadViterbi(t) \/ ReturnFromParse(t) \/ Parse(t)
           \/ DropResult(t) \/ Access(t) \/ ReturnFromAccess(t) \/ SwapLock(t)
           \/ SwapUnlock(t) \/ DeleteOld(t) \/ \E m \in Models : Swap(t, m)
  <2>1. UNCHANGED <<viterbi, requestType, theta, tagger, seen>>
    BY <1>7 DEF LockLoop, LoadViterbi, ReturnFromParse, Parse, DropResult, Access,
                ReturnFromAccess, SwapLock, SwapUnlock, DeleteOld, Swap, modelVars,
                taggerVars
  <2>2. \A u \in Threads : job'[u] \in Creating \cup {"created"} => job[u] = job'[u]
    BY <1>7 DEF LockLoop, LoadViterbi, ReturnFromParse, Parse, DropResult, Access,
                ReturnFromAccess, SwapLock, SwapUnlock, DeleteOld, Swap, modelVars,
                Creating
  <2> QED
    BY <2>1, <2>2 DEF Copies, Creating
<1> QED
  BY <1>1, <1>2, <1>3, <1>4, <1>5, <1>6, <1>7 DEF Call, Continue

-----------------------------------------------------------------------------
LEMMA SwapInit == Init => SwapInv
<1> SUFFICES ASSUME Init PROVE SwapInv
  OBVIOUS
<1>1. LockInv
  BY InitInv DEF Init
<1>2. SwapTypes /\ Stages /\ Loaded /\ Settings /\ Copies
  BY DEF Init, LockInit, SwapTypes, Stages, Loaded, Settings, Installing, InUse,
         Jobs, Swapping, Creating, AllModels, Copies, IsTagger, NoTagger
<1>3. Pending = {} /\ Upcoming = Models
  BY DEF Init, Pending, Upcoming
<1>4. Fresh /\ Retired
  BY <1>3, SwapAssumption DEF Init, Fresh, Retired, Swapping, AllModels
<1> QED
  BY <1>1, <1>2, <1>4 DEF SwapInv

LEMMA SwapStep ==
  ASSUME ~OsxAtomics, SwapInv, [Next]_vars
  PROVE  SwapInv'
<1> USE DEF SwapInv
<1>1. CASE Next
  BY <1>1, LockFollows, StepInv, TypesStep, StagesStep, FreshStep, RetiredStep,
     SettingsStep, LoadedStep, CopiesStep DEF LockInv
<1>2. CASE UNCHANGED vars
  <2>1. LockInv'
    BY <1>2, StepInv DEF vars
  <2> QED
    BY <1>2, <2>1
    DEF vars, lockVars, modelVars, SwapTypes, Stages, Fresh, Retired, Settings, Loaded,
        Pending, Upcoming, Installing, InUse, Copies, taggerVars
<1> QED
  BY <1>1, <1>2

LEMMA SwapInvImplies ==
  ASSUME SwapInv
  PROVE  ParseKeepsModel /\ TaggersOfModelsInPlace
<1> USE DEF SwapInv
<1>1. ParseKeepsModel
  <2> SUFFICES ASSUME NEW t \in Threads, InUse(t)
               PROVE  ptr[t] = viterbi /\ deleted[ptr[t]] = 0
    BY DEF ParseKeepsModel
  <2>1. ptr[t] = viterbi
    BY DEF Loaded
  <2> QED
    BY <2>1 DEF Retired, SwapTypes
<1>2. TaggersOfModelsInPlace
  BY DEF Copies, TaggersOfModelsInPlace
<1> QED
  BY <1>1, <1>2

LEMMA SwapInvariant ==
  ASSUME ~OsxAtomics
  PROVE  Spec => [](SwapInv /\ ParseKeepsModel /\ TaggersOfModelsInPlace)
<1>1. SwapInv /\ [Next]_vars => SwapInv'
  BY SwapStep
<1>2. SwapInv => ParseKeepsModel /\ TaggersOfModelsInPlace
  BY SwapInvImplies
<1> QED
  BY <1>1, <1>2, SwapInit, PTL DEF Spec

(***************************************************************************)
(* For any number of threads that parse and that swap: an analysis never   *)
(* loses the dictionary it has loaded under the reader lock.               *)
(***************************************************************************)
THEOREM AnalysisKeepsItsModel ==
  ASSUME ~OsxAtomics
  PROVE  Spec => []ParseKeepsModel
BY SwapInvariant, PTL

(***************************************************************************)
(* For any number of threads that parse, create taggers and swap: what     *)
(* createTagger reads without the lock are the request type and the theta  *)
(* of models that were in place during the call, so of a single one unless *)
(* a swap assigned meanwhile.                                              *)
(***************************************************************************)
THEOREM TaggersAreOfModelsInPlace ==
  ASSUME ~OsxAtomics
  PROVE  Spec => []TaggersOfModelsInPlace
BY SwapInvariant, PTL

-----------------------------------------------------------------------------
(***************************************************************************)
(* The abstract model: loading is Use, the return of parse is Release, the *)
(* assignment of viterbi_ is Replace, the first deletion is Destroy.       *)
(***************************************************************************)
using == [t \in Threads |-> IF InUse(t) THEN ptr[t] ELSE None]
live == {m \in AllModels : deleted[m] = 0}

LEMMA AtomicStep ==
  ASSUME SwapInv, Next
  PROVE  Atomic!Next \/ UNCHANGED <<viterbi, using, live>>
<1> SUFFICES ASSUME NEW t \in Threads, Call(t) \/ Continue(t)
             PROVE  Atomic!Next \/ UNCHANGED <<viterbi, using, live>>
  BY DEF Next
<1>0. SwapTypes /\ Stages /\ Loaded /\ Retired /\ LockInv
  BY DEF SwapInv
<1> USE <1>0 DEF Does, SetPtr, SwapTypes, InUse
<1>1. CASE LoadViterbi(t)
  <2>1. using[t] = None /\ using' = [using EXCEPT ![t] = viterbi]
    BY <1>1, SwapAssumption DEF LoadViterbi, using
  <2>2. UNCHANGED <<viterbi, live>>
    BY <1>1 DEF LoadViterbi, live
  <2>3. Atomic!Use(t)
    BY <2>1, <2>2 DEF Atomic!Use, using, live
  <2> QED
    BY <2>3 DEF Atomic!Next
<1>2. CASE ReturnFromParse(t)
  <2>1. using[t] # None /\ using' = [using EXCEPT ![t] = None]
    BY <1>2 DEF ReturnFromParse, using
  <2>2. UNCHANGED <<viterbi, live>>
    BY <1>2 DEF ReturnFromParse, live
  <2>3. Atomic!Release(t)
    BY <2>1, <2>2 DEF Atomic!Release, using, live
  <2> QED
    BY <2>3 DEF Atomic!Next
<1>3. CASE InstallViterbi(t)
  <2>1. arg[t] \in Upcoming /\ arg[t] \in AllModels
    BY <1>3 DEF InstallViterbi, Upcoming, Pending, SwapInv, Fresh, AllModels
  <2>2. arg[t] \in live \ {viterbi}
    BY <2>1 DEF live, Retired, SwapInv, Fresh
  <2>3. \A u \in Threads : using[u] = None
    BY <1>3, Alone DEF InstallViterbi, using
  <2>4. viterbi' = arg[t] /\ UNCHANGED <<using, live>>
    BY <1>3 DEF InstallViterbi, using, live
  <2>5. Atomic!Replace(arg[t])
    BY <2>2, <2>3, <2>4 DEF Atomic!Replace, using, live
  <2> QED
    BY <2>1, <2>5 DEF Atomic!Next
<1>4. CASE DeleteOld(t)
  <2>1. PICK m \in AllModels : m = ptr[t] /\ m # viterbi
    BY <1>4 DEF DeleteOld, Stages, Swapping, Retired, Pending
  <2>2. UNCHANGED <<viterbi, using>>
    BY <1>4 DEF DeleteOld, using
  <2>3. live' = live \ {m}
    BY <1>4, <2>1 DEF DeleteOld, live
  <2>4. \A u \in Threads : using[u] # m
    BY <2>1, SwapAssumption DEF using, Loaded
  <2>5. CASE m \in live
    <3>1. Atomic!Destroy(m)
      BY <2>1, <2>2, <2>3, <2>4, <2>5 DEF Atomic!Destroy, using, live
    <3> QED
      BY <3>1 DEF Atomic!Next
  <2>6. CASE m \notin live
    BY <2>2, <2>3, <2>6
  <2> QED
    BY <2>5, <2>6
<1>5. CASE \/ LockLoop(t) \/ Parse(t) \/ DropResult(t) \/ Access(t)
           \/ ReturnFromAccess(t) \/ SwapLock(t) \/ SwapUnlock(t)
           \/ InstallRequestType(t) \/ InstallTheta(t)
           \/ \E m \in Models : Swap(t, m)
  <2>1. UNCHANGED <<viterbi, live>>
    BY <1>5 DEF LockLoop, Parse, DropResult, Access, ReturnFromAccess, SwapLock,
                SwapUnlock, InstallRequestType, InstallTheta, Swap, modelVars, live
  <2>2. \A u \in Threads :
          (IF InUse(u) THEN ptr[u] ELSE None)' = IF InUse(u) THEN ptr[u] ELSE None
    BY <1>5 DEF LockLoop, Parse, DropResult, Access, ReturnFromAccess, SwapLock,
                SwapUnlock, InstallRequestType, InstallTheta, Swap, modelVars, Stages
  <2> QED
    BY <2>1, <2>2 DEF using
<1>6. CASE CreatorStep(t)
  <2>1. UNCHANGED <<viterbi, live, ptr>>
    BY <1>6, CreatorMoves DEF live
  <2>2. \A u \in Threads : InUse(u)' <=> InUse(u)
    BY <1>6, CreatorMoves DEF CreatorJobs, Creating
  <2> QED
    BY <2>1, <2>2 DEF using
<1> QED
  BY <1>1, <1>2, <1>3, <1>4, <1>5, <1>6 DEF Call, Continue, CreatorStep

(***************************************************************************)
(* To parsing threads a swap is atomic, however many threads swap: every   *)
(* behaviour of the lock, the loads and the assignments is one of          *)
(* AtomicModel.                                                            *)
(***************************************************************************)
THEOREM SwapIsAtomic ==
  ASSUME ~OsxAtomics
  PROVE  Spec => ImplementsAtomicModel
<1>1. Init => Atomic!Init
  BY DEF Init, Atomic!Init, AllModels, InUse
<1>2. SwapInv /\ [Next]_vars
        => SwapInv' /\ [Atomic!Next]_<<viterbi, using, live>>
  <2> SUFFICES ASSUME SwapInv, [Next]_vars
               PROVE  SwapInv' /\ [Atomic!Next]_<<viterbi, using, live>>
    OBVIOUS
  <2>1. SwapInv'
    BY SwapStep
  <2>2. CASE Next
    BY <2>1, <2>2, AtomicStep
  <2>3. CASE UNCHANGED vars
    BY <2>1, <2>3 DEF vars, modelVars, using, live, InUse
  <2> QED
    BY <2>2, <2>3
<1> QED
  BY <1>1, <1>2, SwapInit, PTL DEF Spec, ImplementsAtomicModel, Atomic!Spec, using, live

-----------------------------------------------------------------------------
(* With one swapping thread, what it loaded is what it replaces. *)
LEMMA OnlySwapper ==
  ASSUME SingleWriter, Stages,
         NEW t \in Threads, NEW u \in Threads, job[t] \in Swapping, job[u] \in Swapping
  PROVE  t = u
BY DEF SingleWriter, Stages

LEMMA OneByOneStep ==
  ASSUME SingleWriter, SwapInv, OneByOne, Next
  PROVE  OneByOne'
<1> SUFFICES ASSUME NEW t \in Threads, Call(t) \/ Continue(t) PROVE OneByOne'
  BY DEF Next
<1>0. SwapTypes /\ Stages /\ Fresh /\ Retired
  BY DEF SwapInv
<1> USE <1>0 DEF Does, SetPtr, SwapTypes, Swapping
<1>1. ASSUME NEW m \in Models, Swap(t, m) PROVE OneByOne'
  <2>1. viterbi' = viterbi /\ deleted' = deleted /\ job[t] = "idle"
        /\ ptr' = [ptr EXCEPT ![t] = viterbi] /\ job' = [job EXCEPT ![t] = "loaded"]
    BY <1>1 DEF Swap
  <2>2. Pending' = Pending \cup {t} /\ Upcoming' = Upcoming
    BY <1>1, UpcomingMoves
  <2>3. deleted[viterbi] = 0
    BY DEF Retired
  <2>4. \A u \in Threads : job'[u] \in Swapping => deleted'[ptr'[u]] = 0
    BY <2>1, <2>3 DEF OneByOne
  <2>5. \A u \in Pending' : ptr'[u] = viterbi'
    BY <2>1, <2>2 DEF OneByOne, Pending
  <2>6. ASSUME NEW u \in Threads, job[u] \in Swapping
        PROVE  job'[u] \in Swapping /\ ptr'[u] = ptr[u]
    BY <2>1, <2>6
  <2> QED
    BY <2>1, <2>2, <2>4, <2>5, <2>6 DEF OneByOne
<1>2. CASE InstallViterbi(t)
  <2>1. viterbi' = arg[t] /\ deleted' = deleted /\ ptr' = ptr /\ t \in Pending
        /\ job' = [job EXCEPT ![t] = "setRequestType"]
    BY <1>2 DEF InstallViterbi, Pending
  <2>2. Pending' = Pending \ {t} /\ Upcoming' = Upcoming \ {arg[t]}
    BY <1>2, UpcomingMoves
  <2>3. Pending' = {}
    BY <2>1, <2>2, OnlySwapper DEF Pending
  <2>4. ptr[t] = viterbi /\ job'[t] \in Swapping
    BY <2>1 DEF OneByOne
  <2>5. \A u \in Threads : job'[u] \in Swapping <=> job[u] \in Swapping
    BY <2>1 DEF Pending
  <2> QED
    BY <2>1, <2>2, <2>3, <2>4, <2>5 DEF OneByOne
<1>3. CASE DeleteOld(t)
  <2>1. viterbi' = viterbi /\ job[t] \in Swapping /\ ptr[t] \in AllModels
        /\ job' = [job EXCEPT ![t] = "idle"] /\ ptr' = [ptr EXCEPT ![t] = None]
        /\ deleted' = [deleted EXCEPT ![ptr[t]] = @ + 1]
    BY <1>3 DEF DeleteOld, Stages
  <2>2. Pending' = Pending /\ Upcoming' = Upcoming
    BY <1>3, UpcomingMoves DEF DeleteOld, InstallViterbi, Swap
  <2>3. \A u \in Threads : job[u] \in Swapping => u = t
    BY <2>1, OnlySwapper
  <2>4. \A u \in Threads : job'[u] \notin Swapping
    BY <2>1, <2>3
  <2>5. deleted'[ptr[t]] = 1 /\ \A m \in AllModels : m # ptr[t] => deleted'[m] = deleted[m]
    BY <2>1 DEF OneByOne
  <2>6. Pending' = {}
    BY <2>4 DEF Pending
  <2>7. \A m \in AllModels : m \in Upcoming \cup {viterbi} \/ deleted'[m] = 1
    BY <2>1, <2>3, <2>5 DEF OneByOne
  <2>8. \A m \in AllModels : deleted'[m] <= 1
    BY <2>5 DEF OneByOne
  <2> QED
    BY <2>1, <2>2, <2>4, <2>6, <2>7, <2>8 DEF OneByOne
<1>4. CASE \/ LockLoop(t) \/ LoadViterbi(t) \/ ReturnFromParse(t) \/ Parse(t)
           \/ DropResult(t) \/ Access(t) \/ ReturnFromAccess(t) \/ SwapLock(t)
           \/ InstallRequestType(t) \/ InstallTheta(t) \/ SwapUnlock(t)
  <2>1. viterbi' = viterbi /\ deleted' = deleted
        /\ \A u \in Threads :
             /\ job'[u] \in Swapping <=> job[u] \in Swapping
             /\ job[u] \in Swapping => ptr'[u] = ptr[u]
    BY <1>4 DEF LockLoop, LoadViterbi, ReturnFromParse, Parse, DropResult, Access,
                ReturnFromAccess, SwapLock, InstallRequestType, InstallTheta,
                SwapUnlock, modelVars
  <2>2. Pending' = Pending /\ Upcoming' = Upcoming
    BY <1>4
    DEF LockLoop, LoadViterbi, ReturnFromParse, Parse, DropResult, Access,
        ReturnFromAccess, SwapLock, InstallRequestType, InstallTheta, SwapUnlock,
        modelVars, Pending, Upcoming
  <2> QED
    BY <2>1, <2>2 DEF OneByOne, Pending
<1>5. CASE CreatorStep(t)
  <2>1. UNCHANGED <<viterbi, deleted, passed, ptr, arg>>
        /\ \A u \in Threads : job'[u] \in Swapping <=> job[u] \in Swapping
    BY <1>5, CreatorMoves DEF CreatorJobs, Creating
  <2>2. Pending' = Pending /\ Upcoming' = Upcoming
    BY <1>5, CreatorMoves DEF CreatorJobs, Creating, Pending, Upcoming
  <2> QED
    BY <2>1, <2>2 DEF OneByOne
<1> QED
  BY <1>1, <1>2, <1>3, <1>4, <1>5 DEF Call, Continue, CreatorStep

(* Both together, by induction. *)
LEMMA OneSwapperInvariant ==
  ASSUME ~OsxAtomics, SingleWriter
  PROVE  Spec => [](DeletedOnce /\ NoLeak)
<1> DEFINE Inv == SwapInv /\ OneByOne
<1>1. Init => Inv
  <2> SUFFICES ASSUME Init PROVE OneByOne
    BY SwapInit
  <2>1. Pending = {} /\ Upcoming = Models
    BY DEF Init, Pending, Upcoming
  <2> QED
    BY <2>1 DEF Init, OneByOne, Swapping, AllModels
<1>2. Inv /\ [Next]_vars => Inv'
  <2> SUFFICES ASSUME SwapInv, OneByOne, [Next]_vars PROVE OneByOne'
    BY SwapStep
  <2>1. CASE UNCHANGED vars
    BY <2>1 DEF vars, modelVars, OneByOne, Pending, Upcoming
  <2> QED
    BY <2>1, OneByOneStep
<1>3. Inv => DeletedOnce /\ NoLeak
  <2> SUFFICES ASSUME SwapInv, OneByOne PROVE DeletedOnce /\ NoLeak
    OBVIOUS
  <2>1. DeletedOnce
    BY DEF SwapInv, SwapTypes, Retired, OneByOne, DeletedOnce
  <2>2. NoLeak
    <3> SUFFICES ASSUME \A t \in Threads : job[t] \notin Swapping,
                        NEW m \in passed \cup {FirstModel}, m # viterbi
                 PROVE  deleted[m] > 0
      BY DEF NoLeak
    <3>1. Upcoming = Models \ passed
      BY DEF Upcoming, Pending, Swapping
    <3>2. m \in AllModels /\ m \notin Upcoming
      BY <3>1, SwapAssumption DEF SwapInv, SwapTypes, AllModels
    <3> QED
      BY <3>2 DEF OneByOne
  <2> QED
    BY <2>1, <2>2
<1> QED
  BY <1>1, <1>2, <1>3, PTL DEF Spec

(***************************************************************************)
(* If only one thread swaps, no Viterbi is deleted twice, and none that is *)
(* still the model's is deleted.                                           *)
(***************************************************************************)
THEOREM OneSwapperDeletesOnce ==
  ASSUME ~OsxAtomics, SingleWriter
  PROVE  Spec => []DeletedOnce
BY OneSwapperInvariant, PTL

(***************************************************************************)
(* If only one thread swaps, every Viterbi it has replaced is gone when    *)
(* its swap has returned.                                                  *)
(***************************************************************************)
THEOREM OneSwapperLeaksNothing ==
  ASSUME ~OsxAtomics, SingleWriter
  PROVE  Spec => []NoLeak
BY OneSwapperInvariant, PTL
=============================================================================
