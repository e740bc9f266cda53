----------------------------- MODULE ModelSwap ------------------------------
(***************************************************************************)
(* One ModelImpl shared by parsing threads and by threads that swap its    *)
(* contents (mecab-0.996/src/tagger.cpp).  The model keeps viterbi_, which *)
(* owns the dictionary, request_type_ and theta_; a value is named by the  *)
(* model it was loaded with.  swap() moves the three out of the model it   *)
(* is given and deletes the Viterbi that was there; parse(Lattice* ) takes *)
(* the reader lock, loads viterbi_ and analyses the sentence, and leaves   *)
(* nodes behind that point into that dictionary.  The accessors read       *)
(* viterbi_, and createTagger reads request_type_ and theta_, without the  *)
(* lock.                                                                   *)
(*                                                                         *)
(* job[t] is what the thread is doing, ptr[t] the Viterbi it has loaded,   *)
(* arg[t] the model it passed to swap, tagger[t] the settings of the       *)
(* tagger it creates.  seen is a history variable: seen[t] are the models  *)
(* that were the shared model's contents, or half of them while a swap     *)
(* assigned, at some time since t called createTagger.                     *)
(***************************************************************************)
EXTENDS RWLock

CONSTANTS
  Creators,      \* the readers that create taggers as well
  Models,        \* the models callers create and pass to swap
  FirstModel,    \* the model the shared ModelImpl was opened with
  None

AllModels == Models \cup {FirstModel}

ASSUME SwapAssumption ==
  /\ Creators \subseteq Readers
  /\ FirstModel \notin Models /\ None \notin AllModels

VARIABLES
  viterbi, requestType, theta,   \* the fields of the shared ModelImpl
  deleted,                       \* how often each Viterbi was deleted
  passed,                        \* the models already given to swap
  job, ptr, arg,
  tagger, seen

taggerVars == <<tagger, seen>>
modelVars ==
  <<viterbi, requestType, theta, deleted, passed, job, ptr, arg, taggerVars>>
vars == <<lockVars, modelVars>>

Creating == {"openTheta", "copyTheta", "copyRequestType"}
Jobs == {"idle", "parse", "parsed", "access", "created"} \cup Creating \cup
        {"loaded", "locking", "setRequestType", "setTheta", "installed", "delete"}
Swapping == {"loaded", "locking", "setRequestType", "setTheta", "installed", "delete"}

NoTagger == [requestType |-> None, theta |-> None]

Init ==
  /\ LockInit
  /\ viterbi = FirstModel /\ requestType = FirstModel /\ theta = FirstModel
  /\ deleted = [m \in AllModels |-> 0]
  /\ passed = {}
  /\ job = [t \in Threads |-> "idle"]
  /\ ptr = [t \in Threads |-> None]
  /\ arg = [t \in Threads |-> None]
  /\ tagger = [t \in Threads |-> NoTagger]
  /\ seen = [t \in Threads |-> {}]

Does(t, from, to) ==
  /\ job[t] = from
  /\ job' = [job EXCEPT ![t] = to]

SetPtr(t, m) == ptr' = [ptr EXCEPT ![t] = m]

settings == <<requestType, theta>>

-----------------------------------------------------------------------------
(* TaggerImpl::parse(Lattice* ): the lock, the load, the analysis. *)

Parse(t) ==
  /\ Does(t, "idle", "parse")
  /\ ReadLock(t)
  /\ UNCHANGED <<viterbi, settings, deleted, passed, ptr, arg, taggerVars>>

LoadViterbi(t) ==
  /\ job[t] = "parse" /\ pc[t] = "reading" /\ ptr[t] = None
  /\ SetPtr(t, viterbi)
  /\ UNCHANGED <<lockVars, viterbi, settings, deleted, passed, job, arg, taggerVars>>

ReturnFromParse(t) ==
  /\ Does(t, "parse", "parsed")
  /\ ptr[t] # None
  /\ ReadUnlock(t)
  /\ UNCHANGED <<viterbi, settings, deleted, passed, ptr, arg, taggerVars>>

DropResult(t) ==     \* the caller is done with the lattice, or reuses it
  /\ Does(t, "parsed", "idle")
  /\ SetPtr(t, None)
  /\ UNCHANGED <<lockVars, viterbi, settings, deleted, passed, arg, taggerVars>>

(* The steps of the lock itself, between a call and its return. *)
LockLoop(t) ==
  /\ PassPending(t) \/ AddReader(t) \/ PassFlag(t) \/ CompareAndSwap(t)
  /\ UNCHANGED modelVars

-----------------------------------------------------------------------------
(* dictionary_info(), transition_cost() and lookup() of the model *)

Access(t) ==
  /\ t \in Readers
  /\ Does(t, "idle", "access")
  /\ SetPtr(t, viterbi)
  /\ UNCHANGED <<lockVars, viterbi, settings, deleted, passed, arg, taggerVars>>

ReturnFromAccess(t) ==
  /\ Does(t, "access", "idle")
  /\ SetPtr(t, None)
  /\ UNCHANGED <<lockVars, viterbi, settings, deleted, passed, arg, taggerVars>>

-----------------------------------------------------------------------------
(* createTagger(): TaggerImpl::open reads the request type and theta, and  *)
(* createTagger reads both again, in the other order, for the setters.  No *)
(* step takes the lock; these reads race with the assignments of swap, and *)
(* a build may take the first value of a field for the second.             *)

Installing(t) == job[t] \in {"setRequestType", "setTheta"}
InPlace ==
  IF \E t \in Threads : Installing(t) THEN {viterbi, requestType, theta}
                                      ELSE {viterbi}

CreateTagger(t) ==          \* the first reading of the request type
  /\ t \in Creators
  /\ Does(t, "idle", "openTheta")
  /\ tagger' = [tagger EXCEPT ![t].requestType = requestType]
  /\ seen' = [seen EXCEPT ![t] = InPlace]
  /\ UNCHANGED <<lockVars, viterbi, settings, deleted, passed, ptr, arg>>

OpenTheta(t) ==
  /\ Does(t, "openTheta", "copyTheta")
  /\ tagger' = [tagger EXCEPT ![t].theta = theta]
  /\ UNCHANGED <<lockVars, viterbi, settings, deleted, passed, ptr, arg, seen>>

CopyTheta(t) ==
  /\ Does(t, "copyTheta", "copyRequestType")
  /\ \E m \in {tagger[t].theta, theta} :
       tagger' = [tagger EXCEPT ![t].theta = m]
  /\ UNCHANGED <<lockVars, viterbi, settings, deleted, passed, ptr, arg, seen>>

CopyRequestType(t) ==
  /\ Does(t, "copyRequestType", "created")
  /\ \E m \in {tagger[t].requestType, requestType} :
       tagger' = [tagger EXCEPT ![t].requestType = m]
  /\ UNCHANGED <<lockVars, viterbi, settings, deleted, passed, ptr, arg, seen>>

DropTagger(t) ==            \* the caller deletes the tagger
  /\ Does(t, "created", "idle")
  /\ tagger' = [tagger EXCEPT ![t] = NoTagger]
  /\ seen' = [seen EXCEPT ![t] = {}]
  /\ UNCHANGED <<lockVars, viterbi, settings, deleted, passed, ptr, arg>>

-----------------------------------------------------------------------------
(* ModelImpl::swap(model); the calls it refuses change nothing. *)

Swap(t, m) ==
  /\ t \in Writers
  /\ m \in Models \ passed
  /\ Does(t, "idle", "loaded")
  /\ passed' = passed \cup {m}
  /\ arg' = [arg EXCEPT ![t] = m]
  /\ SetPtr(t, viterbi)                       \* current_viterbi
  /\ UNCHANGED <<lockVars, viterbi, settings, deleted, taggerVars>>

SwapLock(t) ==
  /\ Does(t, "loaded", "locking")
  /\ WriteLock(t)
  /\ UNCHANGED <<viterbi, settings, deleted, passed, ptr, arg, taggerVars>>

InstallUnlocked(t) ==   \* mutant: the assignment does not wait for the lock
  /\ Does(t, "locking", "setRequestType")
  /\ viterbi' = arg[t]
  /\ seen' = [u \in Threads |-> IF job[u] \in Creating THEN seen[u] \cup {arg[t]}
                                                       ELSE seen[u]]
  /\ UNCHANGED <<lockVars, settings, deleted, passed, ptr, arg, tagger>>

InstallViterbi(t) ==
  /\ pc[t] = "writing"
  /\ Does(t, "locking", "setRequestType")
  /\ viterbi' = arg[t]
  /\ seen' = [u \in Threads |-> IF job[u] \in Creating THEN seen[u] \cup {arg[t]}
                                                       ELSE seen[u]]
  /\ UNCHANGED <<lockVars, settings, deleted, passed, ptr, arg, tagger>>

InstallRequestType(t) ==
  /\ Does(t, "setRequestType", "setTheta")
  /\ requestType' = arg[t]
  /\ UNCHANGED <<lockVars, viterbi, theta, deleted, passed, ptr, arg, taggerVars>>

InstallThetaForgotten(t) ==   \* mutant: swap keeps the old theta
  /\ Does(t, "setTheta", "installed")
  /\ UNCHANGED <<lockVars, viterbi, settings, deleted, passed, ptr, arg, taggerVars>>

InstallTheta(t) ==
  /\ Does(t, "setTheta", "installed")
  /\ theta' = arg[t]
  /\ UNCHANGED <<lockVars, viterbi, requestType, deleted, passed, ptr, arg, taggerVars>>

SwapUnlock(t) ==
  /\ \/ job[t] = "installed" /\ WriteUnlockFlag(t) /\ UNCHANGED job
     \/ WriteUnlockPending(t) /\ Does(t, "installed", "delete")
  /\ UNCHANGED <<viterbi, settings, deleted, passed, ptr, arg, taggerVars>>

DeleteArgument(t) ==     \* mutant: deletes what was installed
  /\ Does(t, "delete", "idle")
  /\ deleted' = [deleted EXCEPT ![arg[t]] = @ + 1]
  /\ SetPtr(t, None)
  /\ UNCHANGED <<lockVars, viterbi, settings, passed, arg, taggerVars>>

DeleteNothing(t) ==      \* mutant: the old Viterbi is forgotten
  /\ Does(t, "delete", "idle")
  /\ SetPtr(t, None)
  /\ UNCHANGED <<lockVars, viterbi, settings, deleted, passed, arg, taggerVars>>

DeleteOld(t) ==
  /\ Does(t, "delete", "idle")
  /\ deleted' = [deleted EXCEPT ![ptr[t]] = @ + 1]
  /\ SetPtr(t, None)
  /\ UNCHANGED <<lockVars, viterbi, settings, passed, arg, taggerVars>>

-----------------------------------------------------------------------------
(* Steps a thread makes by itself once it has called, and the calls. *)
Continue(t) ==
  \/ LockLoop(t) \/ LoadViterbi(t) \/ ReturnFromParse(t)
  \/ ReturnFromAccess(t)
  \/ OpenTheta(t) \/ CopyTheta(t) \/ CopyRequestType(t)
  \/ SwapLock(t) \/ InstallViterbi(t) \/ InstallRequestType(t)
  \/ InstallTheta(t) \/ SwapUnlock(t) \/ DeleteOld(t)

Call(t) ==
  \/ Parse(t) \/ DropResult(t) \/ Access(t)
  \/ CreateTagger(t) \/ DropTagger(t)
  \/ \E m \in Models : Swap(t, m)

Next == \E t \in Threads : Call(t) \/ Continue(t)

Spec == Init /\ [][Next]_vars
FairSpec == Spec /\ \A t \in Threads : WF_vars(Continue(t))

-----------------------------------------------------------------------------
InUse(t) == job[t] = "parse" /\ ptr[t] # None

(***************************************************************************)
(* A running analysis never loses the dictionary under it: the Viterbi it  *)
(* loaded is still the model's, and nobody has deleted it.                 *)
(***************************************************************************)
ParseKeepsModel ==
  \A t \in Threads : InUse(t) => ptr[t] = viterbi /\ deleted[ptr[t]] = 0

(***************************************************************************)
(* createTagger, which takes no lock: the request type and the theta of a  *)
(* new tagger are those of models that were in place during the call.  If  *)
(* no swap assigned meanwhile, that is one model.  If one did, the two may *)
(* be of different models: mecab.h:1109 calls swap thread safe.            *)
(***************************************************************************)
TaggersOfModelsInPlace ==
  \A t \in Threads : job[t] = "created" =>
    tagger[t].requestType \in seen[t] /\ tagger[t].theta \in seen[t]

(***************************************************************************)
(* No Viterbi is deleted twice, none that is still the model's is deleted, *)
(* and when no swap runs every replaced one has been deleted.              *)
(***************************************************************************)
DeletedOnce ==
  \A m \in AllModels : deleted[m] <= (IF m = viterbi THEN 0 ELSE 1)

NoLeak ==
  (\A t \in Threads : job[t] \notin Swapping) =>
    \A m \in passed \cup {FirstModel} : m # viterbi => deleted[m] > 0

(***************************************************************************)
(* A swap that has begun finishes, however busy the parsing threads are.   *)
(***************************************************************************)
SwapCompletes ==
  \A t \in Threads : job[t] \in Swapping ~> job[t] = "idle"

(***************************************************************************)
(* The abstract model: a thread uses a model while its analysis runs.      *)
(***************************************************************************)
Atomic == INSTANCE AtomicModel WITH
  Users <- Threads,
  current <- viterbi,
  using <- [t \in Threads |-> IF InUse(t) THEN ptr[t] ELSE None],
  live <- {m \in AllModels : deleted[m] = 0}
ImplementsAtomicModel == Atomic!Spec

-----------------------------------------------------------------------------
(* What the documentation promises and the code does not keep. *)

(***************************************************************************)
(* mecab.h:1109-1111: swap is thread safe, parsing threads need not be     *)
(* stopped.  The nodes of a parse that has returned, and the Viterbi an    *)
(* accessor of the model is reading, are those of a model that exists.     *)
(***************************************************************************)
ModelOutlivesUse ==
  \A t \in Threads : job[t] \in {"parsed", "access"} => deleted[ptr[t]] = 0
=============================================================================
