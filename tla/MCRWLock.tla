------------------------------ MODULE MCRWLock ------------------------------
(***************************************************************************)
(* Model checking RWLock.  The history variable late remembers, for every  *)
(* writer in the loop of write_lock, the readers that called read_lock     *)
(* after it had announced itself.                                          *)
(***************************************************************************)
EXTENDS RWLock

VARIABLE late

HistoryInit == LockInit /\ late = {}

Waiting == {w \in Threads : pc[w] = "wcas"}
Arriving == {r \in Threads : pc[r] = "out" /\ pc[r]' = "rcheck"}

HistoryNext ==
  /\ LockNext
  /\ late' = {p \in late \cup (Waiting \X Arriving) :
                 pc[p[1]]' = "wcas" /\ pc[p[2]]' # "out"}

HistorySpec ==
  /\ HistoryInit /\ [][HistoryNext]_<<lockVars, late>>
  /\ \A t \in Threads : WF_lockVars(LockStep(t))

(***************************************************************************)
(* The lock prefers writers (thread.h:75): a reader that calls read_lock   *)
(* after a writer announced itself does not get in before that writer.     *)
(***************************************************************************)
WriterPreference == \A p \in late : pc[p[2]] # "reading"
=============================================================================
