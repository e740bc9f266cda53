--------------------------- MODULE AbstractRWLock ---------------------------
(***************************************************************************)
(* What a reader-writer lock promises its users: the sets of threads that  *)
(* hold it for reading and for writing, entered one thread at a time, a    *)
(* writer only when nobody holds it.                                       *)
(***************************************************************************)
CONSTANTS Readers, Writers
VARIABLES readers, writers

Init == readers = {} /\ writers = {}

BeginRead(t) ==
  /\ t \notin readers
  /\ writers = {}
  /\ readers' = readers \cup {t}
  /\ UNCHANGED writers

EndRead(t) ==
  /\ t \in readers
  /\ readers' = readers \ {t}
  /\ UNCHANGED writers

BeginWrite(t) ==
  /\ readers = {} /\ writers = {}
  /\ writers' = {t}
  /\ UNCHANGED readers

EndWrite(t) ==
  /\ t \in writers
  /\ writers' = writers \ {t}
  /\ UNCHANGED readers

Next ==
  \/ \E t \in Readers : BeginRead(t) \/ EndRead(t)
  \/ \E t \in Writers : BeginWrite(t) \/ EndWrite(t)

Spec == Init /\ [][Next]_<<readers, writers>>
=============================================================================
