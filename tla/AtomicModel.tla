---------------------------- MODULE AtomicModel ----------------------------
(***************************************************************************)
(* What Model::swap promises parsing threads: there is always a current    *)
(* model, a parse uses the model that is current when it starts, the       *)
(* current model is replaced only when no parse runs, and a model that was *)
(* replaced is destroyed, once, when no parse uses it.                     *)
(***************************************************************************)
CONSTANTS Users, AllModels, None
VARIABLES current, using, live

Init ==
  /\ current \in AllModels
  /\ using = [u \in Users |-> None]
  /\ live = AllModels

Use(u) ==
  /\ using[u] = None
  /\ using' = [using EXCEPT ![u] = current]
  /\ UNCHANGED <<current, live>>

Release(u) ==
  /\ using[u] # None
  /\ using' = [using EXCEPT ![u] = None]
  /\ UNCHANGED <<current, live>>

Replace(m) ==
  /\ m \in live \ {current}
  /\ \A u \in Users : using[u] = None
  /\ current' = m
  /\ UNCHANGED <<using, live>>

Destroy(m) ==
  /\ m \in live \ {current}
  /\ \A u \in Users : using[u] # m
  /\ live' = live \ {m}
  /\ UNCHANGED <<current, using>>

Next ==
  \/ \E u \in Users : Use(u) \/ Release(u)
  \/ \E m \in AllModels : Replace(m) \/ Destroy(m)

Spec == Init /\ [][Next]_<<current, using, live>>
=============================================================================
