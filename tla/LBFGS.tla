---- MODULE LBFGS ----
(* The control of the L-BFGS optimizer (lbfgs.h, lbfgs.cpp): a ring of the    *)
(* last MSize step/gradient-change pairs, the work area w_ that holds them,   *)
(* and a routine that returns to its caller for every evaluation of the       *)
(* objective and goes on, at the next call, where it left off.                *)
(* A vector is named by the evaluation it was taken at: <<a, b>> is the       *)
(* difference of the parameters, or of the gradients, of evaluations a and b. *)
EXTENDS Integers, Sequences

CONSTANTS
  MSize,    \* msize: pairs kept (5 in the source)
  MaxFev    \* maxfev: evaluations in one line search (20 in the source)

ASSUME LBFGSAssumption == MSize \in Nat \ {0} /\ MaxFev \in Nat \ {0}

VARIABLES
  iflag,     \* iflag_: 1 while a line search waits for an evaluation
  iter,      \* iter: searches begun
  point,     \* point: the slot the next pair goes to
  npt,       \* npt: the slot of the newest pair
  nfev,      \* nfev: evaluations in this search
  evals,     \* the evaluations handed to optimize() so far
  s, y,      \* slot -> the step, the change of the gradient
  rho,       \* slot -> the pair 1/ys was computed from, as <<step, change>>
  w,         \* the evaluation whose gradient the search started from
  diag,      \* what diag_ holds: a scale, from a pair, or the search's start
  used       \* the pairs the last direction was computed from, and its scale

optimizerVars == <<iflag, iter, point, npt, nfev, evals, s, y, rho, w, diag, used>>

Slots == 0..MSize - 1
NoPair == <<0, 0>>
NoDirection == [down |-> <<>>, up |-> <<>>, scale |-> NoPair]

\* clear(), and the constructor.
Cleared ==
  [iflag |-> 0, iter |-> 0, point |-> 0, npt |-> 0, nfev |-> 0, evals |-> 0,
   s |-> [slot \in Slots |-> NoPair], y |-> [slot \in Slots |-> NoPair],
   rho |-> [slot \in Slots |-> <<NoPair, NoPair>>],
   w |-> 0, diag |-> NoPair, used |-> NoDirection]

State == [iflag |-> iflag, iter |-> iter, point |-> point, npt |-> npt, nfev |-> nfev,
          evals |-> evals, s |-> s, y |-> y, rho |-> rho, w |-> w, diag |-> diag,
          used |-> used]

Becomes(st) ==
  /\ iflag' = st.iflag /\ iter' = st.iter /\ point' = st.point /\ npt' = st.npt
  /\ nfev' = st.nfev /\ evals' = st.evals /\ s' = st.s /\ y' = st.y /\ rho' = st.rho
  /\ w' = st.w /\ diag' = st.diag /\ used' = st.used

Start ==
  /\ iflag = 0 /\ iter = 0 /\ point = 0 /\ npt = 0 /\ nfev = 0 /\ evals = 0
  /\ s = [slot \in Slots |-> NoPair] /\ y = [slot \in Slots |-> NoPair]
  /\ rho = [slot \in Slots |-> <<NoPair, NoPair>>]
  /\ w = 0 /\ diag = NoPair /\ used = NoDirection

\* w[size + cp] with cp = point, or msize at 0: the slot before point.
RhoSlotNoWrap(st) == IF st.point = 0 THEN 0 ELSE st.point - 1
RhoSlot(st) == (st.point + MSize - 1) % MSize

Bound(st) == IF st.iter - 1 < MSize THEN st.iter - 1 ELSE MSize

\* -H*g: down the ring from the newest pair and up again, then the search from it.
Direction(st) ==
  LET newest == [st EXCEPT !.diag = <<st.s[st.npt], st.y[st.npt]>>,
                           !.rho[RhoSlot(st)] = <<st.s[st.npt], st.y[st.npt]>>]
      pair(slot) == [s |-> newest.s[slot], y |-> newest.y[slot], rho |-> newest.rho[slot]]
      bound == Bound(st)
  IN  [newest EXCEPT
        !.used = [down  |-> [i \in 1..bound |-> pair((st.point - i) % MSize)],
                  up    |-> [i \in 1..bound |-> pair((st.point - bound + i - 1) % MSize)],
                  scale |-> newest.diag]]

\* mcsrch() from its start: the start is kept in diag_, the gradient in w, and
\* the slot at point holds the direction until the search makes it a step.
SearchFrom(st) ==
  [st EXCEPT !.iflag = 1, !.nfev = 0, !.w = st.evals,
             !.diag = <<st.evals, st.evals>>, !.s[st.point] = NoPair]

\* A search that succeeded: the new pair, and the ring moves on.
Store(st) ==
  [st EXCEPT !.npt = st.point,
             !.s[st.point] = <<st.diag[1], st.evals>>,
             !.y[st.point] = <<st.w, st.evals>>,
             !.point = (st.point + 1) % MSize]

NextIteration(st) ==
  LET next == [st EXCEPT !.iter = @ + 1]
  IN  SearchFrom(IF next.iter = 1 THEN next ELSE Direction(next))

Evaluated == [State EXCEPT !.evals = @ + 1,
                           !.nfev = IF iflag = 1 THEN @ + 1 ELSE @]

\* optimize() that returns 1: the first search, the same one, or the next.
FirstSearch == iflag = 0 /\ Becomes(NextIteration(Evaluated))
SearchOn == iflag = 1 /\ nfev + 1 < MaxFev /\ Becomes(Evaluated)
NextSearch == iflag = 1 /\ Becomes(NextIteration(Store(Evaluated)))
GoOn == FirstSearch \/ SearchOn \/ NextSearch

\* 0: the gradient is small after a search. -1: mcsrch() gave up.
Minimum == iflag = 1 /\ Becomes(Cleared)
Failure == Becomes([Evaluated EXCEPT !.iflag = -1])
====
