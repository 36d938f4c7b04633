------------------------------- MODULE Signals -------------------------------
(***************************************************************************)
(* Signals of the directional strategies                                   *)
(* (backend/engine/strategies/position_sync.py).  Sides are +1 and -1.     *)
(***************************************************************************)
EXTENDS Integers

\* A clock that does not run, a value there is none of.
Unset == -1000

Size(q) == IF q < 0 THEN -q ELSE q

CountDown(n) == IF n = 0 THEN 0 ELSE n - 1

\* side_from_qty()
SideOf(q) == IF q > 0 THEN 1 ELSE IF q < 0 THEN -1 ELSE 0

NoSignal == [side |-> 0, lots |-> 0, reduce |-> FALSE]

\* closing_side() and the reduce-only signal for the whole position q.
CloseSignal(q) == [side |-> -SideOf(q), lots |-> Size(q), reduce |-> TRUE]

\* plan_directional_signal(): close first, open only when flat.
Plan(target, lots, q) ==
  IF SideOf(q) = target THEN NoSignal
  ELSE IF q # 0 THEN CloseSignal(q)
  ELSE [side |-> target, lots |-> lots, reduce |-> FALSE]
=============================================================================
