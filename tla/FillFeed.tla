------------------------------ MODULE FillFeed ------------------------------
(***************************************************************************)
(* What the rest of the engine (position tracker, risk, performance,       *)
(* ledger) is promised about fills: the venue makes trades, and each trade *)
(* is let through at most once, after it was made.                         *)
(***************************************************************************)
EXTENDS Naturals

CONSTANT Trades

VARIABLES made,     \* trades the venue has made
          through   \* through[t]: times trade t was let through

Init == /\ made = {}
        /\ through = [t \in Trades |-> 0]

Make(t) == /\ t \notin made
           /\ made' = made \union {t}
           /\ UNCHANGED through

LetThrough(t) == /\ t \in made
                 /\ through[t] = 0
                 /\ through' = [through EXCEPT ![t] = 1]
                 /\ UNCHANGED made

Next == \E t \in Trades : Make(t) \/ LetThrough(t)

Spec == Init /\ [][Next]_<<made, through>>
=============================================================================
