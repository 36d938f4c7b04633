----------------------------- MODULE StopMonitor -----------------------------
(***************************************************************************)
(* The stop-loss and take-profit monitor, for one symbol                   *)
(* (backend/engine/risk/stop_loss.py), with the calls of it in             *)
(* backend/engine/risk/risk_manager.py.  Prices are levels, bid and ask    *)
(* are one price, and a bracket is a distance in levels.                   *)
(***************************************************************************)
EXTENDS Signals

CONSTANTS
  StopGap, \* default_stop_loss_pct, in levels
  TakeGap, \* default_take_profit_pct, in levels
  Recoil,  \* _DEFAULT_COOLDOWN_SEC, in ticks
  Backoff  \* _VENUE_REJECT_BACKOFF_SEC, in ticks

ASSUME StopAssumption ==
  /\ {StopGap, TakeGap} \subseteq Nat \ {0}
  /\ {Recoil, Backoff} \subseteq Nat

NoBracket == [stop |-> 0, take |-> 0]
Bracket(q, entry) ==
  [stop |-> entry - SideOf(q) * StopGap, take |-> entry + SideOf(q) * TakeGap]

\* The bracket, the position it was armed for, the ticks left of the cooldown after an
\* exit and of the backoff after a refused one, and whether the strategy owns the risk.
NewMonitor(owned) ==
  [bracket |-> NoBracket, armed |-> 0, cool |-> 0, backoff |-> 0, managed |-> owned]

\* Mutated form of Later: the cooldown never ends.
LaterCooling(m) == [m EXCEPT !.backoff = CountDown(@)]

\* A tick later.
Later(m) == [m EXCEPT !.cool = CountDown(@), !.backoff = CountDown(@)]

\* disarm()
Disarm(m) == NewMonitor(m.managed)

\* Mutated form of Arm: any fill lets the monitor fire again.
ArmAfresh(m, q, entry) ==
  IF m.managed THEN m
  ELSE [m EXCEPT !.bracket = Bracket(q, entry), !.armed = q, !.cool = 0]

\* arm(): a fill that closes a part of the position leaves the cooldown alone.
Arm(m, q, entry) ==
  LET grown == m.armed = 0 \/ SideOf(m.armed) # SideOf(q) \/ Size(q) > Size(m.armed) IN
  IF m.managed THEN m
  ELSE [m EXCEPT !.bracket = Bracket(q, entry), !.armed = q,
                 !.cool = IF grown THEN 0 ELSE @]

\* Mutated form of RearmAfterFill: the bracket outlives the position.
RearmUnlessFlat(m, q, entry) == IF q = 0 THEN m ELSE Arm(m, q, entry)

\* RiskManager.on_fill()
RearmAfterFill(m, q, entry) == IF q = 0 THEN Disarm(m) ELSE Arm(m, q, entry)

\* note_venue_rejected_exit()
NoteRejected(m) == [m EXCEPT !.backoff = Backoff, !.cool = Recoil]

\* evaluate(): does the price p trigger an exit of the position q?
Triggered(m, q, p) ==
  /\ ~m.managed
  /\ m.bracket # NoBracket /\ q # 0
  /\ m.backoff = 0 /\ m.cool = 0
  /\ IF q > 0 THEN p <= m.bracket.stop \/ p >= m.bracket.take
              ELSE p >= m.bracket.stop \/ p <= m.bracket.take

Fired(m) == [m EXCEPT !.cool = Recoil]
=============================================================================
