---------------------------- MODULE FlowStrategy ----------------------------
(***************************************************************************)
(* The flow-momentum strategy for one symbol                               *)
(* (backend/engine/strategies/flow_momentum.py), with its gates            *)
(* (flow_entry_gates.py, flow_micro_confirm.py).  It owns its risk: stop,  *)
(* trailing profit, maximal hold and the fade of the tape.  The profit it  *)
(* goes by is the one the venue last reported with the position            *)
(* (backend/engine/position/venue_pnl.py), in price levels.                *)
(***************************************************************************)
EXTENDS Signals, Sequences

CONSTANTS
  TapeEntry,    \* flow_tape_threshold, in hundredths
  TapeExit,     \* flow_exit_tape_threshold
  TapeFade,     \* the threshold times flow_exit_tape_frac
  ImbalanceMin, \* flow_imbalance_min
  ConfirmTicks, \* flow_confirm_ticks
  ExitTicks,    \* flow_exit_confirm_ticks
  FlowCooldown, \* flow_cooldown_sec, in ticks
  FlowHold,     \* flow_max_hold_sec, in ticks
  FlowStop,     \* flow_stop_loss_bps, in levels
  TrailArm,     \* flow_trail_arm_bps
  TrailStop,    \* flow_trail_stop_bps
  FlowLots      \* the size of an entry

ASSUME FlowAssumption ==
  /\ {ConfirmTicks, ExitTicks, FlowHold, FlowStop, TrailArm, TrailStop, FlowLots}
       \subseteq Nat \ {0}
  /\ {TapeEntry, TapeExit, TapeFade, ImbalanceMin, FlowCooldown} \subseteq Nat

\* What a tick shows: the pressure of the tape and the imbalance of the book, whether
\* the gates of an entry let pass, the way of the toxic flow, and whether the attacked
\* side has refilled.
TapeType == [tape : Int, imbalance : Int, gates : BOOLEAN, toxic : -1..1, refilled : BOOLEAN]

NewFlow ==
  [confirm |-> <<>>, fades |-> <<>>, open |-> 0, since |-> Unset, peak |-> 0, cool |-> 0]

\* The last n elements once x is appended.
Keep(s, x, n) == IF Len(s) = n THEN Append(Tail(s), x) ELSE Append(s, x)

\* _flow_direction()
Direction(f) ==
  IF f.tape >= TapeEntry /\ f.imbalance >= ImbalanceMin THEN 1
  ELSE IF f.tape <= -TapeEntry /\ f.imbalance <= -ImbalanceMin THEN -1
  ELSE 0

\* _tape_exit_pressure(): does the tape press out of a position of that side?  A tape that
\* turns a little against it is no fade.
Pressed(side, f) ==
  LET tape == side * f.tape IN
  \/ tape <= -TapeExit
  \/ 0 < tape /\ tape < TapeFade
  \/ side * f.imbalance <= -ImbalanceMin

\* micro_exit_toxic_flip() and micro_exit_depth_replenish()
Turned(side, f) == f.toxic = -side \/ (f.refilled /\ side * f.tape < TapeFade)

Confirmed(seq, n) == Len(seq) = n /\ \A i \in 1..n : seq[i] = seq[n]

\* _sync_state() with the book's position q.  Its reset of a flat position wants a
\* position of size zero from a provider that answers nothing for one.
SyncState(s, q) ==
  [s EXCEPT !.open = SideOf(q), !.peak = IF q # 0 /\ SideOf(q) # s.open THEN 0 ELSE @]

\* on_fill(), with the position the book has by then.
FlowFill(s, q) ==
  LET seen == [s EXCEPT !.open = SideOf(q)]
      turned == q # 0 /\ SideOf(q) # s.open
  IN IF q = 0 THEN [seen EXCEPT !.since = Unset, !.peak = 0, !.fades = <<>>]
     ELSE [seen EXCEPT !.since = IF @ = Unset THEN 0 ELSE @, !.peak = IF turned THEN 0 ELSE @]

\* _maybe_exit() for the position q and the profit the venue reported: at the maximal
\* hold, what is not losing and not fading stays, and the fades are not counted.
ExitDue(s, f, q, profit) ==
  LET side == SideOf(q) IN
  \/ Turned(side, f)
  \/ profit <= -FlowStop
  \/ s.peak >= TrailArm /\ profit <= s.peak - TrailStop
  \/ IF s.since = FlowHold THEN profit < 0 \/ Pressed(side, f)
     ELSE Pressed(side, f) /\ Confirmed(Keep(s.fades, TRUE, ExitTicks), ExitTicks)

Hold(s, f, q, profit) ==
  LET side == SideOf(q)
      held == [s EXCEPT !.since = IF @ = Unset THEN 0 ELSE @,
                        !.peak = IF profit > @ THEN profit ELSE @]
      early == \/ Turned(side, f) \/ profit <= -FlowStop
               \/ held.peak >= TrailArm /\ profit <= held.peak - TrailStop
               \/ held.since = FlowHold
      counted == IF early THEN held ELSE [held EXCEPT !.fades = Keep(@, Pressed(side, f), ExitTicks)]
  IN [memory |-> counted, due |-> ExitDue(held, f, q, profit)]

\* on_tick() with the position q: an exit is asked for on every tick it is due, and an
\* entry only when flat, out of the cooldown and confirmed.
FlowTick(s, f, q, profit) ==
  LET older == [s EXCEPT !.since = IF @ = Unset THEN Unset ELSE IF @ = FlowHold THEN @ ELSE @ + 1,
                         !.cool = CountDown(@)]
      direction == Direction(f)
      seen == [SyncState(older, q) EXCEPT !.confirm = Keep(@, direction, ConfirmTicks)]
      held == Hold(seen, f, q, profit)
      enter == /\ seen.cool = 0 /\ f.gates /\ direction # 0
               /\ Confirmed(seen.confirm, ConfirmTicks)
  IN IF q # 0 THEN
       IF held.due THEN [memory |-> [held.memory EXCEPT !.cool = FlowCooldown],
                         signal |-> CloseSignal(q)]
       ELSE [memory |-> held.memory, signal |-> NoSignal]
     ELSE IF enter THEN [memory |-> [seen EXCEPT !.cool = FlowCooldown, !.peak = 0, !.fades = <<>>],
                         signal |-> Plan(direction, FlowLots, q)]
     ELSE [memory |-> seen, signal |-> NoSignal]
=============================================================================
