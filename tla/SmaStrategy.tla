----------------------------- MODULE SmaStrategy -----------------------------
(***************************************************************************)
(* The moving-average crossover strategy for one symbol                    *)
(* (backend/engine/strategies/sma_crossover.py): its samples, the cross it *)
(* has seen, and its cooldown.  on_fill() only mirrors the position.       *)
(***************************************************************************)
EXTENDS Signals, Sequences, FiniteSetsExt

CONSTANTS
  FastWindow,  \* sma_fast_window
  SlowWindow,  \* sma_slow_window
  SmaBar,      \* sma_bar_interval_sec, in ticks
  SmaCooldown, \* sma_cooldown_sec, in ticks
  SmaLots      \* the size of an entry

ASSUME SmaAssumption ==
  /\ {FastWindow, SlowWindow, SmaBar, SmaLots} \subseteq Nat \ {0}
  /\ FastWindow < SlowWindow
  /\ SmaCooldown \in Nat

\* The samples, the last price of the bar and the ticks it has had, whether the fast
\* average was above the slow one, and the ticks left of the cooldown.
NewSma == [mids |-> <<>>, last |-> 0, bar |-> 0, above |-> "unknown", cool |-> 0]

\* _append_bar_close_if_advanced(): the bar ends with the first tick of the next one.
BarEnds(s) == s.last # 0 /\ s.bar + 1 = SmaBar
PushSample(s, p) ==
  IF BarEnds(s)
  THEN [s EXCEPT !.mids = IF Len(@) = SlowWindow THEN Append(Tail(@), s.last)
                          ELSE Append(@, s.last),
                 !.last = p, !.bar = 0]
  ELSE [s EXCEPT !.last = p, !.bar = IF s.last = 0 THEN 0 ELSE @ + 1]

\* The sum of the last n samples.
LastSum(mids, n) == MapThenSumSet(LAMBDA i : mids[i], (Len(mids) - n + 1)..Len(mids))

\* Where the fast average lies; level with the slow one it stays where it was.
Above(s) ==
  LET diff == SlowWindow * LastSum(s.mids, FastWindow)
              - FastWindow * LastSum(s.mids, SlowWindow)
  IN IF diff = 0 /\ s.above # "unknown" THEN s.above
     ELSE IF diff > 0 THEN "yes" ELSE "no"

\* on_tick() at the price p with the position q: what is remembered and what is asked for.
\* A cross is taken note of once, whatever becomes of its signal.
SmaTick(s, p, q) ==
  LET pushed == [PushSample(s, p) EXCEPT !.cool = CountDown(@)]
      above == Above(pushed)
      crossed == s.above # "unknown" /\ above # s.above
      signal == IF crossed THEN Plan(IF above = "yes" THEN 1 ELSE -1, SmaLots, q) ELSE NoSignal
  IN IF pushed.cool > 0 \/ ~BarEnds(s) \/ Len(pushed.mids) < SlowWindow
     THEN [memory |-> pushed, signal |-> NoSignal]
     ELSE [memory |-> [pushed EXCEPT !.above = above,
                                     !.cool = IF signal = NoSignal THEN 0 ELSE SmaCooldown],
           signal |-> signal]
=============================================================================
