--------------------------- MODULE BlendedStrategy ---------------------------
(***************************************************************************)
(* The blended-signals strategy for one symbol                             *)
(* (backend/engine/strategies/blended_signals.py): the votes of a closed   *)
(* bar, their weighted score, the regime and the entries and exits.        *)
(* Scores are in hundredths.  What the indicators say of a bar is an       *)
(* input; which of them vote, and with what weight, is the code's.         *)
(***************************************************************************)
EXTENDS Signals, FiniteSetsExt

CONSTANTS
  BlendBar,      \* blend_bar_interval_sec, in ticks
  BlendWarmup,   \* _min_bars_required()
  BlendCooldown, \* blend_cooldown_sec, in ticks
  BlendLots,     \* the size of an entry
  EntryScore,    \* blend_entry_threshold
  ExitScore,     \* blend_exit_threshold
  MinVotes       \* blend_min_confirming_votes

ASSUME BlendAssumption ==
  /\ {BlendBar, BlendLots} \subseteq Nat \ {0}
  /\ {BlendWarmup, BlendCooldown, EntryScore, ExitScore, MinVotes} \subseteq Nat

\* What a bar shows: the strength of the trend (adx), the gap of the averages, the
\* direction of the histogram, the RSI, the place in the bands, the microstructure.
BarType ==
  [adx : {"unknown", "low", "buffer", "trend", "strong"}, ema : -1..1, macd : -1..1,
   rsi : {"oversold", "low", "even", "high", "overbought"}, bands : -1..1, micro : -1..1]

NewBlend ==
  [bar |-> 0, bars |-> 0, regime |-> "warmup", prev |-> Unset, cool |-> 0, entry |-> "none"]

\* TRENDING_WEIGHTS and RANGING_WEIGHTS
Weights ==
  [trending |-> [ema |-> 35, macd |-> 30, rsi |-> 0, bands |-> 0, micro |-> 35],
   ranging |-> [ema |-> 0, macd |-> 0, rsi |-> 35, bands |-> 40, micro |-> 25]]

\* _update_regime()
RegimeOf(bar) ==
  CASE bar.adx = "unknown" -> "warmup"
    [] bar.adx \in {"trend", "strong"} -> "trending"
    [] OTHER -> "ranging"

\* The side an RSI at its extreme blocks in a trend that is not strong.
Blocked(regime, bar) ==
  LET dir == IF bar.ema > 0 \/ bar.macd > 0 THEN 1
             ELSE IF bar.ema < 0 \/ bar.macd < 0 THEN -1 ELSE 0
  IN IF regime # "trending" \/ bar.adx = "strong" THEN 0
     ELSE IF bar.rsi = "overbought" /\ dir = 1 THEN 1
     ELSE IF bar.rsi = "oversold" /\ dir = -1 THEN -1
     ELSE 0

\* _component_votes(), under the regime of the bar before.
Votes(regime, bar) ==
  LET trend == regime = "trending" /\ Blocked(regime, bar) = 0 IN
  [ema |-> IF trend THEN bar.ema ELSE 0,
   macd |-> IF trend THEN bar.macd ELSE 0,
   rsi |-> CASE regime = "ranging" /\ bar.rsi \in {"oversold", "low"} -> 1
             [] regime = "ranging" /\ bar.rsi \in {"overbought", "high"} -> -1
             [] OTHER -> 0,
   bands |-> IF regime = "ranging" THEN bar.bands ELSE 0,
   micro |-> bar.micro]

\* _blend_score(): all the weights of a regime count, whoever votes; they add up to 100.
Score(votes, regime) ==
  LET w == Weights[regime] IN
  votes.ema * w.ema + votes.macd * w.macd + votes.rsi * w.rsi + votes.bands * w.bands
  + votes.micro * w.micro

Voting(votes, regime, side) ==
  {v \in DOMAIN votes : votes[v] = side /\ Weights[regime][v] > 0}

\* _regime_flip_exit()
FlipExit(s, q, bar) == q # 0 /\ s.entry = "trending" /\ bar.adx = "low"

\* The side an entry is due on, 0 for none.
EntrySide(s, bar, votes, regime, score) ==
  LET due(side) ==
        /\ s.prev # Unset
        /\ side * s.prev < EntryScore /\ EntryScore <= side * score
        /\ Cardinality(Voting(votes, regime, side)) >= MinVotes
        /\ Blocked(s.regime, bar) # side
  IN IF due(1) THEN 1 ELSE IF due(-1) THEN -1 ELSE 0

\* _on_bar_close(): a weighted score is taken of the votes under the new regime.
BarClose(s, bar, q) ==
  LET votes == Votes(s.regime, bar)
      regime == RegimeOf(bar)
      score == Score(votes, regime)
      leave == \/ FlipExit(s, q, bar)
               \/ q > 0 /\ score < ExitScore
               \/ q < 0 /\ score > -ExitScore
      side == IF q = 0 THEN EntrySide(s, bar, votes, regime, score) ELSE 0
      seen == [s EXCEPT !.regime = regime, !.prev = score]
  IN IF regime = "warmup" THEN [memory |-> [s EXCEPT !.regime = regime], signal |-> NoSignal]
     ELSE IF leave
     THEN [memory |-> [seen EXCEPT !.entry = "none", !.cool = BlendCooldown],
           signal |-> CloseSignal(q)]
     ELSE IF side # 0
     THEN [memory |-> [seen EXCEPT !.entry = regime, !.cool = BlendCooldown],
           signal |-> Plan(side, BlendLots, q)]
     ELSE [memory |-> seen, signal |-> NoSignal]

\* on_tick(): bars are counted until they are enough, and skipped in a cooldown.
BlendTick(s, bar, q) ==
  LET ends == s.bar + 1 = BlendBar
      cooler == [s EXCEPT !.cool = CountDown(@),
                          !.bar = IF ends THEN 0 ELSE @ + 1,
                          !.bars = IF ends /\ @ < BlendWarmup THEN @ + 1 ELSE @]
  IN IF ~ends \/ cooler.bars < BlendWarmup \/ cooler.cool > 0
     THEN [memory |-> cooler, signal |-> NoSignal]
     ELSE BarClose(cooler, bar, q)
=============================================================================
