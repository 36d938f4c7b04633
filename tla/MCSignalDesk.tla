---------------------------- MODULE MCSignalDesk ----------------------------
(* Bars, tapes and bounds for TLC. *)
EXTENDS SignalDesk

rally == [adx |-> "trend", ema |-> 1, macd |-> 1, rsi |-> "even", bands |-> 0, micro |-> 1]

MCBars ==
  {rally, [rally EXCEPT !.adx = "low", !.micro = 0]}

rise == [tape |-> 30, imbalance |-> 10, gates |-> TRUE, toxic |-> 0, refilled |-> FALSE]

MCTapes == {rise, [rise EXCEPT !.tape = 5, !.imbalance = 0, !.gates = FALSE]}

MCMaxLots == [n \in Names |-> IF n = "blend" THEN 2 ELSE 1]
=============================================================================
