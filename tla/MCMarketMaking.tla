--------------------------- MODULE MCMarketMaking ---------------------------
(* The market maker's two parts for TLC: what the strategy decides for one *)
(* symbol (MmStrategy), and which symbols it quotes (Universe).  They share *)
(* no state, so a behaviour is one of the one or one of the other.          *)
EXTENDS MmStrategy, Universe

calm == [spread |-> TRUE, crowded |-> FALSE, jump |-> FALSE, spike |-> FALSE,
         blocked |-> FALSE, sides |-> Side, accepts |-> TRUE, pnl |-> "even"]

MCMoods ==
  {calm,
   [calm EXCEPT !.spread = FALSE],
   [calm EXCEPT !.spike = TRUE, !.pnl = "aggressive"],
   [calm EXCEPT !.pnl = "market", !.accepts = FALSE],
   [calm EXCEPT !.pnl = "profit", !.crowded = TRUE]}

-----------------------------------------------------------------------------
MCListed == <<"ARB", "AVAX", "BTC">>
MCPins == <<"BTC">>
MCPairLegs == <<"BTC">>
MCConfigured == [pairs |-> <<"BTC">>, sma |-> <<"ARB">>, flow |-> AUTO, mm2 |-> AUTO]

Found(volume, spread, cv, vol) ==
  [volume |-> volume, price |-> 1, range |-> 400, sampled |-> TRUE,
   spread |-> spread, cv |-> cv, vol |-> vol]
Of(arb, avax, btc) == [ARB |-> arb, AVAX |-> avax, BTC |-> btc]

\* Two midcaps are eligible and there is room for one; then one has an unstable spread.
\* The pin is too tight to be eligible and wide enough to be a pin.
MCMarkets ==
  {Of(Found(75, 60, 10, 25), Found(78, 50, 12, 30), Found(94, 6, 10, 20)),
   Of(Found(75, 50, 60, 30), Found(76, 70, 12, 30), Found(94, 6, 10, 20))}

quiet == [markout |-> 0, toxic |-> FALSE, jump |-> FALSE, spread |-> 5, vol |-> 10, shock |-> 0]
MCMicros ==
  {Of(quiet, quiet, quiet),
   Of([quiet EXCEPT !.toxic = TRUE], quiet, [quiet EXCEPT !.toxic = TRUE]),
   Of(quiet, [quiet EXCEPT !.spread = 130], [quiet EXCEPT !.spread = 20])}

\* The defaults of config/sections/mm_legacy.py, in the units of UniverseScan.
MCScan ==
  [minVolume |-> 67, minPrice |-> 1, prefilter |-> 60, pinVolume |-> 75, pinSpread |-> 4,
   midVolume |-> 69, minSpread |-> 8, maxSpread |-> 200, minEdge |-> 40,
   percentile |-> 75, cvFloor |-> 12, cvCap |-> 70, volFloor |-> 20, volCap |-> 350,
   regime |-> 125, cvLimit |-> 0, volLimit |-> 0]
MCAdverse ==
  [symbols |-> 2, markout |-> 30, widening |-> 175, regime |-> {"BTC"}, regimeVol |-> 250]

-----------------------------------------------------------------------------
VARIABLE part
allVars == <<part, vars, universeVars>>

MCInit ==
  \/ part = "quoting" /\ Init
     /\ UniverseInit /\ mode = "mm2" /\ report = ScanReport(CHOOSE t \in Markets : TRUE)
  \/ part = "universe" /\ UniverseInit
     /\ Init /\ market = [calm EXCEPT !.spread = FALSE]

Quoting == part = "quoting" /\ Next /\ UNCHANGED <<part, universeVars>>
Choosing == part = "universe" /\ UniverseNext /\ UNCHANGED <<part, vars>>

\* The loop's scan ends, well or badly.
LoopScanned ==
  /\ task["loop"].at = "scan"
  /\ \E w \in {Idle, Waiting("start")} : task' = [task EXCEPT !["loop"] = w]

\* The fairness of MmStrategy, and of the refresh loop, its scans, and the streams.
MCSpec ==
  /\ MCInit /\ [][Quoting \/ Choosing]_allVars
  /\ WF_vars(part = "quoting" /\ Tick)
  /\ WF_vars(part = "quoting" /\ HearFill)
  /\ WF_vars(part = "quoting" /\ Reconcile)
  /\ WF_universeVars(part = "universe" /\ LoopWakes)
  /\ WF_task(part = "universe" /\ LoopScanned)
  /\ WF_universeVars(part = "universe" /\ EndStart)
  /\ WF_universeVars(part = "universe" /\ EndPrices("loop"))
=============================================================================
