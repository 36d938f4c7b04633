---------------------------- MODULE UniverseScan ----------------------------
(***************************************************************************)
(* Which symbols the market maker is to quote: the pure part of            *)
(* backend/analytics/mm_universe_scanner.py and of the two modules that    *)
(* expand the symbol lists at boot (backend/common/universe_bootstrap.py,  *)
(* multi_strategy_universe.py), and the signs of an adverse market         *)
(* (backend/analytics/mm_universe_refresher.py).                           *)
(*                                                                         *)
(* A market gives one row per listed symbol.  Numbers are integers: a      *)
(* volume is ten times its decimal logarithm, a spread or a volatility in  *)
(* tenths of a basis point, a coefficient of variation in hundredths, the  *)
(* range of a day in basis points; the sample window is 20 seconds.        *)
(***************************************************************************)
EXTENDS Integers, Sequences, FiniteSets, SequencesExt

CONSTANTS
  Listed,    \* the TRADING USDT perpetuals, in the order of their names
  Pins,      \* mm_auto_pin_symbols
  PairLegs,  \* the legs of multi_strategy_pair_bases
  UniverseCap, \* mm_auto_max_symbols
  SmaCap,    \* sma_max_symbols
  Scan,      \* the gates of the scan, a record
  Adverse    \* the thresholds of an adverse market, a record

SymbolsListed == ToSet(Listed)

\* One row: 24h volume, price, and what sampling the best bid and ask gave, if there were
\* the three samples it takes.
RowType ==
  [volume : Nat, price : Nat, range : Nat,
   sampled : BOOLEAN, spread : Nat, cv : Nat, vol : Nat]

ASSUME ScanAssumption ==
  /\ \A i, j \in 1..Len(Listed) : i # j => Listed[i] # Listed[j]
  /\ ToSet(Pins) \subseteq SymbolsListed /\ Len(Pins) = Cardinality(ToSet(Pins))
  /\ {UniverseCap, SmaCap} \subseteq Nat \ {0}
  /\ \A n \in {"minVolume", "minPrice", "prefilter", "pinVolume", "pinSpread", "midVolume",
               "minSpread", "maxSpread", "minEdge", "percentile", "cvFloor", "cvCap",
               "volFloor", "volCap", "regime", "cvLimit", "volLimit"} : Scan[n] \in Nat

SmallerOf(a, b) == IF a < b THEN a ELSE b
LargerOf(a, b) == IF a > b THEN a ELSE b
Clamp(v, lo, hi) == LargerOf(lo, SmallerOf(hi, v))

\* The first n of a sequence.
FirstOf(s, n) == SubSeq(s, 1, SmallerOf(n, Len(s)))

\* The symbols of s by falling key, the ones with the same key in their order in Listed.
ByFalling(s, key) ==
  LET place(x) == CHOOSE i \in 1..Len(Listed) : Listed[i] = x
  IN  SortSeq(s, LAMBDA a, b : key[a] > key[b] \/ (key[a] = key[b] /\ place(a) < place(b)))

Rising(s) == SortSeq(s, LAMBDA a, b : a < b)
MedianOf(s) ==
  LET r == Rising(s) IN (r[(Len(s) + 1) \div 2] + r[Len(s) \div 2 + 1]) \div 2
\* numpy's percentile, which interpolates between the two nearest.
PercentileOf(s, p) ==
  LET r == Rising(s)  at == (Len(s) - 1) * p  k == at \div 100 + 1
  IN  IF k = Len(s) THEN r[k] ELSE r[k] + ((r[k + 1] - r[k]) * (at % 100)) \div 100

-----------------------------------------------------------------------------
\* The range of a day, scaled to the sample window by the root of time.
Intraday(range) == (range * 152) \div 1000

\* The volatility the gates use: the sampled one, or 0.9 of the scaled range if larger.
Effective(row) ==
  LET i == Intraday(row.range)
  IN  IF row.vol = 0 THEN i ELSE LargerOf(row.vol, (9 * i) \div 10)

\* Above the gates of volume and price, the largest volumes first, so many of them.
Candidates(t) ==
  FirstOf(ByFalling(SelectSeq(Listed, LAMBDA s : t[s].price >= Scan.minPrice
                                                 /\ t[s].volume >= Scan.minVolume),
                    [s \in SymbolsListed |-> t[s].volume]), Scan.prefilter)

\* The cap a cross-section of values gives: what the settings say, a percentile when there
\* are five values, 1.35 medians when there are fewer, a constant when there are none.
CapOf(values, limit, fallback) ==
  CASE limit > 0 -> limit
    [] limit = 0 /\ Len(values) >= 5 -> PercentileOf(values, Scan.percentile)
    [] limit = 0 /\ Len(values) \in 1..4 -> (MedianOf(values) * 135) \div 100
    [] OTHER -> fallback

\* What a regime of volatility allows: the median range of the five calmest symbols.
RegimeVol(ranges) ==
  IF ranges = <<>> \/ Scan.volLimit > 0 THEN 0
  ELSE (Intraday(MedianOf(FirstOf(Rising(ranges), 5))) * Scan.regime) \div 100

Thresholds(rows) ==
  LET of(f(_), lo, hi) == SelectSeq([i \in DOMAIN rows |-> f(rows[i])],
                                    LAMBDA x : x >= lo /\ x < hi)
      cvs    == of(LAMBDA r : r.cv, 1, 500)
      pool   == of(Effective, 0, 2000) \o of(LAMBDA r : Intraday(r.range), 1, 2000)
      ranges == of(LAMBDA r : r.range, 1, 800)
  IN  [cv  |-> Clamp(CapOf(cvs, Scan.cvLimit, 45), Scan.cvFloor, Scan.cvCap),
       vol |-> Clamp(LargerOf(CapOf(pool, Scan.volLimit, 120), RegimeVol(ranges)),
                     Scan.volFloor, Scan.volCap)]

\* Every gate of score_mm_candidate().
Eligible(row, th) ==
  /\ row.sampled
  /\ row.volume >= Scan.minVolume
  /\ row.spread >= Scan.minSpread /\ row.spread <= Scan.maxSpread
  /\ row.cv <= th.cv
  /\ Effective(row) <= th.vol
  /\ row.spread >= Scan.minEdge

\* 35% volume, 30% edge, 20% stability of the spread, 15% calm, in thousandths.
ScoreOf(row, th) ==
  LET edge == row.spread - Scan.minEdge
      part(n, d) == SmallerOf(1000, (1000 * n) \div d)
  IN  (35 * part(row.volume, 90) + 30 * part(edge, LargerOf(2 * Scan.minEdge, 10))
       + 20 * ((100 * 1000) \div (100 + 4 * row.cv))
       + 15 * ((1000 * LargerOf(th.vol, 10)) \div (LargerOf(th.vol, 10) + Effective(row)))) \div 100

\* The candidates, each with its verdict.
Rankings(t) ==
  LET c  == Candidates(t)
      th == Thresholds([i \in 1..Len(SelectSeq(c, LAMBDA s : t[s].sampled)) |->
                          t[SelectSeq(c, LAMBDA s : t[s].sampled)[i]]])
  IN  [s \in ToSet(c) |-> [eligible |-> Eligible(t[s], th), volume |-> t[s].volume,
                           spread |-> IF t[s].sampled THEN t[s].spread ELSE 0,
                           score |-> IF Eligible(t[s], th) THEN ScoreOf(t[s], th) ELSE 0]]

-----------------------------------------------------------------------------
\* assemble_pin_universe(): a pin is taken if its volume will do and it is eligible, or has
\* a sampled spread that is wide enough.
PinTaken(s, t, ranks) ==
  /\ t[s].volume = 0 \/ t[s].volume >= Scan.pinVolume
  /\ \/ s \in DOMAIN ranks /\ ranks[s].eligible
     \/ t[s].sampled /\ t[s].spread >= Scan.pinSpread

PinUniverse(t, ranks) ==
  LET taken == SelectSeq(Pins, LAMBDA s : PinTaken(s, t, ranks))
  IN  IF taken # <<>> THEN taken ELSE FirstOf(Pins, 5)

\* A mutant: the rest by rising score.
TieredUniverseRising(t, ranks) ==
  LET pins == FirstOf(PinUniverse(t, ranks), UniverseCap)
      rest == SelectSeq(Listed, LAMBDA s : /\ s \in DOMAIN ranks /\ s \notin ToSet(pins)
                                           /\ ranks[s].eligible)
  IN  FirstOf(pins \o ByFalling(rest, [s \in DOMAIN ranks |-> -ranks[s].score]), UniverseCap)

\* assemble_tiered_universe(): the pins, then the eligible symbols with the best scores.
TieredUniverse(t, ranks) ==
  LET pins == FirstOf(PinUniverse(t, ranks), UniverseCap)
      rest == SelectSeq(Listed, LAMBDA s : /\ s \in DOMAIN ranks /\ s \notin ToSet(pins)
                                           /\ ranks[s].eligible
                                           /\ ranks[s].volume >= Scan.midVolume)
  IN  FirstOf(pins \o ByFalling(rest, [s \in DOMAIN ranks |-> ranks[s].score]), UniverseCap)

\* scan_mm_universe(): the report of a scan of market t.
ScanReport(t) ==
  [ranks |-> Rankings(t), recommended |-> TieredUniverse(t, Rankings(t))]

\* The spreads of the last scan, by which a blow-out is told (load_spread_baselines()).
Baselines(report) == [s \in {x \in DOMAIN report.ranks : report.ranks[x].spread > 0} |->
                        report.ranks[s].spread]

-----------------------------------------------------------------------------
\* The lists of symbols of the settings, by strategy; "pairs" is the engine's own list.
\* blend_symbols is treated as sma_symbols is, and left out.
ListName == {"pairs", "sma", "flow", "mm2"}
AUTO == <<"AUTO">>

\* _filter_and_cap_usdt_perps(): listed and not too cheap, by volume when there are too many.
TopByVolume(t, n) ==
  LET dear == SelectSeq(Listed, LAMBDA s : t[s].price >= Scan.minPrice)
  IN  IF Len(dear) <= n THEN dear
      ELSE FirstOf(ByFalling(dear, [s \in SymbolsListed |-> t[s].volume]), n)

\* resolve_binance_auto_universe(): every list that says AUTO is expanded.
Expanded(lists, t, report) ==
  [n \in ListName |->
     CASE lists[n] # AUTO -> lists[n]
       [] lists[n] = AUTO /\ n = "pairs" -> PairLegs
       [] lists[n] = AUTO /\ n = "sma" -> TopByVolume(t, SmaCap)
       [] OTHER -> report.recommended]

\* partition_multi_strategy_universe(), under STRATEGY=all: the tiers of the lists that
\* still say AUTO are cut from the recommended symbols one after the other.
Partition(lists, report) ==
  LET r == report.recommended  k == SmallerOf(UniverseCap, Len(r))
      m == SmallerOf(k + SmaCap, Len(r))
      tier == [pairs |-> PairLegs, mm2 |-> SubSeq(r, 1, k),
               sma |-> SubSeq(r, k + 1, m), flow |-> SubSeq(r, m + 1, Len(r))]
  IN  [n \in ListName |-> IF n = "pairs" \/ (lists[n] = AUTO /\ tier[n] # <<>>)
                          THEN tier[n] ELSE lists[n]]

-----------------------------------------------------------------------------
\* evaluate_adverse_universe(): enough of the symbols show one of four signs, or a regime
\* symbol among them moves too much.  micro[s] is what the features of s say.
MicroType ==
  [markout : Nat, toxic : BOOLEAN, jump : BOOLEAN, spread : Nat, vol : Nat, shock : Nat]

IsAdverse(symbols, micro, base) ==
  LET hits(P(_)) == Cardinality({s \in symbols : P(s)}) >= Adverse.symbols
  IN  \/ hits(LAMBDA s : micro[s].markout >= Adverse.markout)
      \/ hits(LAMBDA s : micro[s].toxic)
      \/ hits(LAMBDA s : micro[s].jump)
      \/ hits(LAMBDA s : s \in DOMAIN base
                         /\ 100 * micro[s].spread > base[s] * Adverse.widening)
      \/ \E s \in symbols \cap Adverse.regime :
           micro[s].vol >= Adverse.regimeVol \/ micro[s].shock >= 2 * Adverse.regimeVol
=============================================================================
