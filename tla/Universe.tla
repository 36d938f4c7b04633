------------------------------ MODULE Universe ------------------------------
(***************************************************************************)
(* The symbols the engine follows, and how they change while it runs: the  *)
(* periodic and the adverse refresh of the market maker's universe         *)
(* (backend/engine/core/mm_universe_runtime.py), the swap of the strategy  *)
(* and the patch of the settings by the operator (api/routes/control.py,   *)
(* settings.py), refresh_market_universe() in core/engine.py, and the      *)
(* start and stop of the market streams (market_connection.py).            *)
(*                                                                         *)
(* Three tasks refresh: the loop, the clock tick and a request of the      *)
(* operator.  Each awaits a scan, then the streams, then the first prices, *)
(* and the others run meanwhile.  The books' snapshots are module          *)
(* BookSync's and are left out.                                            *)
(***************************************************************************)
EXTENDS UniverseScan

CONSTANTS
  Markets,      \* the markets a scan may find
  Micros,       \* what the features may show, a set of functions
  Configured,   \* the lists of the settings file, AUTO where it says so
  CheckEvery,   \* mm_universe_adverse_check_sec, in steps of time, and so on for
  RefreshEvery, \* mm_universe_adverse_refresh_cooldown_sec
  ReportTtl,    \* mm_auto_scan_ttl_sec
  SwapEvery,    \* strategy_swap_min_interval_sec
  MaxSwaps,     \* bound on the operator's requests
  MaxFailures,  \* bound on the scans that fail
  MaxHeld,      \* bound on the open positions
  BootModes     \* the strategies the engine may be started with

Mode == {"mm2", "sma", "all"}
Refresher == {"loop", "clock", "operator"}

ASSUME UniverseAssumption ==
  /\ \A t \in Markets : DOMAIN t = SymbolsListed /\ \A s \in SymbolsListed : t[s] \in RowType
  /\ \A u \in Micros : DOMAIN u = SymbolsListed /\ \A s \in SymbolsListed : u[s] \in MicroType
  /\ BootModes \subseteq Mode
  /\ DOMAIN Configured = ListName /\ Configured["mm2"] = AUTO
  /\ {CheckEvery, RefreshEvery, ReportTtl, SwapEvery, MaxSwaps, MaxFailures, MaxHeld}
       \subseteq Nat

VARIABLES
  mode,     \* the active strategy, or "all"
  trading,  \* whether the engine runs or is paused
  lists,    \* the lists of the settings
  report,   \* the report of the last scan, in its file
  base,     \* the engine's baselines of the spreads
  followed, \* the engine's symbols (_symbols)
  streams,  \* the shards of the connection: the listed ones and the forgotten ones
  starts,   \* the calls of start() that wait for the old tasks to end, in their order
  task,     \* task[r]: what refresher r awaits, and the lists a patch will apply
  held,     \* the symbols with an open position
  since,    \* time since the last check, adverse refresh, swap and report, capped
  left      \* what is left of the bounds on requests and failures

universeVars == <<mode, trading, lists, report, base, followed, streams, starts, task,
                  held, since, left>>

NoLists == [n \in ListName |-> <<>>]
Idle == [at |-> "idle", for |-> NoLists]
Waiting(at) == [at |-> at, for |-> NoLists]

\* _strategy_symbol_candidates(), _resolve_market_symbols(): the symbols of the strategies
\* that run, and of the open positions.
Wanted(how, of) ==
  IF how = "all" THEN UNION {ToSet(of[n]) : n \in ListName} ELSE ToSet(of[how])
\* A mutant: the open positions are left out.
ResolvedOfStrategies(how, of, open) ==
  IF Wanted(how, of) = {} THEN ToSet(of["pairs"]) ELSE Wanted(how, of)
Resolved(how, of, open) ==
  IF Wanted(how, of) \cup open = {} THEN ToSet(of["pairs"]) ELSE Wanted(how, of) \cup open

\* active_mm_symbols()
Quoted == IF mode = "sma" THEN {} ELSE ToSet(lists["mm2"])

\* What the market may do to the engine's subscriptions.
Carried == streams.listed \cup UNION streams.orphans

\* main._prepare_boot_settings(): AUTO is expanded, then partitioned under "all".
UniverseInit ==
  /\ mode \in BootModes /\ trading = TRUE
  /\ \E t \in Markets :
       /\ report = ScanReport(t)
       /\ lists = IF mode = "all" THEN Partition(Expanded(Configured, t, report), report)
                                  ELSE Expanded(Configured, t, report)
  /\ base = Baselines(report)
  /\ followed = Resolved(mode, lists, {})
  /\ streams = [listed |-> followed, orphans |-> {}] /\ starts = <<>>
  /\ task = [r \in Refresher |-> Idle]
  /\ held = {}
  /\ since = [check |-> 0, refresh |-> RefreshEvery, swap |-> SwapEvery, report |-> 0]
  /\ left = [swaps |-> MaxSwaps, failures |-> MaxFailures]

-----------------------------------------------------------------------------
\* A mutant: a start() that finds another under way leaves it at that.
BeginStartOnce(r, symbols) ==
  /\ starts' = IF starts = <<>> THEN <<[by |-> r, symbols |-> symbols]>> ELSE starts
  /\ streams' = [listed |-> {}, orphans |-> {}]

\* The first part of MarketConnection.start(), up to its first await: the listed shards are
\* cancelled, with the readers of the ones forgotten before.
BeginStart(r, symbols) ==
  /\ starts' = Append(starts, [by |-> r, symbols |-> symbols])
  /\ streams' = [listed |-> {}, orphans |-> {}]

\* refresh_market_universe() by r, with settings of: nothing when the engine is paused or
\* its symbols are the ones wanted, else they are replaced and subscribed to.
Refollow(r, how, of) ==
  LET wanted == Resolved(how, of, held) IN
  \/ /\ trading /\ wanted # followed
     /\ followed' = wanted
     /\ BeginStart(r, wanted)
     /\ task' = [task EXCEPT ![r] = Waiting("start")]
  \/ /\ ~trading \/ wanted = followed
     /\ task' = [task EXCEPT ![r] = Idle]
     /\ UNCHANGED <<followed, starts, streams>>

\* The rest of start(), once the tasks it cancelled have ended: waiters are woken in the
\* order in which they came.  The shards of a start() that ended since are no longer listed.
EndStart ==
  /\ starts # <<>>
  /\ LET s == Head(starts) IN
     /\ streams' = [listed |-> s.symbols,
                    orphans |-> streams.orphans \cup ({streams.listed} \ {{}})]
     /\ task' = [task EXCEPT ![s.by] = Waiting("prices")]
  /\ starts' = Tail(starts)
  /\ UNCHANGED <<mode, trading, lists, report, base, followed, held, since, left>>

\* _resync_symbol_books() and _prime_symbol_prices() have run; what they read is left out.
EndPrices(r) ==
  /\ task[r].at = "prices"
  /\ task' = [task EXCEPT ![r] = Idle]
  /\ UNCHANGED <<mode, trading, lists, report, base, followed, streams, starts, held, since, left>>

-----------------------------------------------------------------------------
\* refresh_loop() wakes up; refresh() does nothing while the engine is paused.
LoopWakes ==
  /\ task["loop"].at = "idle" /\ trading
  /\ task' = [task EXCEPT !["loop"] = Waiting("scan")]
  /\ UNCHANGED <<mode, trading, lists, report, base, followed, streams, starts, held, since, left>>

\* maybe_refresh_adverse() in a clock tick.
ClockChecks ==
  /\ task["clock"].at = "idle" /\ trading
  /\ since.check >= CheckEvery
  /\ since' = [since EXCEPT !.check = 0]
  /\ \E u \in Micros :
       task' = IF since.refresh >= RefreshEvery /\ IsAdverse(Quoted, u, base)
               THEN [task EXCEPT !["clock"] = Waiting("scan")] ELSE task
  /\ UNCHANGED <<mode, trading, lists, report, base, followed, streams, starts, held, left>>

\* refresh() after its scan: the report is written, the lists patched, and the engine's
\* symbols follow.  Only an adverse refresh is stamped as one.
EndScan(r) ==
  /\ r \in {"loop", "clock"} /\ task[r].at = "scan"
  /\ \E t \in Markets : \E found \in {ScanReport(t)} :
       /\ report' = found /\ base' = Baselines(found)
       /\ lists' = [lists EXCEPT !["mm2"] = found.recommended,
                                 !["flow"] = IF Configured["flow"] = AUTO
                                             THEN found.recommended ELSE @]
       /\ Refollow(r, mode, lists')
  /\ since' = [since EXCEPT !.report = 0, !.refresh = IF r = "clock" THEN 0 ELSE @]
  /\ UNCHANGED <<mode, trading, held, left>>

\* A scan raises: refresh() logs it and leaves.
FailScan(r) ==
  /\ r \in {"loop", "clock"} /\ task[r].at = "scan"
  /\ left.failures > 0
  /\ left' = [left EXCEPT !.failures = @ - 1]
  /\ task' = [task EXCEPT ![r] = Idle]
  /\ UNCHANGED <<mode, trading, lists, report, base, followed, streams, starts, held, since>>

-----------------------------------------------------------------------------
\* POST /strategy: set_active_strategy(), then refresh_market_universe() if it runs.
Swap(how) ==
  /\ task["operator"].at = "idle" /\ left.swaps > 0
  /\ how # mode /\ since.swap >= SwapEvery
  /\ mode' = how
  /\ since' = [since EXCEPT !.swap = 0]
  /\ left' = [left EXCEPT !.swaps = @ - 1]
  /\ Refollow("operator", how, lists)
  /\ UNCHANGED <<trading, lists, report, base, held>>

\* PATCH /settings with an mm2 list that says AUTO: it is resolved from the report while that
\* is fresh, from a new scan otherwise, and applied after another await together with the
\* other lists as they were when the request came (patch_settings()).
Patch ==
  /\ task["operator"].at = "idle" /\ left.swaps > 0
  /\ left' = [left EXCEPT !.swaps = @ - 1]
  /\ \/ since.report < ReportTtl /\ UNCHANGED <<report, since>>
     \/ /\ since.report >= ReportTtl
        /\ \E t \in Markets : report' = ScanReport(t)
        /\ since' = [since EXCEPT !.report = 0]
  /\ task' = [task EXCEPT !["operator"] =
                [at |-> "apply", for |-> [lists EXCEPT !["mm2"] = report'.recommended]]]
  /\ UNCHANGED <<mode, trading, lists, base, followed, streams, starts, held>>

\* The patch is applied; the engine's symbols follow if the patch changed them.
EndPatch ==
  /\ task["operator"].at = "apply"
  /\ lists' = task["operator"].for
  /\ IF Resolved(mode, lists', held) # Resolved(mode, lists, held)
     THEN Refollow("operator", mode, lists')
     ELSE /\ task' = [task EXCEPT !["operator"] = Idle]
          /\ UNCHANGED <<followed, starts, streams>>
  /\ UNCHANGED <<mode, trading, report, base, held, since, left>>

\* pause(), resume()
PauseOrResume ==
  /\ \/ /\ trading /\ left.swaps > 0
        /\ left' = [left EXCEPT !.swaps = @ - 1]
     \/ /\ ~trading
        /\ UNCHANGED left
  /\ trading' = ~trading
  /\ UNCHANGED <<mode, lists, report, base, followed, streams, starts, task, held, since>>

\* A fill opens a position: of a strategy that runs, of a quote left at the venue in a
\* symbol the market maker quoted once, or of somebody else.  A fill closes one.
PositionOpens(s) ==
  /\ s \notin held /\ Cardinality(held) < MaxHeld
  /\ held' = held \cup {s}
  /\ UNCHANGED <<mode, trading, lists, report, base, followed, streams, starts, task, since, left>>
PositionEnds(s) ==
  /\ s \in held
  /\ held' = held \ {s}
  /\ UNCHANGED <<mode, trading, lists, report, base, followed, streams, starts, task, since, left>>

TimePasses ==
  /\ since' = [check   |-> SmallerOf(since.check + 1, CheckEvery),
               refresh |-> SmallerOf(since.refresh + 1, RefreshEvery),
               swap    |-> SmallerOf(since.swap + 1, SwapEvery),
               report  |-> SmallerOf(since.report + 1, ReportTtl)]
  /\ since' # since
  /\ UNCHANGED <<mode, trading, lists, report, base, followed, streams, starts, task, held, left>>

UniverseNext ==
  \/ EndStart
  \/ \E r \in Refresher : EndPrices(r) \/ EndScan(r) \/ FailScan(r)
  \/ LoopWakes
  \/ ClockChecks
  \/ \E how \in Mode : Swap(how)
  \/ Patch
  \/ EndPatch
  \/ PauseOrResume
  \/ \E s \in SymbolsListed : PositionOpens(s) \/ PositionEnds(s)
  \/ TimePasses

UniverseSpec == UniverseInit /\ [][UniverseNext]_universeVars

-----------------------------------------------------------------------------
\* What is recommended is the best the scan found: no symbol twice and not too many; beside
\* pins only eligible symbols of enough volume; the pins that are taken come first; and an
\* eligible symbol is left out only for better ones (assemble_tiered_universe()).
BestChosen ==
  LET r == report.recommended  k == report.ranks
      fit == {s \in DOMAIN k : k[s].eligible /\ k[s].volume >= Scan.midVolume}
  IN  /\ Len(r) \in 1..UniverseCap /\ Cardinality(ToSet(r)) = Len(r)
      /\ ToSet(r) \subseteq fit \cup ToSet(Pins)
      /\ \A s \in fit \ ToSet(r) :
           /\ Len(r) = UniverseCap
           /\ \A x \in ToSet(r) \ ToSet(Pins) : k[x].score >= k[s].score
      /\ \A i, j \in 1..Len(r) : i < j /\ r[j] \in ToSet(Pins) =>
           r[i] \in ToSet(Pins) \/ k[r[j]].volume < Scan.pinVolume

\* Whoever refreshed, and however the calls overlapped: once no start() is under way, the
\* listed shards carry exactly the symbols the engine takes itself to follow
\* (refresh_market_universe(), MarketConnection.start()).
StreamsMatch == starts = <<>> => streams.listed = followed

\* Once the engine stays unpaused, an open position is followed, and before long,
\* even one that a quote left behind or somebody else opened in a symbol that was not
\* (_resolve_market_symbols() in the periodic refresh).
HeldIsFollowed ==
  <>[]trading =>
    \A s \in SymbolsListed : s \in held ~> (s \notin held \/ s \in followed \cap Carried)
=============================================================================
