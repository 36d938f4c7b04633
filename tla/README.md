# Verification of the trading engine

TLA+ models of the trading backend (`src/backend`), the TLC runs that check
them on small instances, and theorems checked by TLAPS. Paths below are
relative to `backend/` unless they say otherwise.

1. [The system](#1-the-system)
2. [Modules and how they fit together](#2-modules-and-how-they-fit-together)
3. [How the code is read](#3-how-the-code-is-read)
4. [Modules one by one](#4-modules-one-by-one)
5. [Runs](#5-runs)
6. [Where the code and its words part](#6-where-the-code-and-its-words-part)
7. [Proofs](#7-proofs)
8. [What is not modelled](#8-what-is-not-modelled)

## 1. The system

One Python process runs one asyncio event loop. The HTTP API, the heartbeat,
the WebSocket readers, the reconcilers and one task for each parent order are
coroutines on that loop; they share objects and lose control only at an `await`
that suspends. The venue (Binance USD-M futures) is reached by REST calls, one
at a time through a gate in `rest_client.py`, by a user-data WebSocket and by
market data shards.

```
   API requests          heartbeat (Clock, 1 s)         reconcilers
        |                   |   risk checks                 |
        v                   v                               v
   Engine: start / pause / flatten / stop        order + position passes
        |                   |                               |
        |   strategies -> netting / groups -> router        |
        |        |                               |          |
        |   quote executor               VWAP task per parent
        |        |                        |  submit guard   |
        +--------+-----> order manager <--+-----------------+
                               |  REST calls      ^  user-data frames
                               v                  |
                              venue --------------+--> positions, ledger,
                               |                       stops, loss tracker
                          depth events                 --> circuit breaker
                               |                              |
                     books, ticks, freshness          event bus -> journal
```

| Component (source) | State | Operations | Hard behaviour | Must hold |
|---|---|---|---|---|
| Order manager (`engine/orders`) | children by id with status and filled quantity, trade-id memory, time of last socket activity | submit, order update, fill, cancel, mark cancelled | REST answers and frames in any order, repeated and lost frames, ambiguous failures | filled quantity never ahead of the venue; each trade counted once; terminal statuses final |
| Binance order connection (`gateways/binance`) | REST gate, user-data socket, listen key | place, cancel, query, list, sweep, read loop | call cancelled or timed out after the venue acted; reconnect loses frames | one call at a time; outcomes mapped without invention |
| Order reconciler (`engine/core/order_reconciliation.py`) | mismatch breach, local snapshot of one pass | periodic and forced pass | a pass suspended at several REST calls while orders change | closed orders leave the working set; stray orders end; live orders are not written off |
| Engine lifecycle (`engine/core/engine.py`, `api/routes/control.py`) | status, clock task, flatten task and flags | start, pause, resume, flatten, stop, kill, halt, rearm | concurrent requests and heartbeat at shared awaits; cancellation of a task others await | status agrees with the heartbeat; requests return; breaches are flattened |
| Circuit breaker, loss tracker (`engine/risk`) | active breaches, streak, daily anchor | trip, rearm, tick, update | trip and rearm around an await | MAJOR latches, MINOR cools down |
| Submit guard (`engine/execution/submit_guard.py`) | token buckets, reject streaks | gate a child, record a status | check before a wait, act after it | no entry while halted; rate bound |
| VWAP executor, router (`engine/execution`) | task for each parent, schedule | execute, slice, cancel, recover | fills racing the cancel of a residual; ambiguous submissions | never more than the parent's quantity; parent closed once |
| Group dispatch, pairs trading (`engine.py`, `strategies/pairs_trading.py`) | open pair, awaited fills, parents | dispatch two legs, compensate, enter, leave, give up | one leg fails or fills late; the strategy is not told of refusals | legs hedge each other; the belief is the position |
| Position tracker and reconciler (`engine/position`, `reconciliation.py`) | net quantity, venue snapshot | fill, account update, REST sync, heal | stale snapshots | converges to the venue |
| Strategy ledger, netting (`strategy_ledger.py`, `signal_netter.py`) | quantity by strategy and symbol | attributed delta, reconcile | late fills after finalisation | legs sum to the position |
| Books and freshness (`market_data`, `book_resync_runtime.py`) | book, resync tasks, ticks | snapshot, diff, resync, guard | gaps, overlapping snapshots, dying shards | a ready book is the venue's; no entry on an old price |
| Market-making quotes (`quote_executor.py`) | quote sessions by symbol and side | refresh, cancel, sweep | two tasks refresh at once; pause and mass cancel in between | the session is an account of the venue's orders |
| Market-making strategy and universe (`strategies/market_making`, `mm_universe_*`) | clocks, halts, legs; symbol lists, streams | quote, exit; scan, refresh, swap | overlapping refreshes | positions end; streams carry what is followed |
| Directional strategies, stops (`strategies`, `risk/stop_loss.py`) | samples, votes, clocks; brackets | tick, fill, exit | exits at work, refusals, partial fills | stops fire once and end the position |
| Event bus, journal, recovery (`common/events.py`, `persistence`) | bounded queues, append-only files | publish, append, replay, seed | crash between steps, a start that overlaps what is still under way | a start knows the venue's orders and position |

`PROJECT.json` lists every component with what is modelled of it, and the
hazards of the code at their lines.

## 2. Modules and how they fit together

| Subsystem | Modules | Composed in | Proofs |
|---|---|---|---|
| Orders | `OrderStatus`, `Exchange`, `OrderManager`, `OrderReconciler`; abstract: `FillFeed` | `MCOrderReconciler` | `OrderProofs` |
| Lifecycle | `EngineLifecycle` | `MCEngineLifecycle` | `EngineProofs` |
| Submission | `TokenBucket`, `SubmitGuard` | `MCSubmitGuard` | `GuardLedgerProofs` |
| Parents | `VwapParent` | `MCVwapParent` | `VwapParentProofs` |
| Pairs | `GroupDispatch`, `PairsTrading` | `MCPairsTrading` | `EngineProofs` |
| Positions | `PositionBook`, `StrategyLedger` | `MCStrategyLedger` | `GuardLedgerProofs` |
| Market data | `BookSync`, `MarketFreshness` | `MCMarketFeed` | `FeedDeskProofs` |
| Quotes | `QuoteExecutor` | `MCQuoteExecutor` | `QuoteExecutorProofs` |
| Market maker | `MmStrategy`; `UniverseScan`, `Universe` | `MCMarketMaking` | `MarketMakingProofs` |
| Directional | `Signals`, `SmaStrategy`, `BlendedStrategy`, `FlowStrategy`, `StopMonitor`, `SignalDesk` | `MCSignalDesk` | `FeedDeskProofs` |
| Persistence | `EventJournal`, `CrashRecovery` | `MCCrashRecovery` | `CrashRecoveryProofs` |

A module extends the one whose state it shares: the reconciler works on the order
manager's children and through its REST gate, the guard sleeps in the bucket, the
pair trades through the dispatch, the ledger lives on the position book, the ages
on the book, the desk on the three strategies and the stop monitor, the start on
the journal. `OrderManager` implements `FillFeed` by refinement. Where one
subsystem meets another that it does not share state with (a parent and the order
manager, a strategy and its executor) the other side is a free choice of what it
can do, and the module's comment says so.

## 3. How the code is read

*Atomic steps.* A handler is cut where it can be suspended: REST calls, sleeps,
joined tasks, full queues, threads. `EventBus.publish` and the order manager's lock
never suspend (the lock is never held across a suspending await), so frame handlers
are one step each. `asyncio.wait_for` on Python 3.11 wraps its argument in a
task, which is one more suspension point (`resumed` in `EngineLifecycle`). In
`QuoteExecutor` a refresh is long and mostly not suspended; its steps between two
awaits follow each other before anything else runs (`Quiet`).

*The venue* is external: it is modelled from how `gateways/binance` uses it. A
call may fail before or after the venue acted on it; in `VwapParent`, where tasks are
cancelled in the middle of a call, it may also act on it later. Frames arrive in the order
they were sent, may be repeated, and are lost together when the socket is
replaced. A REST snapshot is read in one step and applied in another.

*Time* is nondeterministic: a timeout or a cooldown may expire at any step, except
where a module counts ticks (the bucket, the ages of prices, the clocks of the
strategies, of the pair and of the universe), which its constants name.

*Data.* Prices are levels, quantities lots, a market a mood or a free choice of what
features can show. A decision over real numbers becomes a choice between the
branches that it can take; a decision that the properties depend on (netting shares,
brackets, ranks, votes) is computed in integers of a named unit.

*History variables* are named so in their declarations (`counted`, `room`, `late`,
`astray`, `races`, `told`, `quiet` ...). Those that say that something has gone wrong
in a listed way (`astray`, `raced`, `races`, `spoilt`) appear in the hypotheses of
properties; the property says in words which events they stand for, and the
runs reach states in which it is not set and everything else has happened.

## 4. Modules one by one

`OrderStatus` — the statuses of `common/enums.py`, `merge_order_status` and the
table of venue statuses, as operators.

`Exchange` — the venue, external. `book`, `cum` and `executed` are its side of each
order; `calls` is the queue at the REST gate, its head the call that holds the
gate; `answer` is the answer to that call; `stream` holds the user-data frames
sent and not yet handled, `lost` what reconnects dropped.

`OrderManager` (extends `Exchange`) — `engine/orders/order_manager.py` with
`order_connection.py`. `tracked`, `status`, `filled` are the children; `seen` the
trade-id memory; `counted` the calls of `on_fill` that returned True; `fresh`
whether the socket counts as recently active. A handler is an action; a REST call
splits a coroutine in the action that issues the call (`SubmitChild`, `Cancel`,
`MassCancel`) and the one that runs with its answer (`SubmitReturns`,
`SubmitRaises`, `CancelReturns`, `MarkWorkingCancelled`). `HandleFrame` is a frame
with its update and its fill, in the order `_handle_order_update` does them.

`FillFeed` — abstract: each trade is let through at most once, after it was made.

`OrderReconciler` (extends `OrderManager`) — one pass of `reconcile_once` cut at its
REST calls: `stage`, the two snapshots `venueIds` and `localIds`, the orphans `todo`
still to be queried. `BeginPass` skips as `_reconcile_should_skip_rest` does;
`Conclude` is what follows the last await: rejections and the breaker.

`EngineLifecycle` — `engine/core/engine.py`, `engine/core/clock.py`,
`api/routes/control.py`. `at[r]` is the await a request is suspended at and `job[r]`
which handler it is; `task` is the flatten task several of them join; `tick` is the
await the heartbeat is suspended at; `active` the latched MAJOR codes. Cancelling the
heartbeat cancels the task it awaits and, with it, everybody else who awaits
that task (`Beheaded`). Trading is reduced to one entry parent and to whether a
position is open.

`TokenBucket` — `_TokenBucket` of `engine/execution/submit_guard.py`. Time is counted
in ticks, tokens by the ticks they take to earn, so that the arithmetic is exact in
integers. `room` is a history variable: an ideal bucket of a chosen rate and size,
drained by every grant.

`SubmitGuard` (extends `TokenBucket`) — `gate_child` up to the throttle, the throttle,
the POST and `record_status`, for each coroutine in `submit_child` (`at`, `child`);
the halt, the pause for rejects with its streak and cooldown; the cap on working
orders read before the wait. `late` counts the entries a coroutine posted since the
halt.

`VwapParent` — one parent of `engine/execution/vwap_executor.py` and its report in
`execution_metrics.py`. `stage` is the await its task is suspended at: the submission of
a child (`first`, `fallback`, `residual`), the wait for a resting LIMIT, for the answer to
its DELETE, for a MARKET child to settle, for the DELETEs of an abort. `status` and
`told` are the order manager's copy of a child, which follows `venue` and `cum` at the
next `Learn`, or never. `adrift` holds the children whose POST was given up (timeout,
cancelled task) and may yet arrive. `faulty` is a history variable: the slices whose
second child was sized on wrong news. The residuals of all slices share one client order id,
as in the code (`Id`).

`GroupDispatch` — `_dispatch_group` and `_compensate_group_submission` with
`validate_group`, the leverage calls that suspend, the symbol breakers and the cap on
parents. `parents` is the bag of the pair's open parents, `others` counts those of
other symbols. `PairsTrading` (extends it) — `on_tick` and `on_fill`: `side` is what
the strategy believes, `awaited` what it waits for. Its z-score is any number.

`PositionBook` — `position_tracker.py`, `reconciliation.py` and the snapshots asked for
by a reconnect and a heal (`pass`, `sync`), against the venue's position; which frames
move the book, when a pass trusts the stream, how a fill is classified. `StrategyLedger`
(extends it) — the netting of two strategies' signals into a parent with its
attribution (`share`), the credit of its fills, finalisation, and the heals. Legs are
counted in fractions of a lot, since shares of a netted parent are rarely whole.

`BookSync` — one symbol's book: the shard's session and queue (`link`, `wire`), the
sequence check, the gap task, the bulk resync of reconnects and swaps, the clock's
snapshot, `frozen` (`_book_resync`). A book is the id of its last update and whether its
content is the venue's there. `MarketFreshness` (extends it) — the stamps of ticks,
among them the one the heartbeat gives (`_refresh_ticks_from_books`), the pre-trade guard
and the connection monitor.

`QuoteExecutor` — the sessions of one symbol in each execution mode (single quotes that
make, chase or climb; ladders and many-level climbs). `task` holds the program counter and
the locals of the clock tick, the user stream's handler and the operator's call;
`sessions` the session objects, since a refresh goes on with the one it has got when
another takes its place (`cur`). `races` records what came between the steps of a
refresh: another refresh, a control operation, a frame, a failed call.

`MmStrategy` — `on_tick_quotes`, the exit plan, halts, cooldowns and clocks of one
symbol, its own quote book, and the three views of a position (venue, tracker, leg).
`UniverseScan` — the pure part of the scan: gates, scores, tiers, `assemble_tiered_universe`,
the expansion of AUTO lists at boot and the signs of an adverse market. `Universe` — the
three tasks that refresh (loop, clock, operator), the swap, the patch of the lists, and
`MarketConnection.start` with its shards (`streams`, `starts`).

`Signals`, `SmaStrategy`, `BlendedStrategy`, `FlowStrategy`, `StopMonitor` — the signal
of a strategy and its memory as operators on records, one for each method. `SignalDesk` —
the clock tick that runs them: exits of the monitor first, then the strategy, the
pre-trade veto, the venue, account frames before trade frames.

`EventJournal` — the bounded journal queue, the writer and its threads, the buffer and
the file; a file is what replaying it gives. `CrashRecovery` (extends it) — processes
and starts: replay, seed, the first snapshot, the first order pass, the frames of the
connection, while the venue and the requests of a former start go on.

`MC*` modules give the constants of the runs (setups, moods, markets, symmetry);
`MCMarketMaking` runs two subsystems that share no state, a behaviour being one of the
one or of the other. The operators commented as mutated forms stand beside the
definitions that they replace: each is a plausible mistake that a property rules out.

## 5. Runs

A run asks all questions of a subsystem on one instance.

| Run | Instance | Shows |
|---|---|---|
| `reconciler` | 1 order of 2 lots, 6 calls, 6 frames, memory of 3 trades | filled quantities, trades and final statuses are right under every order of calls, frames and suspended passes; the refinement of `FillFeed`; closed orders leave the working set, stray ones end |
| `one_operator` | 1 request at a time, 2 breaker codes, 2 rounds, reads and closes may fail | the status tells the truth, the automatic rearm clears nothing new, a breach is flattened |
| `requests_return` | 2 requests, 1 round | two requests that join, wake or cancel each other both return |
| `submit_guard` | 2 coroutines, 3 orders at most, cap 1, 2 rejects, a token every 2 ticks | the joint rate, the overrun of a halt and of the cap, no submission starves |
| `vwap_parent` | slices of 2 and 1 lots, reducing or not | the bounds on what a slice executes, and that the report is closed |
| `pairs` | legs of 2 lots, 2 parents, 1 of another symbol, 3 open of the pair | belief and legs agree at rest, the cap holds, no wait for ever |
| `ledger` | 2 strategies, 1 netted parent at a time, 2 trades, position within 2 | legs add up, fills are classified right, book and ledger settle |
| `market_feed` | 2 updates, queue of 2, 2 cuts, prices too old after 1 | a ready book is right, no entry on an old price, the feed recovers |
| `quotes` | 10 setups of mode, prices and events; 3 ids | the session is exact, open orders are known, withdrawn quotes end |
| `market_making` | 5 moods, 2 lots; 3 symbols for 2 places, 2 scans, 3 states of the features | clocks, exits, quoting again; the best symbols, streams that match, positions followed |
| `signal_desk` | 3 strategies, 2 prices, 1 entry and 1 exit at work, 1 trouble | brackets and memory follow the position, no second exit, stops end it |
| `recovery` | 1 sell order, account long by 1, 2 processes, 2 starts each | the journal tells all, a start sees the venue, the view settles |

*Bounds.* A status moves at most three times and merging depends on two statuses, so
two lots are enough for partial fills. `MaxCalls` and `MaxFrames` of the reconciler's
run leave room so that no bound holds back a step that fairness relies on: one order never
has more than four calls or three frames outstanding. A memory of three trades forgets
none of two, so `FillFeed` is implemented (with fewer it is not). Requests
interact in pairs (one suspended, one that changes the state under it), hence two.
`Rounds = 2` is the default of `flatten_rounds`. In the guard a period of two ticks lets a
sleep begin at a fraction of a token, and the ideal bucket is four times as fast with room for
a burst of three: each of the two callers may be credited its sleep again. A first slice of two lots can be filled in part, and a
second slice meets what the first left behind (a resting or late child, the shared id of
the residuals); later slices meet nothing else. Three `Slots` let a group start while
one parent of the last is open. A position within two lots has a sign, a part and
a reversal. Two updates are a snapshot before, at and after an event, and a gap; a third
repeats them. `BookSync` allows two cuts so that one can fall into the repair of the other.
In `quotes` a ladder has two levels, and an id more than its levels, or fills, in
separate setups; the two sides go through the same code one after the other, so the ask
side is empty. Three symbols for two places, one pinned, make the ranking matter; two scans
that disagree make refreshes conflict. In `recovery` one order, of either fate, meets an
account that it closes or reverses; two processes with two starts each are a crash, a replay
of the file, and a second replay of it.

*Fairness.* The loop runs every ready continuation: weak fairness of each handler's
next step, of the frame readers, of the heartbeat and of the periodic passes. The
venue works on the call at the gate and ends what it has accepted (weak). Strong fairness
is assumed where a call may fail for ever, and says that it does not: serving and
returning a list and a cancel (`reconciler`), the snapshot the clock asks for
(`market_feed`), a position pass that finds the venue (`ledger`, `recovery`), an order
pass (`recovery`), entering a start whose lock is free again and again (`one_operator`),
the fill or refusal of a reduce-only order that is worked (`signal_desk`). The code
retries each of them for ever, at a period. No fairness is assumed of operators, breaches,
price moves, entries, reconnects or failures. Where a property needs the market or the
operator to leave it alone, it says so: a spread gate that stays open and a venue that
takes orders (`HeldEnds`), a calm market (`QuotesReturn`), an engine that is not paused
(`HeldIsFollowed`) or stays up (`ViewSettles`), a refresh that nothing crossed
(`WithdrawnQuotesEnd`).

*Deadlock* is checked, except in `VwapParent`, `MCStrategyLedger`, `MCMarketFeed`,
`MCQuoteExecutor` and `MCCrashRecovery`: a parent that has ended, an exhausted number of
trades, updates, ids or processes leave nothing to do.

## 6. Where the code and its words part

The models behave as the code does; no run checks a property that a run is expected to
break. These are the places met where a comment or document says something else, or where
the models show behaviour a reader may not expect. `PROJECT.json` lists the hazards with
their lines.

*Orders.* The response of POST /order overwrites a terminal status the socket has
reported (`order_connection.py:173`; `order_state_machine.py:3` calls terminal statuses
sticky), which is why `FinalOnceSubmitted` begins when `submit_child` has returned. A REST row
counts as socket activity; a child is rejected for its absence from a list older than its row;
the trade-id memory forgets arbitrary ids.

*Lifecycle.* A breach that trips while another is latched gets no flatten
(`engine.py:2505` against 2456). An entry parent outlives the flatten of a stop and fills after
it (1229 against 1226). A resume suspended across a stop leaves RUNNING without a heartbeat
(1125 against `control.py:126`): `DownIsStopped` is checked, and proved, for one operator. A
flatten resumes an engine that it finds paused at its end (1338); one that gives up after its
rounds is marked done (2514).

*Submission.* The throttle grants up to twice its rate to a lone submitter, because a sleep
is credited again at the next call. `submit_guard.py:6` blocks every submission once
latched, but a caller that waits in the throttle has passed the check: at most one child a
coroutine (`OverrunBounded`).

*Parents.* Fills not yet reported when the DELETE returns are ordered again
(`vwap_executor.py:567` against 564). A reducing parent is reported complete with its LIMIT
at the venue (560). A task cancelled before its first step never closes its report
(168). Residual orders share one client id (575).

*Pairs.* Fills, not legs, are counted (`pairs_trading.py:790` against 149). A strategy is not told
of refusals; pending orders are cleared while parents work; exit groups are vetoed as
entries, since `validate_group` drops `reduce_only` (README.md:771 of the repository says
otherwise); a refresh or restart forgets an open pair. `BeliefHolds` excludes these by
`astray`.

*Positions.* The parent of scaled or capped netted signals credits full contributions;
opposing intents that net to zero are dropped; `on_fill` of SMA, blend and flow is
called with a `price` it does not take (`engine.py:2334`); a fill that arrives before its
ACCOUNT_UPDATE is misclassified; a stale REST snapshot overwrites a newer book, an empty one
wipes it; fills after finalisation go to nobody.

*Market data.* The heartbeat stamps ticks again from ready books (`engine.py:1481`), so the guard
against stale ticks never sees a dead ticker (`market_data_guard.py:3`); a MINOR breaker of
ENGINE scope pauses nothing (`breaker_registry.py`); the first event that straddles a
snapshot is refused (`data_quality.py:79` against 65); an older snapshot replaces a newer
book, which is right at its own id; a shard dies on a full queue at stop or a failed
handshake. `NoStaleTickEntry` therefore speaks of prices that a frame brought.

*Quotes.* A mass cancel or flatten does not pause first (README.md:371 and 719 of the
repository). A pause forgets the session before its cancels are done (`quote_executor.py:94`); a
failed cancel is taken off the list (`order_connection.py:189`); a ladder level is removed
after its cancel was awaited, when another refresh may have removed it
(`quote_executor.py:504`); the refresh stops after a number of symbols, always from the
first (86). `SessionExact` excludes refreshes that something crossed.

*Market maker.* A fill of a market exit carries another strategy's name, so that
`_handle_mm_fill` never hears of it (`HoldClock` allows for it); a market exit with a flat
book leaves quotes unmanaged; the spread gate withdraws exits too; a cooldown withdraws the
side that reduces. The adverse refresh is awaited in the heartbeat with its 20 s of
samples, so exits and breakers wait exactly when the market is adverse; of two overlapping
`MarketConnection.start` calls the first one's shards are unlisted until the next stop
(`market_connection.py:141` says they must not be); symbols that leave the universe keep
their quotes and positions; under STRATEGY=all the lists overlap after a refresh.

*Directional.* SMA crosses close and never flip, and a vetoed cross is consumed. Blend
weighs the votes of the old regime with the weights of the new, which keeps it from entering
on that bar as long as the threshold is above 0.35 (`NoRashOrder`). Profits are the venue's at the last snapshot. `StopLossMonitor.arm` is called on
fills only: positions from a snapshot, a restart or a swap have no bracket
(`stop_loss.py:7-9`). The back-off after a refusal is erased by a disarm
(`engine.py:1541`).

*Recovery.* Every start of a process replays the same old file (`engine.py:920`) and `seed` keeps
replayed positions of flat symbols; a start that fails leaves a file that hides the older
history (`journal.py:128`); a writer cancelled while a thread appends may reorder or
lose one event (`journal.py:1` says the numbers are monotonic); a child restored from the
journal has no executor; NEW children are never journaled.

## 7. Proofs

All are checked by `tlapm` from the assumptions named in the modules, for every value of
the constants that satisfies them; the runs check the same properties on small instances.
`PROJECT.json` lists the theorems.

*`OrderProofs`*, for every set of orders, quantity and bound. `TypeCorrect` is inductive
as it stands. `FilledSafe` and `OutcomeSafe` are not: a
frame may carry anything as far as the state of the order manager goes. The
invariant `IInv` adds what makes frames true (`FramesTrue`: a frame in flight
never reports more than the venue executed nor an outcome the venue has not reached),
that unplaced orders are empty, and where each trade is
(`CountedMade`, `SeenCounted`, `ExecutedPast`, `NoFillForgotten`). `TerminalIsFinal` is an
action property from the same invariant: only the continuation of a POST overwrites a
terminal status. `OnceOnly` and `FeedImplemented` (the refinement of `FillFeed`) assume
`MemoryHolds`, a memory as large as the set of trades: past its limit the code forgets
arbitrary ids, and a repeated frame is let through again.

The six theorems `Reconciled...` say the same of the order manager with the reconciler's
passes beside it. Every step of the reconciler is shown to keep `IInv`, with one more
conjunct: a row that a query brings is not ahead of the venue (`RowTrue`) when it is
applied, however long after it was read, because the venue never goes back. The
lemma `AfterRow` is shared by the three places that apply a row.

*`EngineProofs`* holds the theorems of two parts of the engine that share no state.

Of `EngineLifecycle`, for every number of requests, set of codes and number of rounds:
`RearmSafe` rests on `StreakIsOld`: between the moment the heartbeat lists
the breaches and the moment it rearms, the losing streak cannot trip again because the
loss tracker is not evaluated during a flatten. `StoppedIsDown` assumes one operator
(section 6 says why); its invariant `Follows` ties the status and the heartbeat to
the point the lone request is suspended at.

Of `PairsTrading` over `GroupDispatch`, for every size, cap and timeout: `BeliefIsRight`. What
the pair believes is about moments of rest, so its invariant `PairInv` is an account of all that can
lie between two of them while nothing has led the pair astray. A group goes in (`Entering`)
or out (`Leaving`), or its first leg is unwound because the second was refused at
once (`Alone`); in each case the orders at work, the positions, the fills counted and the legs
still to be submitted all follow from how much of each leg has executed (`Executed`). Fills are
counted, whichever leg they are of, and yet the pair is right: when the second fill is
counted, orders are left unless both legs are executed whole, and a pair that finishes
with orders at work is `astray`. `CapHolds`: the second leg of a group is checked against a count
that has the first in it, so entries never overrun the cap, also when the leverage call
of the second leg suspends in between. Parents are counted by their copies
(`Number`), which the theorems on finite sets of the library apply to.

*`GuardLedgerProofs`*, for every rate, capacity, cap and set of coroutines. `LoopThrottled` says
that a lone submitter is granted at most twice the rate. Its invariant `Paid` relates the ideal
bucket to the real one: awake, it has as much room as the real bucket has credit; asleep, what
is missing is what is left of its sleep. `GuardUsesBucket` is a refinement: a step behind the
breaker and the cap is a step of the bucket or leaves it alone, so that the rate carries
over (`GuardedLoopThrottled`). `OverrunIsBounded` is for any finite set of coroutines: the
invariant counts the coroutines that have passed the check and not posted yet
(`EntriesOnTheWay`), by cardinalities.

The same module proves the two invariants of the ledger, for any finite set of strategies.
`LegsAddUpHolds` has to say what the legs add up to while frames are on their way
(`SumInv`): to a position from which the fills in the stream, in their order, lead to the
venue's (`Leads`). Of each parent, what was credited and what the stream still brings is no
more than what has executed (`Due`), so its attribution is still there when its last fill
is read. Sums over the strategies are folds; the lemmas about them (`Linear`, `Totalled`) are by
least counterexample over their subsets. The code divides floats: the model cuts a share
to whole fractions of a leg, and a run in which something was cut off counts as `astray`, so that
the theorem needs no assumption on `Scale`. `ClassifiedRightHolds` rests on `PairInv`: where account frames
come first and no snapshot or break has raced them, each fill in the stream directly follows the
frame that has its position, or is at its head and the tracker has it already.

*`VwapParentProofs`*, for every schedule. Neither bound on a slice is inductive:
`TwiceSafe` needs `Alone` (the second child of a slice is its last, and there is none
while the first is worked) and `Begun` (nothing is ordered for later slices). `CauseSafe`
needs in addition what good news is worth: `GoodNews` says that of a slice not in
`faulty` the first child never reaches the venue, or is closed there with its fills taken
off the residual; `Placed` and `Answered` say which children the venue can still come to
know. `ReduceSafe` rests on `OnlyFirst`. The lemma `Quiet` covers all steps that order
nothing.

*`FeedDeskProofs`*, for every bound. `FeedIsTrusted` holds because an event is applied only
where the last one ended, and because a snapshot replaces the book as a whole, however
late it is. The invariant adds that no event or snapshot on its way is ahead of the venue
(`EventsSent`, `ReadsTrue`) and, for the ages, that a tick's stamp is as old as the last frame
that brought it unless the heartbeat stamped it. `FeedIsBookSync`: without its ages the module
takes steps of `BookSync` only.

The module also proves the two properties of the directional desk that are not liveness. Its
invariant `DeskInv` says that the last two frames of the stream are the account frame with
the venue's position and its trade frame, so that the book is the venue's
when at most the trade frame is left (`StreamOK`); that the bracket and the memory of flow
momentum follow the book once the stream is empty (`MemoryFollowsHolds`); and that the cooldown lasts at least
as long as the ticks in which no second exit is called for (`CoolOK`). `NoRashOrderHolds` assumes an entry
threshold above 35 hundredths (`blend_entry_threshold` is 0.40 by default): on the bar
that turns the regime the votes are those of the old one, whose indicators have at most 35
hundredths of the weight of the new one, and a lower threshold can be reached.

*`QuoteExecutorProofs`*, for any finite number of ids and any setup. `TypeCorrect` needs the
invariant `Typed`: what the next step of a task reads is there (`TaskRight`) — its session
object, the level it waits for, the plan of its ladder — whatever the others did
meanwhile. It also shows that three session objects and the ids of the orders suffice, that is,
that the model's bounds never stop a refresh. `OpenOrdersWork` says that an order open at the
venue is one the order manager has working or awaits the answer for, so that a mass cancel
finds it. Its invariant `OpenInv` needs that news of an end is of an order that has ended, and
that a mass cancel that nothing crossed is alone (`MassAlone`).

`SessionIsExact` is the theorem about every mode at once. Its invariant `SessionInv` holds while
nothing came between the steps of a refresh: then one task is at work, on the current
session (`OneBusy`, `OnCurrent`), and each open quote is being posted, being cancelled, about
to be evicted or listed (`AllAccounted`). Listed is not enough, since a refresh drops levels:
`Safe` says for each place where a refresh can be suspended that the quote is still ahead of it,
kept by the plan, or out of its way. Of a ladder the last level of an index is
the one that counts (`Topmost`), an id cannot name two levels, and a listed order must be known to have ended
before it may be passed over (`NoStale`, `ListsWork`). `Moves` is what every turn of a task
keeps of this; each action is shown to be such a turn or to leave the tasks alone.
`Only` and `OfIndex` of the model stand
for list comprehensions; the lemmas about them are by least counterexample (`Least`, from
the well-foundedness theorems of the library), which is how induction over data is done
here.

*`MarketMakingProofs`*. `ClockHeld`: a position the strategy believes in has a running clock,
through fills, heals and exits, which `MmInv` proves with the types of the book of its own
quotes. `StreamsFollow`: however many refreshes overlap, once no `start()` is under way the
listed shards carry what the engine follows. The invariant `LastStart`: the last
`start()` in the queue is for the symbols followed now, since whoever changes them asks for
streams in the same step.

*`CrashRecoveryProofs`*. `JournalIsComplete`, for a finite set of client order ids and any
size of the queue and the buffer: by `ReplayParts` a file may be replayed in parts, the later
on what the earlier gave (a least counterexample again), so a line that goes from the queue
to the writer, the buffer and the file changes nothing. The invariant `JournalInv` adds what
the writer's own thread can spoil: a line that an abandoned thread still holds makes the
journal spoilt, and a closed journal has nothing left to write.

`StartIsComplete` is with `reconcile_cancel_orphans` on, as it is by default (`risk.py:136`);
without it a start leaves orders at the venue that it does not know. It holds
for any journal and any crash: the invariant says that while a start is undisturbed no frame
waits, the answer of a call is still true when it is used, and no request of a former
start is under way that can still be answered (`QuietStream`, `QuietAnswers`,
`NoRequests`).

*Only model-checked.*

- Liveness: fairness and ENABLED are out of the prover's reach.
- `BestChosen`: the ranking sorts by library operators that are opaque to the prover.
- The rate of several submitters: the bound that the run checks for two has no simple
  form for any number.

## 8. What is not modelled

Features, indicators, pricing, sizing, portfolio valuation and analytics are
floating-point arithmetic without interleaving to check: the modules that read them choose
freely what they show. Serialisation, the dashboard, deployment, capture files, statistics
and the listen-key keepalive are I/O. Settings patches at run time other than those of
the symbol lists (they replace the token bucket and reset loss anchors), the parents of
a flatten with their claw-back order, runs with `market_fallback` off, parent registration and
pruning, symbol-scope breakers, the caps on notional and exposure, the daily and drawdown
anchors, rotation of the journal, and the IBKR stub are left out of the modelled components.
`PROJECT.json` gives the reason for each component.
