-------------------------- MODULE MarketFreshness --------------------------
(***************************************************************************)
(* How old the price may be that a strategy enters on: the tick of one     *)
(* symbol (_latest_tick in backend/engine/core/engine.py) is set by        *)
(* bookTicker frames, by depth events and snapshots of the book of         *)
(* BookSync, and stamped again from a ready book on each beat of the       *)
(* clock; the pre-trade guard                                              *)
(* (backend/engine/risk/market_data_guard.py) goes by this stamp, and the  *)
(* connection monitor (backend/engine/core/connection_monitor.py) by the   *)
(* last frame of any kind.                                                 *)
(*                                                                         *)
(* Time is counted in units of the clock, up to one more than the limit.   *)
(***************************************************************************)
EXTENDS BookSync

CONSTANT MaxAge  \* max_tick_age_sec, and ws_stale_pause_sec

ASSUME FreshnessAssumption == MaxAge \in Nat

VARIABLES
  tick,     \* the price of the symbol: the age of its stamp, its own age, what stamped it
  bookAge,  \* the age of what the book shows
  feedAge,  \* the age of the last frame (last_tick_ts)
  stale,    \* stale_market_data is tripped
  entered   \* history: the last entry

ages == <<tick, bookAge, feedAge, stale, entered>>
all == <<vars, ages>>

Age == 0 .. MaxAge + 1
Older(a) == IF a > MaxAge THEN a ELSE a + 1
New == [stamp |-> 0, price |-> 0, by |-> "frame"]

TypeOKFresh ==
  /\ TypeOK
  /\ tick \in [stamp : Age, price : Age, by : {"frame", "beat"}] /\ tick.stamp <= tick.price
  /\ bookAge \in Age /\ feedAge \in Age /\ stale \in BOOLEAN
  /\ entered \in {"none", "fresh", "stale book", "stale tick"}

InitFresh ==
  /\ Init
  /\ tick = New /\ bookAge = 0 /\ feedAge = 0
  /\ stale = FALSE /\ entered = "none"

-----------------------------------------------------------------------------
\* _touch_symbol_from_book(), after the book has been given what is new.
Touched == tick' = New /\ bookAge' = 0

\* _on_tick().
TickArrives ==
  /\ link = "up"
  /\ tick' = New /\ feedAge' = 0
  /\ UNCHANGED <<vars, bookAge, stale, entered>>

\* _on_depth().
Depth ==
  /\ \/ DepthApplied /\ Touched
     \/ (DepthDropped \/ DepthGap) /\ UNCHANGED <<tick, bookAge>>
  /\ feedAge' = 0
  /\ UNCHANGED <<stale, entered>>

\* _snapshot_book().
Snapshot(ok) ==
  /\ GapEnds(ok) \/ BulkEnds(ok) \/ ClockEnds(ok)
  /\ IF ok THEN Touched ELSE UNCHANGED <<tick, bookAge>>
  /\ UNCHANGED <<feedAge, stale, entered>>

\* ConnectionMonitor.evaluate(): the breaker is MINOR, and holds until frames come again.
Monitored == stale' = (feedAge' > MaxAge)

\* _refresh_ticks_from_books(): a ready book stamps the tick, whatever its age.
Refreshed ==
  tick' = IF book.ready THEN [stamp |-> 0, price |-> bookAge', by |-> "beat"]
          ELSE [tick EXCEPT !.stamp = Older(@), !.price = Older(@)]

\* MarketDataGuard.evaluate(), the only check of freshness: a MINOR breaker of the engine
\* blocks nothing (is_engine_halted(), is_blocked()).
GuardPasses == tick'.stamp <= MaxAge

\* A beat of the clock: time passes, and a strategy enters when it may; a bulk resync of a
\* strategy swap blocks the strategies.
Beat ==
  /\ clock.at = "idle"
  /\ bookAge' = Older(bookAge) /\ feedAge' = Older(feedAge)
  /\ Monitored /\ Refreshed
  /\ \/ UNCHANGED entered
     \/ /\ GuardPasses /\ ~frozen
        /\ entered' = IF tick'.price <= MaxAge THEN "fresh"
                      ELSE IF tick'.by = "beat" THEN "stale book" ELSE "stale tick"
  /\ UNCHANGED vars

Unseen ==
  /\ \/ VenueUpdates \/ VenueSends
     \/ Connect \/ HandshakeFails \/ Disconnect \/ Drained
     \/ GapClaims \/ GapAsks \/ GapDone
     \/ BulkReconnect \/ BulkSwap \/ TimePasses \/ ClockAsks
  /\ UNCHANGED ages

\* refresh_market_universe() forgets the tick of a symbol it removes only.
Swap == Resubscribe /\ UNCHANGED ages

NextFresh ==
  \/ TickArrives \/ Depth \/ Beat \/ Unseen \/ Swap
  \/ \E ok \in BOOLEAN : Snapshot(ok)

\* The fairness of BookSync.
SpecFresh ==
  /\ InitFresh
  /\ [][NextFresh]_all
  /\ WF_all(Depth) /\ WF_all(VenueSends /\ Unseen)
  /\ WF_all(BulkReconnect /\ Unseen) /\ WF_all(BulkSwap /\ Unseen)
  /\ WF_all(BulkEnds(FALSE) /\ Snapshot(FALSE))
  /\ WF_all(\E ok \in BOOLEAN : GapEnds(ok) /\ Snapshot(ok))
  /\ WF_all(TimePasses /\ Unseen) /\ WF_all(ClockAsks /\ Unseen)
  /\ SF_all(ClockEnds(TRUE) /\ Snapshot(TRUE))

-----------------------------------------------------------------------------
\* A price that a frame of the stream has brought is never entered on when it is older than
\* the limit, whatever happens to the book meanwhile.
NoStaleTickEntry == entered # "stale tick"

\* What a strategy is shown can be trusted that far: the book is the venue's at its last
\* update, and a price that a frame brought is not too old (on_depth(), evaluate()).
FeedTrusted == BookExact /\ NoStaleTickEntry

\* And the feed comes back: the book catches up and the strategies are unblocked.
FeedRecovers == CatchesUp /\ FreezeEnds
=============================================================================
