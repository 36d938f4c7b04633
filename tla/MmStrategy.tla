----------------------------- MODULE MmStrategy -----------------------------
(***************************************************************************)
(* What the market-making strategy decides for one symbol, tick by tick    *)
(* and fill by fill: on_tick_quotes() in                                   *)
(* backend/engine/strategies/market_making/strategy.py with the halts, the *)
(* exit plan and the quote sides of core.py, the memory of its own fills   *)
(* in market_data/own_quote_book.py, and what the engine does with the     *)
(* intents (backend/engine/core/engine.py).                                *)
(*                                                                         *)
(* Three views of one position: what the venue holds, the tracker's book,  *)
(* and the strategy's leg of the ledger (multi-strategy mode), on which    *)
(* the strategy decides.  Prices and features are a mood of the market.    *)
(* The quotes an intent asks for are taken to be the ones at the venue:    *)
(* how they get there is module QuoteExecutor.  Settings are the default   *)
(* ones: two-sided quotes, no hedge of fills and no sweeps.                *)
(***************************************************************************)
EXTENDS Integers, Sequences, FiniteSets

CONSTANTS
  Moods,       \* the market as the features of a tick show it
  MaxLots,     \* bound on the position at the venue
  ExitLots,    \* mm_inventory_exit_ratio, in lots
  HardLots,    \* mm_inventory_hard_ratio, in lots
  JumpFlatten, \* setting mm_jump_flatten
  SameSide,    \* mm_max_consecutive_same_side_fills
  MaxHold,     \* mm_max_hold_sec, in ticks, and so on for the next five
  ExitStale,   \* mm_exit_stale_sec
  SideHalt,    \* mm_side_halt_sec
  VolPause,    \* mm_vol_regime_pause_sec
  RejectHalt,  \* mm_reject_halt_sec
  Cooldown,    \* mm_markout_cooldown_sec
  MaxFrames    \* bound on the fills on their way

Side == {"buy", "sell"}
Sign(s) == IF s = "buy" THEN 1 ELSE -1
Other(s) == IF s = "buy" THEN "sell" ELSE "buy"
Size(q) == IF q < 0 THEN -q ELSE q
Same(p, q) == (p > 0 /\ q > 0) \/ (p < 0 /\ q < 0)

\* A mood: whether the spread gate lets quote, whether other symbols hold as many
\* positions as may be held, a jump, a spike of volatility, what entry_blocked() says,
\* the sides the book and the prices leave, the profit the exit plan sees, whether the
\* venue takes orders.
MoodType ==
  [spread : BOOLEAN, crowded : BOOLEAN, jump : BOOLEAN, spike : BOOLEAN,
   blocked : BOOLEAN, sides : SUBSET Side, accepts : BOOLEAN,
   pnl : {"market", "markout", "aggressive", "even", "profit"}]

ASSUME MmAssumption ==
  /\ Moods \subseteq MoodType
  /\ {MaxLots, ExitLots, HardLots, SameSide, MaxHold, ExitStale} \subseteq Nat \ {0}
  /\ {SideHalt, VolPause, RejectHalt, Cooldown, MaxFrames} \subseteq Nat
  /\ JumpFlatten \in BOOLEAN

VARIABLES
  market, \* the mood
  pos,    \* the position at the venue
  book,   \* the tracker's
  leg,    \* the strategy's leg of the ledger
  frames, \* the fills the engine has not heard of
  quotes, \* quotes[s]: "none", "entry", or "reduce" for a reduce-only quote
  own,    \* OwnBookState
  foreign \* history: since the strategy's own fills last made it flat, something else
          \* closed its position: a market exit or a snapshot of the account

vars == <<market, pos, book, leg, frames, quotes, own, foreign>>

Unset == -1
None == [s \in Side |-> "none"]

\* OwnBookState: the clock of the position (ledger.opened_ts), of its exit quote
\* (exit_limit_since), the lots it was last said to hold (ledger.entry_qty), what is left
\* of the halts and of the cooldown, the side of the last fill and whether it lost a
\* scratch, and the run of fills on each side.
OwnType ==
  [opened : {Unset} \union 0..MaxHold, limit : {Unset} \union 0..ExitStale,
   entry : Nat, halt : [Side -> 0..(SideHalt + RejectHalt)], vol : 0..VolPause,
   cool : 0..Cooldown, last : Side \union {"none"}, adverse : BOOLEAN,
   run : [Side -> 0..SameSide]]

NewOwn ==
  [opened |-> Unset, limit |-> Unset, entry |-> 0, halt |-> [s \in Side |-> 0], vol |-> 0,
   cool |-> 0, last |-> "none", adverse |-> FALSE, run |-> [s \in Side |-> 0]]

TypeOK ==
  /\ market \in Moods
  /\ pos \in -MaxLots..MaxLots /\ book \in -MaxLots..MaxLots
  /\ leg \in Int
  /\ Len(frames) <= MaxFrames
  /\ quotes \in [Side -> {"none", "entry", "reduce"}]
  /\ own \in OwnType
  /\ foreign \in BOOLEAN

Init ==
  /\ market \in Moods
  /\ pos = 0 /\ book = 0 /\ leg = 0
  /\ frames = <<>>
  /\ quotes = None
  /\ own = NewOwn
  /\ foreign = FALSE

Least(a, b) == IF a < b THEN a ELSE b
Most(a, b) == IF a > b THEN a ELSE b

-----------------------------------------------------------------------------
\* What a tick decides.

\* Mutated form of Elapse: a halt and a cooldown do not run out.
ElapseHalted(o) ==
  [o EXCEPT !.opened = IF @ = Unset THEN Unset ELSE Least(@ + 1, MaxHold),
            !.limit = IF @ = Unset THEN Unset ELSE Least(@ + 1, ExitStale)]

\* A tick later.
Elapse(o) ==
  LET older(x, cap) == IF x = Unset THEN Unset ELSE Least(x + 1, cap) IN
  [o EXCEPT !.opened = older(@, MaxHold), !.limit = older(@, ExitStale),
            !.halt = [s \in Side |-> Most(o.halt[s] - 1, 0)],
            !.vol = Most(@ - 1, 0), !.cool = Most(@ - 1, 0)]

\* update_vol_regime_halt() and update_consecutive_fill_halts(), which starts the halt
\* anew on every tick as long as the run of fills is not broken.
VolHalt(o) == [o EXCEPT !.vol = IF market.spike THEN VolPause ELSE @]
RunHalt(o) == [o EXCEPT !.halt = [s \in Side |-> IF o.run[s] >= SameSide
                                                 THEN Most(@[s], SideHalt) ELSE @[s]]]
UpdateHalts(o) == RunHalt(VolHalt(o))

\* Mutated form of PlanExit: no clock counts.
PlanExitUntimed(o, q) ==
  IF q = 0 THEN "none"
  ELSE IF o.adverse THEN "aggressive" ELSE IF market.pnl = "even" THEN "none" ELSE market.pnl

\* plan_exit_reason(), as what is done about it.
PlanExit(o, q) ==
  LET overdue == o.opened = MaxHold \/ o.limit = ExitStale IN
  IF q = 0 THEN "none"
  ELSE IF market.jump /\ JumpFlatten THEN "market"
  ELSE IF o.adverse THEN "aggressive"
  ELSE IF market.pnl = "market" \/ overdue THEN "market"
  ELSE IF market.pnl \in {"markout", "aggressive"} THEN "aggressive"
  ELSE IF Size(q) >= ExitLots THEN "inventory"
  ELSE IF market.pnl = "profit" THEN "profit"
  ELSE "none"

\* entry_blocked(), for both sides at once: the risk tier is hard.
EntryBlocked == market.blocked

\* The sides compute_quote_intent() asks for, with the halts of on_tick_quotes(): a
\* cooldown takes the side away that would undo an adverse fill.
QuoteSides(o, q) ==
  IF EntryBlocked \/ market.jump \/ o.vol > 0 THEN {}
  ELSE {s \in market.sides :
          /\ Sign(s) * q < HardLots
          /\ ~(o.cool > 0 /\ o.last = Other(s))
          /\ o.halt[s] = 0}

Closing(q) == IF q > 0 THEN "sell" ELSE "buy"

\* What becomes of the own book and of the quotes, and whether to close at market.
Outcome(o, asked, close) == [own |-> o, quotes |-> asked, close |-> close]

\* _suppressed_intent(): no quote.
Suppressed(o) == Outcome(o, None, FALSE)

\* build_exit_quote_intent(): an aggressive or an inventory exit asks for a take and for
\* no price, which the executor takes for no quote.
BuildExit(o, q, why) ==
  LET timed == [o EXCEPT !.limit = IF @ = Unset THEN 0 ELSE @] IN
  CASE why = "market" -> Outcome([o EXCEPT !.limit = Unset], None, TRUE)
    [] why \in {"aggressive", "inventory"} -> Suppressed(timed)
    [] why = "profit" -> Outcome(timed, [None EXCEPT ![Closing(q)] = "reduce"], FALSE)

\* compute_quote_intent(): a quote against the position only reduces it.
BuildQuotes(o, q) ==
  LET sides == QuoteSides(o, q) IN
  Outcome(o, [s \in Side |-> CASE s \notin sides -> "none"
                               [] s \in sides /\ Sign(s) * q < 0 -> "reduce"
                               [] OTHER -> "entry"], FALSE)

\* on_tick_quotes().
Decide(o, q) ==
  LET h == UpdateHalts(o)
      why == PlanExit(h, q)
  IN CASE ~market.spread -> Suppressed(o)
       [] market.spread /\ q = 0 /\ market.crowded -> Suppressed(h)
       [] OTHER -> IF why = "none" THEN BuildQuotes(h, q) ELSE BuildExit(h, q, why)

-----------------------------------------------------------------------------
\* What the engine makes of it.

\* note_mm_venue_reject(): the refused sides are halted.
NoteReject(o, refused) ==
  [o EXCEPT !.halt = [s \in Side |-> IF s \in refused THEN Most(@[s], RejectHalt) ELSE @[s]]]

\* QuoteExecutor.refresh(), for the leg q: a quote that is already there may be kept, and
\* the others are placed unless the venue refuses them.  A reduce-only quote without a
\* position to reduce clears the leg (-2022), and another refusal halts the side.
Refresh(o, q, asked) ==
  \E kept \in SUBSET {s \in Side : asked[s] = quotes[s]} :
    LET sent == {s \in Side \ kept : asked[s] # "none"}
        refused == {s \in sent : ~market.accepts}
        phantom == {s \in sent \ refused : asked[s] = "reduce" /\ Sign(s) * pos >= 0}
    IN /\ quotes' = [s \in Side |-> IF s \in refused \union phantom THEN "none" ELSE asked[s]]
       /\ leg' = IF phantom = {} THEN q ELSE 0
       /\ foreign' = ((foreign /\ o.opened # Unset) \/ (phantom # {} /\ q # 0))
       /\ own' = NoteReject(o, refused)

\* _market_reduce_only() for the book's position b: the venue closes what it holds in
\* that direction; when it holds nothing there, a snapshot replaces the book, and clears
\* the leg when it is flat.
CloseAtMarket(o, b, q, rest) ==
  LET lots == Least(Size(b), Size(pos))
      closed == pos - (IF b > 0 THEN lots ELSE -lots)
      fresh == foreign /\ o.opened # Unset
  IN \/ /\ market.accepts /\ Same(b, pos)
        /\ Len(rest) < MaxFrames
        /\ pos' = closed
        /\ frames' = Append(rest, [kind |-> "market", side |-> Closing(b), qty |-> closed])
        /\ book' = b /\ leg' = q
        /\ foreign' = TRUE
     \/ /\ market.accepts /\ ~Same(b, pos)
        /\ pos' = pos /\ frames' = rest
        /\ book' = pos
        /\ leg' = IF pos = 0 THEN 0 ELSE q
        /\ foreign' = (fresh \/ (pos = 0 /\ q # 0))
     \/ /\ ~market.accepts
        /\ pos' = pos /\ frames' = rest
        /\ book' = b /\ leg' = q
        /\ foreign' = fresh

\* _refresh_mm_quote_intents(), after a decision on the leg q with the book b.  With a
\* flat book a market exit does nothing, and the quotes stay as they are.
Apply(d, b, q, rest) ==
  \/ /\ ~d.close
     /\ Refresh(d.own, q, d.quotes)
     /\ book' = b
     /\ pos' = pos /\ frames' = rest
  \/ /\ d.close /\ b # 0
     /\ quotes' = None
     /\ own' = d.own
     /\ CloseAtMarket(d.own, b, q, rest)
  \/ /\ d.close /\ b = 0
     /\ own' = d.own /\ book' = b /\ leg' = q
     /\ pos' = pos /\ frames' = rest
     /\ foreign' = (foreign /\ d.own.opened # Unset)
     /\ UNCHANGED quotes

\* One pass of the market-making loop.
Tick ==
  /\ \E older \in {Elapse(own)} : \E d \in {Decide(older, leg)} : Apply(d, book, leg, frames)
  /\ UNCHANGED market

-----------------------------------------------------------------------------
\* Fills.

\* Mutated form of LevelFill: a fill that makes flat leaves the clock running.
LevelFillKeepingClock(o, s, q, hurt) ==
  [o EXCEPT !.last = s, !.adverse = hurt = "scratch",
            !.cool = IF hurt = "none" THEN @ ELSE Cooldown,
            !.run = [x \in Side |-> IF x = s THEN Least(@[s] + 1, SameSide) ELSE 0],
            !.opened = IF @ = Unset THEN 0 ELSE @,
            !.entry = Size(q)]

\* on_level_fill() for a fill of side s that leaves the leg q, with the loss the price
\* has shown since (none, some, or a scratch).
LevelFill(o, s, q, hurt) ==
  LET seen == [o EXCEPT !.last = s, !.adverse = (hurt = "scratch"),
                        !.cool = IF hurt = "none" THEN @ ELSE Cooldown,
                        !.run = [x \in Side |-> IF x = s THEN Least(@[s] + 1, SameSide) ELSE 0],
                        !.entry = Size(q)]
      grown == o.opened # Unset /\ Size(q) > o.entry
  IN CASE q = 0 -> [seen EXCEPT !.opened = Unset, !.limit = Unset,
                                !.halt = [x \in Side |-> 0], !.run = [x \in Side |-> 0]]
       [] q # 0 /\ o.opened = Unset -> [seen EXCEPT !.opened = 0]
       [] q # 0 /\ grown /\ SideHalt > 0 -> [seen EXCEPT !.halt[s] = SideHalt]
       [] OTHER -> seen

\* The venue fills a lot of the quote of side s; a reduce-only quote only reduces.
VenueFills(s) ==
  /\ quotes[s] # "none"
  /\ quotes[s] = "reduce" => Sign(s) * pos < 0
  /\ Len(frames) < MaxFrames
  /\ Size(pos + Sign(s)) <= MaxLots
  /\ pos' = pos + Sign(s)
  /\ frames' = Append(frames, [kind |-> "quote", side |-> s, qty |-> pos'])
  /\ quotes' = [quotes EXCEPT ![s] = "none"]
  /\ UNCHANGED <<market, book, leg, own, foreign>>

\* The venue drops a reduce-only quote that has nothing to reduce.
VenueDrops(s) ==
  /\ quotes[s] = "reduce" /\ Sign(s) * pos >= 0
  /\ quotes' = [quotes EXCEPT ![s] = "none"]
  /\ UNCHANGED <<market, pos, book, leg, frames, own, foreign>>

\* _on_fill() for the oldest fill: the fill of a market exit belongs to no strategy and
\* only moves the book; the fill of a quote moves the leg and the own book, and the
\* strategy decides at once (_handle_mm_fill()).
HearFill ==
  /\ frames # <<>>
  /\ LET f == Head(frames) IN
     \/ /\ f.kind = "market"
        /\ book' = f.qty
        /\ frames' = Tail(frames)
        /\ UNCHANGED <<pos, leg, quotes, own, foreign>>
     \/ /\ f.kind = "quote"
        /\ \E hurt \in {"none", "some", "scratch"} :
             LET q == leg + Sign(f.side) IN
             \E o \in {LevelFill(own, f.side, q, hurt)} : \E d \in {Decide(o, q)} :
               Apply(d, f.qty, q, Tail(frames))
  /\ UNCHANGED market

-----------------------------------------------------------------------------
\* reconcile_symbol_to_venue(): the leg is cleared when the venue is flat, and cut when
\* the venue holds less on the same side.
HealedLeg(q, venue) ==
  CASE venue = 0 -> 0
    [] Same(venue, q) /\ Size(venue) < Size(q) -> venue
    [] OTHER -> q

\* A pass of the position reconciler: the venue's positions replace the book, and heal
\* the leg (_on_authoritative_venue_snap()).
Reconcile ==
  /\ book' = pos
  /\ leg' = HealedLeg(leg, pos)
  /\ foreign' = (foreign \/ (leg # 0 /\ leg' = 0))
  /\ UNCHANGED <<market, pos, frames, quotes, own>>

MarketMoves ==
  /\ market' \in Moods \ {market}
  /\ UNCHANGED <<pos, book, leg, frames, quotes, own, foreign>>

Next ==
  \/ Tick
  \/ \E s \in Side : VenueFills(s) \/ VenueDrops(s)
  \/ HearFill
  \/ Reconcile
  \/ MarketMoves

Spec == Init /\ [][Next]_vars

\* The market-making loop, the user stream and the reconciler are tasks that keep running.
FairSpec == Spec /\ WF_vars(Tick) /\ WF_vars(HearFill) /\ WF_vars(Reconcile)

-----------------------------------------------------------------------------
\* The clock of a position runs while the strategy believes it has one, and what it
\* believes to be flat has a clock only when something else closed the position, a market
\* exit or a snapshot (_on_fill() in engine.py, on_level_fill()).
HoldClock ==
  /\ leg # 0 => own.opened # Unset
  /\ leg = 0 /\ own.opened # Unset => foreign

\* Once the spread gate stays open and the venue takes orders, a position the strategy
\* believes in ends, by a quote or by an exit at market, unless its last fill lost a
\* scratch (plan_exit_reason()).
HeldEnds ==
  <>[](market.spread /\ market.accepts) =>
    (leg # 0 ~> (leg = 0 \/ own.adverse))

\* A market in which everything lets quote.
Calm ==
  /\ market.spread /\ market.accepts /\ market.sides = Side
  /\ ~market.crowded /\ ~market.jump /\ ~market.spike /\ ~market.blocked

\* Once the market stays calm, the strategy quotes again whenever it is flat: no halt, no
\* cooldown and no refusal keeps both sides away for good (on_tick_quotes()).
QuotesReturn == <>[]Calm => []<>(quotes # None \/ leg # 0)
=============================================================================
