----------------------------- MODULE SignalDesk -----------------------------
(***************************************************************************)
(* One symbol traded by one directional strategy: the clock tick of        *)
(* backend/engine/core/engine.py with the exits of the stop monitor, the   *)
(* signals of the strategy and their dispatch (pretrade_validator.py), the *)
(* fills as the engine hears of them, and the venue.                       *)
(*                                                                         *)
(* The engine runs a single strategy against Binance: only the account     *)
(* frames and snapshots move the book, and the trade frame of a fill,      *)
(* which arrives after the account frame, arms the monitor and tells the   *)
(* strategy.  Drawdown and margin exits are not modelled, nor is the time  *)
(* an order is worked: every order is at the venue until it is filled or   *)
(* ended there.                                                            *)
(***************************************************************************)
EXTENDS StopMonitor, SmaStrategy, BlendedStrategy, FlowStrategy, SequencesExt

CONSTANTS
  Names,       \* the strategies the engine can run, of "sma", "blend" and "flow"
  Prices,      \* the levels of the market, even so that averages are levels
  Bars,        \* what a closed bar may show
  Tapes,       \* what a tick may show
  MaxLots,     \* bound on the position at the venue, for each strategy
  MaxOrders,   \* bound on the entries, and on the exits, at the venue
  MaxStream,   \* bound on the frames on their way
  MaxTroubles  \* bound on refusals, unfilled orders, lost frames, halts and foreign trades

ASSUME DeskAssumption ==
  /\ Names \subseteq {"sma", "blend", "flow"}
  /\ Prices \subseteq Nat \ {0}
  /\ Bars \subseteq BarType
  /\ Tapes \subseteq TapeType
  /\ MaxLots \in [Names -> Nat \ {0}]
  /\ {MaxOrders, MaxStream} \subseteq Nat \ {0}
  /\ MaxTroubles \in Nat

VARIABLES
  price,    \* of the market
  venue,    \* the position at the venue: lots and average entry
  tracked,  \* the position of the tracker, with the profit the venue reported with it
  stream,   \* the user frames the engine has not heard
  orders,   \* the orders at the venue
  mode,     \* "running", "paused", or "resync" for running without its books
  phase,    \* of the clock tick: "idle", "exit", "heal", "signals"
  intent,   \* the exit the stop monitor asks for
  monitor,  \* the stop monitor
  active,   \* the active strategy
  memory,   \* of the strategy
  troubles, \* those that happened
  astray,   \* ghost: the book has moved without a trade frame since one was heard
  quiet     \* ghost: ticks in which a further exit is not called for

deskVars == <<price, venue, tracked, stream, orders, mode, phase, intent, monitor, active, memory,
          troubles, astray, quiet>>
atVenue == <<price, venue, orders>>
strategy == <<active, memory>>

Flat == [qty |-> 0, entry |-> 0]

\* The profit of a position, in levels per lot.
Profit(pos, p) == SideOf(pos.qty) * (p - pos.entry)
\* What the venue reports of it; only flow momentum goes by the profit.
Seen(pos, p) == [qty |-> pos.qty, entry |-> pos.entry,
                 up |-> IF active = "flow" THEN Profit(pos, p) ELSE 0]

\* manages_own_risk()
OwnsRisk(name) == name = "flow"

NewMemory(name) ==
  CASE name = "sma" -> NewSma [] name = "blend" -> NewBlend [] name = "flow" -> NewFlow

InitDesk ==
  /\ price \in Prices /\ active \in Names
  /\ venue = Flat /\ tracked = Seen(Flat, price) /\ stream = <<>> /\ orders = <<>>
  /\ mode = "running" /\ phase = "idle" /\ intent = NoSignal
  /\ monitor = NewMonitor(OwnsRisk(active)) /\ memory = NewMemory(active)
  /\ troubles = 0 /\ astray = FALSE /\ quiet = 0

Troubled == troubles < MaxTroubles /\ troubles' = troubles + 1

-----------------------------------------------------------------------------
\* An order is at the venue, or refused on its way there; the bound refuses it too.
Submit(signal) ==
  LET full == Len(SelectSeq(orders, LAMBDA o : o.reduce = signal.reduce)) = MaxOrders IN
  \/ /\ IF full THEN UNCHANGED orders ELSE orders' = Append(orders, signal)
     /\ UNCHANGED troubles
  \/ Troubled /\ UNCHANGED orders

\* on_tick() of the active strategy, for what the market may show.
Answers ==
  CASE active = "sma" -> {SmaTick(memory, price, tracked.qty)}
    [] active = "blend" -> {BlendTick(memory, bar, tracked.qty) : bar \in Bars}
    [] active = "flow" -> {FlowTick(memory, f, tracked.qty, tracked.up) : f \in Tapes}

\* _validate_reduce_only(): only what reduces the book.
Reduces(signal) == tracked.qty # 0 /\ signal.side = -SideOf(tracked.qty)

\* _evaluate_strategies(): its signal is dispatched if the engine runs.
Dispatch ==
  \E asked \in Answers :
    /\ memory' = asked.memory
    /\ IF asked.signal = NoSignal \/ mode # "running"
          \/ (asked.signal.reduce /\ ~Reduces(asked.signal))
       THEN UNCHANGED <<orders, troubles>>
       ELSE Submit(asked.signal)

\* The clock: a tick with an exit waits for the venue, one without asks the strategy at once.
Tick ==
  LET later == Later(monitor) IN
  /\ phase = "idle"
  /\ IF mode = "running" /\ Triggered(later, tracked.qty, price)
     THEN /\ monitor' = Fired(later) /\ quiet' = Recoil
          /\ intent' = CloseSignal(tracked.qty) /\ phase' = "exit"
          /\ UNCHANGED <<orders, troubles, memory>>
     ELSE /\ monitor' = later /\ quiet' = CountDown(quiet)
          /\ IF mode = "resync" THEN UNCHANGED <<orders, troubles, memory>> ELSE Dispatch
          /\ UNCHANGED <<intent, phase>>
  /\ UNCHANGED <<price, venue, tracked, stream, mode, active, astray>>

\* _submit_exit(): the venue is asked for the position first; an answer that fails leaves
\* the intent as it is.
SubmitExit ==
  /\ phase = "exit" /\ intent' = NoSignal
  /\ \/ Troubled /\ phase' = "signals" /\ UNCHANGED orders
     \/ Submit(intent) /\ phase' = "signals"
     \/ venue.qty # 0 /\ Submit(CloseSignal(IF Size(venue.qty) < intent.lots THEN venue.qty
                                            ELSE SideOf(venue.qty) * intent.lots))
        /\ phase' = "signals"
     \/ venue.qty = 0 /\ phase' = "heal" /\ UNCHANGED <<orders, troubles>>
  /\ UNCHANGED <<price, venue, tracked, stream, mode, monitor, strategy, astray, quiet>>

\* _heal_symbol_after_venue_flat(): the backoff it notes is gone with the bracket.
HealBook ==
  /\ tracked' = Seen(venue, price)
  /\ astray' = (astray \/ venue.qty # tracked.qty)
  /\ IF venue.qty = 0
     THEN monitor' = Disarm(NoteRejected(monitor)) /\ quiet' = 0
     ELSE UNCHANGED <<monitor, quiet>>

Heal ==
  /\ phase = "heal" /\ phase' = "signals"
  /\ \/ HealBook /\ UNCHANGED troubles
     \/ Troubled /\ UNCHANGED <<tracked, astray, monitor, quiet>>
  /\ UNCHANGED <<atVenue, stream, mode, intent, strategy>>

\* The strategy is asked after an exit.
Signals ==
  /\ phase = "signals" /\ phase' = "idle"
  /\ Dispatch
  /\ UNCHANGED <<price, venue, tracked, stream, mode, intent, monitor, active, astray, quiet>>

-----------------------------------------------------------------------------
\* The user stream.

HearAccount ==
  /\ stream # <<>> /\ Head(stream).kind = "account"
  /\ stream' = Tail(stream) /\ tracked' = Head(stream).book
  /\ UNCHANGED <<atVenue, orders, mode, phase, intent, monitor, strategy, troubles, astray, quiet>>

\* _on_fill(), with the book as it stands.
HearTrade ==
  LET ended == tracked.qty = 0 \/ Size(tracked.qty) > Size(monitor.armed)
               \/ SideOf(tracked.qty) # SideOf(monitor.armed)
  IN /\ stream # <<>> /\ Head(stream).kind = "trade"
     /\ stream' = Tail(stream)
     /\ monitor' = RearmAfterFill(monitor, tracked.qty, tracked.entry)
     /\ memory' = IF active = "flow" THEN FlowFill(memory, tracked.qty) ELSE memory
     /\ astray' = FALSE
     /\ quiet' = IF ended THEN 0 ELSE quiet
     /\ UNCHANGED <<atVenue, tracked, mode, phase, intent, active, troubles>>

\* The stream breaks: what was on its way is lost, and the book is read anew.
Reconnect ==
  /\ stream # <<>> /\ Troubled
  /\ stream' = <<>> /\ tracked' = Seen(venue, price) /\ astray' = TRUE
  /\ UNCHANGED <<atVenue, mode, phase, intent, monitor, strategy, quiet>>

-----------------------------------------------------------------------------
\* The venue and the operator.

\* The position after a lot is traded at the price p.
Traded(pos, side, p) ==
  LET qty == pos.qty + side IN
  IF qty = 0 THEN Flat
  ELSE IF Size(qty) < Size(pos.qty) THEN [pos EXCEPT !.qty = qty]
  ELSE [qty |-> qty, entry |-> (Size(pos.qty) * pos.entry + p) \div Size(qty)]

Report(pos) ==
  stream \o <<[kind |-> "account", book |-> Seen(pos, price)], [kind |-> "trade"]>>

\* A lot of an order is filled.
Fill(i) ==
  LET o == orders[i]
      pos == Traded(venue, o.side, price)
  IN /\ o.reduce => venue.qty * o.side < 0
     /\ Size(pos.qty) <= MaxLots[active] /\ Len(stream) + 2 <= MaxStream
     /\ venue' = pos /\ stream' = Report(pos)
     /\ orders' = IF o.lots = 1 THEN RemoveAt(orders, i) ELSE [orders EXCEPT ![i].lots = @ - 1]
     /\ UNCHANGED <<price, tracked, mode, phase, intent, monitor, strategy, troubles, astray, quiet>>

\* A reduce-only order finds nothing to reduce, which heals the book (-2022).
Refuse(i) ==
  /\ orders[i].reduce /\ ~(venue.qty * orders[i].side < 0)
  /\ orders' = RemoveAt(orders, i)
  /\ HealBook
  /\ UNCHANGED <<price, venue, stream, mode, phase, intent, strategy, troubles>>

\* An order ends before it is filled.
End(i) ==
  /\ Troubled /\ orders' = RemoveAt(orders, i)
  /\ UNCHANGED <<price, venue, tracked, stream, mode, phase, intent, monitor, strategy, astray, quiet>>

\* Someone else trades the account.
Foreign(side) ==
  LET pos == Traded(venue, side, price) IN
  /\ Troubled
  /\ Size(pos.qty) <= MaxLots[active] /\ Len(stream) + 2 <= MaxStream
  /\ venue' = pos /\ stream' = Report(pos)
  /\ UNCHANGED <<price, tracked, orders, mode, phase, intent, monitor, strategy, astray, quiet>>

\* The market moves between ticks.
MarketMoves ==
  /\ phase = "idle"
  /\ price' \in Prices \ {price}
  /\ UNCHANGED <<venue, tracked, stream, orders, mode, phase, intent, monitor, strategy, troubles,
                 astray, quiet>>

\* The operator pauses and resumes, and the books are lost and found.
SetMode ==
  /\ IF mode = "running" THEN Troubled /\ mode' \in {"paused", "resync"}
     ELSE UNCHANGED troubles /\ mode' = "running"
  /\ UNCHANGED <<atVenue, tracked, stream, phase, intent, monitor, strategy, astray, quiet>>

NextDesk ==
  \/ Tick \/ SubmitExit \/ Heal \/ Signals
  \/ HearAccount \/ HearTrade \/ Reconnect
  \/ \E i \in 1..Len(orders) : Fill(i) \/ Refuse(i) \/ End(i)
  \/ \E side \in {1, -1} : Foreign(side)
  \/ MarketMoves \/ SetMode

SpecDesk == InitDesk /\ [][NextDesk]_deskVars

\* The clock and the user stream keep running, and an exit that reduces the position is
\* filled: its slices are market orders.
FairSpecDesk ==
  /\ SpecDesk
  /\ WF_deskVars(Tick) /\ WF_deskVars(SubmitExit) /\ WF_deskVars(Heal) /\ WF_deskVars(Signals)
  /\ WF_deskVars(HearAccount) /\ WF_deskVars(HearTrade)
  /\ \A i \in 1..(2 * MaxOrders) : SF_deskVars(i <= Len(orders) /\ orders[i].reduce /\ (Fill(i) \/ Refuse(i)))

-----------------------------------------------------------------------------
Heard == \A i \in 1..Len(stream) : stream[i].kind # "trade"

\* Once every fill has been heard, the bracket is that of the position the book holds, and
\* none when it is flat: the trade frames of growth, of partial closes, of flips and of ends
\* find the book their account frames left, whatever heals it in between (on_fill() in
\* risk_manager.py, arm()).
Guarded ==
  Heard /\ ~astray /\ ~monitor.managed =>
    monitor.bracket = IF tracked.qty = 0 THEN NoBracket ELSE Bracket(tracked.qty, tracked.entry)

\* A flat book of which every fill was heard leaves flow momentum no clock and no peak of
\* the last position for the next (on_fill() in flow_momentum.py).
FlowForgets ==
  active = "flow" /\ tracked.qty = 0 /\ Heard /\ stream = <<>> /\ ~astray
    => memory.since = Unset /\ memory.peak = 0

\* What is remembered of a position follows the book, in the monitor and in the strategy.
MemoryFollows == Guarded /\ FlowForgets

\* While an exit the monitor asked for is worked and the position has neither grown nor
\* turned nor ended, no second one is asked for within the cooldown, whatever part of the
\* first is filled (arm(), evaluate()).
SecondExit == phase = "idle" /\ phase' = "exit" /\ quiet > 1

\* The blended strategy enters on the bar that turns the regime, where the votes are those
\* of the old regime and the weights those of the new (_on_bar_close()).
EntryOnFlip ==
  /\ active = "blend" /\ memory.entry = "none"
  /\ memory'.entry # "none" /\ memory'.regime # memory.regime

\* No step asks for a second exit beside a working one, or enters as the regime turns.
NoRashOrder == [][~SecondExit /\ ~EntryOnFlip]_deskVars

\* The position is past its stop.
Past == venue.qty # 0 /\ Profit(venue, price) <= -StopGap

\* A running engine does not leave a position past its stop for good, provided the monitor
\* has heard of it (_evaluate_exits(), _submit_exit()).
StopEnds ==
  ~<>[](Past /\ mode = "running" /\ ~monitor.managed /\ ~astray)
=============================================================================
