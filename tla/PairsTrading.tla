---------------------------- MODULE PairsTrading ----------------------------
(***************************************************************************)
(* The life of one pair in PairsTradingStrategy                            *)
(* (backend/engine/strategies/pairs_trading.py): what it believes about    *)
(* its position, and the orders it waits for, over GroupDispatch.          *)
(*                                                                         *)
(* The heartbeat calls on_tick(), which answers with signals, and does not *)
(* come back before their dispatch is over; fills reach on_fill() in       *)
(* between.  The z-score that decides is any number: each tick takes one   *)
(* of the branches it can lead to.  The strategy is never told that its    *)
(* signals were refused: it waits for fills until it gives up.             *)
(***************************************************************************)
EXTENDS GroupDispatch

CONSTANTS
  Abort,         \* pair_partial_fill_abort_sec, in ticks of the clock
  Timeout,       \* pair_pending_timeout_sec
  Cooldown,      \* pair_cooldown_sec
  StopCooldown   \* pair_stop_cooldown_sec

ASSUME PairsAssumption ==
  /\ Abort \in Nat \ {0}
  /\ Timeout \in Nat /\ Abort <= Timeout
  /\ Cooldown \in Nat \ {0}
  /\ StopCooldown \in Nat /\ Cooldown <= StopCooldown

VARIABLES
  side,     \* open_side
  awaited,  \* the fills it waits for, pending_*
  since,    \* time since pending_since_ts
  cool,     \* time until last_action_ts is as old as the cooldown
  astray    \* history: something has happened that may make its belief wrong

pairVars == <<side, awaited, since, cool, astray>>
tradingVars == <<dispatchVars, pairVars>>

Nothing == [fills |-> 0, way |-> 0, close |-> FALSE, first |-> "none"]
Awaited == [fills : 1 .. 2, way : Way, close : BOOLEAN, first : Leg \union {"none"}]

TypeOKPairs ==
  /\ TypeOKDispatch
  /\ side \in Way \union {0}
  /\ awaited \in Awaited \union {Nothing}
  /\ since \in 0 .. Timeout + 1
  /\ cool \in 0 .. StopCooldown
  /\ astray \in BOOLEAN

InitPairs ==
  /\ InitDispatch
  /\ side = 0
  /\ awaited = Nothing
  /\ since = 0
  /\ cool = 0
  /\ astray = FALSE

-----------------------------------------------------------------------------
\* The heartbeat is free, and room is left for the parents one tick can open.
Beats == group = NoGroup /\ Number(parents) + 2 <= Slots

Await(way, close) ==
  /\ awaited' = [fills |-> 2, way |-> way, close |-> close, first |-> "none"]
  /\ since' = 0

\* Signals reach the dispatch unless the cap on new entries or a pause drops them.
Emit(todo, way, close) ==
  \/ running /\ DispatchGroup(todo, way, close)
  \/ (~running \/ ~close) /\ UNCHANGED <<group, parents>>

\* _evaluate(), flat, past the entry threshold on either side.
TickEnters(way) ==
  /\ Beats
  /\ side = 0 /\ awaited = Nothing /\ cool = 0
  /\ Await(way, FALSE)
  /\ cool' = Cooldown
  /\ Emit(IF way = 1 THEN <<"usdc", "usdt">> ELSE <<"usdt", "usdc">>, way, FALSE)
  /\ UNCHANGED <<others, blocked, running, levered, pos, side, astray>>

\* _emit_unwind(), converged, diverged or held for too long, and for the loss of a leg,
\* which does not wait for the cooldown.
TickExits ==
  /\ Beats
  /\ side # 0 /\ awaited = Nothing
  /\ Await(side, TRUE)
  /\ \/ cool = 0 /\ cool' \in {Cooldown, StopCooldown}
     \/ cool' = Cooldown
  /\ Emit(<<"usdc", "usdt">>, -side, TRUE)
  /\ UNCHANGED <<others, blocked, running, levered, pos, side, astray>>

Abandon ==
  /\ awaited' = Nothing
  /\ since' = 0
  /\ cool' = Cooldown
  /\ astray' = (astray \/ parents # EmptyBag \/ awaited.fills = 1)

\* _check_partial_pending(): the leg that was filled is unwound.
TickAborts ==
  /\ Beats
  /\ awaited.fills = 1 /\ ~awaited.close /\ since >= Abort
  /\ IF running THEN DispatchReduce(awaited.first, -Toward(awaited.way, awaited.first))
                ELSE UNCHANGED parents
  /\ Abandon
  /\ UNCHANGED <<others, blocked, running, levered, group, pos, side>>

\* Mutated form of TickTimesOut: half a close is waited for.
TickTimesOutWhole ==
  /\ Beats
  /\ awaited.fills = 2
  /\ since > Timeout
  /\ Abandon
  /\ UNCHANGED <<dispatchVars, side>>

\* _evaluate(), pending for too long.
TickTimesOut ==
  /\ Beats
  /\ awaited.fills = 2 \/ awaited.close
  /\ since > Timeout
  /\ Abandon
  /\ UNCHANGED <<dispatchVars, side>>

\* Mutated form of Finalised: a close leaves open_side as it was.
FinalisedOpen == awaited.way

\* Both fills have come.
Finalised == IF awaited.close THEN 0 ELSE awaited.way

\* The side a fill must have to be counted: legs are closed opposite to their way.
Expected(leg) == IF awaited.close THEN -Toward(awaited.way, leg) ELSE Toward(awaited.way, leg)

\* on_fill(): fills are counted, whichever leg and however little they fill.
OnFill(leg, toward) ==
  IF awaited.fills = 0 \/ toward # Expected(leg)
  THEN UNCHANGED pairVars
  ELSE IF awaited.fills = 2
  THEN /\ awaited' = [awaited EXCEPT !.fills = 1, !.first = leg]
       /\ UNCHANGED <<side, since, cool, astray>>
  ELSE /\ side' = Finalised
       /\ awaited' = Nothing
       /\ since' = 0
       /\ astray' = (astray \/ group # NoGroup \/ parents' # EmptyBag)
       /\ UNCHANGED cool

Fill(p, n) ==
  /\ Execute(p, n)
  /\ OnFill(p.leg, p.toward)
  /\ UNCHANGED <<others, blocked, running, levered, group>>

ParentEnds(p) ==
  /\ EndsShort(p)
  /\ astray' = TRUE
  /\ UNCHANGED <<others, blocked, running, levered, group, pos, side, awaited, since, cool>>

\* One leg was sent and is unwound.
GivenUp == group.sent # <<>> /\ parents' = Compensated(group, parents)

LeverageReturns ==
  /\ LeverageSet
  /\ astray' = (astray \/ GivenUp)
  /\ UNCHANGED <<side, awaited, since, cool>>

LeverageRaises ==
  /\ LeverageFails
  /\ astray' = (astray \/ GivenUp)
  /\ UNCHANGED <<side, awaited, since, cool>>

\* refresh_settings() with another window, or a restart: the pair is taken for flat.
Forget ==
  /\ side # 0 \/ awaited # Nothing
  /\ side' = 0
  /\ awaited' = Nothing
  /\ since' = 0
  /\ cool' = 0
  /\ astray' = TRUE
  /\ UNCHANGED dispatchVars

Around == Elsewhere /\ UNCHANGED pairVars

TimePasses ==
  /\ since' = IF awaited # Nothing /\ since <= Timeout THEN since + 1 ELSE since
  /\ cool' = IF cool > 0 THEN cool - 1 ELSE 0
  /\ UNCHANGED <<dispatchVars, side, awaited, astray>>

NextPairs ==
  \/ \E w \in Way : TickEnters(w)
  \/ TickExits \/ TickAborts \/ TickTimesOut
  \/ \E p \in BagToSet(parents) : ParentEnds(p) \/ \E n \in 1 .. Size : Fill(p, n)
  \/ LeverageReturns \/ LeverageRaises
  \/ Forget \/ Around \/ TimePasses

\* Time passes, prices keep coming to the heartbeat, the venue answers and parents end.
SpecPairs ==
  /\ InitPairs
  /\ [][NextPairs]_tradingVars
  /\ WF_tradingVars(TimePasses)
  /\ WF_tradingVars(TickAborts \/ TickTimesOut)
  /\ WF_tradingVars(LeverageReturns \/ LeverageRaises)
  /\ WF_tradingVars(\E p \in BagToSet(parents) : ParentEnds(p))

-----------------------------------------------------------------------------
Quiet == group = NoGroup /\ parents = EmptyBag /\ awaited = Nothing

\* At rest the strategy knows its position and the legs hedge each other, unless a fill
\* was taken for a whole leg, a parent ended short, a group was compensated, or the
\* strategy gave up on orders or forgot them.  Refusals, pauses, breakers, the cap on
\* parents and a timeout with nothing at work do not break it.
BeliefHolds ==
  Quiet /\ ~astray =>
    /\ pos["usdt"] = -pos["usdc"]
    /\ side = 0 <=> pos["usdt"] = 0
    /\ side * pos["usdt"] >= 0

\* A group never overruns the cap on parents, although its legs are checked against the
\* same count: at most the orders that close come on top.
GroupWithinCap == others + Number(Entries(parents)) <= MaxParents

\* The strategy does not wait for ever for fills that will not come.
PendingEnds == awaited # Nothing ~> awaited = Nothing

=============================================================================
