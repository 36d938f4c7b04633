--------------------------- MODULE StrategyLedger ---------------------------
(***************************************************************************)
(* Two strategies that trade one symbol in STRATEGY=all: their legs of the *)
(* one position (backend/engine/position/strategy_ledger.py), the netting  *)
(* of their signals (backend/engine/strategies/signal_netter.py), the      *)
(* attribution of the fills of a netted parent (_on_fill and its helpers   *)
(* in backend/engine/core/engine.py), and the heals that bring the legs    *)
(* back to the position, over PositionBook.                                *)
(*                                                                         *)
(* A strategy is reduced to the order it can ask for: it opens one entry   *)
(* when it believes to be flat and closes all it believes to hold.  The    *)
(* venue trades lots; legs and shares are counted in fractions of a lot.   *)
(***************************************************************************)
EXTENDS PositionBook, FiniteSetsExt

CONSTANTS
  Scale,      \* fractions in a lot
  Strategy,   \* the strategies
  Takers,     \* those that look at the venue too (flow_momentum)
  Entry,      \* lots of an entry
  Parent,     \* identities of netted parents
  MaxTrades   \* bound on the orders sent

ASSUME LedgerAssumption ==
  /\ Scale \in Nat \ {0}
  /\ IsFiniteSet(Strategy) /\ Takers \subseteq Strategy
  /\ Entry \in Nat \ {0}
  /\ Parent \subseteq Nat \ {0}
  /\ MaxTrades \in Nat

VARIABLES
  ledger,   \* strategy -> its leg
  parents,  \* parent -> its order and its attribution
  trades,   \* orders sent so far
  astray    \* history: something has happened that the attribution does not see, or was finer
            \* than the fractions of a leg

ledgerVars == <<bookVars, ledger, parents, trades, astray>>

NoShare == [s \in Strategy |-> 0]
Free == [left |-> 0, toward |-> 1, qty |-> 0, reduce |-> FALSE, share |-> NoShare, seen |-> 0, kept |-> FALSE]

TypeOKLedger ==
  /\ TypeOKBook
  /\ DOMAIN ledger = Strategy /\ \A s \in Strategy : ledger[s] \in Int
  /\ \A p \in Parent :
       LET o == parents[p] IN
         /\ o.left \in 0 .. o.qty /\ o.toward \in {-1, 1} /\ o.reduce \in BOOLEAN
         /\ o.kept => o.seen < o.qty
  /\ trades \in 0 .. MaxTrades
  /\ astray \in BOOLEAN

\* Some strategies, one that goes by its leg among them, hold an entry, and all of it has
\* settled.  The more they hold, the fewer orders follow (a bound).
InitLedger ==
  /\ InitBook
  /\ \E S \in SUBSET Strategy :
       /\ S \ Takers # {}
       /\ ledger = [s \in Strategy |-> IF s \in S THEN Entry * Scale ELSE 0]
       /\ venue = Cardinality(S) * Entry
       /\ trades = Cardinality(S) - 1
  /\ parents = [p \in Parent |-> Free]
  /\ astray = FALSE

-----------------------------------------------------------------------------
Abs(n) == IF n < 0 THEN -n ELSE n
Sign(n) == IF n > 0 THEN 1 ELSE IF n < 0 THEN -1 ELSE 0
Total(f) == MapThenSumSet(LAMBDA s : f[s], Strategy)

\* A division as Python's, rounded toward 0 (b is positive).
Part(a, b) == IF a >= 0 THEN a \div b ELSE -((-a) \div b)

\* reconcile_symbol_to_venue(): legs go when the venue is flat, shrink in proportion when it
\* holds less than their sum, and stay as they are otherwise.
Healed(q) ==
  LET sum == Total(ledger)  held == q * Scale IN
    IF q = 0 THEN NoShare
    ELSE IF Sign(q) = Sign(sum) /\ Abs(held) < Abs(sum)
    THEN [s \in Strategy |-> Part(ledger[s] * Abs(held), Abs(sum))]
    ELSE ledger

\* A heal applied to the ledger.
HealTo(q) ==
  /\ ledger' = Healed(q)
  /\ astray' = (astray \/ ledger' # ledger)

-----------------------------------------------------------------------------
\* What a strategy believes to hold: its leg, but flow_momentum takes the position of the
\* venue when that has another sign or size than its leg.
Believed(s) == IF s \in Takers /\ local # 0 THEN local * Scale ELSE ledger[s]

\* plan_directional_signal(): close first, open when flat.
Intents(s) == IF Believed(s) = 0 THEN {-Entry * Scale, 0, Entry * Scale} ELSE {0, -Believed(s)}

\* The signals of one tick.
Wishes == {w \in [Strategy -> UNION {Intents(s) : s \in Strategy}] :
             \A s \in Strategy : w[s] \in Intents(s)}

\* The lots of the netted signal, rounded down to the step of the symbol.
Net(w) == Abs(Total(w)) \div Scale

\* The netted signal is reduce-only when each signal in it is.
Reducing(w) == \A s \in Strategy : w[s] # 0 => Believed(s) # 0

\* router.submit(), and the attribution that _dispatch_netted_single() notes.
Submit(w, qty, reduce) ==
  \E p \in Parent :
    /\ parents[p] = Free
    /\ parents' = [parents EXCEPT ![p] =
         [left |-> qty, toward |-> Sign(Total(w)), qty |-> qty, reduce |-> reduce,
          share |-> w, seen |-> 0, kept |-> TRUE]]
    /\ trades' = trades + 1
    /\ astray' = (astray \/ qty * Scale # Abs(Total(w)))

\* An entry passes, is scaled down, or is vetoed (and nothing happens).
TickEnters(w) ==
  /\ trades < MaxTrades
  /\ ~Reducing(w)
  /\ \E q \in 1 .. Net(w) : Submit(w, q, FALSE)
  /\ UNCHANGED <<bookVars, ledger>>

\* _validate_reduce_only() lets a close pass that reduces the position.
TickCloses(w) ==
  /\ trades < MaxTrades
  /\ Net(w) > 0 /\ Reducing(w)
  /\ local * Total(w) < 0
  /\ Submit(w, IF Net(w) < Abs(local) THEN Net(w) ELSE Abs(local), TRUE)
  /\ UNCHANGED <<bookVars, ledger>>

\* It heals the ledger when the position is flat.
TickHeals(w) ==
  /\ Net(w) > 0 /\ Reducing(w)
  /\ local = 0
  /\ HealTo(0)
  /\ UNCHANGED <<bookVars, parents, trades>>

-----------------------------------------------------------------------------
Fill(p, n) ==
  LET o == parents[p] IN
    /\ n <= o.left
    /\ o.reduce => venue * o.toward < 0 /\ n <= Abs(venue)
    /\ Executes(p, n * o.toward)
    /\ parents' = [parents EXCEPT ![p].left = @ - n]
    /\ astray' = (astray \/ ~up)
    /\ UNCHANGED <<ledger, trades>>

\* The parent ends short.
ParentEnds(p) ==
  /\ parents[p].left > 0
  /\ parents' = [parents EXCEPT ![p].left = 0]
  /\ UNCHANGED <<bookVars, ledger, trades, astray>>

\* A reduce-only child is refused with -2022, as there is nothing to reduce.
Refused(p) ==
  /\ parents[p].left > 0 /\ parents[p].reduce
  /\ venue * parents[p].toward >= 0
  /\ sync = Idle
  /\ sync' \in {Answer("heal", q) : q \in AccountShows \union {local}} \union {Idle}
  /\ parents' = [parents EXCEPT ![p].left = 0]
  /\ UNCHANGED <<venue, stream, up, local, fresh, pass, raced, misread, ledger, trades, astray>>

\* An identity is used again once nothing can refer to it.
Forget(p) ==
  /\ parents[p] # Free /\ parents[p].left = 0
  /\ \A i \in 1 .. Len(stream) : stream[i].parent # p
  /\ parents' = [parents EXCEPT ![p] = Free]
  /\ UNCHANGED <<bookVars, ledger, trades, astray>>

\* Orders that no strategy is credited with: stops, flattens, an operator, a liquidation.
Foreign(d) ==
  /\ trades < MaxTrades
  /\ Executes(0, d)
  /\ trades' = trades + 1
  /\ astray' = TRUE
  /\ UNCHANGED <<ledger, parents>>

-----------------------------------------------------------------------------
\* Mutated form of Credit: each fill is credited with the parent's whole share.
CreditEach(o, n) == [s \in Strategy |-> o.share[s]]

\* _apply_attributed_ledger_delta(): the share of a strategy in all fills so far, less what
\* it was credited with before.
Credit(o, n) ==
  LET part(s, k) == Part(o.share[s] * (IF k < o.qty THEN k ELSE o.qty), o.qty)
  IN  [s \in Strategy |-> part(s, o.seen + n) - part(s, o.seen)]

\* Does a leg of Scale fractions a lot hold what n more lots make of each share?
Fine(o, n) ==
  \A s \in Strategy : (o.share[s] * (IF o.seen + n < o.qty THEN o.seen + n ELSE o.qty)) % o.qty = 0

\* _on_fill(): the ledger is credited, then the attribution of a complete parent is dropped.
OnFill ==
  LET p == Front.parent  n == Abs(Front.qty) IN
    /\ ReadFill
    /\ IF p # 0 /\ parents[p].kept
       THEN LET o == parents[p] IN
              /\ ledger' = [s \in Strategy |-> ledger[s] + Credit(o, n)[s]]
              /\ parents' = [parents EXCEPT ![p].seen = o.seen + n, ![p].kept = o.seen + n < o.qty]
              /\ astray' = (astray \/ ~Fine(o, n))
       ELSE UNCHANGED <<ledger, parents, astray>>
    /\ UNCHANGED trades

\* Mutated form of PassEnds: the ledger is not reconciled after the book.
PassEndsBookOnly == PassDone /\ UNCHANGED <<ledger, parents, trades, astray>>

\* A pass ends with _on_authoritative_venue_snap().
PassEnds == PassDone /\ HealTo(local) /\ UNCHANGED <<parents, trades>>

\* _heal_symbol_after_venue_flat().
HealEnds ==
  /\ HealSynced
  /\ IF local' = 0 THEN HealTo(0) ELSE UNCHANGED <<ledger, astray>>
  /\ UNCHANGED <<parents, trades>>

Drops == Disconnect /\ astray' = (astray \/ stream # <<>>) /\ UNCHANGED <<ledger, parents, trades>>

Book ==
  /\ \/ OnAccountUpdate \/ Lapse \/ Reconnect \/ ConnectSynced \/ PassHeals
     \/ \E q \in AccountShows : PassStarts(q) \/ PassAsksAgain(q)
  /\ UNCHANGED <<ledger, parents, trades, astray>>

NextLedger ==
  \/ \E w \in Wishes : TickEnters(w) \/ TickCloses(w) \/ TickHeals(w)
  \/ \E p \in Parent : ParentEnds(p) \/ Refused(p) \/ Forget(p) \/ \E n \in 1 .. MaxPos : Fill(p, n)
  \/ \E d \in {-1, 1} : Foreign(d)
  \/ OnFill \/ PassEnds \/ HealEnds \/ Drops \/ Book

Reads == OnFill \/ (Book /\ OnAccountUpdate)
Synced == (Book /\ ConnectSynced) \/ HealEnds
PassGoesOn == (Book /\ (PassHeals \/ \E q \in AccountShows : PassAsksAgain(q))) \/ PassEnds

\* Frames are read, parents end, the stream falls silent and comes back, what has been asked
\* for arrives, and passes are made whose first answer is right again and again.
SpecLedger ==
  /\ InitLedger
  /\ [][NextLedger]_ledgerVars
  /\ WF_ledgerVars(Reads) /\ WF_ledgerVars(\E p \in Parent : ParentEnds(p))
  /\ WF_ledgerVars(Book /\ Lapse) /\ WF_ledgerVars(Book /\ Reconnect)
  /\ WF_ledgerVars(Synced) /\ WF_ledgerVars(PassGoesOn)
  /\ SF_ledgerVars(Book /\ PassStarts(venue))

-----------------------------------------------------------------------------
Quiet ==
  /\ stream = <<>> /\ up /\ pass = Idle /\ sync = Idle
  /\ \A p \in Parent : parents[p].left = 0

\* At rest the legs of the strategies add up to the position of the venue, unless an order
\* was scaled down or capped, traded for nobody, its fill was lost, a heal has cut the legs,
\* or a share in its fills was finer than the fractions of a leg: netting, partial fills and
\* their order never do it by themselves.
LegsAddUp == Quiet /\ ~astray => Total(ledger) = venue * Scale

\* A fill is booked as an opening or a closing one for what it was, when the venue sends
\* ACCOUNT_UPDATE first and no snapshot or break has come between the two frames.
ClassifiedRight == ~FillsFirst /\ ~raced => ~misread

\* The book and the ledger come back to the venue, whatever stale or empty snapshots, lost
\* frames and foreign trades did: no leg is left where the venue is flat, and legs of its
\* side hold no more than it does.
Agreed ==
  /\ local = venue
  /\ venue = 0 => ledger = NoShare
  /\ Sign(Total(ledger)) = Sign(venue) => Abs(Total(ledger)) <= Abs(venue) * Scale
Settles == []<>Agreed

=============================================================================
