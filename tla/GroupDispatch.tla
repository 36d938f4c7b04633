--------------------------- MODULE GroupDispatch ---------------------------
(***************************************************************************)
(* Submission of the two legs of a pair (_dispatch_group and               *)
(* _compensate_group_submission in backend/engine/core/engine.py), through *)
(* the pre-trade checks (backend/engine/risk/pretrade_validator.py,        *)
(* backend/engine/risk/risk_manager.py), the gate of the submit guard and  *)
(* the router (backend/engine/execution/execution_router.py), with the     *)
(* parents it opens and the positions they leave.                          *)
(*                                                                         *)
(* The heartbeat submits: it awaits the venue only for a leg whose         *)
(* leverage has not been set yet, and up to that point a submission is one *)
(* step.  Quantities are lots.  The executor is modelled in VwapParent:    *)
(* here a parent fills in any number of parts and ends, filled or not.     *)
(***************************************************************************)
EXTENDS FiniteSets, Integers, Sequences, BagsExt, Bags

CONSTANTS
  Size,        \* lots a leg is signalled with
  MaxParents,  \* max_open_parents
  MaxOthers,   \* bound on the parents of other symbols
  Slots,       \* bound on the parents of the pair
  MaxPos       \* bound on the position of a leg

ASSUME DispatchAssumption ==
  /\ Size \in Nat \ {0}
  /\ MaxParents \in Nat \ {0}
  /\ MaxOthers \in 0 .. MaxParents
  /\ Slots \in Nat \ {0}
  /\ MaxPos \in Nat

VARIABLES
  parents,  \* bag of the open parents of the pair
  others,   \* open parents of other symbols
  blocked,  \* legs whose symbol breaker is active
  running,  \* the engine is RUNNING
  levered,  \* legs in _leverage_applied_symbols
  group,    \* the group being submitted, at its await
  pos       \* leg -> its position

dispatchVars == <<parents, others, blocked, running, levered, group, pos>>

Leg == {"usdt", "usdc"}

\* Pairs are traded in two ways: the USDT leg is bought (1) or sold (-1), the other one the
\* opposite.
Way == {-1, 1}
Toward(way, leg) == IF leg = "usdt" THEN way ELSE -way

Parent == [leg : Leg, toward : Way, left : 1 .. Size, reduce : BOOLEAN]

\* How many parents there are in a bag of them, and which can only have been entries.
Copies(ps) == UNION {{p} \X (1 .. ps[p]) : p \in BagToSet(ps)}
Number(ps) == Cardinality(Copies(ps))
Entries(ps) == [p \in {q \in BagToSet(ps) : ~q.reduce} |-> ps[p]]

NoGroup == [todo |-> <<>>, sent |-> <<>>, way |-> 0, qty |-> 0, close |-> FALSE]
Group == [todo : {<<"usdt">>, <<"usdc">>, <<"usdt", "usdc">>, <<"usdc", "usdt">>},
          sent : {<<>>, <<"usdt">>, <<"usdc">>}, way : Way, qty : 1 .. Size, close : BOOLEAN]

TypeOKDispatch ==
  /\ IsABag(parents) /\ BagToSet(parents) \subseteq Parent
  /\ Number(parents) <= Slots
  /\ others \in 0 .. MaxOthers
  /\ blocked \subseteq Leg
  /\ running \in BOOLEAN
  /\ levered \subseteq Leg
  /\ group \in Group \union {NoGroup}
  /\ pos \in [Leg -> Int]

InitDispatch ==
  /\ parents = EmptyBag
  /\ others = 0
  /\ blocked = {}
  /\ running = TRUE
  /\ levered = {}
  /\ group = NoGroup
  /\ pos = [l \in Leg |-> 0]

-----------------------------------------------------------------------------
Abs(n) == IF n < 0 THEN -n ELSE n
Smaller(a, b) == IF a < b THEN a ELSE b

\* open_parent_count(): reports that are open, reduce-only ones too.
OpenCount(ps) == others + Number(ps)

\* can_submit_parent().
CanSubmit(leg, ps) == leg \notin blocked /\ OpenCount(ps) < MaxParents

Open(ps, leg, toward, qty, reduce) ==
  BagAdd(ps, [leg |-> leg, toward |-> toward, left |-> qty, reduce |-> reduce])

\* _compensate_group_submission(): each leg sent is unwound by its whole quantity.
Compensated(g, ps) ==
  IF g.sent = <<>> THEN ps
  ELSE Open(ps, g.sent[1], -Toward(g.way, g.sent[1]), g.qty, TRUE)

\* Mutated form of SubmitLeg: the gate is consulted before the group only.
SubmitLegUngated(g, ps) ==
  LET leg == Head(g.todo) IN
    [group |-> IF Tail(g.todo) = <<>> THEN NoGroup ELSE [g EXCEPT !.todo = Tail(@), !.sent = Append(@, leg)],
     parents |-> Open(ps, leg, Toward(g.way, leg), g.qty, g.close)]

\* The router takes the next leg, or refuses it and the group is given up.
SubmitLeg(g, ps) ==
  LET leg == Head(g.todo) IN
    IF g.close \/ CanSubmit(leg, ps)
    THEN [group |-> IF Tail(g.todo) = <<>> THEN NoGroup ELSE [g EXCEPT !.todo = Tail(@), !.sent = Append(@, leg)],
          parents |-> Open(ps, leg, Toward(g.way, leg), g.qty, g.close)]
    ELSE [group |-> NoGroup, parents |-> Compensated(g, ps)]

\* An entry waits for the leverage of its leg to be set, once for each symbol.
Waits(g, lev) == g # NoGroup /\ ~g.close /\ Head(g.todo) \notin lev

\* Legs are submitted up to the next await.
Advance(g, lev) ==
  LET one  == IF Waits(g, lev) THEN [group |-> g, parents |-> parents] ELSE SubmitLeg(g, parents)
      last == IF one.group = NoGroup \/ Waits(one.group, lev) THEN one ELSE SubmitLeg(one.group, one.parents)
  IN  group' = last.group /\ parents' = last.parents

\* The checks before submission treat exits as entries: validate_group() drops reduce_only,
\* so breakers and the cap on parents refuse them as well.
GroupAllowed == \A l \in Leg : CanSubmit(l, parents)

\* The quantity of both legs: risk.check() scales an entry, the positions bound an exit.
PairQty(close) ==
  IF close
  THEN {CHOOSE q \in 1 .. Size :
          /\ \A l \in Leg : pos[l] # 0 => q <= Abs(pos[l])
          /\ q = Size \/ \E l \in Leg : pos[l] # 0 /\ q = Abs(pos[l])}
  ELSE 1 .. Size

\* _dispatch_group(), up to its first await.
DispatchGroup(todo, way, close) ==
  \/ /\ GroupAllowed
     /\ \E q \in PairQty(close) :
          Advance([todo |-> todo, sent |-> <<>>, way |-> way, qty |-> q, close |-> close], levered)
  \/ UNCHANGED <<group, parents>>   \* vetoed by risk, sizing or a missing price

\* _dispatch_single() of a reduce-only signal: vetoed unless it closes a position.
DispatchReduce(leg, toward) ==
  IF pos[leg] * toward < 0
  THEN parents' = Open(parents, leg, toward, Smaller(Size, Abs(pos[leg])), TRUE)
  ELSE UNCHANGED parents

\* set_leverage() returns, and the submission goes on.
LeverageSet ==
  /\ group # NoGroup
  /\ levered' = levered \union {Head(group.todo)}
  /\ Advance(group, levered')
  /\ UNCHANGED <<others, blocked, running, pos>>

\* It raises, and the group is given up.
LeverageFails ==
  /\ group # NoGroup
  /\ group' = NoGroup
  /\ parents' = Compensated(group, parents)
  /\ UNCHANGED <<others, blocked, running, levered, pos>>

\* A parent executes n lots, and is over when none is left: reduce-only orders never turn
\* a position.
Execute(p, n) ==
  /\ n <= p.left
  /\ p.reduce => pos[p.leg] * p.toward < 0 /\ n <= Abs(pos[p.leg])
  /\ LET rest == BagRemove(parents, p) IN
       parents' = IF n < p.left THEN BagAdd(rest, [p EXCEPT !.left = @ - n]) ELSE rest
  /\ pos' = [pos EXCEPT ![p.leg] = @ + n * p.toward]
  /\ Abs(pos'[p.leg]) <= MaxPos

\* It ends short: out of slices, aborted or refused by the venue.
EndsShort(p) == parents' = BagRemove(parents, p)

\* The rest of the engine: other parents, symbol breakers, pause and resume.
Elsewhere ==
  /\ \/ /\ others < MaxOthers /\ OpenCount(parents) < MaxParents
        /\ others' = others + 1
        /\ UNCHANGED <<blocked, running>>
     \/ others > 0 /\ others' = others - 1 /\ UNCHANGED <<blocked, running>>
     \/ \E l \in Leg :
          /\ blocked' = IF l \in blocked THEN blocked \ {l} ELSE blocked \union {l}
          /\ UNCHANGED <<others, running>>
     \/ running' = ~running /\ UNCHANGED <<others, blocked>>
  /\ UNCHANGED <<parents, levered, group, pos>>
=============================================================================
