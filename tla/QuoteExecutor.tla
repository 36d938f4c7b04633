--------------------------- MODULE QuoteExecutor ---------------------------
(***************************************************************************)
(* The market maker's quotes on one symbol                                 *)
(* (backend/engine/execution/quote_executor.py) and the callers of it in   *)
(* backend/engine/core/engine.py.  The clock tick and the user stream's    *)
(* fill handler each refresh the quotes; nothing keeps one refresh out of  *)
(* another, or a refresh out of a pause or a mass cancel.  asyncio runs    *)
(* one task at a time between awaits: a step of a task that is not         *)
(* suspended goes before everything else (Quiet).                          *)
(*                                                                         *)
(* A price is how far it reaches into the market, 1..MaxPrice on either    *)
(* side, and 0 is none: the code's bid and ask comparisons are each        *)
(* other's mirror.  Quantities, zones and rest times are choices.          *)
(***************************************************************************)
EXTENDS Naturals, FiniteSets, Sequences, SequencesExt

CONSTANTS
  Quotes,       \* order ids, numbers; an id nobody remembers is used again
  MaxPrice,
  Setups        \* what a behaviour starts from (the fields are below)

ASSUME QuotesAssumption ==
  /\ Quotes \subseteq Nat \ {0} /\ IsFiniteSet(Quotes)
  /\ MaxPrice \in Nat \ {0}
  /\ Setups \subseteq
       [mode : {"make", "chase", "climb", "ladder", "climb_multi"},  \* MmExecutionMode
        wants : [{"bid", "ask"} -> SUBSET (0..MaxPrice)],            \* prices the strategy asks for
        take : BOOLEAN,                                              \* whether it may ask to take
        live : 0..Cardinality(Quotes),                               \* orders remembered at once
        events : SUBSET {"fill", "partial", "pause", "mass", "flatten"},
        followed : SUBSET {"refresh", "control", "frame", "fault"}]  \* see Goes

VARIABLES
  status,     \* the engine's: running or paused
  setup,      \* a member of Setups
  order,      \* each id: at the venue, in the order manager, its side and price
  cur,        \* QuoteExecutor._sessions[symbol], 0 when there is none
  sessions,   \* the session objects: bid_levels and ask_levels
  task,       \* the clock tick, the user stream and the operator's call
  withdrawn,  \* the strategy has stopped quoting for good
  races       \* what has come between the steps of a refresh so far

vars == <<status, setup, order, cur, sessions, task, withdrawn, races>>

Side == {"bid", "ask"}
Task == {"clock", "user", "operator"}
Session == 1..3
LadderLevels == 2
Layered == {"ladder", "climb_multi"}
Awaiting == {"idle", "filled", "cancel", "post", "mass", "massed"}

\* A level is the id of its order and its level_index.
Level == [id : Quotes, idx : 0..LadderLevels - 1]
Empty == [s \in Side |-> <<>>]
NoOrder == [at |-> "none", om |-> "unknown", side |-> "bid", px |-> 0, news |-> FALSE]
IdleTask == [pc |-> "idle", on |-> 0, side |-> "bid", want |-> [s \in Side |-> 0], take |-> FALSE,
             own |-> <<>>, mine |-> FALSE, i |-> 1, todo |-> <<>>, plan |-> <<>>, px |-> 0, then |-> "", id |-> 0]

TypeOK ==
  /\ status \in {"running", "paused"}
  /\ setup \in Setups
  /\ order \in [Quotes -> [at : {"none", "sent", "refused", "open", "filled", "over"},
                           om : {"unknown", "working", "done"},
                           side : Side, px : 0..MaxPrice, news : BOOLEAN]]
  /\ cur \in Session \cup {0}
  /\ \A n \in Session, s \in Side : \A k \in DOMAIN sessions[n][s] : sessions[n][s][k] \in Level
  /\ \A t \in Task : /\ task[t].on \in Session \cup {0}
                     /\ task[t].side \in Side
                     /\ task[t].id \in Quotes \cup {0}
                     /\ task[t].px \in 0..MaxPrice
  /\ withdrawn \in BOOLEAN
  /\ races \subseteq {"refresh", "control", "frame", "fault"}

Init ==
  /\ status = "running"
  /\ setup \in Setups
  /\ order = [o \in Quotes |-> NoOrder]
  /\ cur = 0
  /\ sessions = [n \in Session |-> Empty]
  /\ task = [t \in Task |-> IdleTask]
  /\ withdrawn = FALSE
  /\ races = {}

-----------------------------------------------------------------------------
Ids(L) == {L[k].id : k \in DOMAIN L}
Tracked(n) == UNION {Ids(sessions[n][s]) : s \in Side}
Busy(t) == task[t].pc \notin {"idle", "filled"}

\* What a task still names: the order it waits for, its list, its copies.
Named(t) == {task[t].id} \cup Ids(task[t].own) \cup Ids(task[t].todo) \cup Ids(task[t].plan)

\* Python's garbage: sessions and finished orders that nothing refers to.
Unheld == {n \in Session : n # cur /\ (\A t \in Task : task[t].on # n) /\ sessions[n] # Empty}
Spent == {o \in Quotes : /\ order[o].at \in {"refused", "filled", "over"}
                         /\ order[o].om = "done" /\ ~order[o].news
                         /\ \A n \in Session : o \notin Tracked(n)
                         /\ \A t \in Task : o \notin Named(t)}

Collect ==
  /\ Unheld # {} \/ Spent # {}
  /\ sessions' = [n \in Session |-> IF n \in Unheld THEN Empty ELSE sessions[n]]
  /\ order' = [o \in Quotes |-> IF o \in Spent THEN NoOrder ELSE order[o]]
  /\ UNCHANGED <<status, setup, cur, task, withdrawn, races>>

\* The bound on the behaviours: after a disturbance that is not in `followed` only the
\* calls already begun go on, to their end.
Goes == races \subseteq setup.followed

\* Every task is suspended at an await.
Quiet == (\A t \in Task : task[t].pc \in Awaiting) /\ Unheld = {} /\ Spent = {}

\* Task t, past its await, is the one that runs.
Runs(t, pc) == task[t].pc = pc /\ Unheld = {} /\ Spent = {}

\* The list a refresh works on: the session's own, unless another refresh has put a
\* new list in its place.
Levels(t) == IF task[t].mine THEN task[t].own ELSE sessions[task[t].on][task[t].side]

\* The levels of L that are in S, in their order (SelectSeq, as a function that can be
\* reasoned about).
Only(L, S) ==
  LET upto[k \in 0..Len(L)] ==
        IF k = 0 THEN <<>>
        ELSE IF L[k] \in S THEN Append(upto[k - 1], L[k]) ELSE upto[k - 1]
  IN upto[Len(L)]

OfIndex(L, k) == Only(L, {q \in Level : q.idx = k})

\* _prune_stale_levels.
Prune(L) == Only(L, {q \in Level : order[q.id].om = "working"})
PruneBook(n) == [sessions EXCEPT ![n] = [s \in Side |-> Prune(@[s])]]

Becomes(t, r) == task' = [task EXCEPT ![t] = r]
Notes(r) == races' = races \cup r

\* The list changes in place, and the task goes on as r says.
Rewrite(t, L, r) ==
  IF task[t].mine
  THEN /\ Becomes(t, [r EXCEPT !.own = IF r.pc \in {"idle", "sync"} THEN <<>> ELSE L])
       /\ UNCHANGED sessions
  ELSE /\ Becomes(t, r)
       /\ sessions' = [sessions EXCEPT ![task[t].on][task[t].side] = L]

\* The session gets a new list; another refresh on this side keeps the old one.
Rebind(t, L, r) ==
  LET n == task[t].on
      s == task[t].side
      shares(u) == u # t /\ task[u].on = n /\ task[u].side = s /\ ~task[u].mine IN
  /\ task' = [u \in Task |-> IF u = t THEN r
                             ELSE IF shares(u) THEN [task[u] EXCEPT !.mine = TRUE, !.own = sessions[n][s]]
                             ELSE task[u]]
  /\ sessions' = [sessions EXCEPT ![n][s] = L]

\* The side is done: the ask follows the bid, then the refresh ends.
Leave(t) ==
  IF task[t].side = "bid"
  THEN [IdleTask EXCEPT !.pc = "sync", !.on = task[t].on, !.side = "ask",
                        !.want = task[t].want, !.take = task[t].take]
  ELSE IdleTask

\* om.cancel: a REST call, or nothing for an order that is finished here.
CancelThen(t, o, r) ==
  IF order[o].om = "working" THEN [r EXCEPT !.pc = "cancel", !.id = o, !.then = r.pc] ELSE r

-----------------------------------------------------------------------------
\* What the strategy may ask for now.
Wishes == [Side -> 0..MaxPrice]
Wished(w) == \A s \in Side : w[s] \in IF withdrawn THEN {0} ELSE setup.wants[s]

\* Another task is in the middle of its own work on the quotes.
Crossing(t, kind) ==
  {IF kind = "control" \/ task[u].pc \in {"evict", "mass", "massed"} \/ task[u].then = "evict"
   THEN "control" ELSE "refresh" : u \in {v \in Task \ {t} : Busy(v)}}

FreeSession == CHOOSE n \in Session : n # cur /\ \A t \in Task : task[t].on # n

\* The clock tick evaluates the strategies while the engine runs; the fill handler
\* does not ask.
MayRefresh(t) ==
  \/ t = "clock" /\ status = "running" /\ task[t].pc = "idle"
  \/ t = "user" /\ task[t].pc = "filled"

\* refresh, _refresh_symbol: the session, made if there is none, is pruned.
StartRefresh(t) ==
  /\ Goes /\ Quiet /\ MayRefresh(t)
  /\ LET n == IF cur # 0 THEN cur ELSE FreeSession IN
     /\ cur' = n
     /\ sessions' = PruneBook(n)
     /\ \E w \in Wishes, k \in {FALSE, setup.take} :
          /\ Wished(w)
          /\ Becomes(t, [IdleTask EXCEPT !.pc = "sync", !.on = n, !.want = w, !.take = k])
  /\ Notes(Crossing(t, "refresh"))
  /\ UNCHANGED <<status, setup, order, withdrawn>>

\* cancel_all: the session is forgotten first and its orders are cancelled after.  A
\* pause does it, and an intent to flatten does it before its market order.
StartEvict(t) ==
  /\ Goes /\ Quiet
  /\ \/ t = "operator" /\ "pause" \in setup.events /\ status = "running" /\ task[t].pc = "idle"
     \/ "flatten" \in setup.events /\ MayRefresh(t) /\ ~withdrawn
  /\ Becomes(t, [IdleTask EXCEPT !.pc = "evict",
                   !.todo = IF cur = 0 THEN <<>> ELSE sessions[cur]["bid"] \o sessions[cur]["ask"]])
  /\ cur' = 0
  /\ Notes(Crossing(t, "control"))
  /\ UNCHANGED <<status, setup, order, sessions, withdrawn>>

Evict(t) ==
  /\ Runs(t, "evict")
  /\ IF task[t].todo = <<>>
     THEN /\ Becomes(t, IdleTask)
          /\ status' = IF t = "operator" THEN "paused" ELSE status
     ELSE /\ Becomes(t, CancelThen(t, Head(task[t].todo).id, [task[t] EXCEPT !.todo = Tail(@)]))
          /\ UNCHANGED status
  /\ UNCHANGED <<setup, order, cur, sessions, withdrawn, races>>

-----------------------------------------------------------------------------
Keeps == UNCHANGED <<status, setup, order, cur, withdrawn, races>>

LadderTargets(p) == {k \in 0..LadderLevels - 1 : p > k}

\* working_by_idx: the last level of each index.
ByIndex(L) == [k \in 1..LadderLevels |->
  IF \E q \in Ids(L) : [id |-> q, idx |-> k - 1] \in ToSet(L)
  THEN Last(OfIndex(L, k - 1))
  ELSE [id |-> 0, idx |-> k - 1]]

\* _sync_side: withdraw, take, or one of the modes.
Sync(t) ==
  /\ Runs(t, "sync")
  /\ LET me == task[t]
         L == Levels(t)
         kept == Prune(L)
         target == me.want[me.side] IN
     \/ /\ target = 0 /\ L = <<>>
        /\ Becomes(t, Leave(t)) /\ UNCHANGED sessions
     \/ /\ IF target = 0 THEN L # <<>> ELSE me.take
        /\ Becomes(t, [me EXCEPT !.pc = "sweep"]) /\ UNCHANGED sessions
     \/ /\ target > 0 /\ ~me.take /\ setup.mode \in Layered
        /\ Rewrite(t, kept, [me EXCEPT !.pc = "extras", !.plan = ByIndex(kept),
                      !.todo = Only(kept, {q \in Level : q.idx \notin LadderTargets(target)})])
     \/ /\ target > 0 /\ ~me.take /\ setup.mode \notin Layered
        /\ Rewrite(t, kept, [me EXCEPT !.pc = "trim",
                      !.todo = IF setup.mode = "climb" /\ kept # <<>> THEN Tail(kept) ELSE <<>>])
  /\ Keeps

\* Mutated form of Sweep: a side that is not wanted is left as it is.
SweepLeaves(t) ==
  /\ Runs(t, "sweep")
  /\ LET me == task[t]
         L == Levels(t)
         target == me.want[me.side] IN
     CASE target = 0 -> Becomes(t, Leave(t)) /\ UNCHANGED sessions
       [] target > 0 /\ me.i <= Len(L) ->
            Becomes(t, CancelThen(t, L[me.i].id, [me EXCEPT !.i = @ + 1])) /\ UNCHANGED sessions
       [] OTHER -> Rewrite(t, <<>>, [me EXCEPT !.pc = "place", !.px = target, !.i = 1])
  /\ Keeps

\* for w in levels: the loop counts through the list itself, which a frame or the
\* other refresh may shorten meanwhile; then the list is cleared.
Sweep(t) ==
  /\ Runs(t, "sweep")
  /\ LET me == task[t]
         L == Levels(t)
         target == me.want[me.side] IN
     IF me.i <= Len(L)
     THEN /\ Becomes(t, CancelThen(t, L[me.i].id, [me EXCEPT !.i = @ + 1]))
          /\ UNCHANGED sessions
     ELSE Rewrite(t, <<>>, IF target = 0 THEN Leave(t)
                           ELSE [me EXCEPT !.pc = "place", !.px = target, !.i = 1])
  /\ Keeps

\* One level is kept: _sync_single pops the others off the list, _sync_climb goes
\* through a copy and cuts the list after.
Trim(t) ==
  /\ Runs(t, "trim")
  /\ LET me == task[t]
         L == Levels(t)
         decide == [me EXCEPT !.pc = "decide"] IN
     IF setup.mode = "climb"
     THEN IF me.todo # <<>>
          THEN /\ Becomes(t, CancelThen(t, Head(me.todo).id, [me EXCEPT !.todo = Tail(@)]))
               /\ UNCHANGED sessions
          ELSE Rewrite(t, IF L = <<>> THEN L ELSE <<Head(L)>>, decide)
     ELSE IF Len(L) > 1
          THEN Rewrite(t, Front(L), CancelThen(t, Last(L).id, me))
          ELSE Becomes(t, decide) /\ UNCHANGED sessions
  /\ Keeps

\* What may be placed instead of a quote at p when the target is w: a reason to
\* cancel (too aggressive, too deep, stale) sends the target, a climb one step.
Replacements(p, w) == {w} \cup (IF setup.mode = "climb" /\ p < w THEN {p + 1} ELSE {})

\* No reason, and the price is good enough to rest.
MayRest(p, w) == IF setup.mode = "make" THEN p <= w ELSE p = w

\* Mutated form of Decide: the quote is replaced without being cancelled.
DecideBeside(t) ==
  /\ Runs(t, "decide")
  /\ LET me == task[t]
         L == Levels(t)
         target == me.want[me.side] IN
     \/ L # <<>> /\ MayRest(order[Head(L).id].px, target) /\ Becomes(t, Leave(t))
     \/ Becomes(t, [me EXCEPT !.pc = "place", !.px = target])
  /\ UNCHANGED sessions /\ Keeps

\* _sync_single, _sync_climb: keep the working quote, or cancel it and place again.
Decide(t) ==
  /\ Runs(t, "decide")
  /\ LET me == task[t]
         L == Levels(t)
         target == me.want[me.side]
         p == order[Head(L).id].px IN
     \/ L = <<>> /\ Becomes(t, [me EXCEPT !.pc = "place", !.px = target])
     \/ L # <<>> /\ MayRest(p, target) /\ Becomes(t, Leave(t))
     \/ /\ L # <<>>
        /\ \E x \in Replacements(p, target) :
             Becomes(t, CancelThen(t, Head(L).id, [me EXCEPT !.pc = "clear", !.px = x]))
  /\ UNCHANGED sessions /\ Keeps

Clear(t) ==
  /\ Runs(t, "clear")
  /\ Rewrite(t, <<>>, [task[t] EXCEPT !.pc = "place"])
  /\ Keeps

-----------------------------------------------------------------------------
\* list.remove: an error when a frame has taken the level away, which ends the
\* refresh and the tick or the frame it was for.
TakeOff(t, q, r) ==
  IF q \in ToSet(Levels(t))
  THEN Rewrite(t, RemoveFirst(Levels(t), q), r)
  ELSE Becomes(t, IdleTask) /\ UNCHANGED sessions

\* _sync_ladder, first loop: levels that are not targets any more go.
Extras(t) ==
  /\ Runs(t, "extras")
  /\ LET me == task[t] IN
     Becomes(t, IF me.todo = <<>> THEN [me EXCEPT !.pc = "level", !.i = 1]
                ELSE CancelThen(t, Head(me.todo).id, [me EXCEPT !.pc = "shed"]))
  /\ UNCHANGED sessions /\ Keeps

Shed(t) ==
  /\ Runs(t, "shed")
  /\ TakeOff(t, Head(task[t].todo), [task[t] EXCEPT !.pc = "extras", !.todo = Tail(@)])
  /\ Keeps

NextLevel(t) == [task[t] EXCEPT !.pc = "level", !.i = @ + 1, !.px = 0]

\* climb_next_price, one tick a refresh.
ClimbNext(p, w) == IF p > w THEN p - 1 ELSE IF p < w THEN p + 1 ELSE p

\* _sync_ladder, second loop: each target level keeps, replaces or places its quote.
\* Only the replacement of a moved ladder level looks whether the level is still in
\* the list before it removes it.
LadderLevel(t) ==
  /\ Runs(t, "level")
  /\ LET me == task[t]
         target == me.want[me.side] - (me.i - 1)
         q == me.plan[me.i]
         p == order[q.id].px
         climbs == setup.mode = "climb_multi"
         replace(pc, x) == Becomes(t, CancelThen(t, q.id, [me EXCEPT !.pc = pc, !.px = x])) IN
     IF me.i - 1 \notin LadderTargets(me.want[me.side])
     THEN Rebind(t, OfIndex(Levels(t), 0) \o OfIndex(Levels(t), 1), Leave(t))
     ELSE /\ UNCHANGED sessions
          /\ \/ q.id = 0 /\ Becomes(t, [me EXCEPT !.pc = "place", !.px = target])
             \/ q.id # 0 /\ replace("remove", IF climbs THEN ClimbNext(p, target) ELSE target)
             \/ q.id # 0 /\ p < target /\ climbs /\ replace("remove", p + 1)
             \/ q.id # 0 /\ p <= target /\ ~climbs /\ replace("drop", target)
             \/ q.id # 0 /\ p = target /\ Becomes(t, NextLevel(t))
  /\ Keeps

RemoveLevel(t) ==
  /\ Runs(t, "remove")
  /\ TakeOff(t, task[t].plan[task[t].i], [task[t] EXCEPT !.pc = "place"])
  /\ Keeps

DropLevel(t) ==
  /\ Runs(t, "drop")
  /\ LET q == task[t].plan[task[t].i]
         place == [task[t] EXCEPT !.pc = "place"] IN
     IF q \in ToSet(Levels(t)) THEN TakeOff(t, q, place) ELSE Becomes(t, place) /\ UNCHANGED sessions
  /\ Keeps

-----------------------------------------------------------------------------
Unused == {o \in Quotes : order[o].at = "none"}

\* Where the refresh goes on when it has placed nothing.
Skip(t) == IF setup.mode \in Layered /\ ~task[t].take THEN NextLevel(t) ELSE Leave(t)

\* _place_level, _sync_take up to the REST call: outside the zone, sized to nothing,
\* refused by the submit guard (which ends the refresh), or sent.
Place(t) ==
  /\ Runs(t, "place")
  /\ \/ Becomes(t, Skip(t)) /\ UNCHANGED order
     \/ Becomes(t, IdleTask) /\ UNCHANGED order
     \/ /\ Cardinality(Quotes \ Unused) < setup.live
        /\ LET o == Min(Unused) IN
           /\ order' = [order EXCEPT ![o] = [at |-> "sent", om |-> "working", side |-> task[t].side,
                                             px |-> task[t].px, news |-> FALSE]]
           /\ Becomes(t, [task[t] EXCEPT !.pc = "post", !.id = o])
  /\ UNCHANGED <<status, setup, cur, sessions, withdrawn, races>>

\* The list with the new quote: a single quote makes a new list, a ladder adds to its own.
Bind(t) ==
  LET o == task[t].id IN
  IF task[t].take
  THEN Rewrite(t, Append(Levels(t), [id |-> o, idx |-> 0]), Leave(t))
  ELSE IF setup.mode \in Layered
       THEN Rewrite(t, Append(Levels(t), [id |-> o, idx |-> task[t].i - 1]), [NextLevel(t) EXCEPT !.id = 0])
       ELSE Rebind(t, <<[id |-> o, idx |-> 0]>>, Leave(t))

\* submit_child returns: the reply's status replaces whatever a frame said before it.
Placed(t) ==
  /\ task[t].pc = "post" /\ Quiet /\ order[task[t].id].at \notin {"sent", "refused"}
  /\ order' = [order EXCEPT ![task[t].id].om = "working"]
  /\ Bind(t)
  /\ UNCHANGED <<status, setup, cur, withdrawn, races>>

\* submit_child fails and _handle_reject decides: the venue refused, with a code that
\* is handled or one that is not.
PlaceRefused(t) ==
  /\ task[t].pc = "post" /\ Quiet /\ order[task[t].id].at = "refused"
  /\ order' = [order EXCEPT ![task[t].id].om = "done"]
  /\ \/ Becomes(t, [Skip(t) EXCEPT !.id = 0])
     \/ Becomes(t, IdleTask)
  /\ UNCHANGED <<status, setup, cur, sessions, withdrawn, races>>

\* No reply (status 0): taken for a refusal, and the order may be there.
PlaceLost(t) ==
  /\ task[t].pc = "post" /\ Quiet /\ order[task[t].id].at \notin {"sent", "refused"}
  /\ order' = [order EXCEPT ![task[t].id].om = "done"]
  /\ Becomes(t, [Skip(t) EXCEPT !.id = 0])
  /\ Notes({"fault"})
  /\ UNCHANGED <<status, setup, cur, sessions, withdrawn>>

\* cancel_order returns; an unknown order is no error.
Cancelled(t) ==
  /\ task[t].pc = "cancel" /\ Quiet /\ order[task[t].id].at # "open"
  /\ Becomes(t, [task[t] EXCEPT !.pc = task[t].then, !.then = "", !.id = 0])
  /\ UNCHANGED <<status, setup, order, cur, sessions, withdrawn, races>>

\* cancel_order swallows every other error, and its caller goes on.
CancelFails(t) ==
  /\ task[t].pc = "cancel" /\ Quiet /\ order[task[t].id].at = "open"
  /\ Becomes(t, [task[t] EXCEPT !.pc = task[t].then, !.then = "", !.id = 0])
  /\ Notes({"fault"})
  /\ UNCHANGED <<status, setup, order, cur, sessions, withdrawn>>

-----------------------------------------------------------------------------
VenueOnly == UNCHANGED <<status, setup, cur, sessions, task, withdrawn, races>>
Ends(o, at) == [order EXCEPT ![o].at = at, ![o].news = TRUE]

\* The venue takes the order, or refuses it (a post-only one that would cross).  An
\* order to take is filled or expires at once.
VenueTakes(t) ==
  /\ task[t].pc = "post" /\ Quiet /\ order[task[t].id].at = "sent"
  /\ LET o == task[t].id IN
     \/ order' = [order EXCEPT ![o].at = "refused"]
     \/ ~task[t].take /\ order' = [order EXCEPT ![o].at = "open"]
     \/ task[t].take /\ \E at \in {"filled", "over"} : order' = Ends(o, at)
  /\ VenueOnly

VenueCancels(t) ==
  /\ task[t].pc = "cancel" /\ Quiet /\ order[task[t].id].at = "open"
  /\ order' = Ends(task[t].id, "over")
  /\ VenueOnly

VenueFills(o) ==
  /\ "fill" \in setup.events /\ order[o].at = "open" /\ Quiet
  /\ order' = Ends(o, "filled")
  /\ VenueOnly

\* The user stream tells of an order's end: the order manager, then prune_symbol, then
\* for a fill the handler that will refresh.  Frames wait for the handler before them.
HearEnd(o) ==
  /\ Quiet /\ task["user"].pc = "idle" /\ order[o].news
  /\ order' = [order EXCEPT ![o].news = FALSE, ![o].om = "done"]
  /\ sessions' = IF cur = 0 THEN sessions
                 ELSE [sessions EXCEPT ![cur] = [s \in Side |->
                         Only(@[s], {q \in Level : q.id # o /\ order[q.id].om = "working"})]]
  /\ IF order[o].at = "filled"
     THEN Becomes("user", [IdleTask EXCEPT !.pc = "filled"])
     ELSE UNCHANGED task
  /\ Notes(IF setup.mode \in Layered /\ \E t \in Task : Busy(t) /\ task[t].on # 0 THEN {"frame"} ELSE {})
  /\ UNCHANGED <<status, setup, cur, withdrawn>>

\* Mutated form of HearPartial: a partial fill counts as the end of the order.
HearPartialAsEnd(o) ==
  /\ "partial" \in setup.events /\ order[o].at = "open"
  /\ Quiet /\ task["user"].pc = "idle"
  /\ order' = [order EXCEPT ![o].om = "done"]
  /\ Becomes("user", [IdleTask EXCEPT !.pc = "filled"])
  /\ UNCHANGED <<status, setup, cur, sessions, withdrawn, races>>

\* A partial fill: the quote stays and the handler refreshes.
HearPartial(o) ==
  /\ "partial" \in setup.events /\ order[o].at = "open"
  /\ Quiet /\ task["user"].pc = "idle"
  /\ Becomes("user", [IdleTask EXCEPT !.pc = "filled"])
  /\ UNCHANGED <<status, setup, order, cur, sessions, withdrawn, races>>

\* The order reconciler's poll settles an order whose frame has gone by, and cancels
\* one the order manager does not think is working.
Poll(o) ==
  /\ Quiet /\ ~order[o].news /\ \A t \in Task : ~(task[t].pc = "post" /\ task[t].id = o)
  /\ \/ /\ order[o].at \in {"filled", "over"} /\ order[o].om = "working"
        /\ order' = [order EXCEPT ![o].om = "done"]
     \/ /\ order[o].at = "open" /\ order[o].om # "working"
        /\ order' = Ends(o, "over")
  /\ VenueOnly

-----------------------------------------------------------------------------
\* flatten and stop: one call cancels every open order, then the sessions are dropped
\* and what the order manager has working is marked cancelled.
MassCancel ==
  /\ Goes /\ Quiet /\ "mass" \in setup.events /\ task["operator"].pc = "idle"
  /\ Becomes("operator", [IdleTask EXCEPT !.pc = "mass"])
  /\ Notes(Crossing("operator", "control"))
  /\ UNCHANGED <<status, setup, order, cur, sessions, withdrawn>>

MassLands ==
  /\ Quiet /\ task["operator"].pc = "mass"
  /\ order' = [o \in Quotes |-> IF order[o].at = "open"
                                THEN [order[o] EXCEPT !.at = "over", !.news = TRUE] ELSE order[o]]
  /\ Becomes("operator", [task["operator"] EXCEPT !.pc = "massed"])
  /\ UNCHANGED <<status, setup, cur, sessions, withdrawn, races>>

\* clear_sessions, mark_working_cancelled: after the reply, or after an error.
MassReturns ==
  /\ Quiet /\ task["operator"].pc \in {"mass", "massed"}
  /\ cur' = 0
  /\ order' = [o \in Quotes |-> IF order[o].om = "working" THEN [order[o] EXCEPT !.om = "done"] ELSE order[o]]
  /\ Becomes("operator", IdleTask)
  /\ Notes((IF task["operator"].pc = "mass" THEN {"fault"} ELSE {}) \cup Crossing("operator", "control"))
  /\ UNCHANGED <<status, setup, sessions, withdrawn>>

\* The working quotes of a side in some order, all as level 0.
Adopted(s) ==
  {[k \in DOMAIN ids |-> [id |-> ids[k], idx |-> 0]] :
     ids \in SetToSeqs({o \in Quotes : order[o].om = "working" /\ order[o].side = s})}

\* _seed_symbol_from_oms: an empty session adopts the working quotes.
Seeded ==
  LET n == IF cur # 0 THEN cur ELSE FreeSession
      pruned == [s \in Side |-> Prune(sessions[n][s])] IN
  \E bids \in Adopted("bid"), asks \in Adopted("ask") :
    IF (cur # 0 /\ pruned # Empty) \/ (bids = <<>> /\ asks = <<>>)
    THEN sessions' = [sessions EXCEPT ![n] = pruned] /\ UNCHANGED cur
    ELSE sessions' = [sessions EXCEPT ![n] = [s \in Side |-> IF s = "bid" THEN bids ELSE asks]] /\ cur' = n

\* resume: with the venue's book read first, or without while REST is throttled.
Resume ==
  /\ Goes /\ Quiet /\ status = "paused" /\ task["operator"].pc = "idle"
  /\ status' = "running"
  /\ Seeded \/ UNCHANGED <<cur, sessions>>
  /\ UNCHANGED <<setup, order, task, withdrawn, races>>

Withdraw ==
  /\ Goes /\ Quiet /\ ~withdrawn
  /\ withdrawn' = TRUE
  /\ UNCHANGED <<status, setup, order, cur, sessions, task, races>>

-----------------------------------------------------------------------------
Run(t) ==
  \/ Evict(t) \/ Sync(t) \/ Sweep(t) \/ Trim(t) \/ Decide(t) \/ Clear(t)
  \/ Extras(t) \/ Shed(t) \/ LadderLevel(t) \/ RemoveLevel(t) \/ DropLevel(t) \/ Place(t)

Answered(t) == Placed(t) \/ PlaceRefused(t) \/ PlaceLost(t) \/ Cancelled(t) \/ CancelFails(t)
Answers(t) == VenueTakes(t) \/ VenueCancels(t)

Next ==
  \/ Collect
  \/ \E t \in Task : StartRefresh(t) \/ StartEvict(t) \/ Run(t) \/ Answered(t) \/ Answers(t)
  \/ \E o \in Quotes : VenueFills(o) \/ HearEnd(o) \/ HearPartial(o) \/ Poll(o)
  \/ MassCancel \/ MassLands \/ MassReturns \/ Resume \/ Withdraw

\* A task that can run does, REST calls return, and the clock ticks.
Fairness ==
  /\ WF_vars(Collect \/ \E t \in Task : Run(t))
  /\ \A t \in Task : WF_vars(Answered(t) \/ Answers(t))
  /\ WF_vars(StartRefresh("clock"))

Spec == Init /\ [][Next]_vars /\ Fairness

-----------------------------------------------------------------------------
\* What must not have happened for the session to be an exact account.  A frame
\* between a ladder's steps is enough to disturb it; a single quote bears that.
Undisturbed == races = {}

Hands == UNION {Named(t) : t \in Task}

\* Unless another refresh, a pause, a mass cancel or a failed call came between the
\* steps of a refresh, every quote open at the venue is in the session or in the
\* hands of a task: no quote is left that no later refresh would cancel
\* (quote_executor.py _sync_single, _sync_climb, _sync_ladder, prune_symbol).
NoQuoteIsForgotten ==
  Undisturbed => \A o \in Quotes : order[o].at = "open" => o \in Hands \/ (cur # 0 /\ o \in Tracked(cur))

\* Under the same conditions a side has one quote at a time, and a ladder as many as
\* it has levels: a replacement is sent after its predecessor is off the book.
NoSecondQuote ==
  Undisturbed => \A s \in Side :
    Cardinality({o \in Quotes : order[o].side = s /\ order[o].at \in {"sent", "open"}})
      <= (IF setup.mode \in Layered THEN LadderLevels ELSE 1)

\* Unless something came between the steps of a refresh, the session is an exact account
\* of the venue: it has every open quote, and a side has not two (_refresh_symbol()).
SessionExact == NoQuoteIsForgotten /\ NoSecondQuote

\* Whatever refreshes overlap, an order open at the venue is working in the order
\* manager or awaits its reply, so that a mass cancel and the reconciler know of it,
\* unless a call failed or a control operation crossed a refresh
\* (order_manager.py submit_child, mark_working_cancelled).
OpenIsWorking ==
  races \cap {"control", "fault"} = {} =>
    \A o \in Quotes : order[o].at = "open" =>
      order[o].om = "working" \/ \E t \in Task : task[t].pc = "post" /\ task[t].id = o

\* A strategy that withdraws its quotes ends without an open one, while the engine
\* runs and nothing came between a refresh's steps.
WithdrawnQuotesEnd ==
  withdrawn ~> (~Undisturbed \/ status = "paused" \/ \A o \in Quotes : order[o].at # "open")

=============================================================================
