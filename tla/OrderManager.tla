---------------------------- MODULE OrderManager ----------------------------
(***************************************************************************)
(* The order manager (backend/engine/orders/order_manager.py) at work with *)
(* the Binance order gateway (backend/gateways/binance/order_connection.py)*)
(* and the venue of module Exchange.                                       *)
(*                                                                         *)
(* The backend is one asyncio event loop: a handler runs alone up to its   *)
(* next await that suspends.  The order lock is never held across such an  *)
(* await and EventBus.publish never suspends, so every handler below is    *)
(* one atomic step, and a REST call splits a coroutine in two: the part    *)
(* that issues the call and the part that runs with its answer.            *)
(***************************************************************************)
EXTENDS Exchange, FiniteSets

CONSTANT MaxSeen   \* trade ids remembered, _max_seen_trades

ASSUME OrderManagerAssumption == MaxSeen \in Nat \ {0}

VARIABLES
  tracked,  \* keys of OrderManager._children
  status,   \* ChildOrder.status, "NEW" from creation
  filled,   \* ChildOrder.filled_qty
  seen,     \* _seen_trade_ids
  counted,  \* counted[t]: times on_fill let trade t through to the books
  fresh     \* user data was active within reconcile_user_data_fresh_sec; it goes
            \* quiet again in OrderReconciler, its only reader

omsVars == <<tracked, status, filled, seen, counted, fresh>>
vars == <<exchangeVars, omsVars>>

TypeOK ==
  /\ TypeOKExchange
  /\ tracked \subseteq Orders
  /\ status \in [Orders -> Status]
  /\ filled \in [Orders -> 0..MaxQty]
  /\ seen \subseteq Trade
  /\ counted \in [Trade -> Nat]
  /\ fresh \in BOOLEAN

Init ==
  /\ InitExchange
  /\ tracked = {}
  /\ status = [o \in Orders |-> "NEW"]
  /\ filled = [o \in Orders |-> 0]
  /\ seen = {}
  /\ counted = [t \in Trade |-> 0]
  /\ fresh = FALSE

CallsFor(op, o) == {i \in DOMAIN calls : calls[i].op = op /\ calls[i].id = o}

\* submit_child(o) has issued POST /order and not yet returned.
Submitting(o) == CallsFor("place", o) # {}

\* An id no caller has used.
Unused(o) == o \notin tracked /\ status[o] = "NEW" /\ book[o] = "none"

Working == {o \in tracked : status[o] \in WorkingStatus}

-----------------------------------------------------------------------------
\* Submission.

\* The submit guard refuses: the child is rejected without being remembered.
SubmitGated(o) ==
  /\ Unused(o)
  /\ status' = [status EXCEPT ![o] = "REJECTED"]
  /\ UNCHANGED <<exchangeVars, tracked, filled, seen, counted, fresh>>

SubmitChild(o) ==
  /\ Unused(o)
  /\ tracked' = tracked \union {o}
  /\ Issue([op |-> "place", id |-> o])
  /\ UNCHANGED <<book, cum, executed, stream, lost, answer,
                 status, filled, seen, counted, fresh>>

\* place_order writes the status of the response (always NEW for the default
\* response type) into the child itself, whatever the child has become since.
StatusOnReturn(current) == MapStatus("NEW")

SubmitReturns ==
  /\ Answered("place")
  /\ answer.kind = "ok"
  /\ LET o == Head(calls).id IN
       status' = [status EXCEPT ![o] = StatusOnReturn(status[o])]
  /\ calls' = Tail(calls) /\ answer' = Pending
  /\ UNCHANGED <<book, cum, executed, stream, lost, tracked, filled, seen, counted, fresh>>

SubmitRaises ==
  /\ Answered("place")
  /\ answer.kind = "error"
  /\ status' = [status EXCEPT ![Head(calls).id] = "REJECTED"]
  /\ calls' = Tail(calls) /\ answer' = Pending
  /\ UNCHANGED <<book, cum, executed, stream, lost, tracked, filled, seen, counted, fresh>>

\* Somebody else places an order on the account, by hand for instance.
PlacedElsewhere(o) ==
  /\ Unused(o)
  /\ Report(o, "NEW", 0, 0)
  /\ UNCHANGED <<calls, answer, omsVars>>

-----------------------------------------------------------------------------
\* The user-data stream.

\* Mutated form of OnOrderUpdate: the reported quantity is taken for an increment.
OnOrderUpdateAdds(o, incoming, total) ==
  /\ tracked' = tracked \union {o}
  /\ status' = [status EXCEPT ![o] = IF o \in tracked
                                     THEN MergeOrderStatus(status[o], incoming)
                                     ELSE incoming]
  /\ filled' = [filled EXCEPT ![o] = @ + total]
  /\ fresh' = TRUE

\* A venue row for order o, from the stream or from a REST query: the status is
\* merged, the quantity is overwritten, an unknown order is adopted as reported.
OnOrderUpdate(o, incoming, total) ==
  /\ tracked' = tracked \union {o}
  /\ status' = [status EXCEPT ![o] = IF o \in tracked
                                     THEN MergeOrderStatus(status[o], incoming)
                                     ELSE incoming]
  /\ filled' = [filled EXCEPT ![o] = total]
  /\ fresh' = TRUE

\* Past MaxSeen ids only half are kept: list(set)[-n:], of a set without order.
Remember(ids) ==
  IF Cardinality(ids) > MaxSeen
  THEN {kept \in SUBSET ids : Cardinality(kept) = MaxSeen \div 2}
  ELSE {ids}

\* Mutated forms of OnFill: no dedup, and dedup by order instead of by trade.
OnFillRepeats(trade) ==
  /\ seen' \in Remember(seen \union {trade})
  /\ counted' = [counted EXCEPT ![trade] = @ + 1]

OnFillOncePerOrder(trade) ==
  IF \E t \in seen : t[1] = trade[1]
  THEN UNCHANGED <<seen, counted>>
  ELSE /\ seen' \in Remember(seen \union {trade})
       /\ counted' = [counted EXCEPT ![trade] = @ + 1]

OnFill(trade) ==
  IF trade \in seen
  THEN UNCHANGED <<seen, counted>>
  ELSE /\ seen' \in Remember(seen \union {trade})
       /\ counted' = [counted EXCEPT ![trade] = @ + 1]

\* One frame: the order update first, then the fill it carries.  The socket may
\* deliver the frame once more (again), as after a resubscription.
HandleFrame(again) ==
  /\ stream # <<>>
  /\ LET f == Head(stream) IN
       /\ OnOrderUpdate(f.id, MapStatus(f.status), f.cum)
       /\ IF f.last > 0 THEN OnFill(<<f.id, f.cum>>) ELSE UNCHANGED <<seen, counted>>
  /\ stream' = IF again THEN stream ELSE Tail(stream)
  /\ UNCHANGED <<book, cum, executed, lost, calls, answer>>

\* The reader reconnects; a REST snapshot of the account counts as activity.
Reconnect ==
  /\ LoseFrames
  /\ fresh' = TRUE
  /\ UNCHANGED <<tracked, status, filled, seen, counted>>

-----------------------------------------------------------------------------
\* Cancelling.

\* At most one DELETE per order waits at a time: the bound on repeated cancels.
Cancel(o) ==
  /\ o \in Working
  /\ CallsFor("cancel", o) = {}
  /\ Issue([op |-> "cancel", id |-> o])
  /\ UNCHANGED <<book, cum, executed, stream, lost, answer, omsVars>>

\* cancel_order swallows every error and changes nothing locally.
CancelReturns ==
  /\ Answered("cancel")
  /\ calls' = Tail(calls) /\ answer' = Pending
  /\ UNCHANGED <<book, cum, executed, stream, lost, omsVars>>

\* _mass_cancel_venue_orders, one at a time (a bound).
MassCancel ==
  /\ \A i \in DOMAIN calls : calls[i].op # "sweep"
  /\ Issue([op |-> "sweep"])
  /\ UNCHANGED <<book, cum, executed, stream, lost, answer, omsVars>>

\* Whether or not the venue obeyed, the working children become CANCELLED.
MarkWorkingCancelled ==
  /\ Answered("sweep")
  /\ status' = [o \in Orders |-> IF o \in Working THEN "CANCELLED" ELSE status[o]]
  /\ calls' = Tail(calls) /\ answer' = Pending
  /\ UNCHANGED <<book, cum, executed, stream, lost, tracked, filled, seen, counted, fresh>>

-----------------------------------------------------------------------------
VenueActs == ExchangeStep /\ UNCHANGED omsVars

Next ==
  \/ VenueActs
  \/ \E o \in Orders : SubmitGated(o) \/ SubmitChild(o) \/ PlacedElsewhere(o) \/ Cancel(o)
  \/ SubmitReturns \/ SubmitRaises \/ CancelReturns
  \/ MassCancel \/ MarkWorkingCancelled
  \/ \E again \in BOOLEAN : HandleFrame(again)
  \/ Reconnect

Spec == Init /\ [][Next]_vars

-----------------------------------------------------------------------------
\* A trade reaches positions, risk and performance at most once, however often
\* its frame is delivered (the dedup of on_fill).
CountedOnce == \A t \in Trade : counted[t] <= 1

\* The quantity believed filled is never more than the venue has executed.
FilledNeverAhead == \A o \in Orders : filled[o] <= cum[o]

\* An order believed filled or expired is so at the venue: nothing on the submit,
\* cancel or sweep path invents either outcome.
OutcomeIsVenues ==
  \A o \in Orders : /\ status[o] = "FILLED" => book[o] = "FILLED"
                    /\ status[o] = "EXPIRED" => book[o] = "EXPIRED"

\* Every trade is on its way, was let through, or went down with a socket.
NoFillForgotten ==
  \A t \in executed : counted[t] > 0 \/ t \in TradesIn(stream) \/ t \in lost

\* Once submit_child has returned, a terminal status is final, whatever late or
\* repeated frames and sweeps still arrive.
FinalOnceSubmitted ==
  [][\A o \in Orders :
       status[o] \in TerminalStatus /\ o \in tracked /\ ~Submitting(o) => status'[o] = status[o]]_vars

\* The books see fills as FillFeed promises: only trades the venue made, once each.
Feed == INSTANCE FillFeed WITH Trades <- Trade, made <- executed, through <- counted

ImplementsFillFeed == Feed!Spec

=============================================================================
