------------------------------ MODULE Exchange ------------------------------
(***************************************************************************)
(* The trading venue as the backend sees it: an order book, a REST channel *)
(* that carries one call at a time, and the user-data WebSocket that       *)
(* reports every change of an order in the order it happened.              *)
(*                                                                         *)
(* The venue is not part of the repository.  It is modelled from how       *)
(* gateways/binance uses it: rest_client.py holds a lock for the whole of  *)
(* a call, so a later call waits for an earlier one to return; any call    *)
(* may fail before or after the venue acted on it; the WebSocket may be    *)
(* reconnected, and the frames sent meanwhile are never seen.              *)
(***************************************************************************)
EXTENDS Naturals, Sequences, OrderStatus

CONSTANTS
  Orders,   \* client order ids
  MaxQty,   \* quantity of every order, in lots
  MaxCalls, \* REST calls outstanding at most when a caller issues one (a bound)
  MaxFrames \* frames in flight at most when the venue sends one (a bound)

ASSUME ExchangeAssumption ==
  /\ MaxQty \in Nat \ {0}
  /\ MaxCalls \in Nat \ {0}
  /\ MaxFrames \in Nat \ {0}

VARIABLES
  book,      \* book[o]: the venue's status of order o
  cum,       \* cum[o]: lots of o executed so far
  executed,  \* the trades the venue has made, each identified by <<o, cum after it>>
  stream,    \* user-data frames sent and not yet handled, oldest first
  lost,      \* trades reported only in frames that a reconnect dropped
  calls,     \* REST calls in order of issue; the first one holds the gate
  answer     \* the venue's answer to the first call, Pending until it has one

exchangeVars == <<book, cum, executed, stream, lost, calls, answer>>

Trade == Orders \X (1..MaxQty)

\* An ORDER_TRADE_UPDATE: the order's status and cumulative quantity, and the
\* lots of the execution that caused it (0 when none did).
Frame == {f \in [id: Orders, status: VenueStatus, cum: 0..MaxQty, last: 0..MaxQty] :
            f.last <= f.cum}

\* place: POST /order            cancel: DELETE /order by the engine
\* orphan: DELETE /order by the order reconciler
\* sweep: openOrders + DELETE /allOpenOrders, one call here
\* list: GET /openOrders         query: GET /order
Call == [op: {"place", "cancel", "orphan", "query"}, id: Orders]
        \union [op: {"sweep", "list"}]

\* `open` answers a list, `status` and `cum` answer a query.
Answer == [kind: {"pending", "ok", "error"}, open: SUBSET Orders,
           status: VenueStatus, cum: 0..MaxQty]

Bare(kind)     == [kind |-> kind, open |-> {}, status |-> "none", cum |-> 0]
Pending        == Bare("pending")
Ok             == Bare("ok")
Error          == Bare("error")
Listing(ids)   == [kind |-> "ok", open |-> ids, status |-> "none", cum |-> 0]
Row(st, total) == [kind |-> "ok", open |-> {}, status |-> st, cum |-> total]

OpenStatus == {"NEW", "PARTIALLY_FILLED"}

OpenOrders == {o \in Orders : book[o] \in OpenStatus}

TradesIn(frames) ==
  {<<frames[i].id, frames[i].cum>> : i \in {j \in DOMAIN frames : frames[j].last > 0}}

TypeOKExchange ==
  /\ book \in [Orders -> VenueStatus]
  /\ cum \in [Orders -> 0..MaxQty]
  /\ executed \subseteq Trade
  /\ stream \in Seq(Frame)
  /\ lost \subseteq Trade
  /\ calls \in Seq(Call)
  /\ answer \in Answer

InitExchange ==
  /\ book = [o \in Orders |-> "none"]
  /\ cum = [o \in Orders |-> 0]
  /\ executed = {}
  /\ stream = <<>>
  /\ lost = {}
  /\ calls = <<>>
  /\ answer = Pending

-----------------------------------------------------------------------------
\* The book: every change is reported on the stream.

Report(o, status, total, last) ==
  /\ Len(stream) < MaxFrames
  /\ book' = [book EXCEPT ![o] = status]
  /\ cum' = [cum EXCEPT ![o] = total]
  /\ stream' = Append(stream, [id |-> o, status |-> status, cum |-> total, last |-> last])
  /\ executed' = IF last > 0 THEN executed \union {<<o, total>>} ELSE executed
  /\ UNCHANGED lost

Match(o, lots) ==
  /\ o \in OpenOrders
  /\ cum[o] + lots <= MaxQty
  /\ LET total == cum[o] + lots IN
       Report(o, IF total = MaxQty THEN "FILLED" ELSE "PARTIALLY_FILLED", total, lots)
  /\ UNCHANGED <<calls, answer>>

\* A post-only or immediate-or-cancel order that the venue ends by itself.
Expire(o) ==
  /\ o \in OpenOrders
  /\ Report(o, "EXPIRED", cum[o], 0)
  /\ UNCHANGED <<calls, answer>>

\* The socket is replaced: frames in flight on the old one are gone.
LoseFrames ==
  /\ stream # <<>>
  /\ stream' = <<>>
  /\ lost' = lost \union TradesIn(stream)
  /\ UNCHANGED <<book, cum, executed, calls, answer>>

-----------------------------------------------------------------------------
\* The REST channel.

Issue(call) ==
  /\ Len(calls) < MaxCalls
  /\ calls' = Append(calls, call)

\* The first call in the queue is an `op` the venue has not acted on.
AtVenue(op) ==
  /\ calls # <<>>
  /\ Head(calls).op = op
  /\ answer = Pending

ServePlace ==
  /\ AtVenue("place")
  /\ book[Head(calls).id] = "none"
  /\ Report(Head(calls).id, "NEW", 0, 0)
  /\ answer' = Ok
  /\ UNCHANGED calls

\* A DELETE of an order that is not open is answered -2011, which cancel_order ignores.
ServeCancel ==
  /\ AtVenue("cancel") \/ AtVenue("orphan")
  /\ LET o == Head(calls).id IN
       IF o \in OpenOrders
       THEN Report(o, "CANCELED", cum[o], 0)
       ELSE UNCHANGED <<book, cum, executed, stream, lost>>
  /\ answer' = Ok
  /\ UNCHANGED calls

\* A mass cancel takes the open orders one after the other.
ServeSweepOne(o) ==
  /\ AtVenue("sweep")
  /\ o \in OpenOrders
  /\ Report(o, "CANCELED", cum[o], 0)
  /\ UNCHANGED <<calls, answer>>

ServeSweepEnd ==
  /\ AtVenue("sweep")
  /\ OpenOrders = {}
  /\ answer' = Ok
  /\ UNCHANGED <<book, cum, executed, stream, lost, calls>>

ServeList ==
  /\ AtVenue("list")
  /\ answer' = Listing(OpenOrders)
  /\ UNCHANGED <<book, cum, executed, stream, lost, calls>>

ServeQuery ==
  /\ AtVenue("query")
  /\ answer' = Row(book[Head(calls).id], cum[Head(calls).id])
  /\ UNCHANGED <<book, cum, executed, stream, lost, calls>>

\* Refused, rate limited or timed out; an answer already on its way may be lost too.
CallFails ==
  /\ calls # <<>>
  /\ answer.kind # "error"
  /\ answer' = Error
  /\ UNCHANGED <<book, cum, executed, stream, lost, calls>>

\* The caller's continuation runs with the answer and frees the gate.
Answered(op) ==
  /\ calls # <<>>
  /\ Head(calls).op = op
  /\ answer.kind # "pending"

ExchangeStep ==
  \/ \E o \in Orders : Expire(o) \/ ServeSweepOne(o) \/ \E lots \in 1..MaxQty : Match(o, lots)
  \/ ServePlace \/ ServeCancel \/ ServeSweepEnd \/ ServeList \/ ServeQuery \/ CallFails
=============================================================================
