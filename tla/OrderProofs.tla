---------------------------- MODULE OrderProofs ----------------------------
(***************************************************************************)
(* Theorems about the order manager, for any set of orders, any order      *)
(* quantity and any bound on calls and frames: first by itself, then with  *)
(* the order reconciler at work beside it, whose REST rows, read between   *)
(* frames, and whose write-offs take back nothing of what holds without    *)
(* it.                                                                     *)
(***************************************************************************)
EXTENDS OrderReconciler, FiniteSetTheorems, TLAPS

\* A status, whatever the venue reports, and merging keeps it one.
LEMMA MapStatusType == \A raw : MapStatus(raw) \in Status
BY DEF MapStatus, Mapping, Status

LEMMA MergeType ==
  ASSUME NEW current \in Status, NEW incoming \in Status
  PROVE  MergeOrderStatus(current, incoming) \in Status
BY DEF MergeOrderStatus

\* merge_order_status never leaves a terminal status.
LEMMA MergeTerminal ==
  ASSUME NEW current \in TerminalStatus, NEW incoming
  PROVE  MergeOrderStatus(current, incoming) = current
BY DEF MergeOrderStatus

\* The first call names an order when its operation does.
LEMMA HeadId ==
  ASSUME TypeOK, calls # <<>>, Head(calls).op \in {"place", "cancel", "orphan", "query"}
  PROVE  Head(calls).id \in Orders
<1>1. Head(calls) \in Call
  BY DEF TypeOK, TypeOKExchange
<1>2. Head(calls) \notin [op: {"sweep", "list"}]
  OBVIOUS
<1> QED BY <1>1, <1>2 DEF Call

\* The trade a frame reports, if it reports one.
LEMMA FrameTrade ==
  ASSUME NEW f \in Frame, f.last > 0
  PROVE  <<f.id, f.cum>> \in Trade
BY ExchangeAssumption DEF Frame, Trade

LEMMA TradesInType ==
  ASSUME stream \in Seq(Frame)
  PROVE  TradesIn(stream) \subseteq Trade
BY FrameTrade DEF TradesIn

\* Reporting a change of the book keeps the venue's part of the state well typed.
LEMMA ReportType ==
  ASSUME TypeOK, NEW o \in Orders, NEW st \in VenueStatus,
         NEW total \in 0..MaxQty, NEW last \in 0..MaxQty, last <= total,
         Report(o, st, total, last)
  PROVE  /\ book' \in [Orders -> VenueStatus]
         /\ cum' \in [Orders -> 0..MaxQty]
         /\ executed' \subseteq Trade
         /\ stream' \in Seq(Frame)
         /\ lost' \subseteq Trade
<1> USE ExchangeAssumption DEF TypeOK, TypeOKExchange
<1> DEFINE f == [id |-> o, status |-> st, cum |-> total, last |-> last]
<1>1. f \in Frame
  BY DEF Frame
<1>2. stream' \in Seq(Frame)
  BY <1>1 DEF Report
<1>3. last > 0 => <<o, total>> \in Trade
  BY DEF Trade
<1>4. executed' \subseteq Trade
  BY <1>3 DEF Report
<1>5. book' \in [Orders -> VenueStatus] /\ cum' \in [Orders -> 0..MaxQty] /\ lost' \subseteq Trade
  BY DEF Report
<1> QED BY <1>2, <1>4, <1>5

-----------------------------------------------------------------------------
\* Type correctness.

LEMMA InitType == Init => TypeOK
<1> SUFFICES ASSUME Init PROVE TypeOK
  OBVIOUS
<1> USE ExchangeAssumption DEF Init, InitExchange
<1>1. answer \in Answer
  BY DEF Pending, Bare, Answer, VenueStatus
<1>2. /\ book \in [Orders -> VenueStatus]
      /\ cum \in [Orders -> 0..MaxQty]
      /\ status \in [Orders -> Status]
      /\ filled \in [Orders -> 0..MaxQty]
      /\ counted \in [Trade -> Nat]
  BY DEF VenueStatus, Status
<1>3. stream \in Seq(Frame) /\ calls \in Seq(Call)
  OBVIOUS
<1> QED BY <1>1, <1>2, <1>3 DEF TypeOK, TypeOKExchange

\* The answers the venue gives are well typed.
LEMMA AnswerType == ASSUME TypeOK
                    PROVE  /\ Pending \in Answer /\ Ok \in Answer /\ Error \in Answer
                           /\ Listing(OpenOrders) \in Answer
                           /\ \A o \in Orders : Row(book[o], cum[o]) \in Answer
BY ExchangeAssumption
   DEF Answer, Bare, Pending, Ok, Error, Listing, Row, OpenOrders, TypeOK, TypeOKExchange, VenueStatus

\* Popping or appending calls keeps the queue well typed.
LEMMA CallsType ==
  ASSUME TypeOK
  PROVE  /\ calls # <<>> => Tail(calls) \in Seq(Call)
         /\ \A o \in Orders : /\ Append(calls, [op |-> "place", id |-> o]) \in Seq(Call)
                              /\ Append(calls, [op |-> "cancel", id |-> o]) \in Seq(Call)
         /\ Append(calls, [op |-> "sweep"]) \in Seq(Call)
<1>1. /\ \A o \in Orders : [op |-> "place", id |-> o] \in Call /\ [op |-> "cancel", id |-> o] \in Call
      /\ [op |-> "sweep"] \in Call
  BY DEF Call
<1>2. calls \in Seq(Call)
  BY DEF TypeOK, TypeOKExchange
<1> QED BY <1>1, <1>2

\* The venue's own steps.
LEMMA ExchangeType == ASSUME TypeOK, ExchangeStep PROVE TypeOKExchange'
<1> USE ExchangeAssumption
<1>0. TypeOKExchange
  BY DEF TypeOK
<1>1. ASSUME NEW o \in Orders, Expire(o) PROVE TypeOKExchange'
  <2>1. cum[o] \in 0..MaxQty /\ "EXPIRED" \in VenueStatus /\ 0 \in 0..MaxQty /\ 0 <= cum[o]
    BY <1>0 DEF TypeOKExchange, VenueStatus
  <2> QED BY <1>0, <1>1, <2>1, ReportType DEF Expire, TypeOKExchange
<1>2. ASSUME NEW o \in Orders, ServeSweepOne(o) PROVE TypeOKExchange'
  <2>1. cum[o] \in 0..MaxQty /\ "CANCELED" \in VenueStatus /\ 0 \in 0..MaxQty /\ 0 <= cum[o]
    BY <1>0 DEF TypeOKExchange, VenueStatus
  <2> QED BY <1>0, <1>2, <2>1, ReportType DEF ServeSweepOne, TypeOKExchange
<1>3. ASSUME NEW o \in Orders, NEW lots \in 1..MaxQty, Match(o, lots) PROVE TypeOKExchange'
  <2> DEFINE total == cum[o] + lots
             st == IF total = MaxQty THEN "FILLED" ELSE "PARTIALLY_FILLED"
  <2>1. total \in 0..MaxQty /\ st \in VenueStatus /\ lots \in 0..MaxQty /\ lots <= total
    BY <1>0, <1>3 DEF TypeOKExchange, VenueStatus, Match
  <2>2. Report(o, st, total, lots)
    BY <1>3 DEF Match
  <2> HIDE DEF total, st
  <2> QED BY <1>0, <1>3, <2>1, <2>2, ReportType DEF Match, TypeOKExchange
<1>4. CASE ServePlace
  <2>1. Head(calls).id \in Orders
    BY <1>4, HeadId DEF ServePlace, AtVenue
  <2>2. "NEW" \in VenueStatus /\ 0 \in 0..MaxQty /\ 0 <= 0
    BY DEF VenueStatus
  <2> QED BY <1>0, <1>4, <2>1, <2>2, ReportType, AnswerType DEF ServePlace, TypeOKExchange
<1>5. CASE ServeCancel
  <2> DEFINE o == Head(calls).id
  <2>1. o \in Orders
    BY <1>5, HeadId DEF ServeCancel, AtVenue
  <2>2. cum[o] \in 0..MaxQty /\ "CANCELED" \in VenueStatus /\ 0 \in 0..MaxQty /\ 0 <= cum[o]
    BY <1>0, <2>1 DEF TypeOKExchange, VenueStatus
  <2>3. Report(o, "CANCELED", cum[o], 0) \/ UNCHANGED <<book, cum, executed, stream, lost>>
    BY <1>5 DEF ServeCancel
  <2>4. answer' \in Answer /\ calls' = calls
    BY <1>5, AnswerType DEF ServeCancel
  <2> HIDE DEF o
  <2> QED BY <1>0, <2>1, <2>2, <2>3, <2>4, ReportType DEF TypeOKExchange
<1>6. CASE ServeSweepEnd \/ ServeList \/ CallFails
  BY <1>0, <1>6, AnswerType DEF ServeSweepEnd, ServeList, CallFails, TypeOKExchange
<1>7. CASE ServeQuery
  <2>1. Head(calls).id \in Orders
    BY <1>7, HeadId DEF ServeQuery, AtVenue
  <2> QED BY <1>0, <1>7, <2>1, AnswerType DEF ServeQuery, TypeOKExchange
<1> QED BY <1>1, <1>2, <1>3, <1>4, <1>5, <1>6, <1>7 DEF ExchangeStep

\* Every step of the order manager.
LEMMA NextType == ASSUME TypeOK, [Next]_vars PROVE TypeOK'
<1> USE ExchangeAssumption
<1>0. TypeOKExchange
  BY DEF TypeOK
<1>1. CASE VenueActs
  BY <1>1, ExchangeType DEF VenueActs, omsVars, TypeOK
<1>2. ASSUME NEW o \in Orders, SubmitGated(o) PROVE TypeOK'
  BY <1>2 DEF SubmitGated, exchangeVars, TypeOK, TypeOKExchange, Status
<1>3. ASSUME NEW o \in Orders, SubmitChild(o) PROVE TypeOK'
  BY <1>3, CallsType DEF SubmitChild, Issue, TypeOK, TypeOKExchange
<1>4. ASSUME NEW o \in Orders, PlacedElsewhere(o) PROVE TypeOK'
  <2>1. "NEW" \in VenueStatus /\ 0 \in 0..MaxQty /\ 0 <= 0
    BY DEF VenueStatus
  <2> QED BY <1>4, <2>1, ReportType DEF PlacedElsewhere, omsVars, TypeOK, TypeOKExchange
<1>5. ASSUME NEW o \in Orders, Cancel(o) PROVE TypeOK'
  BY <1>5, CallsType DEF Cancel, Issue, omsVars, TypeOK, TypeOKExchange
<1>6. CASE SubmitReturns
  <2>1. Head(calls).id \in Orders
    BY <1>6, HeadId DEF SubmitReturns, Answered
  <2> QED BY <1>6, <2>1, CallsType, AnswerType, MapStatusType
          DEF SubmitReturns, Answered, StatusOnReturn, TypeOK, TypeOKExchange
<1>7. CASE SubmitRaises
  BY <1>7, CallsType, AnswerType DEF SubmitRaises, Answered, TypeOK, TypeOKExchange, Status
<1>8. CASE CancelReturns
  BY <1>8, CallsType, AnswerType DEF CancelReturns, Answered, omsVars, TypeOK, TypeOKExchange
<1>9. CASE MassCancel
  BY <1>9, CallsType DEF MassCancel, Issue, omsVars, TypeOK, TypeOKExchange
<1>10. CASE MarkWorkingCancelled
  BY <1>10, CallsType, AnswerType DEF MarkWorkingCancelled, Answered, TypeOK, TypeOKExchange, Status
<1>11. ASSUME NEW again \in BOOLEAN, HandleFrame(again) PROVE TypeOK'
  <2> DEFINE f == Head(stream)
             trade == <<f.id, f.cum>>
  <2>1. stream \in Seq(Frame) /\ stream # <<>>
    BY <1>0, <1>11 DEF TypeOKExchange, HandleFrame
  <2>2. f \in Frame
    BY <2>1
  <2>3. f.id \in Orders /\ f.cum \in 0..MaxQty /\ f.last \in 0..MaxQty
    BY <2>2 DEF Frame
  <2>4. Tail(stream) \in Seq(Frame)
    BY <2>1
  <2>5. OnOrderUpdate(f.id, MapStatus(f.status), f.cum)
    BY <1>11 DEF HandleFrame
  <2>6. status' \in [Orders -> Status]
    BY <2>3, <2>5, MapStatusType, MergeType DEF OnOrderUpdate, TypeOK
  <2>7. tracked' \subseteq Orders /\ filled' \in [Orders -> 0..MaxQty] /\ fresh' \in BOOLEAN
    BY <2>3, <2>5 DEF OnOrderUpdate, TypeOK
  <2>8. CASE f.last > 0
    <3>1. trade \in Trade
      BY <2>2, <2>8, FrameTrade
    <3>2. OnFill(trade)
      BY <1>11, <2>8 DEF HandleFrame
    <3>3. \A ids : \A kept \in Remember(ids) : kept \subseteq ids
      BY DEF Remember
    <3>4. seen' \subseteq Trade /\ counted' \in [Trade -> Nat]
      BY <3>1, <3>2, <3>3 DEF OnFill, TypeOK
    <3> QED BY <1>11, <2>1, <2>4, <2>6, <2>7, <3>4 DEF HandleFrame, TypeOK, TypeOKExchange
  <2>9. CASE ~(f.last > 0)
    BY <1>11, <2>1, <2>4, <2>6, <2>7, <2>9 DEF HandleFrame, TypeOK, TypeOKExchange
  <2> QED BY <2>8, <2>9
<1>12. CASE Reconnect
  BY <1>12, TradesInType DEF Reconnect, LoseFrames, TypeOK, TypeOKExchange
<1>13. CASE UNCHANGED vars
  BY <1>13 DEF vars, exchangeVars, omsVars, TypeOK, TypeOKExchange
<1> QED
  BY <1>1, <1>2, <1>3, <1>4, <1>5, <1>6, <1>7, <1>8, <1>9, <1>10, <1>11, <1>12, <1>13 DEF Next

\* Every variable keeps its type: statuses stay statuses, quantities stay within an
\* order's quantity, and only real trades are remembered and counted.
THEOREM TypeCorrect == Spec => []TypeOK
BY InitType, NextType, PTL DEF Spec

-----------------------------------------------------------------------------
\* The inductive invariant.

\* A frame on its way speaks of what the venue did: its quantity is a past total,
\* a final outcome it reports still stands, and its trade was made.
FramesTrue ==
  \A i \in DOMAIN stream :
    LET f == stream[i] IN
      /\ f.cum <= cum[f.id]
      /\ f.status \in {"FILLED", "EXPIRED"} => book[f.id] = f.status
      /\ f.last > 0 => <<f.id, f.cum>> \in executed

CountedMade == \A t \in Trade : counted[t] > 0 => t \in executed

\* An order the venue does not have has executed nothing.
UnplacedEmpty == \A o \in Orders : book[o] = "none" => cum[o] = 0

\* A trade that is remembered was let through.
SeenCounted == \A t \in seen : counted[t] > 0

\* A trade is named by a total its order has reached.
ExecutedPast == \A t \in executed : t[2] <= cum[t[1]]

IInv == ExecutedPast /\ FramesTrue /\ UnplacedEmpty /\ SeenCounted /\ FilledNeverAhead /\ OutcomeIsVenues /\ CountedMade /\ NoFillForgotten

LEMMA TradesInAppend ==
  ASSUME NEW s \in Seq(Frame), NEW f \in Frame
  PROVE  /\ TradesIn(s) \subseteq TradesIn(Append(s, f))
         /\ f.last > 0 => <<f.id, f.cum>> \in TradesIn(Append(s, f))
<1>1. ASSUME NEW t \in TradesIn(s) PROVE t \in TradesIn(Append(s, f))
  <2>1. PICK i \in DOMAIN s : s[i].last > 0 /\ t = <<s[i].id, s[i].cum>>
    BY <1>1 DEF TradesIn
  <2>2. i \in DOMAIN Append(s, f) /\ Append(s, f)[i] = s[i]
    BY <2>1
  <2> QED BY <2>1, <2>2 DEF TradesIn
<1>2. Len(s) + 1 \in DOMAIN Append(s, f) /\ Append(s, f)[Len(s) + 1] = f
  OBVIOUS
<1> QED BY <1>1, <1>2 DEF TradesIn

LEMMA TradesInTail ==
  ASSUME NEW s \in Seq(Frame), s # <<>>, NEW t \in TradesIn(s)
  PROVE  \/ Head(s).last > 0 /\ t = <<Head(s).id, Head(s).cum>>
         \/ t \in TradesIn(Tail(s))
<1>1. PICK i \in DOMAIN s : s[i].last > 0 /\ t = <<s[i].id, s[i].cum>>
  BY DEF TradesIn
<1>2. CASE i = 1
  BY <1>1, <1>2
<1>3. CASE i # 1
  <2>1. i - 1 \in DOMAIN Tail(s) /\ Tail(s)[i - 1] = s[i]
    BY <1>3
  <2> QED BY <1>1, <2>1 DEF TradesIn
<1> QED BY <1>2, <1>3

\* A report of an order that has no final outcome, with a total that only grows,
\* keeps the invariant.
LEMMA ReportInv ==
  ASSUME TypeOK, IInv, NEW o \in Orders, NEW st \in VenueStatus,
         NEW total \in 0..MaxQty, NEW last \in 0..MaxQty, last <= total,
         book[o] \notin {"FILLED", "EXPIRED"}, cum[o] <= total, st # "none",
         Report(o, st, total, last), UNCHANGED omsVars
  PROVE  IInv'
<1> USE ExchangeAssumption
<1> DEFINE f == [id |-> o, status |-> st, cum |-> total, last |-> last]
<1>1. f \in Frame
  BY DEF Frame
<1>2. stream \in Seq(Frame) /\ stream' = Append(stream, f)
  BY DEF TypeOK, TypeOKExchange, Report
<1>3. /\ \A p \in Orders : cum[p] <= cum'[p] /\ (p # o => book'[p] = book[p])
      /\ cum'[o] = total /\ book'[o] = st
      /\ \A p \in Orders : book[p] \in {"FILLED", "EXPIRED"} => book'[p] = book[p]
  BY DEF TypeOK, TypeOKExchange, Report
<1>4. executed \subseteq executed' /\ (last > 0 => <<o, total>> \in executed')
      /\ executed' \subseteq executed \union (IF last > 0 THEN {<<o, total>>} ELSE {})
  BY DEF Report
<1>5. FramesTrue'
  <2> SUFFICES ASSUME NEW i \in DOMAIN stream'
               PROVE  /\ stream'[i].cum <= cum'[stream'[i].id]
                      /\ stream'[i].status \in {"FILLED", "EXPIRED"} => book'[stream'[i].id] = stream'[i].status
                      /\ stream'[i].last > 0 => <<stream'[i].id, stream'[i].cum>> \in executed'
    BY DEF FramesTrue
  <2>1. CASE i \in DOMAIN stream
    <3>1. stream'[i] = stream[i] /\ stream[i] \in Frame
      BY <1>2, <2>1
    <3>2. stream[i].id \in Orders /\ stream[i].cum \in Nat
      BY <3>1 DEF Frame
    <3>3. cum[stream[i].id] \in Nat /\ cum'[stream[i].id] \in Nat
      BY <3>2, ReportType DEF TypeOK, TypeOKExchange
    <3> QED BY <1>3, <1>4, <2>1, <3>1, <3>2, <3>3 DEF IInv, FramesTrue
  <2>2. CASE i = Len(stream) + 1
    <3>1. stream'[i] = f
      BY <1>2, <2>2
    <3> QED BY <1>3, <1>4, <3>1
  <2>3. i \in DOMAIN stream \/ i = Len(stream) + 1
    <3>1. Len(Append(stream, f)) = Len(stream) + 1
      BY <1>2
    <3>2. DOMAIN stream = 1..Len(stream) /\ DOMAIN Append(stream, f) = 1..(Len(stream) + 1)
      BY <1>1, <1>2, <3>1
    <3> HIDE DEF f
    <3> QED BY <1>2, <3>2
  <2> QED BY <2>1, <2>2, <2>3
<1>6. FilledNeverAhead'
  <2>1. \A p \in Orders : filled[p] \in Nat /\ cum[p] \in Nat /\ cum'[p] \in Nat
    BY ReportType DEF TypeOK, TypeOKExchange
  <2> QED BY <1>3, <2>1 DEF IInv, FilledNeverAhead, omsVars
<1>7. OutcomeIsVenues'
  BY <1>3 DEF IInv, OutcomeIsVenues, omsVars
<1>8. CountedMade'
  BY <1>4 DEF IInv, CountedMade, omsVars
<1>9. NoFillForgotten'
  <2> SUFFICES ASSUME NEW t \in executed'
               PROVE  counted'[t] > 0 \/ t \in TradesIn(stream)' \/ t \in lost'
    BY DEF NoFillForgotten
  <2>1. lost' = lost /\ counted' = counted
    BY DEF Report, omsVars
  <2>2. TradesIn(stream)' = TradesIn(Append(stream, f))
    BY <1>2 DEF TradesIn
  <2> HIDE DEF f
  <2>3. CASE t \in executed
    BY <1>1, <1>2, <2>1, <2>2, <2>3, TradesInAppend DEF IInv, NoFillForgotten
  <2>4. CASE last > 0 /\ t = <<o, total>>
    BY <1>1, <1>2, <2>2, <2>4, TradesInAppend DEF f
  <2> QED BY <1>4, <2>3, <2>4
<1>10. UnplacedEmpty' /\ SeenCounted'
  BY <1>3 DEF IInv, UnplacedEmpty, SeenCounted, omsVars, Report, TypeOK, TypeOKExchange
<1>11. ExecutedPast'
  <2> SUFFICES ASSUME NEW t \in executed' PROVE t[2] <= cum'[t[1]]
    BY DEF ExecutedPast
  <2>1. CASE t \in executed
    <3>1. t[1] \in Orders /\ t[2] \in Nat
      BY <2>1 DEF TypeOK, TypeOKExchange, Trade
    <3>2. cum[t[1]] \in Nat /\ cum'[t[1]] \in Nat
      BY <3>1, ReportType DEF TypeOK, TypeOKExchange
    <3> QED BY <1>3, <2>1, <3>1, <3>2 DEF IInv, ExecutedPast
  <2>2. CASE t = <<o, total>>
    BY <1>3, <2>2
  <2> QED BY <1>4, <2>1, <2>2
<1> QED BY <1>5, <1>6, <1>7, <1>8, <1>9, <1>10, <1>11 DEF IInv

LEMMA InitInv == Init => IInv
BY DEF Init, InitExchange, IInv, ExecutedPast, FramesTrue, UnplacedEmpty, SeenCounted, FilledNeverAhead, OutcomeIsVenues, CountedMade,
       NoFillForgotten, TradesIn

\* Steps that send no frame and touch neither fills nor the book, and give an order no
\* final outcome it did not have.
LEMMA StatusStepInv ==
  ASSUME TypeOK, IInv, UNCHANGED <<book, cum, executed, stream, lost, filled, seen, counted>>,
         \A o \in Orders : status'[o] \in {"FILLED", "EXPIRED"} => status[o] = status'[o]
  PROVE  IInv'
<1>1. FramesTrue'
  BY DEF IInv, FramesTrue
<1>2. OutcomeIsVenues'
  BY DEF IInv, OutcomeIsVenues
<1>3. NoFillForgotten'
  BY DEF IInv, NoFillForgotten, TradesIn
<1>4. FilledNeverAhead' /\ CountedMade' /\ UnplacedEmpty' /\ SeenCounted' /\ ExecutedPast'
  BY DEF IInv, FilledNeverAhead, CountedMade, UnplacedEmpty, SeenCounted, ExecutedPast
<1> QED BY <1>1, <1>2, <1>3, <1>4 DEF IInv

\* The venue's own steps.
LEMMA VenueInv == ASSUME TypeOK, IInv, VenueActs PROVE IInv'
<1> USE ExchangeAssumption
<1>0. /\ UNCHANGED omsVars
      /\ \A p \in Orders : cum[p] \in 0..MaxQty
  BY DEF VenueActs, TypeOK, TypeOKExchange
<1>1. ASSUME NEW o \in Orders, Expire(o) PROVE IInv'
  <2>1. "EXPIRED" \in VenueStatus /\ 0 \in 0..MaxQty /\ 0 <= cum[o] /\ cum[o] <= cum[o]
    BY <1>0 DEF VenueStatus
  <2>2. book[o] \notin {"FILLED", "EXPIRED"} /\ Report(o, "EXPIRED", cum[o], 0)
    BY <1>1 DEF Expire, OpenOrders, OpenStatus
  <2> QED BY <1>0, <2>1, <2>2, ReportInv
<1>2. ASSUME NEW o \in Orders, ServeSweepOne(o) PROVE IInv'
  <2>1. "CANCELED" \in VenueStatus /\ 0 \in 0..MaxQty /\ 0 <= cum[o] /\ cum[o] <= cum[o]
    BY <1>0 DEF VenueStatus
  <2>2. book[o] \notin {"FILLED", "EXPIRED"} /\ Report(o, "CANCELED", cum[o], 0)
    BY <1>2 DEF ServeSweepOne, OpenOrders, OpenStatus
  <2> QED BY <1>0, <2>1, <2>2, ReportInv
<1>3. ASSUME NEW o \in Orders, NEW lots \in 1..MaxQty, Match(o, lots) PROVE IInv'
  <2> DEFINE total == cum[o] + lots
             st == IF total = MaxQty THEN "FILLED" ELSE "PARTIALLY_FILLED"
  <2>1. /\ total \in 0..MaxQty /\ st \in VenueStatus /\ lots \in 0..MaxQty
        /\ lots <= total /\ cum[o] <= total /\ st # "none"
    BY <1>0, <1>3 DEF VenueStatus, Match
  <2>2. book[o] \notin {"FILLED", "EXPIRED"} /\ Report(o, st, total, lots)
    BY <1>3 DEF Match, OpenOrders, OpenStatus
  <2> HIDE DEF total, st
  <2> QED BY <1>0, <2>1, <2>2, ReportInv
<1>4. CASE ServePlace
  <2> DEFINE o == Head(calls).id
  <2>1. o \in Orders /\ book[o] = "none" /\ Report(o, "NEW", 0, 0)
    BY <1>4, HeadId DEF ServePlace, AtVenue
  <2>2. "NEW" \in VenueStatus /\ 0 \in 0..MaxQty /\ 0 <= 0
    BY DEF VenueStatus
  <2>3. cum[o] <= 0
    BY <2>1 DEF IInv, UnplacedEmpty
  <2> HIDE DEF o
  <2> QED BY <1>0, <2>1, <2>2, <2>3, ReportInv
<1>5. CASE ServeCancel
  <2> DEFINE o == Head(calls).id
  <2>1. o \in Orders
    BY <1>5, HeadId DEF ServeCancel, AtVenue
  <2>2. "CANCELED" \in VenueStatus /\ 0 \in 0..MaxQty /\ 0 <= cum[o] /\ cum[o] <= cum[o]
    BY <1>0, <2>1 DEF VenueStatus
  <2>3. CASE o \in OpenOrders
    <3>1. book[o] \notin {"FILLED", "EXPIRED"} /\ Report(o, "CANCELED", cum[o], 0)
      BY <1>5, <2>3 DEF ServeCancel, OpenOrders, OpenStatus
    <3> HIDE DEF o
    <3> QED BY <1>0, <2>1, <2>2, <3>1, ReportInv
  <2>4. CASE o \notin OpenOrders
    BY <1>0, <1>5, <2>4, StatusStepInv DEF ServeCancel, omsVars
  <2> QED BY <2>3, <2>4
<1>6. CASE ServeSweepEnd \/ ServeList \/ ServeQuery \/ CallFails
  BY <1>0, <1>6, StatusStepInv DEF ServeSweepEnd, ServeList, ServeQuery, CallFails, omsVars
<1> QED BY <1>1, <1>2, <1>3, <1>4, <1>5, <1>6 DEF VenueActs, ExchangeStep

-----------------------------------------------------------------------------
\* Handling a frame.

\* What merge_order_status returns is one of its arguments.
LEMMA MergeOneOf ==
  ASSUME NEW current, NEW incoming
  PROVE  MergeOrderStatus(current, incoming) \in {current, incoming}
BY DEF MergeOrderStatus

\* Only the venue's own final outcomes are mapped to one.
LEMMA MapOutcome ==
  ASSUME NEW raw \in VenueStatus, MapStatus(raw) \in {"FILLED", "EXPIRED"}
  PROVE  raw = MapStatus(raw)
BY DEF MapStatus, Mapping, VenueStatus

\* on_fill never takes a count back.
LEMMA OnFillCounts ==
  ASSUME counted \in [Trade -> Nat], NEW trade \in Trade, OnFill(trade), NEW t \in Trade
  PROVE  counted'[t] >= counted[t]
<1>1. CASE trade \in seen
  BY <1>1 DEF OnFill
<1>2. CASE trade \notin seen
  <2>1. counted' = [counted EXCEPT ![trade] = @ + 1]
    BY <1>2 DEF OnFill
  <2> QED BY <2>1
<1> QED BY <1>1, <1>2

\* on_order_update and on_fill on the first frame, whether or not it stays in flight.
LEMMA FrameInv ==
  ASSUME TypeOK, IInv, NEW again \in BOOLEAN, HandleFrame(again)
  PROVE  IInv'
<1> DEFINE f == Head(stream)
           trade == <<f.id, f.cum>>
<1>1. stream \in Seq(Frame) /\ stream # <<>>
  BY DEF TypeOK, TypeOKExchange, HandleFrame
<1>2. f \in Frame /\ f = stream[1] /\ 1 \in DOMAIN stream
  BY <1>1
<1>3. /\ f.id \in Orders /\ f.cum \in 0..MaxQty /\ f.status \in VenueStatus
  BY <1>2 DEF Frame
<1>4. /\ f.cum <= cum[f.id]
      /\ f.status \in {"FILLED", "EXPIRED"} => book[f.id] = f.status
      /\ f.last > 0 => trade \in executed
  BY <1>2 DEF IInv, FramesTrue
<1>5. OnOrderUpdate(f.id, MapStatus(f.status), f.cum) /\ UNCHANGED <<book, cum, executed, lost>>
  BY DEF HandleFrame
<1>6. FramesTrue'
  <2>1. CASE again
    BY <1>5, <2>1 DEF HandleFrame, IInv, FramesTrue
  <2>2. CASE ~again
    <3>1. stream' = Tail(stream)
      BY <2>2 DEF HandleFrame
    <3>2. \A i \in DOMAIN stream' : i + 1 \in DOMAIN stream /\ stream'[i] = stream[i + 1]
      BY <1>1, <3>1
    <3> QED BY <1>5, <3>2 DEF IInv, FramesTrue
  <2> QED BY <2>1, <2>2
<1>7. FilledNeverAhead'
  BY <1>3, <1>4, <1>5 DEF OnOrderUpdate, IInv, FilledNeverAhead, TypeOK
<1>8. OutcomeIsVenues'
  <2> SUFFICES ASSUME NEW o \in Orders, status'[o] \in {"FILLED", "EXPIRED"}
               PROVE  book'[o] = status'[o]
    BY DEF OutcomeIsVenues
  <2>1. status'[o] = status[o] \/ (o = f.id /\ status'[o] = MapStatus(f.status))
    BY <1>3, <1>5, MergeOneOf DEF OnOrderUpdate, TypeOK
  <2>2. CASE status'[o] = status[o]
    BY <1>5, <2>2 DEF IInv, OutcomeIsVenues
  <2>3. CASE o = f.id /\ status'[o] = MapStatus(f.status)
    BY <1>3, <1>4, <1>5, <2>3, MapOutcome
  <2> QED BY <2>1, <2>2, <2>3
<1>9. CountedMade' /\ UnplacedEmpty'
  <2>1. CASE f.last > 0
    BY <1>4, <1>5, <2>1 DEF HandleFrame, OnFill, IInv, CountedMade, UnplacedEmpty, TypeOK
  <2>2. CASE ~(f.last > 0)
    BY <1>5, <2>2 DEF HandleFrame, IInv, CountedMade, UnplacedEmpty
  <2> QED BY <2>1, <2>2
<1>10. NoFillForgotten'
  <2> SUFFICES ASSUME NEW t \in executed
               PROVE  counted'[t] > 0 \/ t \in TradesIn(stream)' \/ t \in lost'
    BY <1>5 DEF NoFillForgotten
  <2>1. t \in Trade /\ counted[t] \in Nat /\ counted'[t] \in Nat
    BY NextType DEF TypeOK, TypeOKExchange, Next
  <2>2. counted'[t] >= counted[t]
    <3>1. CASE f.last > 0
      BY <1>2, <2>1, <3>1, FrameTrade, OnFillCounts DEF HandleFrame, TypeOK
    <3>2. CASE ~(f.last > 0)
      BY <2>1, <3>2 DEF HandleFrame
    <3> QED BY <3>1, <3>2
  <2>3. CASE counted[t] > 0 \/ t \in lost
    BY <1>5, <2>1, <2>2, <2>3
  <2>4. CASE t \in TradesIn(stream)
    <3>1. CASE again
      BY <2>4, <3>1 DEF HandleFrame, TradesIn
    <3>2. CASE ~again
      <4>1. (f.last > 0 /\ t = trade) \/ t \in TradesIn(Tail(stream))
        BY <1>1, <2>4, TradesInTail
      <4>2. CASE t \in TradesIn(Tail(stream))
        BY <3>2, <4>2 DEF HandleFrame, TradesIn
      <4>3. CASE f.last > 0 /\ t = trade
        <5>1. OnFill(t)
          BY <4>3 DEF HandleFrame
        <5>2. CASE t \in seen
          BY <5>1, <5>2, <2>1 DEF OnFill, IInv, SeenCounted
        <5>3. CASE t \notin seen
          BY <5>1, <5>3, <2>1 DEF OnFill, TypeOK
        <5> QED BY <5>2, <5>3
      <4> QED BY <4>1, <4>2, <4>3
    <3> QED BY <3>1, <3>2
  <2> QED BY <2>3, <2>4 DEF IInv, NoFillForgotten
<1>11. SeenCounted'
  <2>1. CASE f.last > 0
    <3>1. OnFill(trade) /\ trade \in Trade
      BY <1>2, <2>1, FrameTrade DEF HandleFrame
    <3>2. \A ids : \A kept \in Remember(ids) : kept \subseteq ids
      BY DEF Remember
    <3>3. seen' \subseteq seen \union {trade}
      BY <3>1, <3>2 DEF OnFill
    <3>4. \A t \in Trade : counted[t] \in Nat
      BY DEF TypeOK
    <3>5. seen \subseteq Trade /\ counted \in [Trade -> Nat] /\ SeenCounted
      BY DEF TypeOK, IInv
    <3> HIDE DEF trade
    <3>6. CASE trade \in seen
      BY <3>1, <3>5, <3>6 DEF OnFill, SeenCounted
    <3>7. CASE trade \notin seen
      <4>1. counted' = [counted EXCEPT ![trade] = @ + 1]
        BY <3>1, <3>7 DEF OnFill
      <4> QED BY <3>1, <3>3, <3>5, <4>1 DEF SeenCounted
    <3> QED BY <3>6, <3>7
  <2>2. CASE ~(f.last > 0)
    BY <2>2 DEF HandleFrame, IInv, SeenCounted
  <2> QED BY <2>1, <2>2
<1>12. ExecutedPast'
  BY <1>5 DEF IInv, ExecutedPast
<1> QED BY <1>6, <1>7, <1>8, <1>9, <1>10, <1>11, <1>12 DEF IInv

\* Every step of the order manager.
LEMMA NextInv == ASSUME TypeOK, IInv, [Next]_vars PROVE IInv'
<1>1. CASE VenueActs
  BY <1>1, VenueInv
<1>2. ASSUME NEW o \in Orders, SubmitGated(o) PROVE IInv'
  BY <1>2, StatusStepInv DEF SubmitGated, exchangeVars, TypeOK
<1>3. ASSUME NEW o \in Orders, SubmitChild(o) PROVE IInv'
  BY <1>3, StatusStepInv DEF SubmitChild
<1>4. ASSUME NEW o \in Orders, PlacedElsewhere(o) PROVE IInv'
  <2>1. "NEW" \in VenueStatus /\ 0 \in 0..MaxQty /\ 0 <= 0
    BY ExchangeAssumption DEF VenueStatus
  <2>2. book[o] = "none" /\ cum[o] <= 0
    BY <1>4 DEF PlacedElsewhere, Unused, IInv, UnplacedEmpty
  <2> QED BY <1>4, <2>1, <2>2, ReportInv DEF PlacedElsewhere
<1>5. ASSUME NEW o \in Orders, Cancel(o) PROVE IInv'
  BY <1>5, StatusStepInv DEF Cancel, omsVars
<1>6. CASE SubmitReturns
  <2>1. MapStatus("NEW") = "ACK"
    BY DEF MapStatus, Mapping
  <2> QED BY <1>6, <2>1, StatusStepInv DEF SubmitReturns, StatusOnReturn, TypeOK
<1>7. CASE SubmitRaises
  BY <1>7, StatusStepInv DEF SubmitRaises, TypeOK
<1>8. CASE CancelReturns
  BY <1>8, StatusStepInv DEF CancelReturns, omsVars
<1>9. CASE MassCancel
  BY <1>9, StatusStepInv DEF MassCancel, omsVars
<1>10. CASE MarkWorkingCancelled
  BY <1>10, StatusStepInv DEF MarkWorkingCancelled
<1>11. ASSUME NEW again \in BOOLEAN, HandleFrame(again) PROVE IInv'
  BY <1>11, FrameInv
<1>12. CASE Reconnect
  BY <1>12 DEF Reconnect, LoseFrames, IInv, FramesTrue, UnplacedEmpty, SeenCounted,
               ExecutedPast, FilledNeverAhead, OutcomeIsVenues, CountedMade, NoFillForgotten
<1>13. CASE UNCHANGED vars
  BY <1>13, StatusStepInv DEF vars, exchangeVars, omsVars
<1> QED
  BY <1>1, <1>2, <1>3, <1>4, <1>5, <1>6, <1>7, <1>8, <1>9, <1>10, <1>11, <1>12, <1>13 DEF Next

THEOREM Invariant == Spec => [](TypeOK /\ IInv)
<1>1. Init => TypeOK /\ IInv
  BY InitType, InitInv
<1>2. TypeOK /\ IInv /\ [Next]_vars => (TypeOK /\ IInv)'
  BY NextType, NextInv
<1> QED BY <1>1, <1>2, PTL DEF Spec

\* The filled quantity the engine holds never runs ahead of the venue's.
THEOREM FilledSafe == Spec => []FilledNeverAhead
<1>1. IInv => FilledNeverAhead
  BY DEF IInv
<1> QED BY <1>1, Invariant, PTL

\* No path of the order manager invents a fill or an expiry.
THEOREM OutcomeSafe == Spec => []OutcomeIsVenues
<1>1. IInv => OutcomeIsVenues
  BY DEF IInv
<1> QED BY <1>1, Invariant, PTL

\* No trade disappears except with a socket.
THEOREM NothingForgotten == Spec => []NoFillForgotten
<1>1. IInv => NoFillForgotten
  BY DEF IInv
<1> QED BY <1>1, Invariant, PTL

-----------------------------------------------------------------------------
\* Terminal statuses.

\* A response that puts a child back to work comes while its submission is pending.
LEMMA HeadSubmits ==
  ASSUME TypeOK, Answered("place")
  PROVE  Submitting(Head(calls).id)
<1>1. calls \in Seq(Call) /\ calls # <<>> /\ Head(calls).op = "place"
  BY DEF Answered, TypeOK, TypeOKExchange
<1>2. 1 \in DOMAIN calls /\ calls[1] = Head(calls)
  BY <1>1
<1> QED BY <1>1, <1>2 DEF Submitting, CallsFor

\* No step moves a terminal status once submit_child has returned.
LEMMA StepStays ==
  ASSUME TypeOK, [Next]_vars
  PROVE  \A p \in Orders :
           status[p] \in TerminalStatus /\ p \in tracked /\ ~Submitting(p) => status'[p] = status[p]
<1> SUFFICES ASSUME NEW p \in Orders, status[p] \in TerminalStatus, p \in tracked, ~Submitting(p)
             PROVE  status'[p] = status[p]
  OBVIOUS
<1>0. status \in [Orders -> Status]
  BY DEF TypeOK
<1>1. CASE VenueActs
  BY <1>1 DEF VenueActs, omsVars
<1>2. ASSUME NEW o \in Orders, SubmitGated(o) PROVE status'[p] = status[p]
  BY <1>0, <1>2 DEF SubmitGated, Unused
<1>3. ASSUME NEW o \in Orders, SubmitChild(o) \/ PlacedElsewhere(o) \/ Cancel(o)
      PROVE  status'[p] = status[p]
  BY <1>3 DEF SubmitChild, PlacedElsewhere, Cancel, omsVars
<1>4. CASE SubmitReturns \/ SubmitRaises
  <2>1. Answered("place")
    BY <1>4 DEF SubmitReturns, SubmitRaises
  <2>2. Head(calls).id # p
    BY <2>1, HeadSubmits
  <2> QED BY <1>0, <1>4, <2>2 DEF SubmitReturns, SubmitRaises
<1>5. CASE CancelReturns \/ MassCancel \/ Reconnect
  BY <1>5 DEF CancelReturns, MassCancel, Reconnect, omsVars
<1>6. CASE MarkWorkingCancelled
  BY <1>6 DEF MarkWorkingCancelled, Working, WorkingStatus, TerminalStatus
<1>7. ASSUME NEW again \in BOOLEAN, HandleFrame(again) PROVE status'[p] = status[p]
  BY <1>0, <1>7, MergeTerminal DEF HandleFrame, OnOrderUpdate
<1>8. CASE UNCHANGED vars
  BY <1>8 DEF vars, omsVars
<1> QED BY <1>1, <1>2, <1>3, <1>4, <1>5, <1>6, <1>7, <1>8 DEF Next

\* Nothing that happens after submit_child has returned moves a terminal status.
THEOREM TerminalIsFinal == Spec => FinalOnceSubmitted
<1> DEFINE Stays == \A o \in Orders :
             status[o] \in TerminalStatus /\ o \in tracked /\ ~Submitting(o) => status'[o] = status[o]
<1>1. TypeOK /\ [Next]_vars => [Stays]_vars
  BY StepStays
<1> QED BY <1>1, TypeCorrect, PTL DEF Spec, FinalOnceSubmitted

-----------------------------------------------------------------------------
\* Exactly-once fills, when the dedup memory holds every trade there can be.

MemoryHolds == IsFiniteSet(Orders) /\ MaxSeen >= Cardinality(Trade)

\* Remembered and let through are then the same thing.
SeenExact == \A t \in Trade : counted[t] = IF t \in seen THEN 1 ELSE 0

LEMMA TradeFinite == ASSUME MemoryHolds PROVE IsFiniteSet(Trade) /\ Cardinality(Trade) \in Nat
<1>1. IsFiniteSet(1..MaxQty)
  BY ExchangeAssumption, FS_Interval
<1>2. IsFiniteSet(Trade)
  BY <1>1, FS_Product DEF MemoryHolds, Trade
<1> QED BY <1>2, FS_CardinalityType

\* Nothing is pruned.
LEMMA RemembersAll ==
  ASSUME MemoryHolds, NEW ids \in SUBSET Trade
  PROVE  Remember(ids) = {ids}
<1>1. Cardinality(ids) \in Nat /\ Cardinality(ids) <= Cardinality(Trade)
  BY TradeFinite, FS_Subset, FS_CardinalityType
<1>2. ~(Cardinality(ids) > MaxSeen)
  BY <1>1, TradeFinite, OrderManagerAssumption DEF MemoryHolds
<1> QED BY <1>2 DEF Remember

LEMMA SeenExactStep ==
  ASSUME MemoryHolds, TypeOK, SeenExact, [Next]_vars
  PROVE  SeenExact'
<1>1. ASSUME NEW again \in BOOLEAN, HandleFrame(again) PROVE SeenExact'
  <2> DEFINE f == Head(stream)
             trade == <<f.id, f.cum>>
  <2>1. CASE f.last > 0
    <3>1. f \in Frame /\ trade \in Trade /\ OnFill(trade)
      BY <1>1, <2>1, FrameTrade DEF HandleFrame, TypeOK, TypeOKExchange
    <3>2. seen \subseteq Trade /\ counted \in [Trade -> Nat]
      BY DEF TypeOK
    <3> HIDE DEF trade, f
    <3>3. CASE trade \in seen
      BY <3>1, <3>3 DEF OnFill, SeenExact
    <3>4. CASE trade \notin seen
      <4>1. seen' = seen \union {trade}
        BY <3>1, <3>2, <3>4, RemembersAll DEF OnFill
      <4>2. counted' = [counted EXCEPT ![trade] = @ + 1] /\ counted[trade] = 0
        BY <3>1, <3>4 DEF OnFill, SeenExact
      <4> QED BY <3>1, <3>2, <4>1, <4>2 DEF SeenExact
    <3> QED BY <3>3, <3>4
  <2>2. CASE ~(f.last > 0)
    BY <1>1, <2>2 DEF HandleFrame, SeenExact
  <2> QED BY <2>1, <2>2
<1>2. CASE \A again \in BOOLEAN : ~HandleFrame(again)
  <2>1. UNCHANGED <<seen, counted>>
    BY <1>2 DEF Next, VenueActs, SubmitGated, SubmitChild, PlacedElsewhere, Cancel, SubmitReturns,
       SubmitRaises, CancelReturns, MassCancel, MarkWorkingCancelled, Reconnect, vars, omsVars
  <2> QED BY <2>1 DEF SeenExact
<1> QED BY <1>1, <1>2

\* However often frames are repeated, each trade reaches the books at most once.
THEOREM OnceOnly == ASSUME MemoryHolds PROVE Spec => []CountedOnce
<1>1. Init => SeenExact
  BY DEF Init, SeenExact
<1>2. TypeOK /\ SeenExact /\ [Next]_vars => SeenExact'
  BY SeenExactStep
<1>3. SeenExact => CountedOnce
  BY DEF SeenExact, CountedOnce
<1> QED BY <1>1, <1>2, <1>3, TypeCorrect, PTL DEF Spec

-----------------------------------------------------------------------------
\* The order manager's fills implement FillFeed.

\* A report makes at most one trade, and one the venue had not made before.
LEMMA ReportMakes ==
  ASSUME TypeOK, IInv, NEW o \in Orders, NEW st, NEW total \in 0..MaxQty, NEW last \in 0..MaxQty,
         last <= total, last > 0 => cum[o] < total, Report(o, st, total, last), UNCHANGED counted
  PROVE  [Feed!Next]_<<executed, counted>>
<1>1. CASE last > 0
  <2>1. <<o, total>> \in Trade
    BY <1>1 DEF Trade
  <2>2. <<o, total>> \notin executed
    BY <1>1 DEF IInv, ExecutedPast, TypeOK, TypeOKExchange
  <2>3. Feed!Make(<<o, total>>)
    BY <1>1, <2>2 DEF Feed!Make, Report
  <2> QED BY <2>1, <2>3 DEF Feed!Next
<1>2. CASE ~(last > 0)
  BY <1>2 DEF Report
<1> QED BY <1>1, <1>2

\* Handling a frame lets its trade through, once, or stutters.
LEMMA FrameFeeds ==
  ASSUME TypeOK, IInv, SeenExact, NEW again \in BOOLEAN, HandleFrame(again)
  PROVE  [Feed!Next]_<<executed, counted>>
<1> DEFINE f == Head(stream)
           trade == <<f.id, f.cum>>
<1>1. stream \in Seq(Frame) /\ stream # <<>> /\ executed' = executed
  BY DEF TypeOK, TypeOKExchange, HandleFrame
<1>2. f \in Frame /\ f = stream[1] /\ 1 \in DOMAIN stream
  BY <1>1
<1>3. CASE f.last > 0
  <2>1. trade \in Trade /\ trade \in executed /\ OnFill(trade)
    BY <1>2, <1>3, FrameTrade DEF HandleFrame, IInv, FramesTrue
  <2> HIDE DEF trade, f
  <2>2. CASE trade \in seen
    BY <1>1, <2>1, <2>2 DEF OnFill
  <2>3. CASE trade \notin seen
    <3>1. counted[trade] = 0
      BY <2>1, <2>3 DEF SeenExact
    <3>2. counted' = [counted EXCEPT ![trade] = 1]
      BY <2>1, <2>3, <3>1 DEF OnFill
    <3> QED BY <1>1, <2>1, <3>1, <3>2 DEF Feed!LetThrough, Feed!Next
  <2> QED BY <2>2, <2>3
<1>4. CASE ~(f.last > 0)
  BY <1>1, <1>4 DEF HandleFrame
<1> QED BY <1>3, <1>4

LEMMA FeedStep ==
  ASSUME TypeOK, IInv, SeenExact, [Next]_vars
  PROVE  [Feed!Next]_<<executed, counted>>
<1> USE ExchangeAssumption
<1>0. \A o \in Orders : cum[o] \in 0..MaxQty
  BY DEF TypeOK, TypeOKExchange
<1>1. ASSUME NEW o \in Orders, Expire(o) \/ ServeSweepOne(o), UNCHANGED omsVars
      PROVE  [Feed!Next]_<<executed, counted>>
  <2>1. PICK st : Report(o, st, cum[o], 0)
    BY <1>1 DEF Expire, ServeSweepOne
  <2> QED BY <1>0, <1>1, <2>1, ReportMakes DEF omsVars
<1>2. ASSUME NEW o \in Orders, NEW lots \in 1..MaxQty, Match(o, lots), UNCHANGED omsVars
      PROVE  [Feed!Next]_<<executed, counted>>
  <2> DEFINE total == cum[o] + lots
  <2>1. total \in 0..MaxQty /\ lots \in 0..MaxQty /\ lots <= total /\ cum[o] < total
    BY <1>0, <1>2 DEF Match
  <2>2. PICK st : Report(o, st, total, lots)
    BY <1>2 DEF Match
  <2> HIDE DEF total
  <2> QED BY <1>2, <2>1, <2>2, ReportMakes DEF omsVars
<1>3. CASE (ServePlace \/ ServeCancel) /\ UNCHANGED omsVars
  <2>1. UNCHANGED <<executed, counted>>
    BY <1>3 DEF ServePlace, ServeCancel, Report, omsVars
  <2> QED BY <2>1
<1>4. CASE (ServeSweepEnd \/ ServeList \/ ServeQuery \/ CallFails) /\ UNCHANGED omsVars
  BY <1>4 DEF ServeSweepEnd, ServeList, ServeQuery, CallFails, omsVars
<1>5. ASSUME NEW o \in Orders,
             SubmitGated(o) \/ SubmitChild(o) \/ PlacedElsewhere(o) \/ Cancel(o)
      PROVE  [Feed!Next]_<<executed, counted>>
  <2>1. UNCHANGED <<executed, counted>>
    BY <1>5 DEF SubmitGated, SubmitChild, PlacedElsewhere, Cancel, Report, exchangeVars, omsVars
  <2> QED BY <2>1
<1>6. CASE SubmitReturns \/ SubmitRaises \/ CancelReturns \/ MassCancel \/ MarkWorkingCancelled
           \/ Reconnect \/ UNCHANGED vars
  BY <1>6 DEF SubmitReturns, SubmitRaises, CancelReturns, MassCancel, MarkWorkingCancelled,
              Reconnect, LoseFrames, vars, exchangeVars, omsVars
<1>7. ASSUME NEW again \in BOOLEAN, HandleFrame(again)
      PROVE  [Feed!Next]_<<executed, counted>>
  BY <1>7, FrameFeeds
<1> QED BY <1>1, <1>2, <1>3, <1>4, <1>5, <1>6, <1>7 DEF Next, VenueActs, ExchangeStep

\* With a memory that never prunes, the books see what FillFeed promises: trades the
\* venue made, each at most once.
THEOREM FeedImplemented == ASSUME MemoryHolds PROVE Spec => ImplementsFillFeed
<1>1. Init => Feed!Init /\ SeenExact
  BY DEF Init, InitExchange, Feed!Init, SeenExact
<1>2. TypeOK /\ SeenExact /\ [Next]_vars => SeenExact'
  BY SeenExactStep
<1>3. TypeOK /\ IInv /\ SeenExact /\ [Next]_vars => [Feed!Next]_<<executed, counted>>
  BY FeedStep
<1> QED BY <1>1, <1>2, <1>3, Invariant, PTL DEF Spec, Feed!Spec, ImplementsFillFeed

-----------------------------------------------------------------------------
(* The order reconciler beside it. *)

\* A row that answers a query is not ahead of the venue, and a final outcome in it stands.
RowTrue ==
  /\ calls = <<>> => answer = Pending
  /\ calls # <<>> /\ Head(calls).op = "query" /\ answer.kind = "ok" /\ answer.status # "none" =>
       /\ answer.cum <= cum[Head(calls).id]
       /\ answer.status \in {"FILLED", "EXPIRED"} => book[Head(calls).id] = answer.status

RInv == TypeOKReconciler /\ IInv /\ RowTrue

-----------------------------------------------------------------------------
\* What the venue has executed only grows, and a final outcome is final.
LEMMA BookMoves ==
  ASSUME TypeOK, IInv, [Next]_vars
  PROVE  \A p \in Orders : /\ cum[p] <= cum'[p]
                           /\ book[p] \in {"FILLED", "EXPIRED"} => book'[p] = book[p]
<1> USE ExchangeAssumption
<1>0. /\ \A p \in Orders : cum[p] \in 0..MaxQty
      /\ cum \in [Orders -> 0..MaxQty] /\ book \in [Orders -> VenueStatus]
  BY DEF TypeOK, TypeOKExchange
<1> DEFINE Moves == \A p \in Orders : /\ cum[p] <= cum'[p]
                                      /\ book[p] \in {"FILLED", "EXPIRED"} => book'[p] = book[p]
<1>1. ASSUME NEW o \in Orders, NEW st, NEW total \in 0..MaxQty, NEW last, Report(o, st, total, last),
             cum[o] <= total, book[o] \notin {"FILLED", "EXPIRED"}
      PROVE  Moves
  BY <1>0, <1>1 DEF Report
<1>2. book' = book /\ cum' = cum => Moves
  BY <1>0
<1> SUFFICES Moves
  OBVIOUS
<1> HIDE DEF Moves
<1>3. ASSUME NEW o \in Orders, Expire(o) \/ ServeSweepOne(o) PROVE Moves
  <2>1. \E st : Report(o, st, cum[o], 0)
    BY <1>3 DEF Expire, ServeSweepOne
  <2>2. book[o] \notin {"FILLED", "EXPIRED"} /\ cum[o] <= cum[o]
    BY <1>0, <1>3 DEF Expire, ServeSweepOne, OpenOrders, OpenStatus
  <2> QED BY <1>0, <1>1, <2>1, <2>2
<1>4. ASSUME NEW o \in Orders, NEW lots \in 1..MaxQty, Match(o, lots) PROVE Moves
  <2>1. cum[o] + lots \in 0..MaxQty /\ cum[o] <= cum[o] + lots
    BY <1>0, <1>4 DEF Match
  <2>2. book[o] \notin {"FILLED", "EXPIRED"} /\ \E st : Report(o, st, cum[o] + lots, lots)
    BY <1>4 DEF Match, OpenOrders, OpenStatus
  <2> QED BY <1>1, <2>1, <2>2
<1>5. CASE ServePlace
  <2>1. Head(calls).id \in Orders /\ book[Head(calls).id] = "none" /\ Report(Head(calls).id, "NEW", 0, 0)
    BY <1>5, HeadId DEF ServePlace, AtVenue
  <2>2. cum[Head(calls).id] <= 0 /\ 0 \in 0..MaxQty
    BY <2>1 DEF IInv, UnplacedEmpty
  <2> QED BY <1>1, <2>1, <2>2
<1>6. CASE ServeCancel
  <2>1. Head(calls).id \in Orders
    BY <1>6, HeadId DEF ServeCancel, AtVenue
  <2>2. CASE Head(calls).id \in OpenOrders
    <3>1. /\ Report(Head(calls).id, "CANCELED", cum[Head(calls).id], 0)
          /\ book[Head(calls).id] \notin {"FILLED", "EXPIRED"}
          /\ cum[Head(calls).id] <= cum[Head(calls).id]
      BY <1>0, <1>6, <2>1, <2>2 DEF ServeCancel, OpenOrders, OpenStatus
    <3> QED BY <1>0, <1>1, <2>1, <3>1
  <2>3. CASE Head(calls).id \notin OpenOrders
    BY <1>2, <1>6, <2>3 DEF ServeCancel
  <2> QED BY <2>2, <2>3
<1>7. CASE ServeSweepEnd \/ ServeList \/ ServeQuery \/ CallFails
  BY <1>2, <1>7 DEF ServeSweepEnd, ServeList, ServeQuery, CallFails
<1>8. ASSUME NEW o \in Orders, PlacedElsewhere(o) PROVE Moves
  <2>1. book[o] = "none" /\ cum[o] <= 0 /\ Report(o, "NEW", 0, 0) /\ 0 \in 0..MaxQty
    BY <1>8 DEF PlacedElsewhere, Unused, IInv, UnplacedEmpty
  <2> QED BY <1>1, <2>1
<1>9. ASSUME NEW o \in Orders, SubmitGated(o) \/ SubmitChild(o) \/ Cancel(o) PROVE Moves
  BY <1>2, <1>9 DEF SubmitGated, SubmitChild, Cancel, exchangeVars
<1>10. CASE SubmitReturns \/ SubmitRaises \/ CancelReturns \/ MassCancel \/ MarkWorkingCancelled
  BY <1>2, <1>10 DEF SubmitReturns, SubmitRaises, CancelReturns, MassCancel, MarkWorkingCancelled
<1>11. CASE Reconnect \/ \E again \in BOOLEAN : HandleFrame(again)
  BY <1>2, <1>11 DEF Reconnect, LoseFrames, HandleFrame
<1>12. CASE UNCHANGED vars
  BY <1>2, <1>12 DEF vars, exchangeVars
<1> QED
  BY <1>3, <1>4, <1>5, <1>6, <1>7, <1>8, <1>9, <1>10, <1>11, <1>12 DEF Next, VenueActs, ExchangeStep

\* The queue of calls and the answer change in few ways: a call joins, the first call is
\* answered, or it leaves and takes its answer along.
LEMMA CallMoves ==
  ASSUME [Next]_vars
  PROVE  \/ UNCHANGED <<calls, answer>>
         \/ answer' = answer /\ \E call : calls' = Append(calls, call)
         \/ answer' = Pending
         \/ /\ calls # <<>> /\ calls' = calls
            /\ \/ Head(calls).op # "query"
               \/ answer' = Error
               \/ /\ answer' = Row(book[Head(calls).id], cum[Head(calls).id])
                  /\ UNCHANGED <<book, cum>>
<1>1. ASSUME NEW o \in Orders, Expire(o) \/ ServeSweepOne(o) \/ PlacedElsewhere(o) \/ SubmitGated(o)
                               \/ \E lots \in 1..MaxQty : Match(o, lots)
      PROVE  UNCHANGED <<calls, answer>>
  BY <1>1 DEF Expire, ServeSweepOne, PlacedElsewhere, SubmitGated, Match, exchangeVars
<1>2. CASE ServePlace \/ ServeCancel \/ ServeSweepEnd \/ ServeList
  <2>1. calls # <<>> /\ calls' = calls /\ Head(calls).op # "query"
    BY <1>2 DEF ServePlace, ServeCancel, ServeSweepEnd, ServeList, AtVenue
  <2> QED BY <2>1
<1>3. CASE ServeQuery \/ CallFails
  BY <1>3 DEF ServeQuery, CallFails, AtVenue
<1>4. ASSUME NEW o \in Orders, SubmitChild(o) \/ Cancel(o)
      PROVE  answer' = answer /\ \E call : calls' = Append(calls, call)
  BY <1>4 DEF SubmitChild, Cancel, Issue
<1>5. CASE MassCancel
  BY <1>5 DEF MassCancel, Issue
<1>6. CASE SubmitReturns \/ SubmitRaises \/ CancelReturns \/ MarkWorkingCancelled
  BY <1>6 DEF SubmitReturns, SubmitRaises, CancelReturns, MarkWorkingCancelled
<1>7. CASE Reconnect \/ (\E again \in BOOLEAN : HandleFrame(again)) \/ UNCHANGED vars
  BY <1>7 DEF Reconnect, LoseFrames, HandleFrame, vars, exchangeVars
<1> QED BY <1>1, <1>2, <1>3, <1>4, <1>5, <1>6, <1>7 DEF Next, VenueActs, ExchangeStep

-----------------------------------------------------------------------------
\* Type correctness of the pass.

\* The calls a pass issues.
LEMMA PassCalls ==
  ASSUME TypeOKReconciler
  PROVE  /\ Append(calls, [op |-> "list"]) \in Seq(Call)
         /\ calls # <<>> => /\ Tail(calls) \in Seq(Call)
                            /\ Append(Tail(calls), [op |-> "list"]) \in Seq(Call)
                            /\ \A o \in Orders : Append(Tail(calls), [op |-> "query", id |-> o]) \in Seq(Call)
<1>1. [op |-> "list"] \in Call /\ \A o \in Orders : [op |-> "query", id |-> o] \in Call
  BY DEF Call
<1>2. calls \in Seq(Call)
  BY DEF TypeOKReconciler, TypeOK, TypeOKExchange
<1> QED BY <1>1, <1>2

\* The cancels of the strangers, in whatever order.
LEMMA OrphanCalls ==
  ASSUME NEW S \in SUBSET Orders, NEW order \in SetToSeqs(S), NEW queue \in Seq(Call)
  PROVE  queue \o [i \in DOMAIN order |-> [op |-> "orphan", id |-> order[i]]] \in Seq(Call)
<1>1. Cardinality(S) \in Nat
  BY ReconcilerAssumption, FS_Subset, FS_CardinalityType
<1>2. order \in [1 .. Cardinality(S) -> S]
  BY DEF SetToSeqs
<1>3. \A i \in 1 .. Cardinality(S) : [op |-> "orphan", id |-> order[i]] \in Call
  BY <1>2 DEF Call
<1> DEFINE cancels == [i \in DOMAIN order |-> [op |-> "orphan", id |-> order[i]]]
<1>4. cancels \in [1 .. Cardinality(S) -> Call]
  BY <1>2, <1>3
<1> HIDE DEF cancels
<1>5. cancels \in Seq(Call)
  BY <1>1, <1>4
<1>6. queue \o cancels \in Seq(Call)
  BY <1>5
<1> QED BY <1>6 DEF cancels

\* What RefreshOrConclude() and Conclude() write.
LEMMA ConcludeType ==
  ASSUME NEW st \in [Orders -> Status], NEW orphans, NEW venue, NEW local,
         mismatch \in BOOLEAN, trips \in BOOLEAN, Conclude(st, orphans, venue, local)
  PROVE  status' \in [Orders -> Status] /\ mismatch' \in BOOLEAN /\ stage' \in Stage
<1>1. status' \in [Orders -> Status] /\ stage' \in Stage
  BY DEF Conclude, Status, Stage
<1>2. mismatch' \in BOOLEAN
  BY Zenon DEF Conclude
<1> QED BY <1>1, <1>2

LEMMA RefreshType ==
  ASSUME TypeOKReconciler, calls # <<>>, NEW missing \in SUBSET Orders, NEW venue, NEW local,
         RefreshOrConclude(missing, venue, local)
  PROVE  /\ status' \in [Orders -> Status] /\ mismatch' \in BOOLEAN /\ stage' \in Stage
         /\ todo' \subseteq Orders /\ calls' \in Seq(Call)
<1>0. status \in [Orders -> Status] /\ mismatch \in BOOLEAN /\ trips \in BOOLEAN
  BY DEF TypeOKReconciler, TypeOK
<1>1. CASE Conclude(status, {}, venue, local) /\ calls' = Tail(calls) /\ todo' = {}
  BY <1>0, <1>1, ConcludeType, PassCalls
<1>2. ASSUME NEW o \in missing, stage' = "refreshing", todo' = missing \ {o},
             calls' = Append(Tail(calls), [op |-> "query", id |-> o]), UNCHANGED <<status, mismatch>>
      PROVE  /\ status' \in [Orders -> Status] /\ mismatch' \in BOOLEAN /\ stage' \in Stage
             /\ todo' \subseteq Orders /\ calls' \in Seq(Call)
  BY <1>0, <1>2, PassCalls DEF Stage
<1> QED BY <1>1, <1>2 DEF RefreshOrConclude

\* The statuses after a query's row.
AfterRow(o, found) ==
  IF found THEN [status EXCEPT ![o] = MergeOrderStatus(@, MapStatus(answer.status))] ELSE status

LEMMA AfterRowType ==
  ASSUME TypeOK, NEW o \in Orders, NEW found \in BOOLEAN
  PROVE  AfterRow(o, found) \in [Orders -> Status]
BY MapStatusType, MergeType DEF AfterRow, TypeOK

\* A query's row is merged for the order that was asked for.
LEMMA QueryWrites ==
  ASSUME TypeOKReconciler, QueryReturns
  PROVE  /\ calls # <<>> /\ Head(calls).op = "query" /\ Head(calls).id \in Orders
         /\ UNCHANGED <<trips, venueIds, localIds, tracked, seen, counted>> /\ Quietly /\ answer' = Pending
         /\ LET o == Head(calls).id
                found == answer.kind = "ok" /\ answer.status # "none"
                st == AfterRow(o, found)
                orphans == {c \in tracked : st[c] \in WorkingStatus} \ venueIds
            IN  /\ filled' = IF found THEN [filled EXCEPT ![o] = answer.cum] ELSE filled
                /\ fresh' = (fresh \/ found \/ (todo = {} /\ orphans # {}))
                /\ \/ /\ Conclude(st, orphans, venueIds, localIds)
                      /\ calls' = Tail(calls) /\ UNCHANGED todo
                   \/ \E next \in todo :
                        /\ status' = st
                        /\ calls' = Append(Tail(calls), [op |-> "query", id |-> next])
                        /\ todo' = todo \ {next}
                        /\ UNCHANGED <<stage, mismatch>>
<1>1. calls # <<>> /\ Head(calls).op = "query"
  BY DEF QueryReturns, Answered
<1>2. Head(calls).id \in Orders
  BY <1>1, HeadId DEF TypeOKReconciler
<1> QED BY <1>1, <1>2 DEF QueryReturns, AfterRow

LEMMA QueryType == ASSUME TypeOKReconciler, QueryReturns PROVE TypeOKReconciler'
<1> DEFINE o == Head(calls).id
           found == answer.kind = "ok" /\ answer.status # "none"
           st == AfterRow(o, found)
<1>0. /\ TypeOK /\ o \in Orders /\ found \in BOOLEAN /\ calls # <<>> /\ answer \in Answer
      /\ fresh \in BOOLEAN /\ mismatch \in BOOLEAN /\ trips \in BOOLEAN /\ todo \subseteq Orders
  BY QueryWrites DEF TypeOKReconciler, TypeOK, TypeOKExchange
<1>1. st \in [Orders -> Status]
  BY <1>0, AfterRowType
<1>2. filled' \in [Orders -> 0..MaxQty]
  <2>1. answer.cum \in 0..MaxQty
    BY <1>0 DEF Answer
  <2> QED BY <1>0, <2>1, QueryWrites DEF TypeOK
<1>3. fresh' \in BOOLEAN
  BY <1>0, QueryWrites
<1> HIDE DEF st
<1>4. /\ status' \in [Orders -> Status] /\ mismatch' \in BOOLEAN /\ stage' \in Stage
      /\ todo' \subseteq Orders /\ calls' \in Seq(Call)
  <2> DEFINE orphans == {c \in tracked : st[c] \in WorkingStatus} \ venueIds
  <2>1. \/ Conclude(st, orphans, venueIds, localIds) /\ calls' = Tail(calls) /\ todo' = todo
        \/ \E next \in todo :
             /\ status' = st /\ calls' = Append(Tail(calls), [op |-> "query", id |-> next])
             /\ todo' = todo \ {next} /\ stage' = stage /\ mismatch' = mismatch
    BY QueryWrites DEF st
  <2> HIDE DEF orphans
  <2>2. CASE Conclude(st, orphans, venueIds, localIds) /\ calls' = Tail(calls) /\ todo' = todo
    BY <1>0, <1>1, <2>2, ConcludeType, PassCalls
  <2>3. ASSUME NEW next \in todo, status' = st, calls' = Append(Tail(calls), [op |-> "query", id |-> next]),
               todo' = todo \ {next}, stage' = stage, mismatch' = mismatch
        PROVE  /\ status' \in [Orders -> Status] /\ mismatch' \in BOOLEAN /\ stage' \in Stage
               /\ todo' \subseteq Orders /\ calls' \in Seq(Call)
    BY <1>0, <1>1, <2>3, PassCalls DEF TypeOKReconciler
  <2> QED BY <2>1, <2>2, <2>3
<1>5. answer' \in Answer /\ UNCHANGED <<trips, venueIds, localIds, tracked, seen, counted>> /\ Quietly
  BY <1>0, AnswerType, QueryWrites
<1> QED BY <1>2, <1>3, <1>4, <1>5 DEF TypeOKReconciler, TypeOK, TypeOKExchange, Quietly

\* Steps of the pass that leave the order manager alone.
LEMMA PassFrame ==
  ASSUME TypeOKReconciler, Quietly, OmsIdle, calls' \in Seq(Call), answer' \in Answer,
         stage' \in Stage, trips' \in BOOLEAN, mismatch' \in BOOLEAN,
         venueIds' \subseteq Orders, localIds' \subseteq Orders, todo' \subseteq Orders
  PROVE  TypeOKReconciler'
<1>1. TypeOK'
  BY DEF Quietly, OmsIdle, omsVars, TypeOKReconciler, TypeOK, TypeOKExchange
<1> QED BY <1>1 DEF TypeOKReconciler

LEMMA PassType == ASSUME TypeOKReconciler, PassStep PROVE TypeOKReconciler'
<1>0. /\ TypeOK /\ Pending \in Answer /\ answer \in Answer /\ Working \subseteq Orders
      /\ calls \in Seq(Call)
  BY AnswerType DEF TypeOKReconciler, TypeOK, TypeOKExchange, Working
<1>1. CASE ListFails
  <2>1. /\ calls # <<>> /\ stage' \in {stage, "idle", "relisting"} /\ answer' = Pending
        /\ calls' \in {Tail(calls), Append(Tail(calls), [op |-> "list"])}
        /\ UNCHANGED <<trips, venueIds, localIds, todo, mismatch>> /\ Quietly /\ OmsIdle
    BY <1>1 DEF ListFails, Answered
  <2>2. calls' \in Seq(Call) /\ stage' \in Stage
    BY <2>1, PassCalls DEF Stage, TypeOKReconciler
  <2> QED BY <1>0, <2>1, <2>2, PassFrame DEF TypeOKReconciler
<1>2. CASE ListReturns
  <2> DEFINE strangers == answer.open \ Working
             missing == Working \ answer.open
  <2>1. calls # <<>> /\ answer.open \in SUBSET Orders /\ Tail(calls) \in Seq(Call)
    BY <1>0, <1>2, PassCalls DEF ListReturns, Answered, Answer
  <2>2. /\ venueIds' = answer.open /\ localIds' = Working /\ answer' = Pending
        /\ UNCHANGED <<trips, tracked, filled, seen, counted, fresh>> /\ Quietly
    BY <1>2 DEF ListReturns
  <2>3. \/ /\ stage' = "cancelling" /\ todo' = missing /\ status' = status /\ mismatch' = mismatch
           /\ \E order \in SetToSeqs(strangers) :
                calls' = Tail(calls) \o [i \in DOMAIN order |-> [op |-> "orphan", id |-> order[i]]]
        \/ RefreshOrConclude(missing, answer.open, Working)
    BY <1>2 DEF ListReturns
  <2>4. strangers \in SUBSET Orders /\ missing \in SUBSET Orders
    BY <1>0, <2>1
  <2> HIDE DEF strangers, missing
  <2>5. /\ status' \in [Orders -> Status] /\ mismatch' \in BOOLEAN /\ stage' \in Stage
        /\ todo' \subseteq Orders /\ calls' \in Seq(Call)
    <3>1. CASE RefreshOrConclude(missing, answer.open, Working)
      BY <2>1, <2>4, <3>1, RefreshType
    <3>2. ASSUME NEW order \in SetToSeqs(strangers),
                 calls' = Tail(calls) \o [i \in DOMAIN order |-> [op |-> "orphan", id |-> order[i]]]
          PROVE  calls' \in Seq(Call)
      BY <2>1, <2>4, <3>2, OrphanCalls
    <3>3. status \in [Orders -> Status] /\ mismatch \in BOOLEAN /\ "cancelling" \in Stage
      BY DEF TypeOKReconciler, TypeOK, Stage
    <3> QED BY <2>3, <2>4, <3>1, <3>2, <3>3
  <2> QED BY <1>0, <2>1, <2>2, <2>5 DEF Quietly, TypeOKReconciler, TypeOK, TypeOKExchange
<1>3. CASE OrphanCancelReturns
  <2>1. /\ calls # <<>> /\ stage' \in {stage, "idle", "relisting"} /\ answer' = Pending
        /\ calls' \in {Tail(calls), Append(Tail(calls), [op |-> "list"])}
        /\ UNCHANGED <<trips, venueIds, localIds, todo, mismatch>> /\ Quietly /\ OmsIdle
    BY <1>3 DEF OrphanCancelReturns, Answered
  <2>2. calls' \in Seq(Call) /\ stage' \in Stage
    BY <2>1, PassCalls DEF Stage, TypeOKReconciler
  <2> QED BY <1>0, <2>1, <2>2, PassFrame DEF TypeOKReconciler
<1>4. CASE RelistReturns
  <2> DEFINE venue == IF answer.kind = "ok" THEN answer.open ELSE venueIds
  <2>1. calls # <<>> /\ venue \in SUBSET Orders /\ todo \in SUBSET Orders
    BY <1>0, <1>4 DEF RelistReturns, Answered, Answer, TypeOKReconciler
  <2>2. /\ venueIds' = venue /\ answer' = Pending /\ RefreshOrConclude(todo, venue, localIds)
        /\ UNCHANGED <<trips, localIds, tracked, filled, seen, counted, fresh>> /\ Quietly
    BY <1>4 DEF RelistReturns
  <2> HIDE DEF venue
  <2>3. /\ status' \in [Orders -> Status] /\ mismatch' \in BOOLEAN /\ stage' \in Stage
        /\ todo' \subseteq Orders /\ calls' \in Seq(Call)
    BY <2>1, <2>2, RefreshType
  <2> QED BY <1>0, <2>1, <2>2, <2>3 DEF Quietly, TypeOKReconciler, TypeOK, TypeOKExchange
<1>5. CASE QueryReturns
  BY <1>5, QueryType
<1>6. ASSUME NEW forced \in BOOLEAN, BeginPass(forced) PROVE TypeOKReconciler'
  <2>1. /\ stage' = "listing" /\ trips' = ~forced /\ venueIds' = {} /\ localIds' = {} /\ todo' = {}
        /\ calls' = Append(calls, [op |-> "list"])
        /\ UNCHANGED <<answer, mismatch>> /\ Quietly /\ OmsIdle
    BY <1>6 DEF BeginPass, Issue
  <2>2. calls' \in Seq(Call) /\ stage' \in Stage /\ trips' \in BOOLEAN
    BY <2>1, PassCalls DEF Stage
  <2> QED BY <1>0, <2>1, <2>2, PassFrame DEF TypeOKReconciler
<1> QED BY <1>1, <1>2, <1>3, <1>4, <1>5, <1>6 DEF PassStep

LEMMA ReconcilerNextType == ASSUME TypeOKReconciler, [NextReconciler]_allVars PROVE TypeOKReconciler'
<1>1. CASE OmsStep
  <2>1. TypeOK'
    BY <1>1, NextType DEF OmsStep, TypeOKReconciler
  <2> QED BY <1>1, <2>1 DEF OmsStep, recVars, passVars, TypeOKReconciler
<1>2. CASE PassStep
  BY <1>2, PassType
<1>3. CASE GoesQuiet \/ MismatchExpires \/ UNCHANGED allVars
  <2>1. TypeOK' /\ UNCHANGED passVars
    BY <1>3 DEF GoesQuiet, MismatchExpires, allVars, vars, exchangeVars, omsVars, recVars,
                TypeOKReconciler, TypeOK, TypeOKExchange
  <2>2. mismatch' \in BOOLEAN
    BY <1>3 DEF GoesQuiet, MismatchExpires, allVars, recVars, TypeOKReconciler
  <2> QED BY <2>1, <2>2 DEF passVars, TypeOKReconciler
<1> QED BY <1>1, <1>2, <1>3 DEF NextReconciler

LEMMA ReconcilerInitType == InitReconciler => TypeOKReconciler
BY InitType DEF InitReconciler, TypeOKReconciler, Stage

\* The pass keeps its types, and the order manager keeps its own beside it.
THEOREM ReconcilerTypeCorrect == SpecReconciler => []TypeOKReconciler
BY ReconcilerInitType, ReconcilerNextType, PTL DEF SpecReconciler

-----------------------------------------------------------------------------
\* The safety of the order manager beside the pass.

\* RowTrue, whatever the order manager and the venue do.
LEMMA OmsRowTrue == ASSUME TypeOK, IInv, RowTrue, [Next]_vars PROVE RowTrue'
<1>0. calls \in Seq(Call) /\ answer \in Answer /\ TypeOK'
  BY NextType DEF TypeOK, TypeOKExchange
<1>1. CASE UNCHANGED <<calls, answer>>
  <2>1. CASE calls = <<>>
    BY <1>1, <2>1 DEF RowTrue
  <2>2. CASE calls # <<>> /\ Head(calls).op = "query"
    <3>1. Head(calls).id \in Orders
      BY <2>2, HeadId
    <3>2. cum[Head(calls).id] \in Nat /\ cum'[Head(calls).id] \in Nat /\ answer.cum \in Nat
      BY <1>0, <3>1 DEF TypeOK, TypeOKExchange, Answer
    <3> QED BY <1>1, <2>2, <3>1, <3>2, BookMoves DEF RowTrue
  <2>3. CASE calls # <<>> /\ Head(calls).op # "query"
    BY <1>1, <2>3 DEF RowTrue
  <2> QED BY <2>1, <2>2, <2>3
<1>2. ASSUME NEW call, answer' = answer, calls' = Append(calls, call) PROVE RowTrue'
  <2>1. calls' # <<>>
    BY <1>0, <1>2
  <2>2. CASE calls = <<>>
    BY <1>2, <2>1, <2>2 DEF RowTrue, Pending, Bare
  <2>3. CASE calls # <<>> /\ Head(calls).op = "query"
    <3>1. Head(calls') = Head(calls)
      BY <1>0, <1>2, <2>3
    <3>2. Head(calls).id \in Orders
      BY <2>3, HeadId
    <3>3. cum[Head(calls).id] \in Nat /\ cum'[Head(calls).id] \in Nat /\ answer.cum \in Nat
      BY <1>0, <3>2 DEF TypeOK, TypeOKExchange, Answer
    <3> QED BY <1>2, <2>1, <2>3, <3>1, <3>2, <3>3, BookMoves DEF RowTrue
  <2>4. CASE calls # <<>> /\ Head(calls).op # "query"
    <3>1. Head(calls') = Head(calls)
      BY <1>0, <1>2, <2>4
    <3> QED BY <2>1, <2>4, <3>1 DEF RowTrue
  <2> QED BY <2>2, <2>3, <2>4
<1>3. CASE answer' = Pending
  BY <1>3 DEF RowTrue, Pending, Bare
<1>4. CASE /\ calls # <<>> /\ calls' = calls
           /\ \/ Head(calls).op # "query"
              \/ answer' = Error
              \/ /\ answer' = Row(book[Head(calls).id], cum[Head(calls).id])
                 /\ UNCHANGED <<book, cum>>
  <2>1. CASE Head(calls).op # "query" \/ answer' = Error
    BY <1>4, <2>1 DEF RowTrue, Error, Bare
  <2>2. CASE /\ Head(calls).op = "query" /\ UNCHANGED <<book, cum>>
             /\ answer' = Row(book[Head(calls).id], cum[Head(calls).id])
    <3>1. Head(calls).id \in Orders
      BY <1>4, <2>2, HeadId
    <3>2. cum[Head(calls).id] \in Nat
      BY <3>1 DEF TypeOK, TypeOKExchange
    <3> QED BY <1>4, <2>2, <3>2 DEF RowTrue, Row
  <2> QED BY <1>4, <2>1, <2>2
<1> QED BY <1>1, <1>2, <1>3, <1>4, CallMoves

\* A pass gives an order no final outcome of the venue's but by a row.
LEMMA ConcludeInvents ==
  ASSUME NEW st \in [Orders -> Status], NEW orphans, NEW venue, NEW local,
         Conclude(st, orphans, venue, local), NEW p \in Orders
  PROVE  status'[p] \in {"FILLED", "EXPIRED"} => status'[p] = st[p]
BY DEF Conclude

LEMMA PassInv == ASSUME RInv, PassStep PROVE IInv' /\ RowTrue'
<1>0. /\ TypeOK /\ IInv /\ TypeOKReconciler /\ status \in [Orders -> Status] /\ calls \in Seq(Call)
  BY DEF RInv, TypeOKReconciler, TypeOK, TypeOKExchange
<1>1. ASSUME NEW missing, NEW venue, NEW local, RefreshOrConclude(missing, venue, local)
      PROVE  \A p \in Orders : status'[p] \in {"FILLED", "EXPIRED"} => status[p] = status'[p]
  BY <1>0, <1>1, ConcludeInvents DEF RefreshOrConclude
<1>2. CASE ListFails \/ ListReturns \/ OrphanCancelReturns \/ RelistReturns
  <2>1. UNCHANGED <<book, cum, executed, stream, lost, filled, seen, counted>> /\ answer' = Pending
    BY <1>2 DEF ListFails, ListReturns, OrphanCancelReturns, RelistReturns, Quietly, OmsIdle, omsVars
  <2>2. \A p \in Orders : status'[p] \in {"FILLED", "EXPIRED"} => status[p] = status'[p]
    BY <1>1, <1>2 DEF ListFails, ListReturns, OrphanCancelReturns, RelistReturns, OmsIdle, omsVars
  <2> QED BY <1>0, <2>1, <2>2, StatusStepInv DEF RowTrue, Pending, Bare
<1>3. ASSUME NEW forced \in BOOLEAN, BeginPass(forced) PROVE IInv' /\ RowTrue'
  <2>1. /\ UNCHANGED <<book, cum, executed, stream, lost, filled, seen, counted, status, answer>>
        /\ calls' = Append(calls, [op |-> "list"])
    BY <1>3 DEF BeginPass, Issue, Quietly, OmsIdle, omsVars
  <2>2. IInv'
    BY <1>0, <2>1, StatusStepInv
  <2>3. calls' # <<>> /\ (calls # <<>> => Head(calls') = Head(calls))
    BY <1>0, <2>1
  <2>4. RowTrue'
    BY <2>1, <2>3 DEF RInv, RowTrue, Pending, Bare
  <2> QED BY <2>2, <2>4
<1>4. CASE QueryReturns
  <2> DEFINE o == Head(calls).id
             found == answer.kind = "ok" /\ answer.status # "none"
             st == AfterRow(o, found)
  <2>1. /\ o \in Orders /\ calls # <<>> /\ Head(calls).op = "query" /\ answer' = Pending
        /\ UNCHANGED <<book, cum, executed, stream, lost, seen, counted>>
        /\ filled' = IF found THEN [filled EXCEPT ![o] = answer.cum] ELSE filled
    BY <1>0, <1>4, QueryWrites DEF Quietly
  <2>2. found => /\ answer.cum <= cum[o]
                 /\ answer.status \in {"FILLED", "EXPIRED"} => book[o] = answer.status
    BY <2>1 DEF RInv, RowTrue
  <2>3. st \in [Orders -> Status]
    BY <1>0, <2>1, AfterRowType
  <2>4. \A p \in Orders : st[p] \in {"FILLED", "EXPIRED"} => book[p] = st[p]
    <3> SUFFICES ASSUME NEW p \in Orders, st[p] \in {"FILLED", "EXPIRED"} PROVE book[p] = st[p]
      OBVIOUS
    <3>1. CASE st[p] = status[p]
      BY <1>0, <3>1 DEF IInv, OutcomeIsVenues
    <3>2. CASE found /\ p = o /\ st[p] = MapStatus(answer.status)
      <4>1. answer.status \in VenueStatus
        BY <1>0 DEF TypeOK, TypeOKExchange, Answer
      <4> QED BY <2>2, <3>2, <4>1, MapOutcome
    <3>3. st[p] = status[p] \/ (found /\ p = o /\ st[p] = MapStatus(answer.status))
      BY <1>0, <2>1, MergeOneOf DEF AfterRow
    <3> QED BY <3>1, <3>2, <3>3
  <2>5. \A p \in Orders : status'[p] \in {"FILLED", "EXPIRED"} => status'[p] = st[p]
    <3>1. \/ \E orphans : Conclude(st, orphans, venueIds, localIds)
          \/ status' = st
      BY <1>0, <1>4, QueryWrites
    <3> HIDE DEF st
    <3> QED BY <2>3, <3>1, ConcludeInvents
  <2>6. OutcomeIsVenues'
    BY <2>1, <2>4, <2>5 DEF OutcomeIsVenues
  <2>7. FilledNeverAhead'
    <3>1. filled \in [Orders -> 0..MaxQty] /\ \A p \in Orders : filled[p] <= cum[p]
      BY <1>0 DEF TypeOK, IInv, FilledNeverAhead
    <3> QED BY <2>1, <2>2, <3>1 DEF FilledNeverAhead
  <2>8. FramesTrue' /\ CountedMade' /\ UnplacedEmpty' /\ SeenCounted' /\ ExecutedPast'
    BY <1>0, <2>1 DEF IInv, FramesTrue, CountedMade, UnplacedEmpty, SeenCounted, ExecutedPast
  <2>9. NoFillForgotten'
    BY <1>0, <2>1 DEF IInv, NoFillForgotten, TradesIn
  <2>10. RowTrue'
    BY <2>1 DEF RowTrue, Pending, Bare
  <2> QED BY <2>6, <2>7, <2>8, <2>9, <2>10 DEF IInv
<1> QED BY <1>2, <1>3, <1>4 DEF PassStep

LEMMA ReconcilerStep == ASSUME RInv, [NextReconciler]_allVars PROVE RInv'
<1>0. TypeOK /\ IInv /\ RowTrue /\ TypeOKReconciler'
  BY ReconcilerNextType DEF RInv, TypeOKReconciler
<1>1. CASE OmsStep \/ UNCHANGED allVars
  <2>1. [Next]_vars
    BY <1>1 DEF OmsStep, allVars
  <2> QED BY <1>0, <2>1, NextInv, OmsRowTrue DEF RInv
<1>2. CASE PassStep
  BY <1>0, <1>2, PassInv DEF RInv
<1>3. CASE GoesQuiet \/ MismatchExpires
  <2>1. UNCHANGED <<exchangeVars, tracked, status, filled, seen, counted>>
    BY <1>3 DEF GoesQuiet, MismatchExpires, vars, omsVars
  <2>2. IInv' /\ RowTrue'
    BY <1>0, <2>1, StatusStepInv DEF exchangeVars, RowTrue
  <2> QED BY <1>0, <2>2 DEF RInv
<1> QED BY <1>1, <1>2, <1>3 DEF NextReconciler

LEMMA ReconcilerInvariant == SpecReconciler => []RInv
<1>1. InitReconciler => RInv
  <2> SUFFICES ASSUME InitReconciler PROVE RInv
    OBVIOUS
  <2>1. Init
    BY DEF InitReconciler
  <2>2. RowTrue
    BY <2>1 DEF Init, InitExchange, RowTrue
  <2> QED BY <2>1, <2>2, InitInv, ReconcilerInitType DEF RInv
<1> QED BY <1>1, ReconcilerStep, PTL DEF SpecReconciler

\* The filled quantity the engine holds never runs ahead of the venue's, though passes
\* overwrite it with rows read long before (order_reconciliation.py).
THEOREM ReconciledFilledSafe == SpecReconciler => []FilledNeverAhead
<1>1. RInv => FilledNeverAhead
  BY DEF RInv, IInv
<1> QED BY <1>1, ReconcilerInvariant, PTL

\* Nor does a pass invent a fill or an expiry.
THEOREM ReconciledOutcomeSafe == SpecReconciler => []OutcomeIsVenues
<1>1. RInv => OutcomeIsVenues
  BY DEF RInv, IInv
<1> QED BY <1>1, ReconcilerInvariant, PTL

\* No trade disappears except with a socket.
THEOREM ReconciledNothingForgotten == SpecReconciler => []NoFillForgotten
<1>1. RInv => NoFillForgotten
  BY DEF RInv, IInv
<1> QED BY <1>1, ReconcilerInvariant, PTL

-----------------------------------------------------------------------------
\* Terminal statuses and the books.

\* A pass writes off only children that work, and merges into the others.
LEMMA PassStays ==
  ASSUME TypeOKReconciler, PassStep, NEW p \in Orders, status[p] \in TerminalStatus
  PROVE  status'[p] = status[p]
<1>0. status \in [Orders -> Status] /\ TerminalStatus \cap WorkingStatus = {}
  BY DEF TypeOKReconciler, TypeOK, TerminalStatus, WorkingStatus
<1>1. ASSUME NEW missing, NEW venue, NEW local, RefreshOrConclude(missing, venue, local)
      PROVE  status'[p] = status[p]
  BY <1>0, <1>1 DEF RefreshOrConclude, Conclude
<1>2. CASE ListFails \/ ListReturns \/ OrphanCancelReturns \/ RelistReturns
  BY <1>1, <1>2 DEF ListFails, ListReturns, OrphanCancelReturns, RelistReturns, OmsIdle, omsVars
<1>3. ASSUME NEW forced \in BOOLEAN, BeginPass(forced) PROVE status'[p] = status[p]
  BY <1>3 DEF BeginPass, OmsIdle, omsVars
<1>4. CASE QueryReturns
  <2> DEFINE o == Head(calls).id
             found == answer.kind = "ok" /\ answer.status # "none"
             st == AfterRow(o, found)
             orphans == {c \in tracked : st[c] \in WorkingStatus} \ venueIds
  <2>1. o \in Orders /\ found \in BOOLEAN
    BY <1>4, QueryWrites
  <2>2. st[p] = status[p] /\ st \in [Orders -> Status]
    BY <1>0, <2>1, MergeTerminal, AfterRowType DEF AfterRow, TypeOKReconciler
  <2>3. status' = st \/ Conclude(st, orphans, venueIds, localIds)
    BY <1>4, QueryWrites
  <2>4. p \notin orphans
    BY <1>0, <2>2
  <2> HIDE DEF st, orphans
  <2> QED BY <2>2, <2>3, <2>4 DEF Conclude
<1> QED BY <1>2, <1>3, <1>4 DEF PassStep

\* Once submit_child has returned a terminal status is final, whatever rows a pass reads and
\* whichever children it writes off.
THEOREM ReconciledTerminalIsFinal == SpecReconciler => FinalOnceSubmitted
<1> DEFINE Stays == \A o \in Orders :
             status[o] \in TerminalStatus /\ o \in tracked /\ ~Submitting(o) => status'[o] = status[o]
<1>1. ASSUME TypeOKReconciler, [NextReconciler]_allVars PROVE [Stays]_vars
  <2>1. CASE [Next]_vars
    BY <1>1, <2>1, StepStays DEF TypeOKReconciler
  <2>2. CASE PassStep
    BY <1>1, <2>2, PassStays
  <2>3. CASE GoesQuiet \/ MismatchExpires
    BY <2>3 DEF GoesQuiet, MismatchExpires, vars, omsVars
  <2> QED BY <1>1, <2>1, <2>2, <2>3 DEF NextReconciler, OmsStep, allVars
<1> QED BY <1>1, ReconcilerTypeCorrect, PTL DEF SpecReconciler, FinalOnceSubmitted

\* With a memory that never prunes, the books see what FillFeed promises, whatever a pass does.
THEOREM ReconciledFeedImplemented == ASSUME MemoryHolds PROVE SpecReconciler => ImplementsFillFeed
<1>1. InitReconciler => Feed!Init /\ SeenExact
  BY DEF InitReconciler, Init, InitExchange, Feed!Init, SeenExact
<1>2. RInv /\ SeenExact /\ [NextReconciler]_allVars => SeenExact' /\ [Feed!Next]_<<executed, counted>>
  <2> SUFFICES ASSUME RInv, SeenExact, [NextReconciler]_allVars
               PROVE  SeenExact' /\ [Feed!Next]_<<executed, counted>>
    OBVIOUS
  <2>0. TypeOK /\ IInv
    BY DEF RInv, TypeOKReconciler
  <2>1. CASE [Next]_vars
    BY <2>0, <2>1, SeenExactStep, FeedStep
  <2>2. CASE PassStep \/ GoesQuiet \/ MismatchExpires
    <3>1. UNCHANGED <<executed, seen, counted>>
      BY <2>2 DEF PassStep, ListFails, ListReturns, OrphanCancelReturns, RelistReturns, QueryReturns,
         BeginPass, GoesQuiet, MismatchExpires, Quietly, OmsIdle, omsVars, vars, exchangeVars
    <3> QED BY <3>1 DEF SeenExact
  <2> QED BY <2>1, <2>2 DEF NextReconciler, OmsStep, allVars
<1> QED BY <1>1, <1>2, ReconcilerInvariant, PTL DEF SpecReconciler, Feed!Spec, ImplementsFillFeed

=============================================================================
