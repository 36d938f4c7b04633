----------------------------- MODULE VwapParent -----------------------------
(***************************************************************************)
(* One parent order worked by the VWAP executor                            *)
(* (backend/engine/execution/vwap_executor.py) in a task of its own, with  *)
(* its report in the execution tracker (execution_metrics.py).             *)
(*                                                                         *)
(* A slice is sent as one child, a resting LIMIT or a MARKET order; a      *)
(* second, MARKET child follows when the first is refused or times out.    *)
(* The venue, the answers to REST calls and the user-data stream are       *)
(* external: a LIMIT order rests, a MARKET order is executed on arrival    *)
(* and what finds no match expires.  A child's fills are learnt from the   *)
(* stream at any later time, or never.                                     *)
(*                                                                         *)
(* Parents of a flatten are left out: on a refused reduce-only child they  *)
(* may send one more order, sized by the venue's position.                 *)
(***************************************************************************)
EXTENDS Naturals, OrderStatus, Functions

CONSTANTS
  Slices,   \* length of the schedule
  Plan      \* slice -> lots, as build_schedule splits the parent's quantity

Slice == 1 .. Slices

ASSUME VwapAssumption ==
  /\ Slices \in Nat \ {0}
  /\ Plan \in [Slice -> Nat \ {0}]

Kind == {"first", "fallback", "residual"}
Child == Slice \X Kind

VARIABLES
  reduceOnly,  \* parent.reduce_only
  stage,       \* the await the task is suspended at
  slice,       \* slices begun
  passive,     \* the first child of this slice is a LIMIT, TRUE once it was answered
  status,      \* client order id -> ChildOrder.status in the order manager
  size,        \* child -> quantity ordered
  told,        \* child -> lots the stream has reported
  asked,       \* client order ids whose DELETE has not been answered
  report,      \* the parent's report is open or done
  tally,       \* its filled_qty
  venue,       \* child -> its status at the venue
  cum,         \* child -> lots executed
  adrift,      \* children whose POST was given up unanswered, and may yet arrive
  faulty       \* history: slices whose second child was sized on wrong news

taskVars == <<stage, slice, passive>>
localVars == <<status, size, told, asked>>
reportVars == <<report, tally>>
venueVars == <<venue, cum, adrift>>
vars == <<reduceOnly, taskVars, localVars, reportVars, venueVars, faulty>>

\* new_client_order_id: the residual orders of all slices have number 99.
Id(c) == IF c[2] = "residual" THEN <<0, "residual">> ELSE c
Ids == Child \union {<<0, "residual">>}

\* A stage in Kind is the submission of that child of the slice.
Stage == Kind \union {"created", "sleep", "resting", "cancelling", "settling",
                      "aborting", "ended", "dropped"}

TypeOK ==
  /\ reduceOnly \in BOOLEAN
  /\ stage \in Stage
  /\ slice \in 0 .. Slices
  /\ passive \in BOOLEAN
  /\ status \in [Ids -> Status]
  /\ size \in [Child -> Nat] /\ told \in [Child -> Nat] /\ cum \in [Child -> Nat]
  /\ \A c \in Child : told[c] <= cum[c] /\ cum[c] <= size[c] /\ size[c] <= Plan[c[1]]
  /\ asked \subseteq Ids
  /\ report \in {"open", "done"}
  /\ tally \in Nat
  /\ venue \in [Child -> VenueStatus]
  /\ adrift \subseteq Child
  /\ faulty \subseteq Slice

\* The status of an id that was never used is terminal here, so that it is not working.
Init ==
  /\ reduceOnly \in BOOLEAN
  /\ stage = "created"
  /\ slice = 0
  /\ passive = TRUE
  /\ status = [i \in Ids |-> "REJECTED"]
  /\ size = [c \in Child |-> 0]
  /\ told = [c \in Child |-> 0]
  /\ asked = {}
  /\ report = "open" /\ tally = 0
  /\ venue = [c \in Child |-> "none"]
  /\ cum = [c \in Child |-> 0]
  /\ adrift = {}
  /\ faulty = {}

-----------------------------------------------------------------------------
Open(c) == venue[c] \in {"NEW", "PARTIALLY_FILLED"}
Current == <<slice, stage>>
First == <<slice, "first">>

Total == FoldFunction(LAMBDA a, b : a + b, 0, Plan)

\* The order manager's view: what cancel_parent asks the venue to cancel.
Unfinished(st) == {i \in Ids : st[i] \in WorkingStatus}

\* A new child object takes the id and the task waits for POST /order; st holds the
\* statuses so far.
Post(st, c, lots) ==
  /\ stage' = c[2]
  /\ status' = [st EXCEPT ![Id(c)] = "NEW"]
  /\ size' = [size EXCEPT ![c] = lots]

\* The finally clause of _run_parent: on_parent_done closes the report.
End == stage' = "ended" /\ report' = "done"

\* The statuses when the submission under way has raised.
Refused == [status EXCEPT ![Id(Current)] = "REJECTED"]

\* The POST under way is given up before the venue has acted on it.
GivenUp == IF stage \in Kind /\ venue[Current] = "none" THEN {Current} ELSE {}

\* A slice that raised: the parent's children are cancelled before the task ends.
Abort(st) ==
  /\ stage' = "aborting"
  /\ status' = st
  /\ asked' = asked \union Unfinished(st)

-----------------------------------------------------------------------------
\* The task.

Begin ==
  /\ stage = "created"
  /\ stage' = "sleep"
  /\ UNCHANGED <<reduceOnly, slice, passive, localVars, reportVars, venueVars, faulty>>

\* The price collar vetoes the slice, which is skipped.
SkipSlice ==
  /\ stage = "sleep" /\ slice < Slices
  /\ slice' = slice + 1
  /\ UNCHANGED <<reduceOnly, stage, passive, localVars, reportVars, venueVars, faulty>>

\* A MARKET order when no passive price is to be had.
SendFirst ==
  /\ stage = "sleep" /\ slice < Slices
  /\ slice' = slice + 1
  /\ passive' \in BOOLEAN
  /\ Post(status, <<slice + 1, "first">>, Plan[slice + 1])
  /\ UNCHANGED <<reduceOnly, told, asked, reportVars, venueVars, faulty>>

\* The slice violates the venue's filters.
OutOfBounds ==
  /\ stage = "sleep" /\ slice < Slices
  /\ slice' = slice + 1
  /\ Abort(status)
  /\ UNCHANGED <<reduceOnly, passive, size, told, reportVars, venueVars, faulty>>

Exhausted ==
  /\ stage = "sleep" /\ slice = Slices
  /\ End
  /\ UNCHANGED <<reduceOnly, slice, passive, localVars, tally, venueVars, faulty>>

\* The response makes the child ACK, whatever the stream has said meanwhile.
PostReturns ==
  /\ stage \in Kind
  /\ venue[Current] # "none"
  /\ status' = [status EXCEPT ![Id(Current)] = "ACK"]
  /\ stage' = IF stage = "first" /\ passive THEN "resting" ELSE "settling"
  /\ passive' = TRUE
  /\ UNCHANGED <<reduceOnly, slice, size, told, asked, reportVars, venueVars, faulty>>

\* submit_child raises: refused by the guard or by the venue, or failed while the venue has
\* taken the order or may yet take it (wrong news for the next child).
Raises(wrong) ==
  /\ wrong \/ venue[Current] = "none"
  /\ adrift' = IF wrong THEN adrift \union GivenUp ELSE adrift
  /\ faulty' = IF wrong THEN faulty \union {slice} ELSE faulty

\* Mutated form of FallsBack: a refused MARKET order is sent again as well.
FallsBackTwice ==
  /\ (stage = "first" /\ passive) \/ stage = "fallback"
  /\ ~reduceOnly
  /\ Post(Refused, <<slice, IF stage = "first" THEN "fallback" ELSE "residual">>, Plan[slice])
  /\ \E wrong \in BOOLEAN : Raises(wrong)
  /\ UNCHANGED <<reduceOnly, slice, passive, told, asked, reportVars, venue, cum>>

\* A LIMIT that adds exposure is replaced by a MARKET order for the whole slice.
FallsBack ==
  /\ stage = "first" /\ passive
  /\ ~reduceOnly
  /\ Post(Refused, <<slice, "fallback">>, Plan[slice])
  /\ \E wrong \in BOOLEAN : Raises(wrong)
  /\ UNCHANGED <<reduceOnly, slice, passive, told, asked, reportVars, venue, cum>>

\* A reduce-only child refused because the venue is flat ends the parent early.
VenueFlat ==
  /\ stage = "first" /\ reduceOnly
  /\ venue[Current] = "none"
  /\ status' = Refused
  /\ End
  /\ UNCHANGED <<reduceOnly, slice, passive, size, told, asked, tally, venueVars, faulty>>

PostAborts ==
  /\ stage \in Kind
  /\ stage = "first" /\ passive => reduceOnly
  /\ Abort(Refused)
  /\ adrift' = adrift \union GivenUp
  /\ UNCHANGED <<reduceOnly, slice, passive, size, told, reportVars, venue, cum, faulty>>

\* The poll of the LIMIT sees a terminal status.
Rested ==
  /\ stage = "resting"
  /\ status[First] \in TerminalStatus
  /\ stage' = "sleep"
  /\ UNCHANGED <<reduceOnly, slice, passive, localVars, reportVars, venueVars, faulty>>

\* Mutated forms of TimesOut: the MARKET order is sent without cancelling the LIMIT,
\* and a reduce-only LIMIT is replaced too.
TimesOutUncancelled ==
  /\ stage = "resting"
  /\ status[First] \in WorkingStatus
  /\ told[First] < size[First]
  /\ Post(status, <<slice, "residual">>, size[First] - told[First])
  /\ UNCHANGED <<reduceOnly, slice, passive, told, asked, reportVars, venueVars, faulty>>

TimesOutReduces ==
  /\ stage = "resting"
  /\ status[First] \in WorkingStatus
  /\ stage' = "cancelling" /\ asked' = asked \union {First}
  /\ UNCHANGED <<reduceOnly, slice, passive, status, size, told, reportVars, venueVars, faulty>>

\* It does not before the deadline: a reduce-only LIMIT is left to rest, another one
\* is cancelled.
TimesOut ==
  /\ stage = "resting"
  /\ status[First] \in WorkingStatus
  /\ IF reduceOnly
       THEN stage' = "sleep" /\ UNCHANGED asked
       ELSE stage' = "cancelling" /\ asked' = asked \union {First}
  /\ UNCHANGED <<reduceOnly, slice, passive, status, size, told, reportVars, venueVars, faulty>>

\* The DELETE has been answered or has failed, which is not told apart: what is not yet
\* known filled is ordered again.
SendResidual ==
  /\ stage = "cancelling" /\ First \notin asked
  /\ IF told[First] < size[First]
       THEN Post(status, <<slice, "residual">>, size[First] - told[First])
       ELSE stage' = "sleep" /\ UNCHANGED <<status, size>>
  /\ faulty' = IF told[First] = cum[First] THEN faulty ELSE faulty \union {slice}
  /\ UNCHANGED <<reduceOnly, slice, passive, told, asked, reportVars, venueVars>>

\* _await_terminal: the MARKET child is terminal, or the deadline has passed.
Settled ==
  /\ stage = "settling"
  /\ stage' = "sleep"
  /\ UNCHANGED <<reduceOnly, slice, passive, localVars, reportVars, venueVars, faulty>>

\* Mutated form of Aborted: the task ends outside the try block.
AbortedUnclosed ==
  /\ stage = "aborting" /\ asked = {}
  /\ stage' = "ended"
  /\ UNCHANGED <<reduceOnly, slice, passive, localVars, reportVars, venueVars, faulty>>

Aborted ==
  /\ stage = "aborting" /\ asked = {}
  /\ End
  /\ UNCHANGED <<reduceOnly, slice, passive, localVars, tally, venueVars, faulty>>

Task ==
  \/ Begin \/ SkipSlice \/ SendFirst \/ OutOfBounds \/ Exhausted
  \/ PostReturns \/ FallsBack \/ VenueFlat \/ PostAborts
  \/ Rested \/ TimesOut \/ SendResidual \/ Settled \/ Aborted

-----------------------------------------------------------------------------
\* Its cancellation: by the slippage guard on a fill, and by the engine's stop.
Running == stage \notin {"created", "ended", "dropped"}

CancelParent ==
  /\ Running
  /\ tally > 0
  /\ End
  /\ asked' = asked \union Unfinished(status)
  /\ adrift' = adrift \union GivenUp
  /\ UNCHANGED <<reduceOnly, slice, passive, status, size, told, tally, venue, cum, faulty>>

\* A task cancelled before its first step never enters its try block.
Shutdown ==
  /\ stage \notin {"ended", "dropped"}
  /\ IF Running THEN End ELSE stage' = "dropped" /\ UNCHANGED report
  /\ adrift' = adrift \union GivenUp
  /\ UNCHANGED <<reduceOnly, slice, passive, localVars, tally, venue, cum, faulty>>

-----------------------------------------------------------------------------
\* The venue.
Limit(c) == c[2] = "first" /\ (passive \/ c[1] < slice)

VenueTakes(c) ==
  /\ venue[c] = "none"
  /\ (stage \in Kind /\ c = Current) \/ c \in adrift
  /\ adrift' = adrift \ {c}
  /\ \/ /\ Limit(c)
        /\ venue' = [venue EXCEPT ![c] = "NEW"]
        /\ UNCHANGED cum
     \/ /\ ~Limit(c)
        /\ \E lots \in 0 .. size[c] :
             /\ cum' = [cum EXCEPT ![c] = lots]
             /\ venue' = [venue EXCEPT ![c] = IF lots = size[c] THEN "FILLED" ELSE "EXPIRED"]
  /\ UNCHANGED <<reduceOnly, taskVars, localVars, reportVars, faulty>>

Match(c) ==
  /\ Open(c)
  /\ cum' = [cum EXCEPT ![c] = @ + 1]
  /\ venue' = [venue EXCEPT ![c] = IF cum[c] + 1 = size[c] THEN "FILLED" ELSE "PARTIALLY_FILLED"]
  /\ UNCHANGED <<reduceOnly, taskVars, localVars, reportVars, adrift, faulty>>

Expire(c) ==
  /\ Open(c)
  /\ venue' = [venue EXCEPT ![c] = "EXPIRED"]
  /\ UNCHANGED <<reduceOnly, taskVars, localVars, reportVars, cum, adrift, faulty>>

DeleteServed(i) ==
  /\ i \in asked
  /\ asked' = asked \ {i}
  /\ venue' = [c \in Child |-> IF Id(c) = i /\ Open(c) THEN "CANCELED" ELSE venue[c]]
  /\ UNCHANGED <<reduceOnly, taskVars, status, size, told, reportVars, cum, adrift, faulty>>

\* A DELETE that fails leaves the order open; its error is swallowed.
DeleteFails(i) ==
  /\ i \in asked
  /\ asked' = asked \ {i}
  /\ faulty' = faulty \union {s \in Slice : <<s, "first">> = i /\ Open(i)}
  /\ UNCHANGED <<reduceOnly, taskVars, status, size, told, reportVars, venueVars>>

\* The stream reports what a child has become, and its new fills reach the report,
\* which is done once it is full.  After the parent has ended nothing reads either.
Learn(c) ==
  /\ stage \notin {"ended", "dropped"}
  /\ venue[c] # "none"
  /\ told[c] < cum[c] \/ status[Id(c)] # MergeOrderStatus(status[Id(c)], MapStatus(venue[c]))
  /\ told' = [told EXCEPT ![c] = cum[c]]
  /\ status' = [status EXCEPT ![Id(c)] = MergeOrderStatus(@, MapStatus(venue[c]))]
  /\ IF report = "open"
       THEN /\ tally' = tally + (cum[c] - told[c])
            /\ report' = IF tally' >= Total THEN "done" ELSE report
       ELSE UNCHANGED reportVars
  /\ UNCHANGED <<reduceOnly, taskVars, size, asked, venueVars, faulty>>

Venue == \E c \in Child : VenueTakes(c) \/ Match(c) \/ Expire(c) \/ Learn(c)

Deletes == \E i \in Ids : DeleteServed(i) \/ DeleteFails(i)

Next == Task \/ CancelParent \/ Shutdown \/ Venue \/ Deletes

Spec == Init /\ [][Next]_vars

\* The loop runs the task, whose polls have deadlines, and REST calls return or fail.
FairSpec == Spec /\ WF_vars(Task) /\ WF_vars(Deletes)

-----------------------------------------------------------------------------
Lots(s) == cum[<<s, "first">>] + cum[<<s, "fallback">>] + cum[<<s, "residual">>]

\* A slice is executed twice at most: the fallback of a submission that raised and the
\* residual of a cancelled LIMIT exclude each other, and each has one slice to order.
AtMostTwice == \A s \in Slice : Lots(s) <= 2 * Plan[s]

\* A slice is executed beyond its quantity only for wrong news when the second child
\* was sized: a submission that raised without a refusal by the venue, a DELETE that
\* failed, or fills that the stream had not reported.
OverfillHasCause == \A s \in Slice : Lots(s) > Plan[s] => s \in faulty

\* A parent that reduces a position never executes more than its slices, whatever
\* fails: it sends no second child.
ReduceNeverOver == reduceOnly => \A s \in Slice : Lots(s) <= Plan[s]

\* Once its task has started, a parent's report is closed in the end on every path, and
\* frees its place among the open parents (max_open_parents).
ReportCloses == stage \notin {"created", "dropped"} ~> report = "done"

=============================================================================
