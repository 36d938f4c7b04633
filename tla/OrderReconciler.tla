-------------------------- MODULE OrderReconciler --------------------------
(***************************************************************************)
(* The order reconciler (backend/engine/core/order_reconciliation.py): a   *)
(* task that compares the venue's open orders with the order manager's     *)
(* working children over several REST calls, while submissions, cancels    *)
(* and stream frames go on between them.  One pass runs at a time.         *)
(***************************************************************************)
EXTENDS OrderManager, SequencesExt

CONSTANTS
  CancelOrphans,   \* setting reconcile_cancel_orphans
  SkipWhenFresh,   \* setting reconcile_skip_rest_when_user_data_fresh
  LocalOnlyLimit   \* local-only orders that trip the breaker (3 in the code)

\* Client order ids have a bounded length, so there are finitely many.
ASSUME ReconcilerAssumption ==
  /\ IsFiniteSet(Orders)
  /\ CancelOrphans \in BOOLEAN
  /\ SkipWhenFresh \in BOOLEAN
  /\ LocalOnlyLimit \in Nat \ {0}

VARIABLES
  stage,       \* where reconcile_once is suspended
  trips,       \* its argument trip_on_mismatch
  venueIds,    \* ids of the open orders in the last list
  localIds,    \* ids of the working children when the first list returned
  todo,        \* local orphans still to be queried
  mismatch     \* breaker code order_reconcile_mismatch is tripped

passVars == <<stage, trips, venueIds, localIds, todo>>
recVars == <<passVars, mismatch>>
allVars == <<vars, recVars>>

Stage == {"idle", "listing", "cancelling", "relisting", "refreshing"}

TypeOKReconciler ==
  /\ TypeOK
  /\ stage \in Stage
  /\ trips \in BOOLEAN
  /\ venueIds \subseteq Orders
  /\ localIds \subseteq Orders
  /\ todo \subseteq Orders
  /\ mismatch \in BOOLEAN

InitReconciler ==
  /\ Init
  /\ stage = "idle"
  /\ trips = TRUE
  /\ venueIds = {} /\ localIds = {} /\ todo = {}
  /\ mismatch = FALSE

-----------------------------------------------------------------------------
\* Steps of the order manager leave the pass alone, and this module's steps leave
\* to it what they do not say.
OmsStep == Next /\ UNCHANGED recVars

Quietly == UNCHANGED <<book, cum, executed, stream, lost>>
OmsIdle == UNCHANGED omsVars

GoesQuiet ==
  /\ fresh
  /\ fresh' = FALSE
  /\ UNCHANGED <<exchangeVars, tracked, status, filled, seen, counted, recVars>>

\* The minor breach runs out after its cooldown.
MismatchExpires ==
  /\ mismatch
  /\ mismatch' = FALSE
  /\ UNCHANGED <<vars, passVars>>

\* Mutated form of BeginPass: the skip test inverted.
BeginPassWhenFresh(forced) ==
  /\ stage = "idle"
  /\ forced \/ (SkipWhenFresh /\ fresh)
  /\ stage' = "listing"
  /\ trips' = ~forced
  /\ venueIds' = {} /\ localIds' = {} /\ todo' = {}
  /\ Issue([op |-> "list"])
  /\ UNCHANGED <<answer, mismatch>> /\ Quietly /\ OmsIdle

\* reconcile_once: the periodic pass, or the forced one of sync_startup, which
\* does not trip the breaker.
BeginPass(forced) ==
  /\ stage = "idle"
  /\ forced \/ ~(SkipWhenFresh /\ fresh)
  /\ stage' = "listing"
  /\ trips' = ~forced
  /\ venueIds' = {} /\ localIds' = {} /\ todo' = {}
  /\ Issue([op |-> "list"])
  /\ UNCHANGED <<answer, mismatch>> /\ Quietly /\ OmsIdle

\* Mutated form of Conclude: the local set read before the queries is rejected instead of
\* what is still missing after them.
ConcludeStale(st, orphans, venue, local) ==
  /\ status' = [o \in Orders |-> IF o \in local \ venue THEN "REJECTED" ELSE st[o]]
  /\ mismatch' = (orphans # {} /\ trips)
  /\ stage' = "idle"

\* The pass ends with `orphans` still missing from the list `venue`: each becomes
\* REJECTED (st holds the statuses so far), and the breaker follows what is left.
Conclude(st, orphans, venue, local) ==
  LET strangers == venue \ local IN
  /\ status' = [o \in Orders |-> IF o \in orphans THEN "REJECTED" ELSE st[o]]
  /\ mismatch' = IF orphans = {} /\ strangers = {} THEN FALSE
                 ELSE mismatch \/ (trips /\ (strangers # {} \/ Cardinality(orphans) >= LocalOnlyLimit))
  /\ stage' = "idle"

\* Mutated form of RefreshOrConclude: missing orders are neither queried nor rejected.
RefreshNothing(missing, venue, local) ==
  /\ Conclude(status, {}, venue, local)
  /\ calls' = Tail(calls)
  /\ todo' = {}

\* After the lists: query one missing order, or conclude when none was missing.
RefreshOrConclude(missing, venue, local) ==
  \/ /\ missing = {}
     /\ Conclude(status, {}, venue, local)
     /\ calls' = Tail(calls)
     /\ todo' = {}
  \/ \E o \in missing :
       /\ stage' = "refreshing"
       /\ todo' = missing \ {o}
       /\ calls' = Append(Tail(calls), [op |-> "query", id |-> o])
       /\ UNCHANGED <<status, mismatch>>

\* The first list failed: nothing is compared.
ListFails ==
  /\ Answered("list") /\ answer.kind = "error" /\ stage = "listing"
  /\ stage' = "idle"
  /\ calls' = Tail(calls) /\ answer' = Pending
  /\ UNCHANGED <<trips, venueIds, localIds, todo, mismatch>> /\ Quietly /\ OmsIdle

\* The first list: strangers are cancelled first when the setting says so.  The
\* working children are read now, not when the list was made.
ListReturns ==
  /\ Answered("list") /\ answer.kind = "ok" /\ stage = "listing"
  /\ LET strangers == answer.open \ Working
         missing == Working \ answer.open
     IN IF CancelOrphans /\ strangers # {}
        THEN /\ stage' = "cancelling"
             /\ todo' = missing
             /\ \E order \in SetToSeqs(strangers) :
                  calls' = Tail(calls) \o [i \in DOMAIN order |-> [op |-> "orphan", id |-> order[i]]]
             /\ UNCHANGED <<status, mismatch>>
        ELSE RefreshOrConclude(missing, answer.open, Working)
  /\ venueIds' = answer.open
  /\ localIds' = Working
  /\ answer' = Pending
  /\ UNCHANGED <<trips, tracked, filled, seen, counted, fresh>> /\ Quietly

\* When the last cancel has returned, whatever it returned, the list is fetched again.
OrphanCancelReturns ==
  /\ Answered("orphan")
  /\ IF \E i \in DOMAIN Tail(calls) : Tail(calls)[i].op = "orphan"
     THEN calls' = Tail(calls) /\ UNCHANGED stage
     ELSE calls' = Append(Tail(calls), [op |-> "list"]) /\ stage' = "relisting"
  /\ answer' = Pending
  /\ UNCHANGED <<trips, venueIds, localIds, todo, mismatch>> /\ Quietly /\ OmsIdle

\* The second list replaces the first unless it failed; the local side stays as read
\* before.
RelistReturns ==
  /\ Answered("list") /\ stage = "relisting"
  /\ LET venue == IF answer.kind = "ok" THEN answer.open ELSE venueIds IN
       /\ venueIds' = venue
       /\ RefreshOrConclude(todo, venue, localIds)
  /\ answer' = Pending
  /\ UNCHANGED <<trips, localIds, tracked, filled, seen, counted, fresh>> /\ Quietly

\* A query's row is applied like a stream update; an unknown order or a failed
\* query changes nothing.  After the last one the working children are read again
\* and compared with the list made before the queries.
QueryReturns ==
  /\ Answered("query")
  /\ LET o == Head(calls).id
         found == answer.kind = "ok" /\ answer.status # "none"
         st == IF found
               THEN [status EXCEPT ![o] = MergeOrderStatus(@, MapStatus(answer.status))]
               ELSE status
         orphans == {c \in tracked : st[c] \in WorkingStatus} \ venueIds
     IN /\ filled' = IF found THEN [filled EXCEPT ![o] = answer.cum] ELSE filled
        /\ fresh' = (fresh \/ found \/ (todo = {} /\ orphans # {}))
        /\ \/ /\ todo = {}
              /\ Conclude(st, orphans, venueIds, localIds)
              /\ calls' = Tail(calls)
              /\ UNCHANGED todo
           \/ \E next \in todo :
                /\ status' = st
                /\ calls' = Append(Tail(calls), [op |-> "query", id |-> next])
                /\ todo' = todo \ {next}
                /\ UNCHANGED <<stage, mismatch>>
  /\ answer' = Pending
  /\ UNCHANGED <<trips, venueIds, localIds, tracked, seen, counted>> /\ Quietly

-----------------------------------------------------------------------------
PassStep == \/ ListFails \/ ListReturns \/ OrphanCancelReturns \/ RelistReturns \/ QueryReturns
            \/ \E forced \in BOOLEAN : BeginPass(forced)

NextReconciler == OmsStep \/ PassStep \/ GoesQuiet \/ MismatchExpires

SpecReconciler == InitReconciler /\ [][NextReconciler]_allVars

\* The event loop runs every ready continuation and keeps reading the socket; the
\* periodic task keeps starting passes; the venue works on the call that holds the
\* gate, and a list or a cancel does not fail for ever.
Continuations ==
  /\ SubmitReturns \/ SubmitRaises \/ CancelReturns \/ MarkWorkingCancelled
  /\ UNCHANGED recVars

CallProgress ==
  /\ \/ ServePlace \/ ServeCancel \/ ServeList \/ ServeQuery \/ ServeSweepEnd \/ CallFails
     \/ \E o \in Orders : ServeSweepOne(o)
  /\ UNCHANGED <<omsVars, recVars>>

FairReconciler ==
  /\ SpecReconciler
  /\ WF_allVars(HandleFrame(FALSE) /\ UNCHANGED recVars)
  /\ WF_allVars(Continuations)
  /\ WF_allVars(CallProgress)
  /\ WF_allVars(ListFails \/ OrphanCancelReturns \/ RelistReturns \/ QueryReturns)
  /\ WF_allVars(GoesQuiet)
  /\ WF_allVars(BeginPass(FALSE))
  /\ SF_allVars(ServeList /\ UNCHANGED <<omsVars, recVars>>)
  /\ SF_allVars(ListReturns)
  /\ SF_allVars(ServeCancel /\ UNCHANGED <<omsVars, recVars>>)

-----------------------------------------------------------------------------
\* An order the venue has closed does not stay in the working set: when the frame
\* that said so was lost, or a late response put the child back to work, a pass
\* settles it.
ClosedOrderSettles ==
  \A o \in Orders :
    o \in Working /\ book[o] \in VenueStatus \ (OpenStatus \union {"none"}) ~> o \notin Working

\* An open order the engine does not work (adopted by nobody, or written off while
\* it lives) is cancelled or worked again.
StrayOrderEnds ==
  \A o \in Orders : o \in OpenOrders \ Working ~> o \notin OpenOrders \/ o \in Working
=============================================================================
