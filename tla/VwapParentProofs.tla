-------------------------- MODULE VwapParentProofs --------------------------
(***************************************************************************)
(* Theorems about VwapParent, for every schedule: what a parent may        *)
(* execute beyond its quantity, and why.                                   *)
(***************************************************************************)
EXTENDS VwapParent, TLAPS

USE VwapAssumption

FirstOf(s) == <<s, "first">>
Fallback(s) == <<s, "fallback">>
Residual(s) == <<s, "residual">>

\* Slices are worked one after the other: nothing is ordered for one not begun, and the
\* current one exists while one of its children is waited for.
Begun ==
  /\ \A c \in Child : c[1] > slice => size[c] = 0
  /\ stage \in Kind \union {"resting", "cancelling"} => slice \in Slice

\* A child being submitted has a quantity, an order unknown to the venue has no fills,
\* an open one is not full, and one that may yet arrive is unknown there.
Placed ==
  /\ stage \in Kind => size[Current] > 0 /\ Current \notin adrift
  /\ \A c \in Child : venue[c] = "none" => cum[c] = 0
  /\ \A c \in Child : Open(c) => cum[c] < size[c]
  /\ \A c \in Child : c \in adrift => venue[c] = "none" /\ size[c] > 0

\* A first child that is waited for, or was cancelled for a residual, is at the venue.
Answered ==
  /\ stage \in {"resting", "cancelling"} => venue[FirstOf(slice)] # "none"
  /\ \A s \in Slice : size[Residual(s)] > 0 => venue[FirstOf(s)] # "none"

\* The second child of a slice is its last: none is there while the first is worked,
\* and never both.
Alone ==
  /\ stage \in {"first", "resting", "cancelling"} =>
       size[Fallback(slice)] = 0 /\ size[Residual(slice)] = 0
  /\ \A s \in Slice : size[Fallback(s)] = 0 \/ size[Residual(s)] = 0

\* A parent that reduces has first children only.
OnlyFirst ==
  reduceOnly =>
    /\ stage # "cancelling"
    /\ \A s \in Slice : size[Fallback(s)] = 0 /\ size[Residual(s)] = 0

\* Of a slice whose second child was sized on good news, the first child is gone: it
\* never reaches the venue, or it is closed and its fills were taken off.
GoodNews ==
  \A s \in Slice : s \notin faulty =>
    /\ size[Fallback(s)] > 0 => venue[FirstOf(s)] = "none" /\ FirstOf(s) \notin adrift
    /\ size[Residual(s)] > 0 =>
         ~Open(FirstOf(s)) /\ cum[FirstOf(s)] + size[Residual(s)] <= Plan[s]
    /\ stage = "cancelling" /\ s = slice /\ FirstOf(s) \notin asked => ~Open(FirstOf(s))

IInv == Begun /\ Placed /\ Answered /\ Alone /\ OnlyFirst /\ GoodNews

-----------------------------------------------------------------------------
\* What the helpers of the task keep.
LEMMA IdType == \A c \in Child : Id(c) \in Ids
  BY DEF Id, Ids, Child

LEMMA PlanType == Slices \in Nat \ {0} /\ Plan \in [Slice -> Nat] /\ \A s \in Slice : Plan[s] \in Nat /\ Plan[s] > 0
  BY VwapAssumption

LEMMA ChildType ==
  ASSUME NEW s \in Slice
  PROVE  /\ FirstOf(s) \in Child /\ Fallback(s) \in Child /\ Residual(s) \in Child
         /\ FirstOf(s)[1] = s /\ Fallback(s)[1] = s /\ Residual(s)[1] = s
         /\ FirstOf(s)[2] = "first" /\ Fallback(s)[2] = "fallback" /\ Residual(s)[2] = "residual"
  BY DEF FirstOf, Fallback, Residual, Child, Kind

LEMMA CurrentType ==
  ASSUME TypeOK, IInv, stage \in Kind
  PROVE  slice \in Slice /\ Current \in Child /\ Current[1] = slice /\ Current[2] = stage
  BY DEF IInv, Begun, Current, Child

\* A POST given up is of the current child, which is not an answered one.
LEMMA GivenUpIs ==
  ASSUME TypeOK, IInv
  PROVE  /\ GivenUp \subseteq Child
         /\ \A c \in GivenUp : venue[c] = "none" /\ size[c] > 0
         /\ \A s \in Slice : FirstOf(s) \in GivenUp => size[Fallback(s)] = 0
  <1>1. ASSUME NEW c \in GivenUp
        PROVE  c = Current /\ c \in Child /\ venue[c] = "none" /\ size[c] > 0 /\ stage \in Kind
    BY CurrentType DEF GivenUp, IInv, Placed
  <1>2. ASSUME NEW s \in Slice, FirstOf(s) \in GivenUp PROVE size[Fallback(s)] = 0
    <2>1. s = slice /\ stage = "first"
      BY <1>1, <1>2, CurrentType, ChildType
    <2> QED BY <2>1 DEF IInv, Alone
  <1> QED BY <1>1, <1>2

\* A step that orders nothing and waits for no child keeps the invariant.
LEMMA Quiet ==
  ASSUME TypeOK, IInv, UNCHANGED <<reduceOnly, slice, size, venue, cum, faulty>>,
         adrift' \in {adrift, adrift \union GivenUp},
         stage' \in {"sleep", "settling", "aborting", "ended", "dropped"}
  PROVE  IInv'
  <1>1. stage' \notin Kind \union {"resting", "cancelling", "first"}
    BY DEF Kind
  <1>2. \A c \in Child : c \in adrift' => venue[c] = "none" /\ size[c] > 0
    BY GivenUpIs DEF IInv, Placed
  <1>3. Begun' /\ Placed'
    BY <1>1, <1>2 DEF IInv, Begun, Placed, Open
  <1>4. Answered' /\ Alone' /\ OnlyFirst'
    BY <1>1 DEF IInv, Answered, Alone, OnlyFirst, FirstOf, Fallback, Residual
  <1>5. \A s \in Slice : s \notin faulty /\ size[Fallback(s)] > 0 => FirstOf(s) \notin adrift'
    BY GivenUpIs, ChildType DEF TypeOK, IInv, GoodNews
  <1>6. GoodNews'
    BY <1>1, <1>5 DEF IInv, GoodNews, FirstOf, Fallback, Residual, Open
  <1> QED BY <1>3, <1>4, <1>6 DEF IInv

LEMMA InitInv == Init => TypeOK /\ IInv
  <1> SUFFICES ASSUME Init PROVE TypeOK /\ IInv
    OBVIOUS
  <1>1. \A c \in Child : size[c] = 0 /\ told[c] = 0 /\ cum[c] = 0 /\ venue[c] = "none"
    BY DEF Init
  <1>2. \A c \in Child : c[1] \in Slice
    BY DEF Child
  <1>3. TypeOK
    <2>1. \A c \in Child : 0 <= Plan[c[1]]
      BY <1>2, PlanType
    <2> QED BY <1>1, <2>1, PlanType DEF Init, TypeOK, Stage, Kind, Status, VenueStatus
  <1>4. IInv
    BY <1>1, ChildType DEF Init, IInv, Begun, Placed, Answered, Alone, OnlyFirst, GoodNews, Open, Kind
  <1> QED BY <1>3, <1>4

-----------------------------------------------------------------------------
\* Type correctness, one lemma for each part of the next-state relation.
LEMMA PostType ==
  ASSUME TypeOK, NEW st \in [Ids -> Status], NEW c \in Child, NEW lots \in 1 .. Plan[c[1]],
         size[c] = 0, Post(st, c, lots), UNCHANGED <<told, cum>>
  PROVE  /\ stage' \in Kind
         /\ status' \in [Ids -> Status]
         /\ size' \in [Child -> Nat]
         /\ \A d \in Child : told'[d] <= cum'[d] /\ cum'[d] <= size'[d] /\ size'[d] <= Plan[d[1]]
  <1>1. stage' \in Kind
    BY DEF Post, Child
  <1>2. status' \in [Ids -> Status]
    BY IdType DEF Post, Status
  <1>3. size' \in [Child -> Nat]
    BY DEF Post, TypeOK
  <1>4. ASSUME NEW d \in Child
        PROVE  told'[d] <= cum'[d] /\ cum'[d] <= size'[d] /\ size'[d] <= Plan[d[1]]
    <2>1. CASE d = c
      BY <2>1 DEF Post, TypeOK
    <2>2. CASE d # c
      BY <2>2 DEF Post, TypeOK
    <2> QED BY <2>1, <2>2
  <1> QED BY <1>1, <1>2, <1>3, <1>4

LEMMA RefusedType ==
  ASSUME TypeOK, IInv, stage \in Kind
  PROVE  Refused \in [Ids -> Status]
  BY CurrentType, IdType DEF TypeOK, Refused, Status

LEMMA TaskType == ASSUME TypeOK, IInv, Task PROVE TypeOK'
  <1>1. CASE Begin \/ Rested \/ Settled
    BY <1>1 DEF Begin, Rested, Settled, TypeOK, Stage, localVars, reportVars, venueVars
  <1>2. CASE SkipSlice
    BY <1>2, PlanType DEF SkipSlice, TypeOK, localVars, reportVars, venueVars
  <1>3. CASE SendFirst
    <2>1. slice + 1 \in Slice /\ <<slice + 1, "first">> \in Child
      BY <1>3, PlanType DEF SendFirst, TypeOK, Slice, Child, Kind
    <2>2. size[<<slice + 1, "first">>] = 0
      BY <2>1 DEF IInv, Begun, TypeOK
    <2>3. Plan[slice + 1] \in 1 .. Plan[slice + 1]
      BY <2>1, PlanType
    <2> DEFINE c == <<slice + 1, "first">>
    <2>4. c \in Child /\ Plan[slice + 1] \in 1 .. Plan[c[1]] /\ size[c] = 0
          /\ Post(status, c, Plan[slice + 1]) /\ UNCHANGED <<told, cum>>
      BY <1>3, <2>1, <2>2, <2>3 DEF SendFirst, venueVars
    <2> HIDE DEF c
    <2>5. /\ stage' \in Kind /\ status' \in [Ids -> Status] /\ size' \in [Child -> Nat]
          /\ \A d \in Child : told'[d] <= cum'[d] /\ cum'[d] <= size'[d] /\ size'[d] <= Plan[d[1]]
      BY <2>4, PostType DEF TypeOK
    <2> QED BY <1>3, <2>1, <2>5 DEF SendFirst, TypeOK, Stage, Slice, reportVars, venueVars
  <1>4. CASE OutOfBounds
    BY <1>4, PlanType DEF OutOfBounds, Abort, Unfinished, TypeOK, Stage, reportVars, venueVars
  <1>5. CASE Exhausted \/ Aborted
    BY <1>5 DEF Exhausted, Aborted, End, TypeOK, Stage, localVars, venueVars
  <1>6. CASE PostReturns
    <2>1. Id(Current) \in Ids
      BY <1>6, CurrentType, IdType DEF PostReturns
    <2> QED BY <1>6, <2>1 DEF PostReturns, TypeOK, Stage, Status, reportVars, venueVars
  <1>7. CASE FallsBack
    <2> DEFINE c == Fallback(slice)
    <2>1. slice \in Slice /\ stage \in Kind
      BY <1>7, CurrentType DEF FallsBack, Kind
    <2>2. c \in Child /\ c[1] = slice /\ size[c] = 0 /\ Plan[slice] \in 1 .. Plan[slice]
      BY <1>7, <2>1, ChildType, PlanType DEF FallsBack, IInv, Alone
    <2>3. Post(Refused, c, Plan[slice]) /\ UNCHANGED <<told, cum>>
      BY <1>7 DEF FallsBack, Fallback
    <2> HIDE DEF c
    <2>4. /\ stage' \in Kind /\ status' \in [Ids -> Status] /\ size' \in [Child -> Nat]
          /\ \A d \in Child : told'[d] <= cum'[d] /\ cum'[d] <= size'[d] /\ size'[d] <= Plan[d[1]]
      BY <2>1, <2>2, <2>3, RefusedType, PostType
    <2>5. faulty' \subseteq Slice /\ adrift' \subseteq Child
      BY <1>7, <2>1, GivenUpIs DEF FallsBack, Raises, TypeOK
    <2> QED BY <1>7, <2>4, <2>5 DEF FallsBack, TypeOK, Stage, reportVars
  <1>8. CASE VenueFlat
    BY <1>8, RefusedType DEF VenueFlat, End, TypeOK, Stage, Kind, venueVars
  <1>9. CASE PostAborts
    <2>1. Refused \in [Ids -> Status]
      BY <1>9, RefusedType DEF PostAborts
    <2>2. adrift' \subseteq Child
      BY <1>9, GivenUpIs DEF PostAborts, TypeOK
    <2> QED BY <1>9, <2>1, <2>2 DEF PostAborts, Abort, Unfinished, TypeOK, Stage, reportVars
  <1>10. CASE TimesOut
    <2>1. First \in Ids
      BY <1>10 DEF TimesOut, IInv, Begun, First, Ids, Child, Kind
    <2> QED BY <1>10, <2>1 DEF TimesOut, TypeOK, Stage, reportVars, venueVars
  <1>11. CASE SendResidual
    <2> DEFINE c == Residual(slice)
    <2>1. slice \in Slice
      BY <1>11 DEF SendResidual, IInv, Begun
    <2>2. c \in Child /\ c[1] = slice /\ size[c] = 0
      BY <1>11, <2>1, ChildType DEF SendResidual, IInv, Alone
    <2>3. First \in Child /\ First[1] = slice
      BY <2>1, ChildType DEF First, FirstOf
    <2>4. faulty' \subseteq Slice
      BY <1>11, <2>1 DEF SendResidual, TypeOK
    <2>5. CASE told[First] < size[First]
      <3>1. size[First] - told[First] \in 1 .. Plan[slice]
        BY <2>1, <2>3, <2>5, PlanType DEF TypeOK
      <3>2. Post(status, c, size[First] - told[First]) /\ UNCHANGED <<told, cum>> /\ status \in [Ids -> Status]
        BY <1>11, <2>5 DEF SendResidual, Residual, venueVars, TypeOK
      <3> HIDE DEF c
      <3>3. /\ stage' \in Kind /\ status' \in [Ids -> Status] /\ size' \in [Child -> Nat]
            /\ \A d \in Child : told'[d] <= cum'[d] /\ cum'[d] <= size'[d] /\ size'[d] <= Plan[d[1]]
        BY <2>2, <3>1, <3>2, PostType
      <3> QED BY <1>11, <2>4, <3>3 DEF SendResidual, TypeOK, Stage, reportVars, venueVars
    <2>6. CASE ~(told[First] < size[First])
      BY <1>11, <2>4, <2>6 DEF SendResidual, TypeOK, Stage, reportVars, venueVars
    <2> QED BY <2>5, <2>6
  <1> QED BY <1>1, <1>2, <1>3, <1>4, <1>5, <1>6, <1>7, <1>8, <1>9, <1>10, <1>11 DEF Task

LEMMA MapType == ASSUME NEW a \in Status, NEW b PROVE MergeOrderStatus(a, MapStatus(b)) \in Status
  BY DEF MergeOrderStatus, MapStatus, Mapping, Status, TerminalStatus, Allowed

LEMMA OutsideType ==
  ASSUME TypeOK, IInv, CancelParent \/ Shutdown \/ Venue \/ Deletes
  PROVE  TypeOK'
  <1>1. CASE CancelParent
    BY <1>1, GivenUpIs DEF CancelParent, End, Unfinished, TypeOK, Stage
  <1>2. CASE Shutdown
    BY <1>2, GivenUpIs DEF Shutdown, End, TypeOK, Stage, localVars
  <1>3. ASSUME NEW c \in Child, VenueTakes(c) PROVE TypeOK'
    <2>1. cum[c] = 0 /\ told[c] = 0
      BY <1>3 DEF VenueTakes, IInv, Placed, TypeOK
    <2>2. CASE venue' = [venue EXCEPT ![c] = "NEW"] /\ UNCHANGED cum
      BY <1>3, <2>2 DEF VenueTakes, TypeOK, VenueStatus, taskVars, localVars, reportVars
    <2>3. ASSUME NEW lots \in 0 .. size[c], cum' = [cum EXCEPT ![c] = lots],
                 venue' = [venue EXCEPT ![c] = IF lots = size[c] THEN "FILLED" ELSE "EXPIRED"]
          PROVE  TypeOK'
      <3>1. cum' \in [Child -> Nat] /\ venue' \in [Child -> VenueStatus]
        BY <2>3 DEF TypeOK, VenueStatus
      <3>2. ASSUME NEW d \in Child PROVE told[d] <= cum'[d] /\ cum'[d] <= size[d]
        BY <2>1, <2>3 DEF TypeOK
      <3> QED BY <1>3, <3>1, <3>2 DEF VenueTakes, TypeOK, taskVars, localVars, reportVars
    <2> QED BY <1>3, <2>2, <2>3 DEF VenueTakes
  <1>4. ASSUME NEW c \in Child, Match(c) PROVE TypeOK'
    <2>1. cum[c] < size[c]
      BY <1>4 DEF Match, IInv, Placed
    <2>2. cum' \in [Child -> Nat] /\ venue' \in [Child -> VenueStatus]
      BY <1>4 DEF Match, TypeOK, VenueStatus
    <2>3. ASSUME NEW d \in Child PROVE told[d] <= cum'[d] /\ cum'[d] <= size[d]
      BY <1>4, <2>1 DEF Match, TypeOK
    <2> QED BY <1>4, <2>2, <2>3 DEF Match, TypeOK, taskVars, localVars, reportVars
  <1>5. ASSUME NEW c \in Child, Expire(c) PROVE TypeOK'
    BY <1>5 DEF Expire, TypeOK, VenueStatus, taskVars, localVars, reportVars
  <1>6. ASSUME NEW c \in Child, Learn(c) PROVE TypeOK'
    <2>1. Id(c) \in Ids
      BY IdType
    <2>2. status' \in [Ids -> Status]
      <3>1. status[Id(c)] \in Status
        BY <2>1 DEF TypeOK
      <3>2. MergeOrderStatus(status[Id(c)], MapStatus(venue[c])) \in Status
        BY <3>1, MapType
      <3> QED BY <1>6, <2>1, <3>2 DEF Learn, TypeOK
    <2>3. told' \in [Child -> Nat] /\ \A d \in Child : told'[d] <= cum[d]
      BY <1>6 DEF Learn, TypeOK
    <2>4. cum[c] - told[c] \in Nat
      BY DEF TypeOK
    <2>5. report' \in {"open", "done"} /\ tally' \in Nat
      BY <1>6, <2>4 DEF Learn, TypeOK, reportVars
    <2> QED BY <1>6, <2>2, <2>3, <2>5 DEF Learn, TypeOK, taskVars, venueVars
  <1>7. ASSUME NEW i \in Ids, DeleteServed(i) PROVE TypeOK'
    BY <1>7 DEF DeleteServed, TypeOK, VenueStatus, taskVars, reportVars
  <1>8. ASSUME NEW i \in Ids, DeleteFails(i) PROVE TypeOK'
    BY <1>8 DEF DeleteFails, TypeOK, taskVars, reportVars, venueVars
  <1> QED BY <1>1, <1>2, <1>3, <1>4, <1>5, <1>6, <1>7, <1>8 DEF Venue, Deletes

-----------------------------------------------------------------------------
\* The invariant, one lemma for each kind of step.

\* A child that is ordered, of a slice it is not beyond, disturbs its own size only.
LEMMA PostKeeps ==
  ASSUME TypeOK, IInv, NEW st, NEW c \in Child, NEW lots \in Nat \ {0}, size[c] = 0, c[1] = slice',
         slice' \in {slice, slice + 1}, Post(st, c, lots), UNCHANGED <<venue, cum>>,
         adrift' \in {adrift, adrift \union GivenUp}
  PROVE  /\ Begun' /\ Placed'
         /\ stage' = c[2]
         /\ \A d \in Child : d # c => size'[d] = size[d]
         /\ size'[c] = lots
  <1>1. stage' = c[2] /\ size'[c] = lots /\ \A d \in Child : d # c => size'[d] = size[d]
    BY DEF Post, TypeOK
  <1>2. slice \in Nat /\ slice' \in Nat /\ slice <= slice'
    BY DEF TypeOK
  <1>3. Begun'
    <2>1. ASSUME NEW d \in Child, d[1] > slice' PROVE size'[d] = 0
      <3>1. d # c /\ d[1] > slice
        BY <1>2, <2>1, PlanType DEF Child, Slice
      <3> QED BY <1>1, <3>1 DEF IInv, Begun
    <2>2. slice' \in Slice
      BY DEF Child
    <2> QED BY <2>1, <2>2 DEF Begun
  <1>4. Placed'
    <2>1. Current' = c
      BY <1>1 DEF Current, Child
    <2>2. ~Open(c)
      BY DEF IInv, Placed, TypeOK
    <2>3. (\A d \in Child : d \in adrift' => venue[d] = "none" /\ size[d] > 0) /\ c \notin adrift'
      BY GivenUpIs DEF IInv, Placed
    <2> QED BY <1>1, <2>1, <2>2, <2>3 DEF IInv, Placed, Open
  <1> QED BY <1>1, <1>3, <1>4

LEMMA SkipKeeps ==
  ASSUME TypeOK, IInv, SkipSlice \/ OutOfBounds
  PROVE  IInv'
  <1>1. /\ slice' = slice + 1 /\ stage' \in {"sleep", "aborting"}
        /\ UNCHANGED <<reduceOnly, size, venue, cum, adrift, faulty>>
    BY DEF SkipSlice, OutOfBounds, Abort, localVars, venueVars
  <1>2. \A c \in Child : c[1] > slice + 1 => c[1] > slice
    BY DEF TypeOK, Child, Slice
  <1>3. Begun' /\ Placed'
    BY <1>1, <1>2 DEF IInv, Begun, Placed, Open, Kind
  <1>4. Answered' /\ Alone' /\ OnlyFirst'
    BY <1>1 DEF IInv, Answered, Alone, OnlyFirst, FirstOf, Fallback, Residual
  <1>5. GoodNews'
    BY <1>1 DEF IInv, GoodNews, FirstOf, Fallback, Residual, Open
  <1> QED BY <1>3, <1>4, <1>5 DEF IInv

LEMMA SendFirstKeeps ==
  ASSUME TypeOK, IInv, SendFirst
  PROVE  IInv'
  <1> DEFINE c == FirstOf(slice + 1)
  <1>1. slice + 1 \in Slice /\ slice' = slice + 1
    BY PlanType DEF SendFirst, TypeOK, Slice
  <1>2. c \in Child /\ c[1] = slice' /\ c[2] = "first"
    BY <1>1, ChildType
  <1>3. size[c] = 0 /\ Plan[slice + 1] \in Nat \ {0}
    BY <1>1, <1>2, PlanType DEF IInv, Begun, TypeOK
  <1>4. Post(status, c, Plan[slice + 1]) /\ UNCHANGED <<reduceOnly, venue, cum, adrift, faulty>>
    BY DEF SendFirst, FirstOf, venueVars
  <1>5. \A s \in Slice : Fallback(s) \in Child /\ Residual(s) \in Child /\ Fallback(s) # c /\ Residual(s) # c
    BY ChildType DEF Fallback, Residual, FirstOf
  <1> HIDE DEF c
  <1>6. Begun' /\ Placed' /\ stage' = "first" /\ \A d \in Child : d # c => size'[d] = size[d]
    BY <1>1, <1>2, <1>3, <1>4, PostKeeps
  <1>7. \A s \in Slice : size'[Fallback(s)] = size[Fallback(s)] /\ size'[Residual(s)] = size[Residual(s)]
    BY <1>5, <1>6
  <1>8. Alone'
    <2>1. Fallback(slice + 1)[1] > slice /\ Residual(slice + 1)[1] > slice
      BY <1>1, ChildType DEF TypeOK
    <2>2. size[Fallback(slice + 1)] = 0 /\ size[Residual(slice + 1)] = 0
      BY <1>1, <1>5, <2>1 DEF IInv, Begun
    <2>3. size'[Fallback(slice')] = 0 /\ size'[Residual(slice')] = 0
      BY <1>1, <1>7, <2>2
    <2> QED BY <1>7, <2>3 DEF IInv, Alone, Fallback, Residual
  <1>9. Answered' /\ OnlyFirst' /\ GoodNews'
    BY <1>4, <1>6, <1>7 DEF IInv, Answered, OnlyFirst, GoodNews, FirstOf, Fallback, Residual, Open
  <1> QED BY <1>6, <1>8, <1>9 DEF IInv

LEMMA PostReturnsKeeps ==
  ASSUME TypeOK, IInv, PostReturns
  PROVE  IInv'
  <1>1. UNCHANGED <<reduceOnly, slice, size, venue, cum, adrift, faulty, asked>>
    BY DEF PostReturns, venueVars
  <1>2. CASE stage = "first" /\ stage' = "resting"
    <2>1. Begun' /\ Placed'
      BY <1>1, <1>2 DEF IInv, Begun, Placed, Open, Kind
    <2>2. Answered' /\ Alone' /\ OnlyFirst'
      BY <1>1, <1>2 DEF PostReturns, Current, IInv, Answered, Alone, OnlyFirst, FirstOf, Fallback, Residual
    <2>3. GoodNews'
      BY <1>1, <1>2 DEF IInv, GoodNews, FirstOf, Fallback, Residual, Open
    <2> QED BY <2>1, <2>2, <2>3 DEF IInv
  <1>3. CASE stage' = "settling"
    BY <1>1, <1>3, Quiet
  <1> QED BY <1>2, <1>3 DEF PostReturns

LEMMA FallsBackKeeps ==
  ASSUME TypeOK, IInv, FallsBack
  PROVE  IInv'
  <1> DEFINE c == Fallback(slice)
  <1>1. slice \in Slice /\ stage = "first" /\ ~reduceOnly /\ UNCHANGED <<reduceOnly, slice, venue, cum>>
        /\ adrift' \in {adrift, adrift \union GivenUp}
    BY CurrentType DEF FallsBack, Raises, Kind
  <1>2. c \in Child /\ c[1] = slice' /\ c[2] = "fallback"
    BY <1>1, ChildType
  <1>3. size[c] = 0 /\ Plan[slice] \in Nat \ {0}
    BY <1>1, PlanType DEF IInv, Alone
  <1>4. Post(Refused, c, Plan[slice])
    BY DEF FallsBack, Fallback
  <1>5. \A s \in Slice : /\ Fallback(s) \in Child /\ Residual(s) \in Child /\ Residual(s) # c
                         /\ s # slice => Fallback(s) # c
    BY ChildType DEF Fallback, Residual
  <1> HIDE DEF c
  <1>6. Begun' /\ Placed' /\ stage' = "fallback" /\ \A d \in Child : d # c => size'[d] = size[d]
    BY <1>1, <1>2, <1>3, <1>4, PostKeeps
  <1>7. \A s \in Slice : /\ s # slice => size'[Fallback(s)] = size[Fallback(s)]
                         /\ size'[Residual(s)] = size[Residual(s)]
    BY <1>5, <1>6
  <1>8. size[Residual(slice)] = 0
    BY <1>1 DEF IInv, Alone
  <1>9. Alone'
    BY <1>1, <1>6, <1>7, <1>8 DEF IInv, Alone, Fallback, Residual
  <1>10. GoodNews'
    <2>1. ASSUME NEW s \in Slice, s \notin faulty'
          PROVE  /\ size'[Fallback(s)] > 0 => venue[FirstOf(s)] = "none" /\ FirstOf(s) \notin adrift'
                 /\ size'[Residual(s)] > 0 => ~Open(FirstOf(s)) /\ cum[FirstOf(s)] + size'[Residual(s)] <= Plan[s]
      <3>1. CASE s = slice
        <4>1. venue[Current] = "none" /\ adrift' = adrift /\ Current = FirstOf(s)
          BY <1>1, <2>1, <3>1 DEF FallsBack, Raises, Current, FirstOf
        <4>2. Current \notin adrift
          BY <1>1 DEF IInv, Placed, Kind
        <4> QED BY <1>7, <1>8, <3>1, <4>1, <4>2
      <3>2. CASE s # slice
        <4>1. s \notin faulty
          BY <2>1 DEF FallsBack, Raises
        <4>2. FirstOf(s) \notin GivenUp
          BY <1>1, <3>2, CurrentType, ChildType DEF GivenUp
        <4> QED BY <1>1, <1>7, <3>2, <4>1, <4>2 DEF IInv, GoodNews
      <3> QED BY <3>1, <3>2
    <2> QED BY <1>1, <1>6, <2>1 DEF GoodNews, FirstOf, Fallback, Residual, Open
  <1>11. Answered' /\ OnlyFirst'
    BY <1>1, <1>6, <1>7 DEF IInv, Answered, OnlyFirst, FirstOf, Fallback, Residual
  <1> QED BY <1>6, <1>9, <1>10, <1>11 DEF IInv

LEMMA TimesOutKeeps ==
  ASSUME TypeOK, IInv, TimesOut
  PROVE  IInv'
  <1>1. UNCHANGED <<reduceOnly, slice, size, venue, cum, adrift, faulty>>
    BY DEF TimesOut, venueVars
  <1>2. CASE stage' = "sleep"
    BY <1>1, <1>2, Quiet
  <1>3. CASE stage' = "cancelling" /\ asked' = asked \union {First} /\ ~reduceOnly
    <2>1. Begun' /\ Placed'
      BY <1>1, <1>3 DEF TimesOut, IInv, Begun, Placed, Open, Kind
    <2>2. Answered' /\ Alone' /\ OnlyFirst'
      BY <1>1, <1>3 DEF TimesOut, IInv, Answered, Alone, OnlyFirst, FirstOf, Fallback, Residual
    <2>3. GoodNews'
      BY <1>1, <1>3 DEF IInv, GoodNews, First, FirstOf, Fallback, Residual, Open
    <2> QED BY <2>1, <2>2, <2>3 DEF IInv
  <1> QED BY <1>2, <1>3 DEF TimesOut

LEMMA SendResidualKeeps ==
  ASSUME TypeOK, IInv, SendResidual
  PROVE  IInv'
  <1> DEFINE c == Residual(slice)
  <1>1. slice \in Slice /\ stage = "cancelling" /\ ~reduceOnly /\ UNCHANGED <<reduceOnly, slice, venue, cum, adrift>>
    BY DEF SendResidual, IInv, Begun, OnlyFirst, venueVars
  <1>2. First = FirstOf(slice) /\ First \in Child /\ Plan[slice] \in Nat
    BY <1>1, ChildType, PlanType DEF First, FirstOf
  <1>3. size[Fallback(slice)] = 0 /\ size[Residual(slice)] = 0
    BY <1>1 DEF IInv, Alone
  <1>4. ASSUME slice \notin faulty'
        PROVE  ~Open(First) /\ cum[First] = told[First] /\ size[First] <= Plan[slice]
    <2>1. cum[First] = told[First] /\ slice \notin faulty /\ First \notin asked
      BY <1>4 DEF SendResidual
    <2>2. ~Open(First)
      BY <1>1, <1>2, <2>1 DEF IInv, GoodNews
    <2>3. First[1] = slice
      BY <1>1, <1>2, ChildType
    <2> QED BY <1>2, <2>1, <2>2, <2>3 DEF TypeOK
  <1>5. \A s \in Slice : s # slice /\ s \notin faulty' => s \notin faulty
    BY DEF SendResidual
  <1>6. CASE told[First] < size[First]
    <2> DEFINE lots == size[First] - told[First]
    <2>1. lots \in Nat \ {0}
      BY <1>2, <1>6 DEF TypeOK
    <2>2. Post(status, c, lots)
      BY <1>6 DEF SendResidual, Residual
    <2>3. c \in Child /\ c[1] = slice' /\ c[2] = "residual" /\ size[c] = 0
      BY <1>1, <1>3, ChildType
    <2>4. \A s \in Slice : /\ Fallback(s) \in Child /\ Residual(s) \in Child /\ Fallback(s) # c
                           /\ s # slice => Residual(s) # c
      BY ChildType DEF Fallback, Residual
    <2> HIDE DEF c
    <2>5. Begun' /\ Placed' /\ stage' = "residual" /\ size'[c] = lots
          /\ \A d \in Child : d # c => size'[d] = size[d]
      BY <1>1, <2>1, <2>2, <2>3, PostKeeps
    <2>6. \A s \in Slice : /\ size'[Fallback(s)] = size[Fallback(s)]
                           /\ s # slice => size'[Residual(s)] = size[Residual(s)]
      BY <2>4, <2>5
    <2>7. Alone'
      BY <1>1, <1>3, <2>5, <2>6 DEF IInv, Alone, Fallback, Residual
    <2>8. size'[Residual(slice)] = lots
      BY <2>5 DEF c
    <2>9. ASSUME NEW s \in Slice, s \notin faulty'
          PROVE  /\ size'[Fallback(s)] > 0 => venue[FirstOf(s)] = "none" /\ FirstOf(s) \notin adrift
                 /\ size'[Residual(s)] > 0 => ~Open(FirstOf(s)) /\ cum[FirstOf(s)] + size'[Residual(s)] <= Plan[s]
      <3>1. CASE s = slice
        <4>1. size'[Fallback(s)] = 0
          BY <1>3, <2>6, <3>1
        <4>2. ~Open(FirstOf(s)) /\ cum[FirstOf(s)] + lots = size[First] /\ size[First] <= Plan[s]
          BY <1>2, <1>4, <2>9, <3>1 DEF TypeOK
        <4> QED BY <2>8, <3>1, <4>1, <4>2
      <3>2. CASE s # slice
        BY <1>5, <2>6, <2>9, <3>2 DEF IInv, GoodNews
      <3> QED BY <3>1, <3>2
    <2>10. GoodNews'
      BY <1>1, <2>5, <2>9 DEF GoodNews, FirstOf, Fallback, Residual, Open
    <2>11. Answered' /\ OnlyFirst'
      <3>1. venue[FirstOf(slice)] # "none"
        BY <1>1 DEF IInv, Answered
      <3> QED BY <1>1, <2>5, <2>6, <3>1 DEF IInv, Answered, OnlyFirst, FirstOf, Fallback, Residual
    <2> QED BY <2>5, <2>7, <2>10, <2>11 DEF IInv
  <1>7. CASE ~(told[First] < size[First])
    <2>1. stage' = "sleep" /\ UNCHANGED size
      BY <1>7 DEF SendResidual
    <2>2. Begun' /\ Placed' /\ Answered' /\ Alone' /\ OnlyFirst'
      BY <1>1, <2>1 DEF IInv, Begun, Placed, Answered, Alone, OnlyFirst, Open, Kind, FirstOf, Fallback, Residual
    <2>3. GoodNews'
      BY <1>1, <1>3, <1>5, <2>1 DEF IInv, GoodNews, FirstOf, Fallback, Residual, Open
    <2> QED BY <2>2, <2>3 DEF IInv
  <1> QED BY <1>6, <1>7

LEMMA TaskKeeps == ASSUME TypeOK, IInv, Task PROVE IInv'
  <1>1. CASE Begin \/ Exhausted \/ Rested \/ Settled \/ Aborted
    <2>1. stage' \in {"sleep", "ended"} /\ UNCHANGED <<reduceOnly, slice, size, venue, cum, adrift, faulty>>
      BY <1>1 DEF Begin, Exhausted, Rested, Settled, Aborted, End, localVars, venueVars
    <2> QED BY <2>1, Quiet
  <1>2. CASE VenueFlat \/ PostAborts
    <2>1. stage' \in {"ended", "aborting"} /\ UNCHANGED <<reduceOnly, slice, size, venue, cum, faulty>>
          /\ adrift' \in {adrift, adrift \union GivenUp}
      BY <1>2 DEF VenueFlat, PostAborts, End, Abort, venueVars
    <2> QED BY <2>1, Quiet
  <1> QED BY <1>1, <1>2, SkipKeeps, SendFirstKeeps, PostReturnsKeeps, FallsBackKeeps,
             TimesOutKeeps, SendResidualKeeps DEF Task

LEMMA VenueTakesKeeps ==
  ASSUME TypeOK, IInv, NEW c \in Child, VenueTakes(c)
  PROVE  IInv'
  <1>1. /\ venue[c] = "none" /\ cum[c] = 0 /\ adrift' = adrift \ {c}
        /\ UNCHANGED <<reduceOnly, slice, stage, size, asked, faulty>>
    BY DEF VenueTakes, IInv, Placed, taskVars, localVars
  <1>2. size[c] > 0
    BY DEF VenueTakes, IInv, Placed
  <1>3. \A d \in Child : d # c => venue'[d] = venue[d] /\ cum'[d] = cum[d]
    BY DEF VenueTakes, TypeOK
  <1>4. /\ venue'[c] # "none"
        /\ venue'[c] \in {"NEW", "PARTIALLY_FILLED"} => cum'[c] < size[c]
    BY <1>1, <1>2 DEF VenueTakes, TypeOK
  <1>5. Begun' /\ Alone' /\ OnlyFirst'
    BY <1>1 DEF IInv, Begun, Alone, OnlyFirst, Fallback, Residual
  <1>6. Placed'
    <2>1. Current' = Current
      BY <1>1 DEF Current
    <2>2. \A d \in Child : /\ venue'[d] = "none" => cum'[d] = 0
                           /\ venue'[d] \in {"NEW", "PARTIALLY_FILLED"} => cum'[d] < size[d]
                           /\ d \in adrift' => venue'[d] = "none" /\ size[d] > 0
      BY <1>1, <1>3, <1>4 DEF IInv, Placed, Open
    <2>3. stage' \in Kind => size'[Current'] > 0 /\ Current' \notin adrift'
      BY <1>1, <2>1 DEF IInv, Placed
    <2>4. \A d \in Child : Open(d)' => cum'[d] < size'[d]
      BY <1>1, <2>2 DEF Open
    <2>5. \A d \in Child : d \in adrift' => venue'[d] = "none" /\ size'[d] > 0
      BY <1>1, <2>2
    <2> QED BY <2>2, <2>3, <2>4, <2>5 DEF Placed
  <1>7. Answered'
    <2>1. \A s \in Slice : venue[FirstOf(s)] # "none" => venue'[FirstOf(s)] # "none"
      BY <1>1, <1>3, ChildType
    <2> QED BY <1>1, <2>1 DEF IInv, Begun, Answered, FirstOf, Residual
  <1>8. GoodNews'
    <2>1. ASSUME NEW s \in Slice, s \notin faulty
          PROVE  /\ size[Fallback(s)] > 0 => venue'[FirstOf(s)] = "none" /\ FirstOf(s) \notin adrift'
                 /\ size[Residual(s)] > 0 => /\ venue'[FirstOf(s)] \notin {"NEW", "PARTIALLY_FILLED"}
                                             /\ cum'[FirstOf(s)] + size[Residual(s)] <= Plan[s]
                 /\ stage = "cancelling" /\ s = slice /\ FirstOf(s) \notin asked =>
                      venue'[FirstOf(s)] \notin {"NEW", "PARTIALLY_FILLED"}
      <3>1. CASE FirstOf(s) = c
        <4>1. size[Residual(s)] = 0 /\ ~(stage = "cancelling" /\ s = slice)
          BY <1>1, <3>1, ChildType DEF TypeOK, IInv, Answered
        <4>2. size[Fallback(s)] = 0
          <5>1. CASE stage \in Kind /\ c = Current
            <6>1. s = slice /\ stage = "first"
              BY <3>1, <5>1, CurrentType, ChildType
            <6> QED BY <6>1 DEF IInv, Alone
          <5>2. CASE c \in adrift
            BY <2>1, <3>1, <5>2, ChildType DEF TypeOK, IInv, GoodNews
          <5> QED BY <5>1, <5>2 DEF VenueTakes
        <4> QED BY <4>1, <4>2
      <3>2. CASE FirstOf(s) # c
        <4>1. venue'[FirstOf(s)] = venue[FirstOf(s)] /\ cum'[FirstOf(s)] = cum[FirstOf(s)]
          BY <1>3, <3>2, ChildType
        <4> QED BY <1>1, <2>1, <4>1 DEF IInv, GoodNews, Open
      <3> QED BY <3>1, <3>2
    <2> QED BY <1>1, <2>1 DEF GoodNews, FirstOf, Fallback, Residual, Open
  <1> QED BY <1>5, <1>6, <1>7, <1>8 DEF IInv

LEMMA MatchKeeps ==
  ASSUME TypeOK, IInv, NEW c \in Child, Match(c) \/ Expire(c)
  PROVE  IInv'
  <1>1. Open(c) /\ UNCHANGED <<reduceOnly, slice, stage, size, asked, adrift, faulty>>
    BY DEF Match, Expire, taskVars, localVars
  <1>2. \A d \in Child : d # c => venue'[d] = venue[d] /\ cum'[d] = cum[d]
    BY DEF Match, Expire, TypeOK
  <1>3. /\ venue'[c] # "none"
        /\ venue'[c] \in {"NEW", "PARTIALLY_FILLED"} => cum'[c] < size[c]
    <2>1. cum[c] \in Nat /\ size[c] \in Nat /\ cum[c] < size[c]
      BY <1>1 DEF IInv, Placed, TypeOK
    <2>2. CASE Match(c)
      <3>1. cum'[c] = cum[c] + 1 /\ venue'[c] = IF cum[c] + 1 = size[c] THEN "FILLED" ELSE "PARTIALLY_FILLED"
        BY <2>2 DEF Match, TypeOK
      <3> QED BY <2>1, <3>1
    <2>3. CASE Expire(c)
      BY <2>3 DEF Expire, TypeOK
    <2> QED BY <2>2, <2>3
  <1>4. Begun' /\ Answered' /\ Alone' /\ OnlyFirst'
    <2>1. \A s \in Slice : venue[FirstOf(s)] # "none" => venue'[FirstOf(s)] # "none"
      BY <1>2, <1>3, ChildType
    <2> QED BY <1>1, <2>1 DEF IInv, Begun, Answered, Alone, OnlyFirst, FirstOf, Fallback, Residual
  <1>5. Placed'
    <2>1. ASSUME NEW d \in Child PROVE /\ venue'[d] = "none" => cum'[d] = 0
                                       /\ venue'[d] \in {"NEW", "PARTIALLY_FILLED"} => cum'[d] < size[d]
      BY <1>2, <1>3 DEF IInv, Placed, Open
    <2>2. Current' = Current
      BY <1>1 DEF Current
    <2>3. stage \in Kind => size'[Current'] > 0 /\ Current' \notin adrift
      BY <1>1, <2>2 DEF IInv, Placed
    <2>4. stage' \in Kind => size'[Current'] > 0 /\ Current' \notin adrift'
      BY <1>1, <2>3
    <2>5. ASSUME NEW d \in Child PROVE venue'[d] \in {"NEW", "PARTIALLY_FILLED"} => cum'[d] < size'[d]
      BY <1>1, <2>1
    <2>6. ASSUME NEW d \in Child, d \in adrift PROVE venue'[d] = "none" /\ size'[d] > 0
      BY <1>1, <1>2, <2>6 DEF IInv, Placed, Open
    <2> QED BY <1>1, <2>1, <2>4, <2>5, <2>6 DEF Placed, Open
  <1>6. GoodNews'
    <2>1. ASSUME NEW s \in Slice, s \notin faulty
          PROVE  /\ size[Fallback(s)] > 0 => venue'[FirstOf(s)] = "none" /\ FirstOf(s) \notin adrift
                 /\ size[Residual(s)] > 0 => /\ venue'[FirstOf(s)] \notin {"NEW", "PARTIALLY_FILLED"}
                                             /\ cum'[FirstOf(s)] + size[Residual(s)] <= Plan[s]
                 /\ stage = "cancelling" /\ s = slice /\ FirstOf(s) \notin asked =>
                      venue'[FirstOf(s)] \notin {"NEW", "PARTIALLY_FILLED"}
      <3>1. CASE FirstOf(s) = c
        BY <1>1, <2>1, <3>1 DEF IInv, GoodNews, Open
      <3>2. CASE FirstOf(s) # c
        <4>1. venue'[FirstOf(s)] = venue[FirstOf(s)] /\ cum'[FirstOf(s)] = cum[FirstOf(s)]
          BY <1>2, <3>2, ChildType
        <4> QED BY <2>1, <4>1 DEF IInv, GoodNews, Open
      <3> QED BY <3>1, <3>2
    <2> QED BY <1>1, <2>1 DEF GoodNews, FirstOf, Fallback, Residual, Open
  <1> QED BY <1>4, <1>5, <1>6 DEF IInv

LEMMA LearnKeeps ==
  ASSUME TypeOK, IInv, NEW c \in Child, Learn(c)
  PROVE  IInv'
  <1>1. UNCHANGED <<reduceOnly, slice, stage, size, asked, venue, cum, adrift, faulty>>
    BY DEF Learn, taskVars, venueVars
  <1> QED BY <1>1 DEF IInv, Begun, Placed, Answered, Alone, OnlyFirst, GoodNews, Open, Current, FirstOf, Fallback, Residual

LEMMA DeleteKeeps ==
  ASSUME TypeOK, IInv, NEW i \in Ids, DeleteServed(i) \/ DeleteFails(i)
  PROVE  IInv'
  <1>1. UNCHANGED <<reduceOnly, slice, stage, size, cum, adrift>> /\ asked' = asked \ {i}
    BY DEF DeleteServed, DeleteFails, taskVars, venueVars
  <1>2. Begun' /\ Alone' /\ OnlyFirst'
    BY <1>1 DEF IInv, Begun, Alone, OnlyFirst, Fallback, Residual
  <1>3. \A d \in Child : /\ venue'[d] = "none" <=> venue[d] = "none"
                         /\ venue'[d] \in {"NEW", "PARTIALLY_FILLED"} => Open(d)
    BY DEF DeleteServed, DeleteFails, Open, venueVars, TypeOK
  <1>4. Placed' /\ Answered'
    <2>1. \A s \in Slice : venue[FirstOf(s)] # "none" => venue'[FirstOf(s)] # "none"
      BY <1>3, ChildType
    <2>2. Answered'
      BY <1>1, <2>1 DEF IInv, Begun, Answered, FirstOf, Residual
    <2> QED BY <1>1, <1>3, <2>2 DEF IInv, Placed, Open, Current
  <1>5. GoodNews'
    <2>1. ASSUME NEW s \in Slice, s \notin faulty'
          PROVE  /\ size[Fallback(s)] > 0 => venue'[FirstOf(s)] = "none" /\ FirstOf(s) \notin adrift
                 /\ size[Residual(s)] > 0 => /\ venue'[FirstOf(s)] \notin {"NEW", "PARTIALLY_FILLED"}
                                             /\ cum[FirstOf(s)] + size[Residual(s)] <= Plan[s]
      <3>1. s \notin faulty /\ FirstOf(s) \in Child
        BY <2>1, ChildType DEF DeleteServed, DeleteFails
      <3> QED BY <1>3, <3>1 DEF IInv, GoodNews
    <2>2. ASSUME NEW s \in Slice, s \notin faulty', stage = "cancelling", s = slice, FirstOf(s) \notin asked'
          PROVE  venue'[FirstOf(s)] \notin {"NEW", "PARTIALLY_FILLED"}
      <3>1. s \notin faulty /\ FirstOf(s) \in Child /\ Id(FirstOf(s)) = FirstOf(s)
        BY <2>2, ChildType DEF DeleteServed, DeleteFails, Id
      <3>2. CASE FirstOf(s) # i
        BY <1>1, <1>3, <2>2, <3>1, <3>2 DEF IInv, GoodNews
      <3>3. CASE FirstOf(s) = i /\ DeleteServed(i)
        BY <3>1, <3>3 DEF DeleteServed, Open
      <3>4. CASE FirstOf(s) = i /\ DeleteFails(i)
        <4>1. ~Open(i)
          BY <2>2, <3>4 DEF DeleteFails, FirstOf
        <4> QED BY <1>3, <3>1, <3>4, <4>1
      <3> QED BY <3>2, <3>3, <3>4
    <2> QED BY <1>1, <2>1, <2>2 DEF GoodNews, FirstOf, Fallback, Residual, Open
  <1> QED BY <1>2, <1>4, <1>5 DEF IInv

LEMMA OutsideKeeps ==
  ASSUME TypeOK, IInv, CancelParent \/ Shutdown \/ Venue \/ Deletes
  PROVE  IInv'
  <1>1. CASE CancelParent \/ Shutdown
    <2>1. stage' \in {"ended", "dropped"} /\ UNCHANGED <<reduceOnly, slice, size, venue, cum, faulty>>
          /\ adrift' = adrift \union GivenUp
      BY <1>1 DEF CancelParent, Shutdown, End, localVars
    <2> QED BY <2>1, Quiet
  <1> QED BY <1>1, VenueTakesKeeps, MatchKeeps, LearnKeeps, DeleteKeeps DEF Venue, Deletes

-----------------------------------------------------------------------------
\* The invariant holds in every reachable state.
THEOREM Invariant == Spec => [](TypeOK /\ IInv)
  <1>1. Init => TypeOK /\ IInv
    BY InitInv
  <1>2. TypeOK /\ IInv /\ [Next]_vars => (TypeOK /\ IInv)'
    <2> SUFFICES ASSUME TypeOK, IInv, [Next]_vars PROVE (TypeOK /\ IInv)'
      OBVIOUS
    <2>1. CASE Next
      BY <2>1, TaskType, TaskKeeps, OutsideType, OutsideKeeps DEF Next
    <2>2. CASE UNCHANGED vars
      <3>1. UNCHANGED <<reduceOnly, stage, slice, passive, status, size, told, asked, report, tally,
                        venue, cum, adrift, faulty>>
        BY <2>2 DEF vars, taskVars, localVars, reportVars, venueVars
      <3>2. TypeOK'
        BY <3>1 DEF TypeOK
      <3>3. IInv'
        BY <3>1 DEF IInv, Begun, Placed, Answered, Alone, OnlyFirst, GoodNews, Open, Current, FirstOf, Fallback, Residual
      <3> QED BY <3>2, <3>3
    <2> QED BY <2>1, <2>2
  <1> QED BY <1>1, <1>2, PTL DEF Spec

\* Every variable keeps its type, and no child is reported or executed beyond its size.
THEOREM TypeCorrect == Spec => []TypeOK
  BY Invariant, PTL

\* What the children of a slice execute, one by one.
LEMMA LotsAre ==
  ASSUME TypeOK, NEW s \in Slice
  PROVE  /\ Lots(s) = cum[FirstOf(s)] + cum[Fallback(s)] + cum[Residual(s)]
         /\ Plan[s] \in Nat
         /\ cum[FirstOf(s)] \in 0 .. Plan[s] /\ size[FirstOf(s)] \in Nat
         /\ size[Fallback(s)] \in 0 .. Plan[s] /\ cum[Fallback(s)] \in 0 .. size[Fallback(s)]
         /\ size[Residual(s)] \in 0 .. Plan[s] /\ cum[Residual(s)] \in 0 .. size[Residual(s)]
  <1>1. Lots(s) = cum[FirstOf(s)] + cum[Fallback(s)] + cum[Residual(s)]
    BY DEF Lots, FirstOf, Fallback, Residual
  <1>2. ASSUME NEW c \in Child, c[1] = s
        PROVE  size[c] \in 0 .. Plan[s] /\ cum[c] \in 0 .. size[c] /\ cum[c] \in 0 .. Plan[s]
    BY <1>2, PlanType DEF TypeOK
  <1> QED BY <1>1, <1>2, ChildType, PlanType

\* A slice is executed twice at most, whatever the venue, the stream and the failed
\* requests do: its second child is its last.
THEOREM TwiceSafe == Spec => []AtMostTwice
  <1>1. TypeOK /\ IInv => AtMostTwice
    <2> SUFFICES ASSUME TypeOK, IInv, NEW s \in Slice PROVE Lots(s) <= 2 * Plan[s]
      BY DEF AtMostTwice
    <2>1. size[Fallback(s)] = 0 \/ size[Residual(s)] = 0
      BY DEF IInv, Alone
    <2> QED BY <2>1, LotsAre
  <1> QED BY <1>1, Invariant, PTL

\* Of the two children of a slice that is executed beyond its quantity, the second was
\* sized on wrong news.
THEOREM CauseSafe == Spec => []OverfillHasCause
  <1>1. TypeOK /\ IInv => OverfillHasCause
    <2> SUFFICES ASSUME TypeOK, IInv, NEW s \in Slice, s \notin faulty PROVE Lots(s) <= Plan[s]
      BY LotsAre DEF OverfillHasCause
    <2>1. size[Fallback(s)] = 0 \/ size[Residual(s)] = 0
      BY DEF IInv, Alone
    <2>2. size[Fallback(s)] > 0 => cum[FirstOf(s)] = 0
      BY ChildType DEF IInv, GoodNews, Placed
    <2>3. size[Residual(s)] > 0 => cum[FirstOf(s)] + size[Residual(s)] <= Plan[s]
      BY DEF IInv, GoodNews
    <2> QED BY <2>1, <2>2, <2>3, LotsAre
  <1> QED BY <1>1, Invariant, PTL

\* A parent that reduces a position never executes more than its slices.
THEOREM ReduceSafe == Spec => []ReduceNeverOver
  <1>1. TypeOK /\ IInv => ReduceNeverOver
    <2> SUFFICES ASSUME TypeOK, IInv, reduceOnly, NEW s \in Slice PROVE Lots(s) <= Plan[s]
      BY DEF ReduceNeverOver
    <2>1. size[Fallback(s)] = 0 /\ size[Residual(s)] = 0
      BY DEF IInv, OnlyFirst
    <2> QED BY <2>1, LotsAre
  <1> QED BY <1>1, Invariant, PTL
=============================================================================
