------------------------- MODULE GuardLedgerProofs -------------------------
(***************************************************************************)
(* Two ends of an order's way.  First what the submit guard and its token  *)
(* bucket guarantee to the venue, for every number of submitting           *)
(* coroutines, every rate and capacity, and every cap on the working       *)
(* orders.  Then what the strategy ledger makes of the fills that come     *)
(* back: that the legs add up to the position, for every set of            *)
(* strategies, every share and every order of partial fills.               *)
(***************************************************************************)
EXTENDS SubmitGuard, StrategyLedger, FiniteSetTheorems, SequenceTheorems, WellFoundedInduction, TLAPS

-----------------------------------------------------------------------------
(***************************************************************************)
(* The submit guard and the token bucket                                   *)
(***************************************************************************)
USE BucketAssumption

\* The submissions come from one coroutine, and are measured at twice the bucket's rate
\* with one grant more than its capacity at once.
OneLoop ==
  /\ \A c, d \in Caller : c = d
  /\ Speed = 2
  /\ Burst = Capacity + 1

LEMMA Sizes == Full \in Nat /\ Period <= Full /\ (Burst = Capacity + 1 => Burst * Period = Full + Period)
  <1>1. Capacity * Period \in Nat /\ Capacity * Period >= Period
    BY SMT
  <1>2. (Capacity + 1) * Period = Capacity * Period + Period
    BY SMT
  <1> QED BY <1>1, <1>2 DEF Full

-----------------------------------------------------------------------------
LEMMA TypeStep == ASSUME TypeOK, [Next]_vars PROVE TypeOK'
  <1>0. Full \in Nat /\ Period <= Full
    BY Sizes
  <1> USE <1>0
  <1> HIDE DEF Full
  <1>1. Refilled \in 0 .. Full
    BY DEF TypeOK, Refilled, Least
  <1>2. ASSUME NEW c \in Caller, Acquire(c) PROVE TypeOK'
    BY <1>1, <1>2 DEF Acquire, Grant, TypeOK
  <1>3. ASSUME NEW c \in Caller, FallAsleep(c) PROVE TypeOK'
    <2>1. Period - Refilled \in 0 .. Period
      BY <1>1, <1>3 DEF FallAsleep
    <2> QED BY <1>1, <1>3, <2>1 DEF FallAsleep, TypeOK
  <1>4. ASSUME NEW c \in Caller, Awake(c) PROVE TypeOK'
    BY <1>4 DEF Awake, Grant, TypeOK
  <1>5. CASE Tick
    <2>1. left' \in [Caller -> 0 .. Period]
      BY <1>5 DEF Tick, TypeOK
    <2>2. room' \in Int
      <3>1. Burst * Period \in Int /\ room + Speed \in Int
        BY DEF TypeOK
      <3> QED BY <1>5, <3>1 DEF Tick, Least
    <2> QED BY <1>5, <2>1, <2>2 DEF Tick, TypeOK, Least
  <1>6. CASE UNCHANGED vars
    BY <1>6 DEF vars, TypeOK
  <1> QED BY <1>2, <1>3, <1>4, <1>5, <1>6 DEF Next

\* The throttle keeps its types, whatever the number of callers.
THEOREM TypeCorrect == Spec => []TypeOK
  <1>1. Init => TypeOK
    <2> SUFFICES ASSUME Init PROVE TypeOK
      OBVIOUS
    <2>1. Full \in Nat
      BY Sizes
    <2>2. Burst * Period \in Int
      OBVIOUS
    <2> QED BY <2>1, <2>2 DEF Init, TypeOK
  <1>2. TypeOK /\ [Next]_vars => TypeOK'
    BY TypeStep
  <1> QED BY <1>1, <1>2, PTL DEF Spec

-----------------------------------------------------------------------------
\* What the lone caller may still be granted is paid for: while it sleeps by the credit it
\* found and the time slept, and once more by that time, which _last does not cover.
Paid ==
  \A c \in Caller :
    IF c \in asleep
      THEN credit < Period /\ room >= Period - left[c] + elapsed
      ELSE room >= Refilled

LEMMA PaidStep == ASSUME OneLoop, TypeOK, Paid, [Next]_vars PROVE Paid'
  <1>0. Full \in Nat /\ Period <= Full /\ Burst * Period = Full + Period
    BY Sizes DEF OneLoop
  <1> USE <1>0
  <1> HIDE DEF Full
  <1> SUFFICES ASSUME NEW c \in Caller
               PROVE  IF c \in asleep'
                        THEN credit' < Period /\ room' >= Period - left'[c] + elapsed'
                        ELSE room' >= Refilled'
    BY DEF Paid
  <1>1. /\ \A d \in Caller : d = c
        /\ c \in asleep => credit < Period /\ room >= Period - left[c] + elapsed
        /\ c \notin asleep => room >= Refilled
    BY DEF OneLoop, Paid
  <1>2. /\ credit \in 0 .. Full /\ elapsed \in 0 .. Full /\ left[c] \in 0 .. Period
        /\ room \in Int /\ left \in [Caller -> 0 .. Period]
    BY DEF TypeOK
  <1>3. CASE \E d \in Caller : Acquire(d)
    BY <1>1, <1>2, <1>3 DEF Acquire, Grant, Refilled, Least
  <1>4. CASE \E d \in Caller : FallAsleep(d)
    <2>1. FallAsleep(c)
      BY <1>1, <1>4
    <2>2. left'[c] = Period - Refilled /\ c \in asleep'
      BY <1>2, <2>1 DEF FallAsleep
    <2> QED BY <1>1, <1>2, <2>1, <2>2 DEF FallAsleep, Refilled, Least
  <1>5. CASE \E d \in Caller : Awake(d)
    BY <1>1, <1>2, <1>5 DEF Awake, Grant, Refilled, Least
  <1>6. CASE Tick
    <2>1. room' = Least(Full + Period, room + 2) /\ elapsed' = Least(Full, elapsed + 1)
          /\ UNCHANGED <<credit, asleep>>
      BY <1>6 DEF Tick, OneLoop
    <2>2. CASE c \in asleep
      <3>1. left'[c] = IF left[c] > 0 THEN left[c] - 1 ELSE left[c]
        BY <1>2, <1>6, <2>2 DEF Tick
      <3> QED BY <1>1, <1>2, <2>1, <2>2, <3>1 DEF Least
    <2>3. CASE c \notin asleep
      BY <1>1, <1>2, <2>1, <2>3 DEF Refilled, Least
    <2> QED BY <2>2, <2>3
  <1>7. CASE UNCHANGED vars
    BY <1>1, <1>7 DEF vars, Refilled
  <1> QED BY <1>3, <1>4, <1>5, <1>6, <1>7 DEF Next

\* One coroutine that submits in a loop, as fast as it can, is never granted more than the
\* capacity and one at once, and twice the configured rate after that.
THEOREM LoopThrottled ==
  ASSUME OneLoop, Caller # {}
  PROVE  Spec => []WithinRate
  <1>1. Init => Paid
    <2> SUFFICES ASSUME Init PROVE Paid
      OBVIOUS
    <2>1. Full \in Nat /\ Burst * Period = Full + Period
      BY Sizes DEF OneLoop
    <2> HIDE DEF Full
    <2> QED BY <2>1 DEF Init, Paid, Refilled, Least
  <1>2. TypeOK /\ Paid /\ [Next]_vars => Paid'
    BY PaidStep
  <1>3. TypeOK /\ Paid => WithinRate
    <2> SUFFICES ASSUME TypeOK, Paid PROVE WithinRate
      OBVIOUS
    <2>0. Full \in Nat
      BY Sizes
    <2> HIDE DEF Full
    <2>1. PICK c \in Caller : TRUE
      OBVIOUS
    <2>2. credit \in 0 .. Full /\ elapsed \in 0 .. Full /\ left[c] \in 0 .. Period /\ room \in Int
      BY DEF TypeOK
    <2> QED BY <2>0, <2>2 DEF Paid, WithinRate, Refilled, Least
  <1> QED BY <1>1, <1>2, <1>3, TypeCorrect, PTL DEF Spec

-----------------------------------------------------------------------------
(* The guard over the bucket.                                              *)

\* The coroutines in submit_child(), and those that submit an entry.
Busy == {c \in Caller : at[c] # "idle"}
Entering == {c \in Caller : child[c] = "entry"}

\* A caller has a child just as long as it is in the call, and only a posted one is over.
ChildWhileBusy ==
  /\ \A c \in Caller : child[c] \in Kind <=> at[c] # "idle"
  /\ \A c \in over : at[c] = "post"

\* Whoever is in the call may still place a child.
RoomForAll == placed["entry"] + placed["exit"] + Cardinality(Busy) <= MaxWorking

\* An entry posted since the halt was the last of its caller: none is on its way to the
\* venue, and none passes the breaker before the operator rearms.
LastEntry ==
  \A c \in Caller : late[c] # 0 =>
    late[c] = 1 /\ halted /\ ~(at[c] = "throttle" /\ child[c] = "entry")

\* The children on their way count too, whether they are over or not.
EntriesOnTheWay == placed["entry"] + Cardinality(Entering) <= MaxOrders - 1 + Cardinality(Caller)

GuardInv == TypeOKGuard /\ ChildWhileBusy /\ RoomForAll /\ LastEntry /\ EntriesOnTheWay

LEMMA Counting ==
  /\ Cardinality(Caller) \in Nat
  /\ \A S \in SUBSET Caller :
       /\ IsFiniteSet(S)
       /\ Cardinality(S) \in Nat
       /\ Cardinality(S) <= Cardinality(Caller)
       /\ \A T \in SUBSET S : Cardinality(T) <= Cardinality(S)
       /\ \A c : c \notin S => Cardinality(S \union {c}) = Cardinality(S) + 1
       /\ \A c \in S : Cardinality(S \ {c}) = Cardinality(S) - 1
  BY GuardAssumption, FS_Subset, FS_CardinalityType, FS_AddElement, FS_RemoveElement

LEMMA BusyBounded == Cardinality(Busy) \in Nat /\ Cardinality(Entering) \in Nat
  BY Counting DEF Busy, Entering

-----------------------------------------------------------------------------
\* Each step of the guard is one of the bucket, or none of them.
THEOREM GuardUsesBucket == GuardSpec => Spec
  <1>1. [GuardNext]_allVars => [Next]_vars
    BY DEF GuardNext, Calls, SubmitChild, ThrottleSleeps, Post, PostAnswered, PostEnds, PostFails,
           Return, OnEarlyUpdate, OnOrderUpdate, OnLateUpdate, Halt, Rearm, BreakerTick,
           TimePasses, Next, allVars, vars
  <1>2. GuardInit => Init
    BY DEF GuardInit
  <1> QED BY <1>1, <1>2, PTL DEF GuardSpec, Spec

-----------------------------------------------------------------------------
\* record_status() keeps the types of what it writes.
LEMMA RecordTypes ==
  ASSUME TypeOKGuard, NEW s, RecordStatus(s)
  PROVE  paused' \in BOOLEAN /\ cooling' \in 0 .. Cooldown /\ streak' \in 0 .. MaxRejects - 1
  <1>1. CASE s = "REJECTED" /\ streak + 1 >= MaxRejects
    <2>1. Trip /\ streak' = 0
      BY <1>1, GuardAssumption DEF RecordStatus, TypeOKGuard
    <2>2. cooling' \in 0 .. Cooldown
      BY <2>1, GuardAssumption DEF Trip, TypeOKGuard
    <2> QED BY <2>1, <2>2, GuardAssumption DEF Trip
  <1>2. CASE s = "REJECTED" /\ streak + 1 < MaxRejects
    BY <1>2, GuardAssumption DEF RecordStatus, TypeOKGuard
  <1>3. CASE s # "REJECTED"
    BY <1>3, GuardAssumption DEF RecordStatus, TypeOKGuard
  <1> QED BY <1>1, <1>2, <1>3, GuardAssumption DEF TypeOKGuard

\* gate_child(): a child that passes is on its way.
LEMMA SubmitStep ==
  ASSUME GuardInv, NEW c \in Caller, NEW k \in Kind, SubmitChild(c, k)
  PROVE  GuardInv'
  <1>1. /\ at' = [at EXCEPT ![c] = "throttle"] /\ child' = [child EXCEPT ![c] = k]
        /\ at[c] = "idle" /\ UNCHANGED <<over, placed, halted, late>>
    BY DEF SubmitChild
  <1>2. TypeOKGuard'
    BY <1>1 DEF SubmitChild, GuardInv, TypeOKGuard, Point, Kind
  <1>3. ChildWhileBusy'
    BY <1>1 DEF GuardInv, TypeOKGuard, ChildWhileBusy, Kind
  <1>4. RoomForAll'
    <2>1. Busy' = Busy \union {c} /\ c \notin Busy
      BY <1>1 DEF Busy, GuardInv, TypeOKGuard
    <2>2. Cardinality(Busy') = Cardinality(Busy) + 1
      BY <2>1, Counting DEF Busy
    <2>3. placed["entry"] + placed["exit"] + Cardinality(Busy) < MaxWorking
      BY DEF SubmitChild, Busy
    <2> QED BY <1>1, <2>2, <2>3, BusyBounded, GuardAssumption DEF RoomForAll, GuardInv, TypeOKGuard, Kind
  <1>5. LastEntry'
    <2>1. halted => k = "exit"
      BY DEF SubmitChild, Passes, Blocked, Kind
    <2> QED BY <1>1, <2>1 DEF GuardInv, LastEntry, TypeOKGuard
  <1>6. EntriesOnTheWay'
    <2>1. CASE k = "entry"
      <3> DEFINE Posted(j) == {d \in Caller \ over : at[d] = "post" /\ child[d] = j}
      <3>1. placed["entry"] + Cardinality(Posted("entry"))
              + (placed["exit"] + Cardinality(Posted("exit"))) < MaxOrders
        BY <2>1 DEF SubmitChild, Passes, UnderCap, AllWorking, Working
      <3>2. Cardinality(Posted("entry")) \in Nat /\ Cardinality(Posted("exit")) \in Nat
        BY Counting
      <3>3. placed["entry"] \in Nat /\ placed["exit"] \in Nat
        BY GuardAssumption DEF GuardInv, TypeOKGuard, Kind
      <3> HIDE DEF Posted
      <3>4. placed["entry"] <= MaxOrders - 1
        BY <3>1, <3>2, <3>3, GuardAssumption
      <3>5. Cardinality(Entering') \in Nat /\ Cardinality(Entering') <= Cardinality(Caller)
        BY Counting DEF Entering
      <3> QED BY <1>1, <3>3, <3>4, <3>5, Counting, GuardAssumption DEF EntriesOnTheWay
    <2>2. CASE k = "exit"
      <3>1. Entering' = Entering
        BY <1>1, <2>2 DEF Entering, GuardInv, TypeOKGuard, ChildWhileBusy, Kind
      <3> QED BY <1>1, <3>1 DEF GuardInv, EntriesOnTheWay
    <2> QED BY <2>1, <2>2 DEF Kind
  <1> QED BY <1>2, <1>3, <1>4, <1>5, <1>6 DEF GuardInv

\* The throttle lets a child through to the venue.
LEMMA PostStep ==
  ASSUME GuardInv, NEW c \in Caller, Post(c)
  PROVE  GuardInv'
  <1>1. /\ at' = [at EXCEPT ![c] = "post"] /\ at[c] = "throttle"
        /\ late' = IF halted /\ child[c] = "entry" /\ late[c] < 2 THEN [late EXCEPT ![c] = @ + 1] ELSE late
        /\ UNCHANGED <<child, over, placed, strays, halted, paused, cooling, streak>>
    BY DEF Post
  <1>2. TypeOKGuard'
    BY <1>1 DEF GuardInv, TypeOKGuard, Point
  <1>3. ChildWhileBusy'
    BY <1>1 DEF GuardInv, TypeOKGuard, ChildWhileBusy
  <1>4. Busy' = Busy /\ Entering' = Entering
    BY <1>1 DEF Busy, Entering, GuardInv, TypeOKGuard
  <1>5. LastEntry'
    BY <1>1 DEF GuardInv, LastEntry, TypeOKGuard
  <1> QED BY <1>1, <1>2, <1>3, <1>4, <1>5 DEF GuardInv, RoomForAll, EntriesOnTheWay

\* The call returns: its caller has no child on the way any more.
LEMMA ReturnStep ==
  ASSUME GuardInv, NEW c \in Caller, Return(c), TypeOKGuard',
         \/ UNCHANGED placed
         \/ placed' = [placed EXCEPT ![child[c]] = @ + 1]
  PROVE  GuardInv'
  <1>1. /\ at' = [at EXCEPT ![c] = "idle"] /\ at[c] = "post"
        /\ child' = [child EXCEPT ![c] = "none"]
        /\ over' = over \ {c} /\ UNCHANGED <<halted, late>>
    BY DEF Return
  <1>2. child[c] \in Kind
    BY <1>1 DEF GuardInv, ChildWhileBusy
  <1>3. ChildWhileBusy'
    BY <1>1 DEF GuardInv, TypeOKGuard, ChildWhileBusy, Kind
  <1>4. RoomForAll'
    <2>1. Busy' = Busy \ {c} /\ c \in Busy
      BY <1>1 DEF Busy, GuardInv, TypeOKGuard
    <2>2. Cardinality(Busy') = Cardinality(Busy) - 1
      BY <2>1, Counting DEF Busy
    <2>3. placed'["entry"] + placed'["exit"] <= placed["entry"] + placed["exit"] + 1
      BY <1>2, GuardAssumption DEF GuardInv, TypeOKGuard, Kind
    <2>4. placed'["entry"] \in Int /\ placed'["exit"] \in Int
          /\ placed["entry"] \in Int /\ placed["exit"] \in Int
      BY GuardAssumption DEF GuardInv, TypeOKGuard, Kind
    <2> QED BY <2>2, <2>3, <2>4, BusyBounded, GuardAssumption DEF RoomForAll, GuardInv
  <1>5. LastEntry'
    BY <1>1 DEF GuardInv, LastEntry, TypeOKGuard
  <1>6. EntriesOnTheWay'
    <2>1. Entering' = Entering \ {c}
      BY <1>1 DEF Entering, GuardInv, TypeOKGuard
    <2>2. Cardinality(Entering') = Cardinality(Entering) - (IF child[c] = "entry" THEN 1 ELSE 0)
      <3>1. CASE child[c] = "entry"
        <4>1. c \in Entering /\ Entering \in SUBSET Caller
          BY <3>1 DEF Entering
        <4>2. Cardinality(Entering \ {c}) = Cardinality(Entering) - 1
          BY <4>1, Counting
        <4> QED BY <2>1, <3>1, <4>2
      <3>2. CASE child[c] # "entry"
        <4>1. Entering \ {c} = Entering
          BY <3>2 DEF Entering
        <4> QED BY <2>1, <3>2, <4>1, BusyBounded
      <3> QED BY <3>1, <3>2
    <2>3. placed'["entry"] <= placed["entry"] + (IF child[c] = "entry" THEN 1 ELSE 0)
      BY <1>2, GuardAssumption DEF GuardInv, TypeOKGuard, Kind
    <2>4. placed'["entry"] \in Int /\ placed["entry"] \in Int
      BY GuardAssumption DEF GuardInv, TypeOKGuard, Kind
    <2> QED BY <2>2, <2>3, <2>4, BusyBounded, Counting, GuardAssumption DEF EntriesOnTheWay, GuardInv
  <1> QED BY <1>3, <1>4, <1>5, <1>6 DEF GuardInv

\* A step that places nothing, posts nothing and neither halts nor rearms.
LEMMA QuietStep ==
  ASSUME GuardInv, TypeOKGuard', UNCHANGED <<at, child, halted, late>>,
         \A k \in Kind : placed'[k] <= placed[k],
         \A c \in over' : at[c] = "post"
  PROVE  GuardInv'
  <1>1. ChildWhileBusy' /\ LastEntry' /\ Busy' = Busy /\ Entering' = Entering
    BY DEF GuardInv, TypeOKGuard, ChildWhileBusy, LastEntry, Busy, Entering
  <1>2. \A k \in Kind : placed'[k] \in Int /\ placed[k] \in Int
    BY GuardAssumption DEF GuardInv, TypeOKGuard
  <1>3. RoomForAll'
    BY <1>1, <1>2, BusyBounded, GuardAssumption DEF GuardInv, RoomForAll, Kind
  <1>4. EntriesOnTheWay'
    BY <1>1, <1>2, BusyBounded, Counting, GuardAssumption DEF GuardInv, EntriesOnTheWay, Kind
  <1> QED BY <1>1, <1>3, <1>4 DEF GuardInv

LEMMA GuardStep == ASSUME GuardInv, [GuardNext]_allVars PROVE GuardInv'
  <1>0. /\ TypeOKGuard /\ ChildWhileBusy /\ \A k \in Kind : placed[k] \in Int
        /\ \A c \in over : at[c] = "post"
    BY GuardAssumption DEF GuardInv, TypeOKGuard, ChildWhileBusy
  <1>1. ASSUME NEW c \in Caller, NEW k \in Kind, SubmitChild(c, k) PROVE GuardInv'
    BY <1>1, SubmitStep
  <1>2. ASSUME NEW c \in Caller, ThrottleSleeps(c) PROVE GuardInv'
    <2>1. UNCHANGED guardVars
      BY <1>2 DEF ThrottleSleeps
    <2>2. TypeOKGuard'
      BY <1>0, <2>1 DEF guardVars, TypeOKGuard
    <2> QED BY <1>0, <2>1, <2>2, QuietStep DEF guardVars
  <1>3. ASSUME NEW c \in Caller, Post(c) PROVE GuardInv'
    BY <1>3, PostStep
  <1>4. ASSUME NEW c \in Caller, PostAnswered(c) PROVE GuardInv'
    <2>1. /\ Return(c) /\ at[c] = "post" /\ child[c] \in Kind
          /\ placed' = [placed EXCEPT ![child[c]] = @ + 1] /\ RecordStatus(child[c])
      BY <1>0, <1>4 DEF PostAnswered, Return, ChildWhileBusy
    <2>2. placed' \in [Kind -> 0 .. MaxWorking]
      <3>1. Cardinality(Busy) >= 1
        <4>1. c \in Busy
          BY <2>1 DEF Busy
        <4>2. Cardinality(Busy \ {c}) = Cardinality(Busy) - 1 /\ Cardinality(Busy \ {c}) \in Nat
          BY <4>1, Counting DEF Busy
        <4> QED BY <4>2, BusyBounded
      <3>2. placed["entry"] + placed["exit"] + 1 <= MaxWorking
        BY <1>0, <3>1, BusyBounded, GuardAssumption DEF GuardInv, RoomForAll, Kind
      <3>3. placed[child[c]] + 1 \in 0 .. MaxWorking
        BY <1>0, <2>1, <3>2, GuardAssumption DEF TypeOKGuard, Kind
      <3> QED BY <1>0, <2>1, <3>3 DEF TypeOKGuard
    <2>3. paused' \in BOOLEAN /\ cooling' \in 0 .. Cooldown /\ streak' \in 0 .. MaxRejects - 1
      BY <1>0, <2>1, RecordTypes
    <2>4. TypeOKGuard'
      BY <1>0, <1>4, <2>1, <2>2, <2>3 DEF PostAnswered, Return, TypeOKGuard, Point
    <2> QED BY <2>1, <2>4, ReturnStep
  <1>5. ASSUME NEW c \in Caller, PostEnds(c) PROVE GuardInv'
    <2>1. Return(c) /\ UNCHANGED <<placed, strays>>
      BY <1>5 DEF PostEnds
    <2>2. PICK s \in {"FILLED", "EXPIRED"} : RecordStatus(s)
      BY <1>5 DEF PostEnds
    <2>3. paused' \in BOOLEAN /\ cooling' \in 0 .. Cooldown /\ streak' \in 0 .. MaxRejects - 1
      BY <1>0, <2>2, RecordTypes
    <2>4. TypeOKGuard'
      BY <1>0, <2>1, <2>3 DEF Return, TypeOKGuard, Point
    <2> QED BY <2>1, <2>4, ReturnStep
  <1>6. ASSUME NEW c \in Caller, PostFails(c) PROVE GuardInv'
    <2>1. Return(c) /\ strays' = TRUE /\ UNCHANGED placed
      BY <1>6 DEF PostFails
    <2>2. \/ streak' \in {0, streak} /\ UNCHANGED <<paused, cooling>>
          \/ RecordStatus("REJECTED")
      BY <1>6 DEF PostFails
    <2>3. paused' \in BOOLEAN /\ cooling' \in 0 .. Cooldown /\ streak' \in 0 .. MaxRejects - 1
      <3>1. CASE RecordStatus("REJECTED")
        BY <1>0, <3>1, RecordTypes
      <3>2. CASE streak' \in {0, streak} /\ UNCHANGED <<paused, cooling>>
        BY <1>0, <3>2, GuardAssumption DEF TypeOKGuard
      <3> QED BY <2>2, <3>1, <3>2
    <2>4. TypeOKGuard'
      BY <1>0, <2>1, <2>3 DEF Return, TypeOKGuard, Point
    <2> QED BY <2>1, <2>4, ReturnStep
  <1>7. ASSUME NEW k \in Kind, OnOrderUpdate(k) PROVE GuardInv'
    <2>1. /\ UNCHANGED <<at, child, over, halted, late>> /\ strays' \in BOOLEAN
          /\ placed[k] > 0 /\ placed' \in {placed, [placed EXCEPT ![k] = @ - 1]}
      <3>1. strays' = strays \/ strays' \in BOOLEAN
        BY <1>7 DEF OnOrderUpdate
      <3>2. strays' \in BOOLEAN
        BY <1>0, <3>1 DEF TypeOKGuard
      <3>3. placed' = placed \/ placed' = [placed EXCEPT ![k] = @ - 1]
        BY <1>7 DEF OnOrderUpdate
      <3> QED BY <1>7, <3>2, <3>3 DEF OnOrderUpdate
    <2>2. \E s : RecordStatus(s)
      BY <1>7 DEF OnOrderUpdate
    <2>3. paused' \in BOOLEAN /\ cooling' \in 0 .. Cooldown /\ streak' \in 0 .. MaxRejects - 1
      BY <1>0, <2>2, RecordTypes
    <2>4. TypeOKGuard'
      BY <1>0, <2>1, <2>3, GuardAssumption DEF TypeOKGuard
    <2>5. \A j \in Kind : placed'[j] <= placed[j]
      BY <1>0, <2>1 DEF TypeOKGuard
    <2> QED BY <1>0, <2>1, <2>4, <2>5, QuietStep
  <1>8. ASSUME NEW c \in Caller, OnEarlyUpdate(c) PROVE GuardInv'
    <2>1. /\ UNCHANGED <<at, child, placed, halted, late>> /\ strays' \in BOOLEAN
          /\ at[c] = "post" /\ over' \in {over, over \union {c}}
      BY <1>0, <1>8 DEF OnEarlyUpdate, TypeOKGuard
    <2>2. \E s : RecordStatus(s)
      BY <1>8 DEF OnEarlyUpdate
    <2>3. paused' \in BOOLEAN /\ cooling' \in 0 .. Cooldown /\ streak' \in 0 .. MaxRejects - 1
      BY <1>0, <2>2, RecordTypes
    <2>4. TypeOKGuard'
      BY <1>0, <2>1, <2>3 DEF TypeOKGuard
    <2> QED BY <1>0, <2>1, <2>4, QuietStep
  <1>9. CASE OnLateUpdate
    <2>1. UNCHANGED <<at, child, over, placed, strays, halted, late>>
      BY <1>9 DEF OnLateUpdate
    <2>2. \E s : RecordStatus(s)
      BY <1>9 DEF OnLateUpdate
    <2>3. paused' \in BOOLEAN /\ cooling' \in 0 .. Cooldown /\ streak' \in 0 .. MaxRejects - 1
      BY <1>0, <2>2, RecordTypes
    <2>4. TypeOKGuard'
      BY <1>0, <2>1, <2>3 DEF TypeOKGuard
    <2> QED BY <1>0, <2>1, <2>4, QuietStep
  <1>10. CASE Halt
    <2>1. Busy' = Busy /\ Entering' = Entering
      BY <1>10 DEF Halt, Busy, Entering
    <2>2. LastEntry'
      BY <1>10 DEF Halt, GuardInv, LastEntry
    <2> QED BY <1>0, <1>10, <2>1, <2>2
            DEF Halt, GuardInv, TypeOKGuard, ChildWhileBusy, RoomForAll, EntriesOnTheWay
  <1>11. CASE Rearm
    <2>1. Busy' = Busy /\ Entering' = Entering
      BY <1>11 DEF Rearm, Busy, Entering
    <2>2. LastEntry'
      BY <1>11 DEF Rearm, LastEntry
    <2>3. TypeOKGuard'
      <3>1. halted' \in BOOLEAN /\ paused' \in BOOLEAN
        BY <1>11 DEF Rearm
      <3>2. cooling' \in 0 .. Cooldown /\ late' \in [Caller -> 0 .. 2]
        BY <1>11, GuardAssumption DEF Rearm
      <3> QED BY <1>0, <1>11, <3>1, <3>2 DEF Rearm, TypeOKGuard
    <2> QED BY <1>11, <2>1, <2>2, <2>3
            DEF Rearm, GuardInv, ChildWhileBusy, RoomForAll, EntriesOnTheWay
  <1>12. CASE BreakerTick
    <2>1. TypeOKGuard' /\ UNCHANGED <<at, child, over, placed, halted, late>>
      BY <1>0, <1>12 DEF BreakerTick, TypeOKGuard
    <2> QED BY <1>0, <2>1, QuietStep
  <1>13. CASE TimePasses
    <2>1. /\ UNCHANGED <<at, child, over, placed, strays, halted, paused, streak, late>>
          /\ cooling' = IF cooling > 0 THEN cooling - 1 ELSE 0
      BY <1>13 DEF TimePasses
    <2>2. TypeOKGuard'
      BY <1>0, <2>1, GuardAssumption DEF TypeOKGuard
    <2> QED BY <1>0, <2>1, <2>2, QuietStep
  <1>14. CASE UNCHANGED allVars
    <2>1. TypeOKGuard' /\ UNCHANGED <<at, child, over, placed, halted, late>>
      BY <1>0, <1>14 DEF allVars, guardVars, TypeOKGuard
    <2> QED BY <1>0, <2>1, QuietStep
  <1> QED BY <1>1, <1>2, <1>3, <1>4, <1>5, <1>6, <1>7, <1>8, <1>9, <1>10, <1>11, <1>12, <1>13, <1>14
          DEF GuardNext, Calls

LEMMA GuardInvHolds == GuardSpec => []GuardInv
  <1>1. GuardInit => GuardInv
    <2> SUFFICES ASSUME GuardInit PROVE GuardInv
      OBVIOUS
    <2>1. Busy = {} /\ Entering = {} /\ Cardinality({}) = 0
      BY FS_EmptySet DEF GuardInit, Busy, Entering
    <2>2. TypeOKGuard
      <3>1. /\ at \in [Caller -> Point] /\ child \in [Caller -> Kind \union {"none"}]
            /\ placed \in [Kind -> 0 .. MaxWorking] /\ late \in [Caller -> 0 .. 2]
            /\ cooling \in 0 .. Cooldown /\ streak \in 0 .. MaxRejects - 1
        BY GuardAssumption DEF GuardInit, Point
      <3>2. strays \in BOOLEAN /\ halted \in BOOLEAN /\ paused \in BOOLEAN /\ over \subseteq Caller
        BY DEF GuardInit
      <3> QED BY <3>1, <3>2 DEF TypeOKGuard
    <2>3. ChildWhileBusy /\ LastEntry
      BY DEF GuardInit, ChildWhileBusy, LastEntry, Kind
    <2>4. RoomForAll /\ EntriesOnTheWay
      BY <2>1, Counting, GuardAssumption DEF GuardInit, RoomForAll, EntriesOnTheWay, Kind
    <2> QED BY <2>2, <2>3, <2>4 DEF GuardInv
  <1>2. GuardInv /\ [GuardNext]_allVars => GuardInv'
    BY GuardStep
  <1> QED BY <1>1, <1>2, PTL DEF GuardSpec

\* The guard keeps its types (SubmitGuard, gate_child() and record_status()).
THEOREM GuardTypeCorrect == GuardSpec => []TypeOKGuard
  <1>1. GuardInv => TypeOKGuard
    BY DEF GuardInv
  <1> QED BY <1>1, GuardInvHolds, PTL

\* After a halt each coroutine posts at most the one entry that was waiting for the throttle,
\* and the cap on working entries is overrun by at most one for each coroutine but the first,
\* for every number of coroutines and every cap (gate_child()).
THEOREM OverrunIsBounded == GuardSpec => []OverrunBounded
  <1>1. GuardInv => OverrunBounded
    <2> SUFFICES ASSUME GuardInv PROVE OverrunBounded
      OBVIOUS
    <2>1. LatePerCaller
      BY DEF GuardInv, TypeOKGuard, LastEntry, LatePerCaller
    <2>2. WorkingEntriesBounded
      <3>1. {c \in Caller \ over : at[c] = "post" /\ child[c] = "entry"} \in SUBSET Entering
            /\ Entering \in SUBSET Caller
        BY DEF Entering
      <3>2. Cardinality({c \in Caller \ over : at[c] = "post" /\ child[c] = "entry"}) <= Cardinality(Entering)
            /\ Cardinality({c \in Caller \ over : at[c] = "post" /\ child[c] = "entry"}) \in Nat
        BY <3>1, Counting
      <3>3. placed["entry"] \in Int
        BY GuardAssumption DEF GuardInv, TypeOKGuard, Kind
      <3> QED BY <3>2, <3>3, BusyBounded, Counting, GuardAssumption
              DEF GuardInv, EntriesOnTheWay, WorkingEntriesBounded, Working
    <2> QED BY <2>1, <2>2 DEF OverrunBounded
  <1> QED BY <1>1, GuardInvHolds, PTL

\* The throttle bounds the submissions of one coroutine through the guard as it does alone.
THEOREM GuardedLoopThrottled ==
  ASSUME OneLoop, Caller # {}
  PROVE  GuardSpec => []WithinRate
  <1>1. Spec => []WithinRate
    BY LoopThrottled
  <1> QED BY <1>1, GuardUsesBucket, PTL


-----------------------------------------------------------------------------
(***************************************************************************)
(* The strategy ledger.  The legs and the frames still on their way are    *)
(* related by sums: over the strategies, by the set of them that have been *)
(* added, and over the stream, by the positions the frames lead through.   *)
(***************************************************************************)
HIDE BucketAssumption
USE BookAssumption, LedgerAssumption

\* The sum over s of f, from the sums over less, as the community module builds it.
First(s) == CHOOSE x \in s : TRUE
Sum(f, g, s) == IF s = {} THEN 0 ELSE f[First(s)] + g[s \ {First(s)}]
Sums(f, g) == g = [s \in SUBSET Strategy |-> Sum(f, g, s)]

LEMMA TotalUnfolds ==
  ASSUME NEW f PROVE Total(f) = (CHOOSE g : Sums(f, g))[Strategy]
BY Zenon DEF Total, MapThenSumSet, MapThenFoldSet, Sum, Sums, First

LEMMA Smaller ==
  ASSUME NEW T \in SUBSET Strategy, T # {}
  PROVE  /\ First(T) \in T /\ T \ {First(T)} \in SUBSET Strategy
         /\ IsFiniteSet(T) /\ IsFiniteSet(T \ {First(T)})
         /\ Cardinality(T) \in Nat /\ Cardinality(T \ {First(T)}) = Cardinality(T) - 1
         /\ Cardinality(T) > 0
<1>1. First(T) \in T
  BY DEF First
<1>2. IsFiniteSet(T)
  BY FS_Subset
<1>3. Cardinality(T) \in Nat /\ Cardinality(T) # 0
  BY <1>2, FS_CardinalityType, FS_EmptySet
<1>4. IsFiniteSet(T \ {First(T)}) /\ Cardinality(T \ {First(T)}) = Cardinality(T) - 1
  BY <1>1, <1>2, FS_RemoveElement
<1> QED BY <1>1, <1>2, <1>3, <1>4

\* Of the subsets in a set of them, one has none below it.
LEMMA LeastSet ==
  ASSUME NEW B, B \subseteq SUBSET Strategy, B # {}
  PROVE  \E T \in B : \A U \in B : ~(U \subseteq T /\ U # T)
<1>1. B \subseteq FiniteSubsetsOf(Strategy)
  BY FS_FiniteSubsetsOfFinite
<1>2. PICK T \in B : \A U \in B : <<U, T>> \notin StrictSubsetOrdering(Strategy)
  BY <1>1, FS_StrictSubsetOrderingWellFounded, WFMin
<1> QED
  BY <1>2 DEF StrictSubsetOrdering

\* g is right for the sets of at most as many elements as T.
UpTo(f, T, g) ==
  \A s \in SUBSET Strategy : Cardinality(s) <= Cardinality(T) => g[s] = Sum(f, g, s)

LEMMA SumsExist == ASSUME NEW f PROVE \E g : Sums(f, g)
<1> DEFINE Bad == {T \in SUBSET Strategy : ~\E g : UpTo(f, T, g)}
<1>1. ASSUME Bad # {} PROVE FALSE
  <2>1. PICK T \in Bad : \A U \in Bad : ~(U \subseteq T /\ U # T)
    <3>1. Bad \subseteq SUBSET Strategy
      OBVIOUS
    <3> HIDE DEF Bad
    <3> QED BY <1>1, <3>1, LeastSet
  <2>2. \A s \in SUBSET Strategy : Cardinality(s) \in Nat /\ (Cardinality(s) = 0 <=> s = {})
    BY FS_Subset, FS_CardinalityType, FS_EmptySet
  <2>3. T # {}
    <3>1. UpTo(f, {}, [s \in SUBSET Strategy |-> 0])
      <4>1. ASSUME NEW s \in SUBSET Strategy, Cardinality(s) <= Cardinality({}) PROVE s = {}
        BY <2>2, <4>1, FS_EmptySet
      <4> QED BY <4>1 DEF UpTo, Sum
    <3> QED BY <3>1
  <2>4. PICK g : UpTo(f, T \ {First(T)}, g)
    <3>1. T \ {First(T)} \in SUBSET Strategy /\ T \ {First(T)} # T
      BY <2>3, Smaller
    <3> QED BY <2>1, <3>1
  <2>5. PICK h : h = [s \in SUBSET Strategy |-> IF Cardinality(s) < Cardinality(T) THEN g[s] ELSE Sum(f, g, s)]
    OBVIOUS
  <2>6. Cardinality(T \ {First(T)}) = Cardinality(T) - 1 /\ Cardinality(T) \in Nat
    BY <2>3, Smaller
  <2>7. ASSUME NEW s \in SUBSET Strategy, Cardinality(s) <= Cardinality(T)
        PROVE  h[s] = Sum(f, h, s)
    <3>1. CASE s = {}
      <4>1. Cardinality(s) <= Cardinality(T) - 1
        BY <2>2, <2>3, <3>1
      <4>2. h[s] = g[s] /\ g[s] = Sum(f, g, s)
        BY <2>4, <2>5, <2>6, <4>1, <2>2 DEF UpTo
      <4> QED BY <4>2, <3>1 DEF Sum
    <3>2. CASE s # {}
      <4>1. /\ s \ {First(s)} \in SUBSET Strategy /\ Cardinality(s \ {First(s)}) = Cardinality(s) - 1
            /\ Cardinality(s) \in Nat
        BY <3>2, Smaller
      <4>2. h[s \ {First(s)}] = g[s \ {First(s)}]
        BY <2>5, <2>7, <2>6, <4>1
      <4>3. h[s] = Sum(f, g, s)
        BY <2>4, <2>5, <2>6, <4>1 DEF UpTo
      <4> QED BY <4>2, <4>3, <3>2 DEF Sum
    <3> QED BY <3>1, <3>2
  <2>8. UpTo(f, T, h)
    BY <2>7 DEF UpTo
  <2> QED BY <2>8
<1>2. PICK g : UpTo(f, Strategy, g)
  BY <1>1
<1>3. PICK h : h = [s \in SUBSET Strategy |-> g[s]]
  OBVIOUS
<1>4. \A s \in SUBSET Strategy : Cardinality(s) <= Cardinality(Strategy)
  BY FS_Subset
<1>5. ASSUME NEW s \in SUBSET Strategy PROVE h[s] = Sum(f, h, s)
  BY <1>2, <1>3, <1>4 DEF UpTo, Sum
<1>6. h = [s \in SUBSET Strategy |-> Sum(f, h, s)]
  BY <1>3, <1>5
<1> QED BY <1>6 DEF Sums

\* The sums of a function over all sets of strategies.
LEMMA TotalSums ==
  ASSUME NEW f PROVE \E g : Sums(f, g) /\ Total(f) = g[Strategy]
<1>1. Sums(f, CHOOSE g : Sums(f, g))
  BY SumsExist
<1> QED BY <1>1, TotalUnfolds

LEMMA SumAt ==
  ASSUME NEW f, NEW g, Sums(f, g) PROVE \A T \in SUBSET Strategy : g[T] = Sum(f, g, T)
BY DEF Sums

LEMMA Distributes == \A a, u, v \in Int : a * u \in Int /\ a * (u + v) = a * u + a * v
OBVIOUS

LEMMA Regroup ==
  ASSUME NEW a \in Int, NEW b \in Int, NEW c \in Int,
         NEW f \in Int, NEW d \in Int, NEW e \in Int, NEW g \in Int, NEW h \in Int, NEW k \in Int,
         a * f = b * d + c * e, a * g = b * h + c * k
  PROVE  a * f + a * g = b * d + b * h + (c * e + c * k)
<1>1. PICK af \in Int, bd \in Int, ce \in Int, ag \in Int, bh \in Int, ck \in Int :
        af = a * f /\ bd = b * d /\ ce = c * e /\ ag = a * g /\ bh = b * h /\ ck = c * k
  BY Distributes
<1> QED BY <1>1

\* A linear equation, of each element and of the totals.
Linear(a, b, c, f, d, e) ==
  /\ {a, b, c} \subseteq Int /\ {f, d, e} \subseteq [Strategy -> Int]
  /\ \A s \in Strategy : a * f[s] = b * d[s] + c * e[s]
Totalled(a, b, c, f, d, e) ==
  /\ Total(f) \in Int /\ Total(d) \in Int /\ Total(e) \in Int
  /\ a * Total(f) = b * Total(d) + c * Total(e)

\* What holds of each element by a linear equation holds of the totals.
LEMMA TotalLinear ==
  ASSUME NEW a, NEW b, NEW c, NEW f, NEW d, NEW e, Linear(a, b, c, f, d, e)
  PROVE  Totalled(a, b, c, f, d, e)
<1>0. /\ a \in Int /\ b \in Int /\ c \in Int
      /\ f \in [Strategy -> Int] /\ d \in [Strategy -> Int] /\ e \in [Strategy -> Int]
      /\ \A s \in Strategy : a * f[s] = b * d[s] + c * e[s]
  BY DEF Linear
<1>1. PICK g : /\ Total(f) = g[Strategy]
               /\ \A T \in SUBSET Strategy : g[T] = Sum(f, g, T)
  BY TotalSums, SumAt
<1>2. PICK h : /\ Total(d) = h[Strategy]
               /\ \A T \in SUBSET Strategy : h[T] = Sum(d, h, T)
  BY TotalSums, SumAt
<1>3. PICK k : /\ Total(e) = k[Strategy]
               /\ \A T \in SUBSET Strategy : k[T] = Sum(e, k, T)
  BY TotalSums, SumAt
<1> DEFINE Holds(T) == /\ g[T] \in Int /\ h[T] \in Int /\ k[T] \in Int
                       /\ a * g[T] = b * h[T] + c * k[T]
           Bad == {T \in SUBSET Strategy : ~Holds(T)}
<1>4. ASSUME Bad # {} PROVE FALSE
  <2>1. PICK T \in SUBSET Strategy :
          ~Holds(T) /\ \A U \in SUBSET Strategy : U \subseteq T /\ U # T => Holds(U)
    <3>1. Bad \subseteq SUBSET Strategy
      OBVIOUS
    <3>2. PICK T \in Bad : \A U \in Bad : ~(U \subseteq T /\ U # T)
      <4> HIDE DEF Bad
      <4> QED BY <1>4, <3>1, LeastSet
    <3>3. T \in SUBSET Strategy /\ ~Holds(T) /\ \A U \in SUBSET Strategy : ~Holds(U) => U \in Bad
      <4> HIDE DEF Holds
      <4> QED OBVIOUS
    <3> HIDE DEF Bad, Holds
    <3> QED BY <3>2, <3>3
  <2>2. T \in SUBSET Strategy /\ ~Holds(T)
    BY <2>1
  <2>3. T # {}
    <3>1. CASE T = {}
      <4>1. g[T] = 0 /\ h[T] = 0 /\ k[T] = 0
        BY <1>1, <1>2, <1>3, <2>2, <3>1 DEF Sum
      <4> QED BY <1>0, <2>2, <4>1
    <3> QED BY <3>1
  <2>4. PICK x, U : /\ x \in Strategy /\ U = T \ {x} /\ x \in T
                    /\ g[T] = f[x] + g[U] /\ h[T] = d[x] + h[U] /\ k[T] = e[x] + k[U]
    <3>1. First(T) \in T
      BY <2>3, Smaller
    <3>2. g[T] = f[First(T)] + g[T \ {First(T)}]
      BY <1>1, <2>3 DEF Sum
    <3>3. h[T] = d[First(T)] + h[T \ {First(T)}]
      BY <1>2, <2>3 DEF Sum
    <3>4. k[T] = e[First(T)] + k[T \ {First(T)}]
      BY <1>3, <2>3 DEF Sum
    <3> QED BY <2>2, <3>1, <3>2, <3>3, <3>4
  <2>5. Holds(U)
    <3>1. U \subseteq T /\ U # T /\ U \in SUBSET Strategy
      BY <2>2, <2>4
    <3> HIDE DEF Holds
    <3> QED BY <2>1, <3>1
  <2>6. PICK fx \in Int, dx \in Int, ex \in Int, gu \in Int, hu \in Int, ku \in Int :
          /\ fx = f[x] /\ dx = d[x] /\ ex = e[x] /\ gu = g[U] /\ hu = h[U] /\ ku = k[U]
    BY <1>0, <2>4, <2>5
  <2>7. a * fx = b * dx + c * ex /\ a * gu = b * hu + c * ku
    BY <1>0, <2>4, <2>5, <2>6
  <2>8. a * (fx + gu) = b * (dx + hu) + c * (ex + ku)
    <3>1. /\ a * (fx + gu) = a * fx + a * gu /\ b * (dx + hu) = b * dx + b * hu
          /\ c * (ex + ku) = c * ex + c * ku
      BY <1>0, Distributes
    <3> QED BY <1>0, <2>7, <3>1, Regroup
  <2> QED BY <2>2, <2>4, <2>6, <2>8
<1>5. Holds(Strategy)
  BY <1>4
<1> QED BY <1>1, <1>2, <1>3, <1>5 DEF Totalled

LEMMA TotalInt == ASSUME NEW f \in [Strategy -> Int] PROVE Total(f) \in Int
<1>1. Linear(1, 1, 0, f, f, f)
  BY DEF Linear
<1> QED BY <1>1, TotalLinear DEF Totalled

LEMMA TotalAdd ==
  ASSUME NEW f \in [Strategy -> Int], NEW d \in [Strategy -> Int], NEW e \in [Strategy -> Int],
         \A s \in Strategy : f[s] = d[s] + e[s]
  PROVE  Total(f) = Total(d) + Total(e)
<1>1. Linear(1, 1, 1, f, d, e)
  BY DEF Linear
<1>2. Totalled(1, 1, 1, f, d, e)
  BY <1>1, TotalLinear
<1> QED BY <1>2 DEF Totalled

LEMMA TotalScaled ==
  ASSUME NEW f \in [Strategy -> Int], NEW d \in [Strategy -> Int], NEW a \in Int, NEW b \in Int,
         \A s \in Strategy : a * f[s] = b * d[s]
  PROVE  a * Total(f) = b * Total(d)
<1>1. Linear(a, b, 0, f, d, d)
  <2>1. ASSUME NEW s \in Strategy PROVE a * f[s] = b * d[s] + 0 * d[s]
    <3>1. PICK fs \in Int, ds \in Int, bd \in Int : fs = f[s] /\ ds = d[s] /\ bd = b * ds
      BY Distributes
    <3>2. a * fs = bd /\ bd + 0 * ds = bd
      BY <3>1
    <3> QED BY <3>1, <3>2
  <2> QED BY <2>1 DEF Linear
<1>2. Total(f) \in Int /\ Total(d) \in Int /\ a * Total(f) = b * Total(d) + 0 * Total(d)
  BY <1>1, TotalLinear DEF Totalled
<1>3. PICK td \in Int, bt \in Int : td = Total(d) /\ bt = b * td
  BY <1>2, Distributes
<1>4. bt + 0 * td = bt
  OBVIOUS
<1> QED BY <1>2, <1>3, <1>4

LEMMA TotalOf ==
  ASSUME NEW S \in SUBSET Strategy, NEW c \in Int,
         NEW f \in [Strategy -> Int], \A s \in Strategy : f[s] = IF s \in S THEN c ELSE 0
  PROVE  Total(f) = Cardinality(S) * c
<1>1. PICK g : /\ Total(f) = g[Strategy]
               /\ \A T \in SUBSET Strategy : g[T] = Sum(f, g, T)
  BY TotalSums, SumAt
<1> DEFINE Holds(T) == g[T] = Cardinality(T \intersect S) * c
           Bad == {T \in SUBSET Strategy : ~Holds(T)}
<1>2. ASSUME Bad # {} PROVE FALSE
  <2>1. PICK T \in SUBSET Strategy :
          ~Holds(T) /\ \A U \in SUBSET Strategy : U \subseteq T /\ U # T => Holds(U)
    <3>1. Bad \subseteq SUBSET Strategy
      OBVIOUS
    <3>2. PICK T \in Bad : \A U \in Bad : ~(U \subseteq T /\ U # T)
      <4> HIDE DEF Bad
      <4> QED BY <1>2, <3>1, LeastSet
    <3>3. T \in SUBSET Strategy /\ ~Holds(T) /\ \A U \in SUBSET Strategy : ~Holds(U) => U \in Bad
      <4> HIDE DEF Holds
      <4> QED OBVIOUS
    <3> HIDE DEF Bad, Holds
    <3> QED BY <3>2, <3>3
  <2>2. T \in SUBSET Strategy /\ ~Holds(T)
    BY <2>1
  <2>3. T # {}
    <3>1. CASE T = {}
      <4>1. g[T] = 0
        BY <1>1, <2>2, <3>1 DEF Sum
      <4>2. T \intersect S = {} /\ Cardinality({}) = 0
        BY <3>1, FS_EmptySet
      <4>3. 0 * c = 0
        OBVIOUS
      <4> QED BY <2>2, <4>1, <4>2, <4>3
    <3> QED BY <3>1
  <2>4. PICK x, U : x \in Strategy /\ U = T \ {x} /\ x \in T /\ g[T] = f[x] + g[U]
    <3>1. First(T) \in T
      BY <2>3, Smaller
    <3>2. g[T] = f[First(T)] + g[T \ {First(T)}]
      BY <1>1, <2>3 DEF Sum
    <3> QED BY <2>2, <3>1, <3>2
  <2>5. Holds(U)
    <3>1. U \subseteq T /\ U # T /\ U \in SUBSET Strategy
      BY <2>2, <2>4
    <3> HIDE DEF Holds
    <3> QED BY <2>1, <3>1
  <2>6. IsFiniteSet(T \intersect S) /\ IsFiniteSet(U \intersect S)
    BY <2>2, <2>4, FS_Subset
  <2>7. PICK m \in Nat, n \in Nat : m = Cardinality(T \intersect S) /\ n = Cardinality(U \intersect S)
    BY <2>6, FS_CardinalityType
  <2>8. CASE x \in S
    <3>1. T \intersect S = (U \intersect S) \union {x} /\ x \notin U \intersect S
      BY <2>4, <2>8
    <3>2. m = n + 1
      BY <2>6, <2>7, <3>1, FS_AddElement
    <3>3. c * (n + 1) = c * n + c * 1 /\ c * 1 = c /\ c * n = n * c /\ c * (n + 1) = (n + 1) * c
      BY Distributes
    <3>4. f[x] = c /\ g[U] = n * c
      BY <2>4, <2>5, <2>7, <2>8
    <3>5. PICK nc \in Int : nc = n * c
      BY Distributes
    <3>6. g[T] = (n + 1) * c
      BY <2>4, <3>3, <3>4, <3>5
    <3> QED BY <2>2, <2>7, <3>2, <3>6
  <2>9. CASE x \notin S
    <3>1. T \intersect S = U \intersect S
      BY <2>4, <2>9
    <3>2. f[x] = 0 /\ g[U] = n * c /\ n * c \in Int
      BY <2>4, <2>5, <2>7, <2>9
    <3>3. g[T] = g[U]
      BY <2>4, <3>2
    <3> QED BY <2>2, <2>7, <3>1, <3>2, <3>3
  <2> QED BY <2>8, <2>9
<1>3. Holds(Strategy)
  BY <1>2
<1>4. Strategy \intersect S = S
  OBVIOUS
<1> QED BY <1>1, <1>3, <1>4

-----------------------------------------------------------------------------
Owner == Parent \union {0}
Frame == [kind : {"account", "fill"}, qty : Int, parent : Owner, was : Int]
Order == [left : Nat, toward : -1..1, qty : Nat, reduce : BOOLEAN, share : [Strategy -> Int],
          seen : Nat, kept : BOOLEAN]

TypeInv ==
  /\ venue \in Int /\ local \in Int
  /\ stream \in Seq(Frame)
  /\ pass.qty \in Int /\ sync.qty \in Int
  /\ ledger \in [Strategy -> Int]
  /\ parents \in [Parent -> Order]
  /\ \A p \in Parent : parents[p].kept => parents[p].qty # 0
  /\ raced \in BOOLEAN /\ misread \in BOOLEAN /\ astray \in BOOLEAN

LEMMA ExecutesType ==
  ASSUME TypeInv, NEW p \in Owner, NEW d \in Int, Executes(p, d)
  PROVE  /\ venue' \in Int /\ local' \in Int /\ stream' \in Seq(Frame)
         /\ pass'.qty \in Int /\ sync'.qty \in Int
         /\ raced' \in BOOLEAN /\ misread' \in BOOLEAN
<1>1. venue' \in Int
  BY DEF TypeInv, Executes
<1>2. Account(venue') \in Frame /\ Trade(p, d, venue) \in Frame
  BY <1>1 DEF TypeInv, Account, Trade, Frame, Owner
<1>3. stream' \in Seq(Frame)
  <2>1. CASE up
    <3>1. \/ stream' = stream \o <<Account(venue'), Trade(p, d, venue)>>
          \/ stream' = stream \o <<Trade(p, d, venue), Account(venue')>>
      BY <2>1 DEF Executes
    <3>2. stream \in Seq(Frame) /\ <<Account(venue'), Trade(p, d, venue)>> \in Seq(Frame)
          /\ <<Trade(p, d, venue), Account(venue')>> \in Seq(Frame)
      BY <1>2 DEF TypeInv
    <3> QED BY <3>1, <3>2, ConcatProperties
  <2>2. CASE ~up
    BY <2>2 DEF TypeInv, Executes
  <2> QED BY <2>1, <2>2
<1> QED BY <1>1, <1>3 DEF TypeInv, Executes

LEMMA BookType ==
  ASSUME TypeInv, Book \/ Drops \/ PassDone \/ HealSynced
  PROVE  /\ venue' \in Int /\ local' \in Int /\ stream' \in Seq(Frame)
         /\ pass'.qty \in Int /\ sync'.qty \in Int
         /\ raced' \in BOOLEAN /\ misread' \in BOOLEAN
<1>1. CASE Book
  <2>1. CASE OnAccountUpdate
    <3>1. stream # <<>> /\ Head(stream) \in Frame
      BY <2>1 DEF OnAccountUpdate, Reading, TypeInv
    <3> QED BY <2>1, <3>1 DEF OnAccountUpdate, Front, TypeInv, Frame
  <2>2. CASE Lapse
    BY <2>2 DEF Lapse, TypeInv
  <2>3. CASE Reconnect
    <3>1. \A q \in AccountShows : q \in Int
      BY DEF AccountShows, TypeInv
    <3> QED BY <2>3, <3>1 DEF Reconnect, TypeInv, Answer, Idle
  <2>4. CASE ConnectSynced
    BY <2>4 DEF ConnectSynced, SyncLocal, TypeInv, Idle
  <2>5. CASE PassHeals
    <3>1. pass'.qty = 0 /\  (local' = local \/ local' = pass.qty) /\ raced' \in BOOLEAN
          /\ UNCHANGED <<venue, stream, sync, misread>>
      BY <2>5 DEF PassHeals, SyncLocal, Answer, TypeInv
    <3> QED BY <3>1 DEF TypeInv
  <2>6. ASSUME NEW q \in AccountShows, PassStarts(q) \/ PassAsksAgain(q) PROVE pass'.qty \in Int
    BY <2>6 DEF AccountShows, PassStarts, PassAsksAgain, Answer, TypeInv
  <2>7. CASE \E q \in AccountShows : PassStarts(q) \/ PassAsksAgain(q)
    BY <2>6, <2>7 DEF PassStarts, PassAsksAgain, TypeInv
  <2> QED BY <1>1, <2>1, <2>2, <2>3, <2>4, <2>5, <2>7 DEF Book
<1>2. CASE Drops
  BY <1>2 DEF Drops, Disconnect, TypeInv
<1>3. CASE PassDone
  BY <1>3 DEF PassDone, TypeInv, Idle
<1>4. CASE HealSynced
  BY <1>4 DEF HealSynced, SyncLocal, TypeInv, Idle
<1> QED BY <1>1, <1>2, <1>3, <1>4

LEMMA PartType == ASSUME NEW a \in Int, NEW b \in Nat \ {0} PROVE Part(a, b) \in Int
BY DEF Part

LEMMA HealedType ==
  ASSUME TypeInv, NEW q \in Int, HealTo(q) PROVE ledger' \in [Strategy -> Int] /\ astray' \in BOOLEAN
<1>1. Total(ledger) \in Int
  BY TotalInt DEF TypeInv
<1>2. PICK sum \in Int, held \in Int : sum = Total(ledger) /\ held = q * Scale
  BY <1>1, Distributes
<1>3. ASSUME Sign(q) = Sign(sum), Abs(held) < Abs(sum), NEW s \in Strategy
      PROVE  Part(ledger[s] * Abs(held), Abs(sum)) \in Int
  <2>1. Abs(sum) \in Nat \ {0} /\ Abs(held) \in Int
    BY <1>3 DEF Abs
  <2>2. ledger[s] * Abs(held) \in Int
    BY <2>1 DEF TypeInv
  <2> QED BY <2>1, <2>2, PartType
<1>4. Healed(q) \in [Strategy -> Int]
  <2>1. CASE q # 0 /\ Sign(q) = Sign(sum) /\ Abs(held) < Abs(sum)
    <3>1. Healed(q) = [s \in Strategy |-> Part(ledger[s] * Abs(held), Abs(sum))]
      BY <1>2, <2>1 DEF Healed
    <3> QED BY <1>3, <2>1, <3>1
  <2>2. CASE ~(q # 0 /\ Sign(q) = Sign(sum) /\ Abs(held) < Abs(sum))
    <3>1. Healed(q) = NoShare \/ Healed(q) = ledger
      BY <1>2, <2>2 DEF Healed
    <3> QED BY <3>1 DEF NoShare, TypeInv
  <2> QED BY <2>1, <2>2
<1> QED BY <1>4 DEF HealTo, TypeInv

LEMMA WishType == ASSUME TypeInv, NEW w \in Wishes
                  PROVE  w \in [Strategy -> Int] /\ Total(w) \in Int
<1>1. \A s \in Strategy : Believed(s) \in Int
  BY DEF Believed, TypeInv
<1>2. \A s \in Strategy : Intents(s) \subseteq Int
  BY <1>1 DEF Intents
<1>3. w \in [Strategy -> Int]
  BY <1>2 DEF Wishes
<1> QED BY <1>3, TotalInt

LEMMA SubmitType ==
  ASSUME TypeInv, NEW w \in Wishes, NEW q \in Nat \ {0}, NEW r \in BOOLEAN, Submit(w, q, r)
  PROVE  /\ parents' \in [Parent -> Order] /\ astray' \in BOOLEAN
         /\ \A p \in Parent : parents'[p].kept => parents'[p].qty # 0
<1>1. w \in [Strategy -> Int] /\ Total(w) \in Int /\ Sign(Total(w)) \in -1..1
  BY WishType DEF Sign
<1>2. [left |-> q, toward |-> Sign(Total(w)), qty |-> q, reduce |-> r, share |-> w, seen |-> 0,
       kept |-> TRUE] \in Order
  BY <1>1 DEF Order
<1> QED BY <1>2 DEF Submit, TypeInv

\* What a frame moves the position by, and what of it a parent has carried out.
Moved(f) == IF f.kind = "fill" THEN f.qty ELSE 0
Carried(f, p) == IF f.kind = "fill" /\ f.parent = p THEN Abs(f.qty) ELSE 0

\* The frames of str lead from the position a to the position b.
Leads(str, a, b) ==
  \E path \in [0..Len(str) -> Int] :
    /\ path[0] = a /\ path[Len(str)] = b
    /\ \A i \in 1..Len(str) : path[i] = path[i - 1] + Moved(str[i])

\* The frames of str that are the parent's, after those seen, are within what has traded.
Due(str, p, seen, most) ==
  \E due \in [0..Len(str) -> Nat] :
    /\ due[0] = seen
    /\ \A i \in 0..Len(str) : due[i] <= most
    /\ \A i \in 1..Len(str) : due[i] = due[i - 1] + Carried(str[i], p)

\* An addition, named so that the provers need not take it apart.
Adds(c, a, b) == c \in Int /\ a \in Int /\ b \in Int /\ c = a + b

LEMMA TailOf ==
  ASSUME NEW str \in Seq(Frame), str # <<>>
  PROVE  /\ Tail(str) \in Seq(Frame) /\ Len(str) \in Nat \ {0} /\ Len(Tail(str)) = Len(str) - 1
         /\ Head(str) = str[1] /\ str[1] \in Frame
         /\ \A i \in 1..Len(str) - 1 : Tail(str)[i] = str[i + 1]
<1> HIDE DEF Frame
<1> QED BY HeadTailProperties, LenProperties

LEMMA TailLen ==
  ASSUME NEW str \in Seq(Frame), str # <<>>
  PROVE  \E n \in Nat : /\ n = Len(str) - 1 /\ Len(str) = n + 1 /\ Len(Tail(str)) = n
                        /\ \A i \in 1..n : Tail(str)[i] = str[i + 1]
<1>1. PICK n \in Nat : n = Len(str) - 1 /\ Len(str) = n + 1
  BY TailOf
<1> QED BY <1>1, TailOf

LEMMA JoinOf ==
  ASSUME NEW str \in Seq(Frame), NEW x \in Frame, NEW y \in Frame, NEW t, t = str \o <<x, y>>
  PROVE  /\ t \in Seq(Frame) /\ Len(str) \in Nat /\ Len(t) = Len(str) + 2
         /\ \A i \in 1..Len(str) : t[i] = str[i]
         /\ t[Len(str) + 1] = x /\ t[Len(str) + 2] = y
<1> HIDE DEF Frame
<1>1. <<x, y>> \in Seq(Frame) /\ Len(<<x, y>>) = 2 /\ <<x, y>>[1] = x /\ <<x, y>>[2] = y
  OBVIOUS
<1> QED BY <1>1, ConcatProperties, LenProperties

LEMMA FrameInts ==
  ASSUME NEW f \in Frame, NEW p PROVE Moved(f) \in Int /\ Carried(f, p) \in Nat
BY DEF Moved, Carried, Frame, Abs

LEMMA LeadsBy ==
  ASSUME NEW str, NEW m \in Nat, Len(str) = m, NEW path \in [0..m -> Int],
         \A i \in 1..m : path[i] = path[i - 1] + Moved(str[i])
  PROVE  Leads(str, path[0], path[m])
BY DEF Leads

LEMMA DueBy ==
  ASSUME NEW str, NEW m \in Nat, Len(str) = m, NEW due \in [0..m -> Nat], NEW p, NEW most,
         \A i \in 0..m : due[i] <= most,
         \A i \in 1..m : due[i] = due[i - 1] + Carried(str[i], p)
  PROVE  Due(str, p, due[0], most)
BY DEF Due

LEMMA LeadsTail ==
  ASSUME NEW str \in Seq(Frame), str # <<>>, NEW a \in Int, NEW b \in Int, Leads(str, a, b),
         NEW c, Adds(c, a, Moved(Head(str)))
  PROVE  Leads(Tail(str), c, b)
<1>1. PICK n \in Nat : n = Len(str) - 1 /\ Len(str) = n + 1 /\ Len(Tail(str)) = n
  BY TailOf
<1>2. PICK path \in [0..n + 1 -> Int] :
        /\ path[0] = a /\ path[n + 1] = b /\ \A i \in 1..n + 1 : path[i] = path[i - 1] + Moved(str[i])
  BY <1>1 DEF Leads
<1>3. PICK bt : bt = [i \in 0..n |-> path[i + 1]]
  OBVIOUS
<1>4. bt \in [0..n -> Int] /\ bt[0] = c /\ bt[n] = b
  <2>1. Moved(str[1]) \in Int /\ Head(str) = str[1] /\ c = a + Moved(str[1])
    BY TailOf, FrameInts DEF Adds
  <2>2. path[1] = path[0] + Moved(str[1])
    BY <1>2
  <2> QED BY <1>2, <1>3, <2>1, <2>2
<1>5. ASSUME NEW i \in 1..n PROVE bt[i] = bt[i - 1] + Moved(Tail(str)[i])
  <2>1. Tail(str)[i] = str[i + 1]
    BY <1>1, TailOf
  <2>2. path[i + 1] = path[i] + Moved(str[i + 1])
    BY <1>2
  <2>3. bt[i] = path[i + 1] /\ bt[i - 1] = path[i]
    BY <1>3
  <2> QED BY <2>1, <2>2, <2>3
<1> QED BY <1>1, <1>4, <1>5 DEF Leads

LEMMA LeadsJoin ==
  ASSUME NEW str \in Seq(Frame), NEW x \in Frame, NEW y \in Frame, NEW t, t = str \o <<x, y>>,
         NEW a \in Int, NEW b \in Int, Leads(str, a, b), NEW c, NEW d,
         Adds(d, Moved(x), Moved(y)), Adds(c, b, d)
  PROVE  Leads(t, a, c)
<1>1. PICK n \in Nat : n = Len(str) /\ Len(t) = n + 2
  BY JoinOf
<1>2. PICK path \in [0..n -> Int] :
        /\ path[0] = a /\ path[n] = b /\ \A i \in 1..n : path[i] = path[i - 1] + Moved(str[i])
  BY <1>1 DEF Leads
<1>3. PICK mx \in Int, my \in Int : mx = Moved(x) /\ my = Moved(y)
  BY FrameInts
<1>4. PICK bt : bt = [i \in 0..n + 2 |-> IF i <= n THEN path[i] ELSE IF i = n + 1 THEN b + mx ELSE b + mx + my]
  OBVIOUS
<1>5. bt \in [0..n + 2 -> Int] /\ bt[0] = a /\ bt[n + 2] = b + mx + my /\ bt[n + 1] = b + mx /\ bt[n] = b
  BY <1>2, <1>4
<1>6. ASSUME NEW i \in 1..n + 2 PROVE bt[i] = bt[i - 1] + Moved(t[i])
  <2>1. CASE i <= n
    <3>1. t[i] = str[i]
      BY <1>1, <2>1, JoinOf
    <3>2. bt[i] = path[i] /\ bt[i - 1] = path[i - 1]
      BY <1>4, <2>1
    <3>3. path[i] = path[i - 1] + Moved(str[i])
      BY <1>2, <2>1
    <3> QED BY <3>1, <3>2, <3>3
  <2>2. CASE i = n + 1
    <3>1. t[i] = x
      BY <1>1, <2>2, JoinOf
    <3>2. i - 1 = n
      BY <2>2
    <3> QED BY <1>3, <1>5, <2>2, <3>1, <3>2
  <2>3. CASE i = n + 2
    <3>1. t[i] = y
      BY <1>1, <2>3, JoinOf
    <3>2. i - 1 = n + 1
      BY <2>3
    <3> QED BY <1>3, <1>5, <2>3, <3>1, <3>2
  <2>4. i <= n \/ i = n + 1 \/ i = n + 2
    OBVIOUS
  <2> QED BY <2>1, <2>2, <2>3, <2>4
<1>7. n + 2 \in Nat
  OBVIOUS
<1>8. Leads(t, bt[0], bt[n + 2])
  BY <1>1, <1>5, <1>6, <1>7, LeadsBy
<1>9. b + mx + my = c
  <2>1. mx + my = d /\ d \in Int /\ c = b + d
    BY <1>3 DEF Adds
  <2> QED BY <2>1
<1> QED BY <1>5, <1>8, <1>9

LEMMA DueTail ==
  ASSUME NEW str \in Seq(Frame), str # <<>>, NEW p, NEW seen \in Nat, NEW most \in Nat,
         Due(str, p, seen, most), NEW k, Adds(k, seen, Carried(Head(str), p))
  PROVE  k <= most /\ Due(Tail(str), p, k, most)
<1>1. PICK n \in Nat : n = Len(str) - 1 /\ Len(str) = n + 1 /\ Len(Tail(str)) = n
  BY TailOf
<1>2. PICK due \in [0..n + 1 -> Nat] :
        /\ due[0] = seen /\ \A i \in 0..n + 1 : due[i] <= most
        /\ \A i \in 1..n + 1 : due[i] = due[i - 1] + Carried(str[i], p)
  BY <1>1 DEF Due
<1>3. PICK bt : bt = [i \in 0..n |-> due[i + 1]]
  OBVIOUS
<1>4. bt \in [0..n -> Nat] /\ bt[0] = k /\ \A i \in 0..n : bt[i] <= most
  <2>1. Carried(str[1], p) \in Nat /\ Head(str) = str[1] /\ k = seen + Carried(str[1], p)
    BY TailOf, FrameInts DEF Adds
  <2>2. due[1] = due[0] + Carried(str[1], p)
    BY <1>2
  <2> QED BY <1>2, <1>3, <2>1, <2>2
<1>5. ASSUME NEW i \in 1..n PROVE bt[i] = bt[i - 1] + Carried(Tail(str)[i], p)
  <2>1. Tail(str)[i] = str[i + 1]
    BY <1>1, TailOf
  <2>2. due[i + 1] = due[i] + Carried(str[i + 1], p)
    BY <1>2
  <2>3. bt[i] = due[i + 1] /\ bt[i - 1] = due[i]
    BY <1>3
  <2> QED BY <2>1, <2>2, <2>3
<1>6. bt[0] <= most
  BY <1>4
<1> QED BY <1>1, <1>4, <1>5, <1>6 DEF Due

LEMMA DueJoin ==
  ASSUME NEW str \in Seq(Frame), NEW x \in Frame, NEW y \in Frame, NEW t, t = str \o <<x, y>>,
         NEW p, NEW seen \in Nat, NEW most \in Nat, NEW more \in Nat, Due(str, p, seen, most),
         NEW k,
         Adds(k, Carried(x, p), Carried(y, p)), Adds(more, most, k)
  PROVE  Due(t, p, seen, more)
<1>1. PICK n \in Nat : n = Len(str) /\ Len(t) = n + 2
  BY JoinOf
<1>2. PICK due \in [0..n -> Nat] :
        /\ due[0] = seen /\ \A i \in 0..n : due[i] <= most
        /\ \A i \in 1..n : due[i] = due[i - 1] + Carried(str[i], p)
  BY <1>1 DEF Due
<1>3. PICK mx \in Nat, my \in Nat, b \in Nat : mx = Carried(x, p) /\ my = Carried(y, p) /\ b = due[n]
  BY FrameInts
<1>4. PICK bt : bt = [i \in 0..n + 2 |-> IF i <= n THEN due[i] ELSE IF i = n + 1 THEN b + mx ELSE b + mx + my]
  OBVIOUS
<1>5. /\ bt \in [0..n + 2 -> Nat] /\ bt[0] = seen /\ bt[n + 2] = b + mx + my
      /\ bt[n + 1] = b + mx /\ bt[n] = b /\ \A i \in 0..n : bt[i] = due[i]
  <2>1. \A i \in 0..n + 2 : (IF i <= n THEN due[i] ELSE IF i = n + 1 THEN b + mx ELSE b + mx + my) \in Nat
    OBVIOUS
  <2>2. bt \in [0..n + 2 -> Nat]
    BY <1>4, <2>1
  <2>3. bt[n + 2] = b + mx + my /\ bt[n + 1] = b + mx /\ \A i \in 0..n : bt[i] = due[i]
    BY <1>4
  <2>4. bt[0] = due[0] /\ bt[n] = due[n]
    BY <2>3
  <2> QED BY <1>2, <1>3, <2>2, <2>3, <2>4
<1>6. ASSUME NEW i \in 0..n + 2 PROVE bt[i] <= more
  <2>1. b <= most /\ more = most + mx + my
    <3>1. mx + my = k /\ k \in Int /\ more = most + k
      BY <1>3 DEF Adds
    <3>2. b <= most
      BY <1>2, <1>3
    <3> QED BY <3>1, <3>2
  <2>2. CASE i <= n
    <3>1. bt[i] = due[i] /\ due[i] <= most /\ due[i] \in Nat
      <4>1. i \in 0..n
        BY <2>2
      <4> QED BY <1>2, <1>5, <4>1
    <3> QED BY <2>1, <3>1
  <2>3. CASE i = n + 1
    BY <1>5, <2>1, <2>3
  <2>4. CASE i = n + 2
    BY <1>5, <2>1, <2>4
  <2>5. i <= n \/ i = n + 1 \/ i = n + 2
    OBVIOUS
  <2> QED BY <2>2, <2>3, <2>4, <2>5
<1>7. ASSUME NEW i \in 1..n + 2 PROVE bt[i] = bt[i - 1] + Carried(t[i], p)
  <2>1. CASE i <= n
    <3>1. t[i] = str[i]
      BY <1>1, <2>1, JoinOf
    <3>2. bt[i] = due[i] /\ bt[i - 1] = due[i - 1]
      BY <1>4, <2>1
    <3>3. due[i] = due[i - 1] + Carried(str[i], p)
      BY <1>2, <2>1
    <3> QED BY <3>1, <3>2, <3>3
  <2>2. CASE i = n + 1
    <3>1. t[i] = x
      BY <1>1, <2>2, JoinOf
    <3>2. i - 1 = n
      BY <2>2
    <3> QED BY <1>3, <1>5, <2>2, <3>1, <3>2
  <2>3. CASE i = n + 2
    <3>1. t[i] = y
      BY <1>1, <2>3, JoinOf
    <3>2. i - 1 = n + 1
      BY <2>3
    <3> QED BY <1>3, <1>5, <2>3, <3>1, <3>2
  <2>4. i <= n \/ i = n + 1 \/ i = n + 2
    OBVIOUS
  <2> QED BY <2>1, <2>2, <2>3, <2>4
<1>8. n + 2 \in Nat
  OBVIOUS
<1>9. Due(t, p, bt[0], more)
  BY <1>1, <1>5, <1>6, <1>7, <1>8, DueBy
<1> QED BY <1>5, <1>9

LEMMA DueMore ==
  ASSUME NEW str \in Seq(Frame), NEW p, NEW seen \in Nat, NEW most \in Nat, NEW more \in Nat,
         Due(str, p, seen, most), most <= more
  PROVE  Due(str, p, seen, more)
<1>1. PICK n \in Nat : n = Len(str)
  BY LenProperties
<1>2. PICK due \in [0..n -> Nat] :
        /\ due[0] = seen /\ \A i \in 0..n : due[i] <= most
        /\ \A i \in 1..n : due[i] = due[i - 1] + Carried(str[i], p)
  BY <1>1 DEF Due
<1>3. \A i \in 0..n : due[i] <= more
  <2> TAKE i \in 0..n
  <2>1. due[i] \in Nat /\ due[i] <= most
    BY <1>2
  <2> QED BY <2>1
<1> QED BY <1>1, <1>2, <1>3 DEF Due

LEMMA DueNone ==
  ASSUME NEW str \in Seq(Frame), NEW p, \A i \in 1..Len(str) : str[i].parent # p
  PROVE  Due(str, p, 0, 0)
<1>1. PICK n \in Nat : n = Len(str)
  BY LenProperties
<1>2. PICK due : due = [i \in 0..n |-> 0]
  OBVIOUS
<1>3. \A i \in 1..n : Carried(str[i], p) = 0
  BY <1>1 DEF Carried
<1> QED BY <1>1, <1>2, <1>3 DEF Due

LEMMA Empty == ASSUME NEW a \in Int, NEW p PROVE Leads(<<>>, a, a) /\ Due(<<>>, p, 0, 0)
<1>1. PICK path, due : path = [i \in 0..0 |-> a] /\ due = [i \in 0..0 |-> 0]
  OBVIOUS
<1>2. Len(<<>>) = 0 /\ 1..0 = {}
  OBVIOUS
<1>3. path \in [0..0 -> Int] /\ due \in [0..0 -> Nat] /\ path[0] = a /\ due[0] = 0 /\ \A i \in 0..0 : due[i] <= 0
  BY <1>1
<1> QED BY <1>2, <1>3 DEF Leads, Due

LEMMA LeadsEmpty == ASSUME NEW a, NEW b, Leads(<<>>, a, b) PROVE a = b
<1>1. Len(<<>>) = 0
  OBVIOUS
<1> QED BY <1>1 DEF Leads

\* A fill of the stream is a parent's, on its side.
FillOK(f, par) ==
  f.kind = "fill" => f.parent \in Parent /\ f.qty # 0 /\ f.qty = Abs(f.qty) * par[f.parent].toward

OrderOK(o) ==
  /\ o.kept <=> o.seen < o.qty
  /\ o.left <= o.qty
  /\ o.qty > 0 => o.toward # 0
  /\ o.qty > 0 => Total(o.share) = (o.toward * o.qty) * Scale
  /\ o.qty > 0 => \A s \in Strategy : (o.share[s] * o.seen) % o.qty = 0

\* The legs add up to the position the ledger has been told of, from which the fills on
\* their way lead to the venue's.
SumInv(str, v, led, par) ==
  /\ \E told \in Int : Total(led) = told * Scale /\ Leads(str, told, v)
  /\ \A i \in 1..Len(str) : FillOK(str[i], par)
  /\ \A p \in Parent : OrderOK(par[p]) /\ Due(str, p, par[p].seen, par[p].qty - par[p].left)

\* A fill comes right after the account frame that has its position.
PairInv(str, l) ==
  \A i \in 1..Len(str) : str[i].kind = "fill" =>
    /\ i = 1 => l = str[i].was + str[i].qty
    /\ i > 1 => str[i - 1].kind = "account" /\ str[i - 1].qty = str[i].was + str[i].qty

LedgerInv ==
  /\ TypeInv
  /\ ~FillsFirst /\ ~raced => ~misread /\ PairInv(stream, local)
  /\ ~astray => SumInv(stream, venue, ledger, parents)

LEMMA PairTail ==
  ASSUME NEW str \in Seq(Frame), str # <<>>, NEW l \in Int, PairInv(str, l)
  PROVE  /\ str[1].kind = "account" => PairInv(Tail(str), str[1].qty)
         /\ str[1].kind = "fill" => PairInv(Tail(str), l) /\ l = str[1].was + str[1].qty
<1>1. PICK n \in Nat : n = Len(Tail(str)) /\ Len(str) = n + 1 /\ \A i \in 1..n : Tail(str)[i] = str[i + 1]
  BY TailOf
<1>2. ASSUME NEW i \in 1..n, Tail(str)[i].kind = "fill"
      PROVE  /\ str[i].kind = "account" /\ str[i].qty = Tail(str)[i].was + Tail(str)[i].qty
             /\ i > 1 => Tail(str)[i - 1] = str[i]
  <2>1. Tail(str)[i] = str[i + 1] /\ i + 1 \in 1..Len(str) /\ i + 1 > 1 /\ (i + 1) - 1 = i
    BY <1>1
  <2>2. str[i].kind = "account" /\ str[i].qty = str[i + 1].was + str[i + 1].qty
    BY <1>2, <2>1 DEF PairInv
  <2>3. i > 1 => i - 1 \in 1..n /\ (i - 1) + 1 = i
    OBVIOUS
  <2> QED BY <1>1, <2>1, <2>2, <2>3
<1>3. 1 \in 1..Len(str)
  BY <1>1
<1> QED BY <1>1, <1>2, <1>3 DEF PairInv

LEMMA PairJoin ==
  ASSUME NEW str \in Seq(Frame), NEW x \in Frame, NEW y \in Frame, NEW t, t = str \o <<x, y>>,
         NEW l, PairInv(str, l), x.kind = "account", x.qty = y.was + y.qty
  PROVE  PairInv(t, l)
<1>0. PICK n \in Nat : n = Len(str)
  BY LenProperties
<1>1. /\ n = Len(str) /\ Len(t) = n + 2
      /\ \A i \in 1..n : t[i] = str[i]
      /\ t[n + 1] = x /\ t[n + 2] = y
  BY <1>0, JoinOf
<1>2. ASSUME NEW i \in 1..n + 2, t[i].kind = "fill"
      PROVE  /\ i = 1 => l = t[i].was + t[i].qty
             /\ i > 1 => t[i - 1].kind = "account" /\ t[i - 1].qty = t[i].was + t[i].qty
  <2>1. CASE i <= n
    <3>1. t[i] = str[i] /\ i \in 1..n /\ (i > 1 => t[i - 1] = str[i - 1])
      BY <1>1, <2>1
    <3> QED BY <1>1, <1>2, <3>1 DEF PairInv
  <2>2. CASE i = n + 1
    BY <1>1, <1>2, <2>2
  <2>3. CASE i = n + 2
    <3>1. t[i] = y /\ t[i - 1] = x /\ i # 1
      BY <1>1, <2>3
    <3> QED BY <3>1
  <2>4. i <= n \/ i = n + 1 \/ i = n + 2
    OBVIOUS
  <2> QED BY <2>1, <2>2, <2>3, <2>4
<1> QED BY <1>1, <1>2 DEF PairInv

LEMMA PairExecutes ==
  ASSUME TypeInv, ~FillsFirst, ~raced', NEW p \in Owner, NEW d \in Int, Executes(p, d),
         ~raced => ~misread /\ PairInv(stream, local)
  PROVE  ~misread' /\ PairInv(stream', local')
<1>1. up /\ ~raced
  BY DEF Executes, TypeInv
<1>2. /\ stream' = stream \o <<Account(venue'), Trade(p, d, venue)>>
      /\ venue' = venue + d /\ local' = local /\ misread' = misread
  BY <1>1 DEF Executes
<1>3. venue \in Int /\ venue' \in Int /\ stream \in Seq(Frame)
  BY <1>2 DEF TypeInv
<1>4. /\ Account(venue') \in Frame /\ Trade(p, d, venue) \in Frame
      /\ Account(venue').kind = "account"
      /\ Account(venue').qty = Trade(p, d, venue).was + Trade(p, d, venue).qty
  BY <1>2, <1>3 DEF Account, Trade, Frame, Owner
<1> HIDE DEF Account, Trade, Frame, Owner
<1>5. PairInv(stream', local)
  BY <1>1, <1>2, <1>3, <1>4, PairJoin
<1> QED BY <1>1, <1>2, <1>5

LEMMA ParentOwns == ASSUME NEW p \in Parent PROVE p \in Owner /\ p # 0
BY DEF Owner

LEMMA FillExecutes ==
  ASSUME TypeInv, NEW p \in Parent, NEW n \in 1..MaxPos, Fill(p, n)
  PROVE  /\ p \in Owner /\ n * parents[p].toward \in Int
         /\ Executes(p, n * parents[p].toward)
<1>1. parents[p].toward \in -1..1 /\ n \in Int
  BY DEF TypeInv, Order
<1>2. n * parents[p].toward \in Int
  BY <1>1
<1> QED BY <1>2, ParentOwns DEF Fill

\* A step of the ledger, by what it does to the book.
LEMMA Steps ==
  ASSUME TypeInv, [NextLedger]_ledgerVars
  PROVE  \/ \E p \in Owner, d \in Int : Executes(p, d)
         \/ OnFill
         \/ Book \/ Drops \/ PassEnds \/ HealEnds
         \/ UNCHANGED <<stream, local, raced, misread>>
<1>1. CASE \E w \in Wishes : TickEnters(w) \/ TickCloses(w) \/ TickHeals(w)
  BY <1>1 DEF TickEnters, TickCloses, TickHeals, bookVars
<1>2. ASSUME NEW p \in Parent, NEW n \in 1..MaxPos, Fill(p, n)
      PROVE  \E q \in Owner, d \in Int : Executes(q, d)
  BY <1>2, FillExecutes
<1>3. ASSUME NEW d \in {-1, 1}, Foreign(d)
      PROVE  \E q \in Owner, e \in Int : Executes(q, e)
  BY <1>3 DEF Foreign, Owner
<1>4. ASSUME NEW p \in Parent, ParentEnds(p) \/ Refused(p) \/ Forget(p)
      PROVE  UNCHANGED <<stream, local, raced, misread>>
  BY <1>4 DEF ParentEnds, Refused, Forget, bookVars
<1>5. CASE UNCHANGED ledgerVars
  BY <1>5 DEF ledgerVars, bookVars
<1> QED BY <1>1, <1>2, <1>3, <1>4, <1>5 DEF NextLedger

LEMMA PairStep ==
  ASSUME TypeInv, [NextLedger]_ledgerVars, ~FillsFirst, ~raced',
         ~raced => ~misread /\ PairInv(stream, local)
  PROVE  ~misread' /\ PairInv(stream', local')
<1>0. stream \in Seq(Frame) /\ local \in Int
  BY DEF TypeInv
<1>1. CASE \E p \in Owner, d \in Int : Executes(p, d)
  BY <1>1, PairExecutes
<1>2. CASE OnFill
  <2>1. /\ stream # <<>> /\ stream' = Tail(stream) /\ local' = local /\ raced' = raced
        /\ stream[1].kind = "fill" /\ Head(stream) = stream[1]
        /\ misread' = (misread \/ Opens(Before(stream[1].qty), stream[1].qty) # Opens(stream[1].was, stream[1].qty))
    BY <1>0, <1>2, TailOf DEF OnFill, ReadFill, Reading, Front
  <2>2. ~misread /\ PairInv(stream, local)
    BY <2>1
  <2>3. PairInv(stream', local') /\ local = stream[1].was + stream[1].qty
    BY <1>0, <2>1, <2>2, PairTail
  <2>4. stream[1].was \in Int /\ stream[1].qty \in Int
    BY <1>0, <2>1, TailOf DEF Frame
  <2>5. Before(stream[1].qty) = stream[1].was
    BY <2>3, <2>4 DEF Before
  <2> QED BY <2>1, <2>2, <2>3, <2>5
<1>3. CASE Book
  <2>1. CASE OnAccountUpdate
    <3>1. /\ stream # <<>> /\ stream' = Tail(stream) /\ raced' = raced /\ misread' = misread
          /\ stream[1].kind = "account" /\ local' = stream[1].qty
      BY <1>0, <2>1, TailOf DEF OnAccountUpdate, Reading, Front
    <3> QED BY <1>0, <3>1, PairTail
  <2>2. CASE ConnectSynced
    BY <2>2 DEF ConnectSynced, SyncLocal
  <2>3. CASE PassHeals
    BY <2>3 DEF PassHeals, SyncLocal
  <2>4. CASE Lapse \/ Reconnect \/ \E q \in AccountShows : PassStarts(q) \/ PassAsksAgain(q)
    <3>1. UNCHANGED <<stream, local, raced, misread>>
      BY <2>4 DEF Lapse, Reconnect, PassStarts, PassAsksAgain
    <3> QED BY <3>1
  <2> QED BY <1>3, <2>1, <2>2, <2>3, <2>4 DEF Book
<1>4. CASE Drops
  <2>1. stream = <<>> /\ stream' = <<>> /\ local' = local /\ ~raced /\ misread' = misread
    BY <1>4 DEF Drops, Disconnect
  <2> QED BY <2>1
<1>5. CASE PassEnds
  BY <1>5 DEF PassEnds, PassDone
<1>6. CASE HealEnds
  BY <1>6 DEF HealEnds, HealSynced, SyncLocal
<1>7. CASE UNCHANGED <<stream, local, raced, misread>>
  BY <1>7
<1> QED BY <1>1, <1>2, <1>3, <1>4, <1>5, <1>6, <1>7, Steps

LEMMA PartExact ==
  ASSUME NEW a \in Int, NEW b \in Nat \ {0}, a % b = 0 PROVE Part(a, b) \in Int /\ b * Part(a, b) = a
<1>1. CASE a >= 0
  <2>1. a = b * (a \div b) + (a % b)
    OBVIOUS
  <2> QED BY <1>1, <2>1 DEF Part
<1>2. CASE a < 0
  <2>1. a = b * (a \div b) + (a % b) /\ a \div b \in Int
    OBVIOUS
  <2>2. PICK c \in Int : a = b * c
    BY <2>1
  <2>3. -a = b * (-c)
    BY <2>2
  <2>4. (-a) \div b = -c
    BY <2>3
  <2> QED BY <1>2, <2>2, <2>4 DEF Part
<1> QED BY <1>1, <1>2

\* No fill is on its way for a parent of which nothing is left to be seen.
LEMMA NoneDue ==
  ASSUME NEW str \in Seq(Frame), NEW p, Due(str, p, 0, 0), NEW i \in 1..Len(str), str[i].kind = "fill",
         str[i].qty # 0
  PROVE  str[i].parent # p
<1>1. PICK n \in Nat : n = Len(str)
  BY LenProperties
<1>2. PICK due \in [0..n -> Nat] :
        /\ \A j \in 0..n : due[j] <= 0
        /\ \A j \in 1..n : due[j] = due[j - 1] + Carried(str[j], p)
  BY <1>1 DEF Due
<1>3. i \in 1..n /\ i \in 0..n /\ i - 1 \in 0..n
  BY <1>1
<1>4. PICK a \in Nat, b \in Nat : a = due[i] /\ b = due[i - 1] /\ a <= 0 /\ b <= 0 /\ a = b + Carried(str[i], p)
  BY <1>2, <1>3
<1>5. str[i] \in Frame
  BY <1>1, <1>3, ElementOfSeq
<1>6. Carried(str[i], p) \in Nat
  BY <1>5, FrameInts
<1>7. Carried(str[i], p) = 0
  BY <1>4, <1>6
<1> QED BY <1>5, <1>7 DEF Carried, Frame, Abs

LEMMA SubmitSum ==
  ASSUME TypeInv, SumInv(stream, venue, ledger, parents), NEW w \in Wishes, NEW q \in Nat \ {0},
         NEW r \in BOOLEAN, Submit(w, q, r), ~astray', UNCHANGED <<stream, venue, ledger>>
  PROVE  SumInv(stream', venue', ledger', parents')
<1>1. PICK p \in Parent :
        /\ parents[p] = Free
        /\ parents' = [parents EXCEPT ![p] =
             [left |-> q, toward |-> Sign(Total(w)), qty |-> q, reduce |-> r, share |-> w, seen |-> 0,
              kept |-> TRUE]]
        /\ q * Scale = Abs(Total(w))
  BY DEF Submit, TypeInv
<1>2. /\ parents[p].seen = 0 /\ parents[p].left = 0 /\ parents[p].qty = 0
      /\ parents'[p].left = q /\ parents'[p].toward = Sign(Total(w)) /\ parents'[p].qty = q
      /\ parents'[p].share = w /\ parents'[p].seen = 0 /\ (parents'[p].kept <=> TRUE)
      /\ \A c \in Parent \ {p} : parents'[c] = parents[c]
  BY <1>1 DEF TypeInv, Free
<1>3. w \in [Strategy -> Int] /\ Total(w) \in Int
  BY WishType
<1>4. PICK t \in Int, g \in {-1, 1} : t = Total(w) /\ g = Sign(t) /\ t = (g * q) * Scale
  <2>1. PICK t \in Int, m \in Int : t = Total(w) /\ m = q * Scale /\ m > 0 /\ m = Abs(t)
    BY <1>1, <1>3
  <2>2. CASE t > 0
    BY <2>1, <2>2 DEF Sign, Abs
  <2>3. CASE t < 0
    <3>1. t = -m /\ Sign(t) = -1 /\ ((-1) * q) * Scale = -(q * Scale)
      BY <2>1, <2>3 DEF Sign, Abs
    <3> QED BY <2>1, <3>1
  <2> QED BY <2>1, <2>2, <2>3 DEF Abs
<1>5. OrderOK(parents'[p])
  <2>1. \A s \in Strategy : (w[s] * 0) % q = 0
    BY <1>3
  <2> QED BY <1>2, <1>4, <2>1 DEF OrderOK
<1>6. Due(stream, p, 0, 0)
  BY <1>2 DEF SumInv
<1>7. ASSUME NEW i \in 1..Len(stream) PROVE FillOK(stream[i], parents')
  <2>1. FillOK(stream[i], parents)
    BY DEF SumInv
  <2>2. stream[i].kind = "fill" => stream[i].parent # p
    BY <1>6, <2>1, NoneDue DEF FillOK, TypeInv
  <2> QED BY <1>2, <2>1, <2>2 DEF FillOK
<1>8. parents'[p].qty - parents'[p].left = 0
  BY <1>2
<1> QED BY <1>2, <1>5, <1>6, <1>7, <1>8 DEF SumInv

LEMMA EndSum ==
  ASSUME TypeInv, SumInv(stream, venue, ledger, parents), NEW p \in Parent,
         parents' = [parents EXCEPT ![p].left = 0], UNCHANGED <<stream, venue, ledger>>
  PROVE  SumInv(stream', venue', ledger', parents')
<1>1. /\ parents'[p].left = 0 /\ parents'[p].toward = parents[p].toward /\ parents'[p].qty = parents[p].qty
      /\ parents'[p].share = parents[p].share /\ parents'[p].seen = parents[p].seen
      /\ parents'[p].kept = parents[p].kept
      /\ parents[p].left \in Nat /\ parents[p].qty \in Nat /\ parents[p].seen \in Nat
      /\ \A c \in Parent \ {p} : parents'[c] = parents[c]
      /\ \A c \in Parent : parents'[c].toward = parents[c].toward
  BY DEF TypeInv, Order
<1>2. OrderOK(parents[p]) /\ Due(stream, p, parents[p].seen, parents[p].qty - parents[p].left)
  BY DEF SumInv
<1>3. OrderOK(parents'[p])
  BY <1>1, <1>2 DEF OrderOK
<1>30. parents[p].left <= parents[p].qty
  BY <1>2 DEF OrderOK
<1>4. PICK a \in Nat, b \in Nat, c \in Nat, most \in Nat :
        /\ a = parents[p].seen /\ b = parents[p].qty /\ c = parents[p].left
        /\ most = b - c /\ most <= b
  <2>1. PICK a \in Nat, b \in Nat, c \in Nat : a = parents[p].seen /\ b = parents[p].qty /\ c = parents[p].left
    BY <1>1
  <2>2. b - c \in Nat /\ b - c <= b
    BY <1>30, <2>1
  <2> QED BY <2>1, <2>2
<1>5. Due(stream, p, a, b)
  BY <1>2, <1>4, DueMore DEF TypeInv
<1>6. Due(stream, p, parents'[p].seen, parents'[p].qty - parents'[p].left)
  BY <1>1, <1>4, <1>5
<1>7. \A i \in 1..Len(stream) : FillOK(stream[i], parents')
  BY <1>1 DEF SumInv, FillOK
<1> QED BY <1>1, <1>3, <1>6, <1>7 DEF SumInv

LEMMA ForgetSum ==
  ASSUME TypeInv, SumInv(stream, venue, ledger, parents), NEW p \in Parent, Forget(p)
  PROVE  SumInv(stream', venue', ledger', parents')
<1>1. /\ UNCHANGED <<stream, venue, ledger>> /\ \A i \in 1..Len(stream) : stream[i].parent # p
      /\ parents'[p] = Free /\ \A c \in Parent \ {p} : parents'[c] = parents[c]
  BY DEF Forget, TypeInv, bookVars
<1>2. OrderOK(Free) /\ Free.seen = 0 /\ Free.qty - Free.left = 0
  BY DEF OrderOK, Free
<1>3. Due(stream, p, 0, 0)
  BY <1>1, DueNone DEF TypeInv
<1>4. \A i \in 1..Len(stream) : FillOK(stream[i], parents')
  BY <1>1 DEF SumInv, FillOK
<1> HIDE DEF Free
<1> QED BY <1>1, <1>2, <1>3, <1>4 DEF SumInv

\* What a fill of n lots of the parent p brings about: d, and the frames x and y.
Brings(p, n, d, x, y) ==
  /\ d # 0 /\ venue' = venue + d /\ stream' = stream \o <<x, y>>
  /\ FillOK(x, parents) /\ FillOK(y, parents)
  /\ Adds(d, Moved(x), Moved(y)) /\ Adds(n, Carried(x, p), Carried(y, p))
  /\ \A c \in Parent \ {p} : Adds(0, Carried(x, c), Carried(y, c))

LEMMA FillFacts ==
  ASSUME TypeInv, SumInv(stream, venue, ledger, parents), NEW p \in Parent, NEW n \in 1..MaxPos,
         Fill(p, n), ~astray'
  PROVE  \E d \in Int, x \in Frame, y \in Frame : Brings(p, n, d, x, y)
<1>1. up /\ Executes(p, n * parents[p].toward) /\ n <= parents[p].left
  BY DEF Fill, TypeInv
<1>2. PICK g \in {-1, 1} : g = parents[p].toward
  <2>1. parents[p] \in Order /\ OrderOK(parents[p])
    BY DEF TypeInv, SumInv
  <2> QED BY <1>1, <2>1 DEF Order, OrderOK
<1>3. PICK d \in Int : d = n * g /\ d # 0 /\ d = Abs(d) * g /\ Abs(d) = n
  BY DEF Abs
<1>4. PICK a, f : a = Account(venue') /\ f = Trade(p, d, venue)
  OBVIOUS
<1>5. venue' = venue + d /\ (stream' = stream \o <<a, f>> \/ stream' = stream \o <<f, a>>)
  BY <1>1, <1>2, <1>3, <1>4 DEF Executes
<1>6. /\ a \in Frame /\ f \in Frame /\ a.kind = "account" /\ f.kind = "fill"
      /\ f.parent = p /\ f.qty = d
  BY <1>4, <1>5, ParentOwns DEF TypeInv, Account, Trade, Frame, Owner
<1>7. /\ FillOK(a, parents) /\ FillOK(f, parents) /\ Moved(a) = 0 /\ Moved(f) = d
      /\ Carried(a, p) = 0 /\ Carried(f, p) = n
      /\ \A c \in Parent \ {p} : Carried(a, c) = 0 /\ Carried(f, c) = 0
  BY <1>2, <1>3, <1>6 DEF FillOK, Moved, Carried
<1>8. CASE stream' = stream \o <<a, f>>
  <2>1. /\ Adds(d, Moved(a), Moved(f)) /\ Adds(n, Carried(a, p), Carried(f, p))
        /\ \A c \in Parent \ {p} : Adds(0, Carried(a, c), Carried(f, c))
    BY <1>3, <1>7 DEF Adds
  <2>2. Brings(p, n, d, a, f)
    BY <1>3, <1>5, <1>6, <1>7, <1>8, <2>1 DEF Brings
  <2> QED BY <1>6, <2>2
<1>9. CASE stream' = stream \o <<f, a>>
  <2>1. /\ Adds(d, Moved(f), Moved(a)) /\ Adds(n, Carried(f, p), Carried(a, p))
        /\ \A c \in Parent \ {p} : Adds(0, Carried(f, c), Carried(a, c))
    BY <1>3, <1>7 DEF Adds
  <2>2. Brings(p, n, d, f, a)
    BY <1>3, <1>5, <1>6, <1>7, <1>9, <2>1 DEF Brings
  <2> QED BY <1>6, <2>2
<1> QED BY <1>5, <1>8, <1>9

LEMMA FillSum ==
  ASSUME TypeInv, SumInv(stream, venue, ledger, parents), NEW p \in Parent, NEW n \in 1..MaxPos,
         Fill(p, n), ~astray'
  PROVE  SumInv(stream', venue', ledger', parents')
<1>0. PICK d \in Int, x \in Frame, y \in Frame : Brings(p, n, d, x, y)
  BY FillFacts
<1>1. /\ venue' = venue + d /\ stream' = stream \o <<x, y>>
      /\ FillOK(x, parents) /\ FillOK(y, parents)
      /\ Adds(d, Moved(x), Moved(y)) /\ Adds(n, Carried(x, p), Carried(y, p))
      /\ \A c \in Parent \ {p} : Adds(0, Carried(x, c), Carried(y, c))
  BY <1>0 DEF Brings
<1>2. stream \in Seq(Frame) /\ venue \in Int /\ n \in Nat
  BY DEF TypeInv
<1>3. /\ parents'[p].left = parents[p].left - n /\ parents'[p].toward = parents[p].toward
      /\ parents'[p].qty = parents[p].qty /\ parents'[p].share = parents[p].share
      /\ parents'[p].seen = parents[p].seen /\ parents'[p].kept = parents[p].kept
      /\ n <= parents[p].left /\ ledger' = ledger
      /\ parents[p].left \in Nat /\ parents[p].qty \in Nat /\ parents[p].seen \in Nat
      /\ \A c \in Parent \ {p} : parents'[c] = parents[c]
      /\ \A c \in Parent : parents'[c].toward = parents[c].toward
  BY DEF TypeInv, Order, Fill
<1>4. \A c \in Parent : OrderOK(parents[c]) /\ Due(stream, c, parents[c].seen, parents[c].qty - parents[c].left)
  BY DEF SumInv
<1>5. PICK rest \in Nat, qty \in Nat, seen \in Nat :
        /\ rest = parents[p].left /\ qty = parents[p].qty /\ seen = parents[p].seen
        /\ n <= rest /\ rest <= qty
  BY <1>3, <1>4 DEF OrderOK
<1>6. OrderOK(parents'[p])
  <2>1. parents'[p].left <= parents'[p].qty
    BY <1>2, <1>3, <1>5
  <2> QED BY <1>3, <1>4, <2>1 DEF OrderOK
<1>7. PICK told \in Int : Total(ledger) = told * Scale /\ Leads(stream, told, venue)
  BY DEF SumInv
<1>8. Leads(stream', told, venue')
  <2>1. Adds(venue', venue, d)
    BY <1>1, <1>2 DEF Adds
  <2> QED BY <1>1, <1>2, <1>7, <2>1, LeadsJoin
<1>9. Due(stream', p, parents'[p].seen, parents'[p].qty - parents'[p].left)
  <2>1. PICK most \in Nat, more \in Nat : most = qty - rest /\ more = most + n /\ more = qty - (rest - n)
    <3>0. n <= rest /\ rest <= qty
      BY <1>5
    <3>1. qty - rest \in Nat /\ qty - (rest - n) = (qty - rest) + n /\ (qty - rest) + n \in Nat
      BY <3>0
    <3> QED BY <3>1
  <2>2. Adds(more, most, n)
    BY <1>2, <2>1 DEF Adds
  <2>4. Due(stream, p, seen, most)
    BY <1>4, <1>5, <2>1
  <2>5. Due(stream', p, seen, more)
    BY <1>1, <1>2, <2>1, <2>2, <2>4, DueJoin
  <2> QED BY <1>3, <1>5, <2>1, <2>5
<1>10. ASSUME NEW c \in Parent \ {p}
       PROVE  Due(stream', c, parents'[c].seen, parents'[c].qty - parents'[c].left)
  <2>1. PICK l \in Nat, q \in Nat, s \in Nat, most \in Nat :
          l = parents[c].left /\ q = parents[c].qty /\ s = parents[c].seen /\ most = q - l
    <3>1. PICK l \in Nat, q \in Nat, s \in Nat :
            l = parents[c].left /\ q = parents[c].qty /\ s = parents[c].seen /\ l <= q
      BY <1>4 DEF TypeInv, Order, OrderOK
    <3>2. q - l \in Nat
      BY <3>1
    <3> QED BY <3>1, <3>2
  <2>2. Adds(0, Carried(x, c), Carried(y, c))
    BY <1>1
  <2>5. Adds(most, most, 0)
    BY DEF Adds
  <2>3. Due(stream, c, s, most)
    BY <1>4, <2>1
  <2>4. Due(stream', c, s, most)
    BY <1>1, <1>2, <2>2, <2>3, <2>5, DueJoin
  <2> QED BY <1>3, <2>1, <2>4
<1>11. \A i \in 1..Len(stream') : FillOK(stream'[i], parents')
  <2>1. PICK m \in Nat : m = Len(stream)
    BY <1>2, LenProperties
  <2>2. /\ Len(stream') = m + 2 /\ \A i \in 1..m : stream'[i] = stream[i]
        /\ stream'[m + 1] = x /\ stream'[m + 2] = y
    BY <1>1, <1>2, <2>1, JoinOf
  <2>3. \A i \in 1..m : FillOK(stream[i], parents)
    BY <2>1 DEF SumInv
  <2>4. \A i \in 1..m + 2 : i \in 1..m \/ i = m + 1 \/ i = m + 2
    OBVIOUS
  <2>5. \A i \in 1..m + 2 : FillOK(stream'[i], parents)
    BY <1>1, <2>2, <2>3, <2>4
  <2> QED BY <1>3, <2>2, <2>5 DEF FillOK
<1> QED BY <1>3, <1>4, <1>6, <1>7, <1>8, <1>9, <1>10, <1>11 DEF SumInv

LEMMA PlusZero == ASSUME NEW a \in Int PROVE Adds(a, a, 0)
BY DEF Adds

\* A frame that moves no position: the legs stay, and so does what is due to each parent.
LEMMA AccountSum ==
  ASSUME TypeInv, SumInv(stream, venue, ledger, parents), stream # <<>>, Head(stream).kind = "account",
         stream' = Tail(stream), UNCHANGED <<venue, ledger, parents>>
  PROVE  SumInv(stream', venue', ledger', parents')
<1>0. stream \in Seq(Frame)
  BY DEF TypeInv
<1>1. PICK n \in Nat : n = Len(stream) - 1 /\ Len(stream) = n + 1 /\ Len(Tail(stream)) = n
                      /\ \A i \in 1..n : Tail(stream)[i] = stream[i + 1]
  BY <1>0, TailLen
<1>2. PICK told \in Int : Total(ledger) = told * Scale /\ Leads(stream, told, venue)
  BY DEF SumInv
<1>3. Adds(told, told, Moved(Head(stream))) /\ venue \in Int
  <2>1. Moved(Head(stream)) = 0
    BY DEF Moved
  <2> QED BY <2>1, PlusZero DEF TypeInv
<1>4. Leads(Tail(stream), told, venue)
  BY <1>0, <1>2, <1>3, LeadsTail
<1>5. ASSUME NEW c \in Parent PROVE Due(Tail(stream), c, parents[c].seen, parents[c].qty - parents[c].left)
  <2>1. PICK s \in Nat, most \in Nat : s = parents[c].seen /\ most = parents[c].qty - parents[c].left
    <3>1. PICK l \in Nat, q \in Nat, s \in Nat :
            l = parents[c].left /\ q = parents[c].qty /\ s = parents[c].seen /\ l <= q
      BY DEF TypeInv, Order, SumInv, OrderOK
    <3>2. q - l \in Nat
      BY <3>1
    <3> QED BY <3>1, <3>2
  <2>2. Due(stream, c, s, most)
    BY <2>1 DEF SumInv
  <2>3. Adds(s, s, Carried(Head(stream), c))
    <3>1. Carried(Head(stream), c) = 0
      BY DEF Carried
    <3> QED BY <3>1, PlusZero
  <2>4. Due(Tail(stream), c, s, most)
    BY <1>0, <2>2, <2>3, DueTail
  <2> QED BY <2>1, <2>4
<1>6. \A i \in 1..n : FillOK(Tail(stream)[i], parents)
  <2>1. \A i \in 1..n : i + 1 \in 1..Len(stream)
    BY <1>1
  <2> QED BY <1>1, <2>1 DEF SumInv
<1> QED BY <1>1, <1>2, <1>4, <1>5, <1>6 DEF SumInv

LEMMA Cancel == ASSUME NEW q \in Nat \ {0}, NEW a \in Int, NEW b \in Int, q * a = q * b PROVE a = b
<1>1. q * (a - b) = q * a - q * b
  OBVIOUS
<1>2. q * (a - b) = 0
  BY <1>1
<1>3. PICK c \in Int : c = a - b /\ q * c = 0
  BY <1>2
<1>4. c = 0
  BY <1>3
<1> QED BY <1>3, <1>4

\* What one fill of n lots adds to a leg is n of the parent's qty parts of its share.
LEMMA CreditOf ==
  ASSUME NEW share \in Int, NEW qty \in Nat \ {0}, NEW seen \in Nat, NEW n \in Nat,
         (share * seen) % qty = 0, (share * (seen + n)) % qty = 0
  PROVE  /\ Part(share * (seen + n), qty) - Part(share * seen, qty) \in Int
         /\ qty * (Part(share * (seen + n), qty) - Part(share * seen, qty)) = n * share
<1>1. PICK a \in Int, b \in Int : a = share * seen /\ b = share * (seen + n) /\ b - a = n * share
  <2>1. share * (seen + n) = share * seen + share * n /\ share * n = n * share
    BY Distributes
  <2>2. PICK a \in Int, m \in Int : a = share * seen /\ m = n * share
    BY Distributes
  <2>3. share * (seen + n) = a + m /\ (a + m) - a = m
    BY <2>1, <2>2
  <2> QED BY <2>2, <2>3
<1>2. PICK x \in Int : x = Part(a, qty) /\ qty * x = a
  BY <1>1, PartExact
<1>3. PICK y \in Int : y = Part(b, qty) /\ qty * y = b
  BY <1>1, PartExact
<1>4. y - x \in Int /\ qty * (y - x) = qty * y - qty * x
  OBVIOUS
<1> QED BY <1>1, <1>2, <1>3, <1>4

LEMMA FillReadSum ==
  ASSUME TypeInv, SumInv(stream, venue, ledger, parents), OnFill, ~astray'
  PROVE  SumInv(stream', venue', ledger', parents')
<1>0. stream \in Seq(Frame) /\ stream # <<>> /\ stream' = Tail(stream) /\ Head(stream).kind = "fill"
      /\ venue' = venue /\ venue \in Int
  BY DEF TypeInv, OnFill, ReadFill, Reading, Front
<1>1. PICK m \in Nat : m = Len(stream) - 1 /\ Len(stream) = m + 1 /\ Len(Tail(stream)) = m
                      /\ \A i \in 1..m : Tail(stream)[i] = stream[i + 1]
  BY <1>0, TailLen
<1>2. PICK f \in Frame : f = Head(stream) /\ f.kind = "fill" /\ FillOK(f, parents)
  <2>1. Head(stream) = stream[1] /\ stream[1] \in Frame /\ 1 \in 1..Len(stream)
    BY <1>0, <1>1, TailOf
  <2> QED BY <1>0, <2>1 DEF SumInv
<1>3. PICK p \in Parent, d \in Int, n \in Nat \ {0} :
        p = f.parent /\ d = f.qty /\ n = Abs(d) /\ d = n * parents[p].toward
  <2>1. f.parent \in Parent /\ f.qty \in Int /\ f.qty # 0 /\ f.qty = Abs(f.qty) * parents[f.parent].toward
    BY <1>2 DEF FillOK, Frame
  <2>2. Abs(f.qty) \in Nat \ {0}
    BY <2>1 DEF Abs
  <2> QED BY <2>1, <2>2
<1>4. PICK o \in Order : o = parents[p]
  BY DEF TypeInv
<1>5. PICK rest \in Nat, qty \in Nat, seen \in Nat, most \in Nat :
        rest = o.left /\ qty = o.qty /\ seen = o.seen /\ rest <= qty /\ most = qty - rest
  <2>1. PICK rest \in Nat, qty \in Nat, seen \in Nat :
          rest = o.left /\ qty = o.qty /\ seen = o.seen /\ rest <= qty
    BY <1>4 DEF Order, SumInv, OrderOK
  <2>2. qty - rest \in Nat
    BY <2>1
  <2> QED BY <2>1, <2>2
<1>6. Due(stream, p, seen, most)
  BY <1>4, <1>5 DEF SumInv
<1>7. Adds(seen + n, seen, Carried(Head(stream), p)) /\ Adds(d, 0, Moved(Head(stream)))
  BY <1>2, <1>3 DEF Adds, Carried, Moved
<1>8. seen + n <= most /\ Due(Tail(stream), p, seen + n, most)
  BY <1>0, <1>6, <1>7, DueTail
<1>9. seen + n <= qty /\ seen < qty /\ qty # 0 /\ seen + n \in Nat
  BY <1>5, <1>8
<1>10. PICK g \in -1..1 : g = o.toward /\ d = n * g
  BY <1>3, <1>4 DEF Order
<1>11. /\ OrderOK(o) /\ (o.kept <=> TRUE)
  <2>1. OrderOK(o)
    BY <1>4 DEF SumInv
  <2> QED BY <1>5, <1>9, <2>1 DEF OrderOK
<1>12. /\ Front.parent = p /\ Abs(Front.qty) = n /\ p # 0
  BY <1>2, <1>3, ParentOwns DEF Front
<1>13. /\ ledger' = [s \in Strategy |-> ledger[s] + Credit(o, n)[s]]
       /\ parents' = [parents EXCEPT ![p].seen = seen + n, ![p].kept = seen + n < qty]
       /\ Fine(o, n)
  BY <1>4, <1>5, <1>11, <1>12 DEF OnFill
<1>14. PICK share \in [Strategy -> Int] : share = o.share
  BY <1>4 DEF Order
<1>15. \A s \in Strategy : (share[s] * seen) % qty = 0 /\ (share[s] * (seen + n)) % qty = 0
  <2>1. \A s \in Strategy : (share[s] * seen) % qty = 0
    BY <1>5, <1>9, <1>11, <1>14 DEF OrderOK
  <2>2. (IF seen + n < qty THEN seen + n ELSE qty) = seen + n
    BY <1>9
  <2>3. \A s \in Strategy : (share[s] * (seen + n)) % qty = 0
    BY <1>5, <1>13, <1>14, <2>2 DEF Fine
  <2> QED BY <2>1, <2>3
<1>16. PICK cr : cr = Credit(o, n)
  OBVIOUS
<1>17. \A s \in Strategy : cr[s] = Part(share[s] * (seen + n), qty) - Part(share[s] * seen, qty)
  <2>1. (IF seen + n < qty THEN seen + n ELSE qty) = seen + n
    BY <1>9
  <2>2. (IF seen < qty THEN seen ELSE qty) = seen
    BY <1>9
  <2> QED BY <1>5, <1>14, <1>16, <2>1, <2>2 DEF Credit
<1>18. \A s \in Strategy : cr[s] \in Int /\ qty * cr[s] = n * share[s]
  <2> TAKE s \in Strategy
  <2>1. PICK sh \in Int : sh = share[s]
    OBVIOUS
  <2>2. (sh * seen) % qty = 0 /\ (sh * (seen + n)) % qty = 0
    BY <1>15, <2>1
  <2>3. cr[s] = Part(sh * (seen + n), qty) - Part(sh * seen, qty)
    BY <1>17, <2>1
  <2>4. qty \in Nat \ {0} /\ n \in Nat
    BY <1>9
  <2> QED BY <2>1, <2>2, <2>3, <2>4, CreditOf
<1>19. cr \in [Strategy -> Int]
  <2>1. cr = [s \in Strategy |-> cr[s]]
    BY <1>16 DEF Credit
  <2> QED BY <1>18, <2>1
<1>20. Total(ledger') = Total(ledger) + Total(cr)
  <2>1. ledger' = [s \in Strategy |-> ledger[s] + cr[s]] /\ ledger \in [Strategy -> Int]
    BY <1>13, <1>16 DEF TypeInv
  <2>2. \A s \in Strategy : ledger'[s] = ledger[s] + cr[s] /\ ledger[s] + cr[s] \in Int
    BY <1>19, <2>1
  <2>3. ledger' \in [Strategy -> Int]
    BY <2>1, <2>2
  <2> QED BY <1>19, <2>1, <2>2, <2>3, TotalAdd
<1>21. Total(cr) = d * Scale
  <2>1. qty * Total(cr) = n * Total(share)
    BY <1>18, <1>19, TotalScaled
  <2>2. PICK ts \in Int, tc \in Int : ts = Total(share) /\ tc = Total(cr)
    BY <1>19, TotalInt
  <2>3. ts = (g * qty) * Scale
    BY <1>5, <1>9, <1>10, <1>11, <1>14, <2>2 DEF OrderOK
  <2>4. n * ((g * qty) * Scale) = qty * ((n * g) * Scale) /\ (n * g) * Scale \in Int
    BY <1>9
  <2>5. qty * tc = qty * ((n * g) * Scale)
    BY <2>1, <2>2, <2>3, <2>4
  <2>6. tc = (n * g) * Scale
    BY <1>9, <2>4, <2>5, Cancel
  <2> QED BY <1>10, <2>2, <2>6
<1>22. PICK told \in Int : Total(ledger) = told * Scale /\ Leads(stream, told, venue)
  BY DEF SumInv
<1>23. Total(ledger') = (told + d) * Scale /\ told + d \in Int
  <2>1. (told + d) * Scale = told * Scale + d * Scale
    OBVIOUS
  <2> QED BY <1>20, <1>21, <1>22, <2>1
<1>24. Leads(Tail(stream), told + d, venue)
  <2>1. Adds(told + d, told, Moved(Head(stream)))
    BY <1>7 DEF Adds
  <2> QED BY <1>0, <1>22, <2>1, LeadsTail
<1>25. /\ parents'[p].left = rest /\ parents'[p].toward = g /\ parents'[p].qty = qty
       /\ parents'[p].share = share /\ parents'[p].seen = seen + n
       /\ parents'[p].kept = (seen + n < qty)
       /\ \A c \in Parent \ {p} : parents'[c] = parents[c]
       /\ \A c \in Parent : parents'[c].toward = parents[c].toward
  BY <1>4, <1>5, <1>10, <1>13, <1>14 DEF TypeInv, Order
<1>26. OrderOK(parents'[p])
  BY <1>5, <1>9, <1>10, <1>11, <1>14, <1>15, <1>25 DEF OrderOK
<1>27. ASSUME NEW c \in Parent \ {p}
       PROVE  Due(Tail(stream), c, parents[c].seen, parents[c].qty - parents[c].left)
  <2>1. PICK s \in Nat, upTo \in Nat : s = parents[c].seen /\ upTo = parents[c].qty - parents[c].left
    <3>1. PICK l \in Nat, q \in Nat, s \in Nat :
            l = parents[c].left /\ q = parents[c].qty /\ s = parents[c].seen /\ l <= q
      BY DEF TypeInv, Order, SumInv, OrderOK
    <3>2. q - l \in Nat
      BY <3>1
    <3> QED BY <3>1, <3>2
  <2>2. Due(stream, c, s, upTo)
    BY <2>1 DEF SumInv
  <2>3. Carried(Head(stream), c) = 0
    BY <1>2, <1>3 DEF Carried
  <2>4. Due(Tail(stream), c, s, upTo)
    BY <1>0, <2>2, <2>3, PlusZero, DueTail
  <2> QED BY <2>1, <2>4
<1>28. \A i \in 1..m : FillOK(Tail(stream)[i], parents')
  <2>1. \A i \in 1..m : i + 1 \in 1..Len(stream)
    BY <1>1
  <2>2. \A i \in 1..m : FillOK(Tail(stream)[i], parents)
    BY <1>1, <2>1 DEF SumInv
  <2> QED BY <1>25, <2>2 DEF FillOK
<1>29. \A c \in Parent : OrderOK(parents'[c]) /\ Due(stream', c, parents'[c].seen, parents'[c].qty - parents'[c].left)
  <2>1. OrderOK(parents'[p]) /\ Due(stream', p, parents'[p].seen, parents'[p].qty - parents'[p].left)
    BY <1>0, <1>5, <1>8, <1>25, <1>26
  <2>2. ASSUME NEW c \in Parent \ {p}
        PROVE  OrderOK(parents'[c]) /\ Due(stream', c, parents'[c].seen, parents'[c].qty - parents'[c].left)
    BY <1>0, <1>25, <1>27 DEF SumInv
  <2> QED BY <2>1, <2>2
<1> QED BY <1>0, <1>1, <1>23, <1>24, <1>28, <1>29 DEF SumInv

LEMMA ReadFillType ==
  ASSUME TypeInv, OnFill
  PROVE  /\ ledger' \in [Strategy -> Int] /\ parents' \in [Parent -> Order]
         /\ \A p \in Parent : parents'[p].kept => parents'[p].qty # 0
         /\ stream' \in Seq(Frame) /\ misread' \in BOOLEAN /\ astray' \in BOOLEAN
         /\ UNCHANGED <<venue, local, pass, sync, raced>>
<1>1. stream \in Seq(Frame) /\ stream # <<>> /\ stream' = Tail(stream) /\ Front = Head(stream)
      /\ UNCHANGED <<venue, local, pass, sync, raced>>
  BY DEF TypeInv, OnFill, ReadFill, Reading, Front
<1>2. Front \in Frame /\ stream' \in Seq(Frame)
  BY <1>1, TailOf
<1>3. Front.parent \in Owner /\ Abs(Front.qty) \in Nat
  BY <1>2 DEF Frame, Abs
<1>4. misread' \in BOOLEAN
  BY DEF TypeInv, OnFill, ReadFill
<1>5. PICK p \in Owner, n \in Nat : p = Front.parent /\ n = Abs(Front.qty)
  BY <1>3
<1>6. CASE p # 0 /\ parents[p].kept
  <2>1. PICK o \in Order : o = parents[p] /\ p \in Parent
    BY <1>6 DEF TypeInv, Owner
  <2>2. PICK qty \in Nat, seen \in Nat, share \in [Strategy -> Int] :
          qty = o.qty /\ seen = o.seen /\ share = o.share
    BY DEF Order
  <2>3. /\ ledger' = [s \in Strategy |-> ledger[s] + Credit(o, n)[s]]
        /\ parents' = [parents EXCEPT ![p].seen = seen + n, ![p].kept = seen + n < qty]
        /\ astray' = (astray \/ ~Fine(o, n)) /\ qty # 0
    BY <1>5, <1>6, <2>1, <2>2 DEF OnFill, TypeInv
  <2>4. \A s \in Strategy : Credit(o, n)[s] \in Int
    <3> DEFINE k1 == IF seen + n < qty THEN seen + n ELSE qty
               k2 == IF seen < qty THEN seen ELSE qty
    <3>1. k1 \in Int /\ k2 \in Int
      OBVIOUS
    <3>2. \A s \in Strategy : Credit(o, n)[s] = Part(share[s] * k1, qty) - Part(share[s] * k2, qty)
      BY <2>2 DEF Credit
    <3> HIDE DEF k1, k2
    <3>3. ASSUME NEW s \in Strategy PROVE Part(share[s] * k1, qty) - Part(share[s] * k2, qty) \in Int
      <4>1. share[s] * k1 \in Int /\ share[s] * k2 \in Int
        BY <3>1
      <4>2. Part(share[s] * k1, qty) \in Int /\ Part(share[s] * k2, qty) \in Int
        BY <2>3, <4>1, PartType
      <4> QED BY <4>2
    <3> QED BY <3>2, <3>3
  <2>5. ledger' \in [Strategy -> Int]
    <3>1. \A s \in Strategy : ledger[s] + Credit(o, n)[s] \in Int
      BY <2>4 DEF TypeInv
    <3> QED BY <2>3, <3>1
  <2>6. /\ parents'[p].left = parents[p].left /\ parents'[p].qty = qty
        /\ \A c \in Parent \ {p} : parents'[c] = parents[c]
    BY <2>1, <2>2, <2>3 DEF TypeInv, Order
  <2>7. parents' \in [Parent -> Order]
    <3>1. [[o EXCEPT !.seen = seen + n] EXCEPT !.kept = seen + n < qty] \in Order
      <4>1. [o EXCEPT !.seen = seen + n] \in Order
        BY DEF Order
      <4>2. (seen + n < qty) \in BOOLEAN
        OBVIOUS
      <4>3. \A r \in Order, k \in BOOLEAN : [r EXCEPT !.kept = k] \in Order
        BY Zenon DEF Order
      <4> QED BY <4>1, <4>2, <4>3, Zenon
    <3> QED BY <2>1, <2>2, <2>3, <3>1 DEF TypeInv
  <2>8. \A c \in Parent : parents'[c].kept => parents'[c].qty # 0
    BY <2>3, <2>6 DEF TypeInv
  <2>9. astray' \in BOOLEAN
    BY <2>3 DEF TypeInv
  <2> QED BY <1>1, <1>2, <1>4, <2>5, <2>7, <2>8, <2>9
<1>7. CASE ~(p # 0 /\ parents[p].kept)
  <2>1. UNCHANGED <<ledger, parents, astray>>
    BY <1>5, <1>7 DEF OnFill
  <2> QED BY <1>1, <1>2, <1>4, <2>1 DEF TypeInv
<1> QED BY <1>6, <1>7

LEMMA TickSubmits ==
  ASSUME TypeInv, NEW w \in Wishes, TickEnters(w) \/ TickCloses(w)
  PROVE  /\ \E q \in Nat \ {0}, r \in BOOLEAN : Submit(w, q, r)
         /\ UNCHANGED <<venue, stream, up, local, fresh, pass, sync, raced, misread, ledger>>
<1>1. Total(w) \in Int
  BY WishType
<1>2. Net(w) \in Nat
  <2>1. PICK t \in Nat : t = Abs(Total(w))
    BY <1>1 DEF Abs
  <2>2. t \div Scale \in Nat
    BY <2>1
  <2> QED BY <2>1, <2>2 DEF Net
<1>3. CASE TickEnters(w)
  <2>1. PICK q \in 1 .. Net(w) : Submit(w, q, FALSE)
    BY <1>3 DEF TickEnters
  <2>2. q \in Nat \ {0}
    BY <1>2
  <2> QED BY <1>3, <2>1, <2>2 DEF TickEnters, bookVars
<1>4. CASE TickCloses(w)
  <2>1. PICK l \in Int, t \in Int, q \in Nat : l = local /\ t = Total(w) /\ q = Net(w)
    BY <1>1, <1>2 DEF TypeInv
  <2>2. q > 0 /\ l * t < 0 /\ Submit(w, IF q < Abs(l) THEN q ELSE Abs(l), TRUE)
    BY <1>4, <2>1 DEF TickCloses
  <2>3. l # 0
    BY <2>2
  <2>4. (IF q < Abs(l) THEN q ELSE Abs(l)) \in Nat \ {0}
    BY <2>2, <2>3 DEF Abs
  <2> QED BY <1>4, <2>2, <2>4 DEF TickCloses, bookVars
<1> QED BY <1>3, <1>4

LEMMA LedgerTypeStep == TypeInv /\ [NextLedger]_ledgerVars => TypeInv'
<1> SUFFICES ASSUME TypeInv, [NextLedger]_ledgerVars PROVE TypeInv'
  OBVIOUS
<1>1. ASSUME NEW w \in Wishes, TickEnters(w) \/ TickCloses(w) PROVE TypeInv'
  <2>1. UNCHANGED <<venue, stream, up, local, fresh, pass, sync, raced, misread, ledger>>
    BY <1>1, TickSubmits
  <2>2. /\ parents' \in [Parent -> Order] /\ astray' \in BOOLEAN
        /\ \A p \in Parent : parents'[p].kept => parents'[p].qty # 0
    BY <1>1, TickSubmits, SubmitType
  <2> QED BY <2>1, <2>2 DEF TypeInv
<1>2. ASSUME NEW w \in Wishes, TickHeals(w) PROVE TypeInv'
  <2>1. HealTo(0) /\ UNCHANGED <<venue, stream, local, pass, sync, raced, misread, parents>>
    BY <1>2 DEF TickHeals, bookVars
  <2>2. ledger' \in [Strategy -> Int] /\ astray' \in BOOLEAN
    BY <2>1, HealedType
  <2> QED BY <2>1, <2>2 DEF TypeInv
<1>3. ASSUME NEW p \in Parent, NEW k \in Nat, parents' = [parents EXCEPT ![p].left = k]
      PROVE  /\ parents' \in [Parent -> Order]
             /\ \A c \in Parent : parents'[c].kept => parents'[c].qty # 0
  BY <1>3 DEF TypeInv, Order
<1>4. ASSUME NEW p \in Parent, ParentEnds(p) \/ Refused(p) PROVE TypeInv'
  <2>1. parents' = [parents EXCEPT ![p].left = 0]
        /\ UNCHANGED <<venue, stream, local, pass, raced, misread, ledger, astray>>
    BY <1>4 DEF ParentEnds, Refused, bookVars
  <2>2. sync'.qty \in Int
    <3>1. \A q \in AccountShows \union {local} : q \in Int
      BY DEF AccountShows, TypeInv
    <3> QED BY <1>4, <3>1 DEF ParentEnds, Refused, bookVars, Answer, Idle, TypeInv
  <2> QED BY <1>3, <2>1, <2>2 DEF TypeInv
<1>5. ASSUME NEW p \in Parent, Forget(p) PROVE TypeInv'
  <2>1. Free \in Order /\ ~Free.kept
    BY DEF Free, NoShare, Order
  <2>2. parents' = [parents EXCEPT ![p] = Free]
        /\ UNCHANGED <<venue, stream, local, pass, sync, raced, misread, ledger, astray>>
    BY <1>5 DEF Forget, bookVars
  <2>3. /\ parents' \in [Parent -> Order]
        /\ \A c \in Parent : parents'[c].kept => parents'[c].qty # 0
    <3> HIDE DEF Order, Free
    <3> QED BY <2>1, <2>2 DEF TypeInv
  <2> QED BY <2>2, <2>3 DEF TypeInv
<1>6. ASSUME NEW p \in Parent, NEW n \in 1..MaxPos, Fill(p, n) PROVE TypeInv'
  <2>1. PICK k \in Nat : k = parents[p].left - n /\ parents' = [parents EXCEPT ![p].left = k]
    <3>1. PICK l \in Nat : l = parents[p].left /\ n <= l
      BY <1>6 DEF Fill, TypeInv, Order
    <3>2. l - n \in Nat
      BY <3>1
    <3> QED BY <1>6, <3>1, <3>2 DEF Fill
  <2>2. /\ venue' \in Int /\ local' \in Int /\ stream' \in Seq(Frame)
        /\ pass'.qty \in Int /\ sync'.qty \in Int
        /\ raced' \in BOOLEAN /\ misread' \in BOOLEAN
    BY <1>6, FillExecutes, ExecutesType
  <2>3. ledger' = ledger /\ astray' \in BOOLEAN
    BY <1>6 DEF Fill
  <2> QED BY <1>3, <2>1, <2>2, <2>3 DEF TypeInv
<1>7. ASSUME NEW d \in {-1, 1}, Foreign(d) PROVE TypeInv'
  <2>1. 0 \in Owner /\ d \in Int /\ Executes(0, d)
        /\ ledger' = ledger /\ parents' = parents /\ astray' \in BOOLEAN
    BY <1>7 DEF Foreign, Owner
  <2> QED BY <2>1, ExecutesType DEF TypeInv
<1>8. CASE OnFill
  BY <1>8, ReadFillType DEF TypeInv
<1>9. CASE PassEnds
  <2>1. ledger' \in [Strategy -> Int] /\ astray' \in BOOLEAN /\ parents' = parents
    BY <1>9, HealedType DEF PassEnds, TypeInv
  <2> QED BY <1>9, <2>1, BookType DEF PassEnds, TypeInv
<1>10. CASE HealEnds
  <2>1. ledger' \in [Strategy -> Int] /\ astray' \in BOOLEAN /\ parents' = parents
    BY <1>10, HealedType DEF HealEnds, TypeInv
  <2> QED BY <1>10, <2>1, BookType DEF HealEnds, TypeInv
<1>11. CASE Drops
  <2>1. UNCHANGED <<ledger, parents>> /\ astray' \in BOOLEAN
    BY <1>11 DEF Drops
  <2> QED BY <1>11, <2>1, BookType DEF TypeInv
<1>12. CASE Book
  <2>1. UNCHANGED <<ledger, parents, astray>>
    BY <1>12 DEF Book
  <2> QED BY <1>12, <2>1, BookType DEF TypeInv
<1>13. CASE UNCHANGED ledgerVars
  BY <1>13 DEF ledgerVars, bookVars, TypeInv
<1> QED BY <1>1, <1>2, <1>4, <1>5, <1>6, <1>7, <1>8, <1>9, <1>10, <1>11, <1>12, <1>13 DEF NextLedger

LEMMA SumStep ==
  ASSUME TypeInv, [NextLedger]_ledgerVars, ~astray => SumInv(stream, venue, ledger, parents), ~astray'
  PROVE  SumInv(stream', venue', ledger', parents')
<1>1. ASSUME ~astray, UNCHANGED <<stream, venue, ledger, parents>> PROVE SumInv(stream', venue', ledger', parents')
  BY <1>1
<1>2. ASSUME NEW w \in Wishes, TickEnters(w) \/ TickCloses(w) PROVE SumInv(stream', venue', ledger', parents')
  <2>1. PICK q \in Nat \ {0}, r \in BOOLEAN : Submit(w, q, r)
    BY <1>2, TickSubmits
  <2>2. UNCHANGED <<stream, venue, ledger>>
    BY <1>2, TickSubmits
  <2>3. ~astray
    BY <2>1 DEF Submit, TypeInv
  <2> QED BY <2>1, <2>2, <2>3, SubmitSum
<1>3. ASSUME NEW w \in Wishes, TickHeals(w) PROVE SumInv(stream', venue', ledger', parents')
  BY <1>1, <1>3 DEF TickHeals, HealTo, bookVars, TypeInv
<1>4. ASSUME NEW p \in Parent, ParentEnds(p) \/ Refused(p) PROVE SumInv(stream', venue', ledger', parents')
  <2>1. parents' = [parents EXCEPT ![p].left = 0] /\ UNCHANGED <<stream, venue, ledger>> /\ ~astray
    BY <1>4 DEF ParentEnds, Refused, bookVars
  <2> QED BY <2>1, EndSum
<1>5. ASSUME NEW p \in Parent, Forget(p) PROVE SumInv(stream', venue', ledger', parents')
  <2>1. ~astray
    BY <1>5 DEF Forget
  <2> QED BY <1>5, <2>1, ForgetSum
<1>6. ASSUME NEW p \in Parent, NEW n \in 1..MaxPos, Fill(p, n) PROVE SumInv(stream', venue', ledger', parents')
  <2>1. ~astray
    BY <1>6 DEF Fill, TypeInv
  <2> QED BY <1>6, <2>1, FillSum
<1>7. ASSUME NEW d \in {-1, 1}, Foreign(d) PROVE FALSE
  BY <1>7 DEF Foreign
<1>8. CASE OnFill
  <2>1. ~astray
    BY <1>8 DEF OnFill, TypeInv
  <2> QED BY <1>8, <2>1, FillReadSum
<1>9. CASE PassEnds
  BY <1>1, <1>9 DEF PassEnds, PassDone, HealTo, TypeInv
<1>10. CASE HealEnds
  BY <1>1, <1>10 DEF HealEnds, HealSynced, HealTo, TypeInv
<1>11. CASE Drops
  BY <1>1, <1>11 DEF Drops, Disconnect, TypeInv
<1>12. CASE Book
  <2>1. UNCHANGED <<ledger, parents, astray>> /\ ~astray
    BY <1>12 DEF Book
  <2>2. CASE OnAccountUpdate
    <3>1. stream # <<>> /\ Head(stream).kind = "account" /\ stream' = Tail(stream) /\ venue' = venue
      BY <2>2 DEF OnAccountUpdate, Reading, Front
    <3> QED BY <2>1, <3>1, AccountSum
  <2>3. CASE UNCHANGED <<stream, venue>>
    BY <1>1, <2>1, <2>3
  <2>4. OnAccountUpdate \/ UNCHANGED <<stream, venue>>
    BY <1>12 DEF Book, Lapse, Reconnect, ConnectSynced, PassHeals, PassStarts, PassAsksAgain
  <2> QED BY <2>2, <2>3, <2>4
<1>13. CASE UNCHANGED ledgerVars
  BY <1>1, <1>13 DEF ledgerVars, bookVars
<1> QED BY <1>2, <1>3, <1>4, <1>5, <1>6, <1>7, <1>8, <1>9, <1>10, <1>11, <1>12, <1>13 DEF NextLedger

\* The inductive invariant, step by step.
LEMMA LedgerStarts == InitLedger => LedgerInv
<1> SUFFICES ASSUME InitLedger PROVE LedgerInv
  OBVIOUS
<1>1. PICK S \in SUBSET Strategy :
        /\ ledger = [s \in Strategy |-> IF s \in S THEN Entry * Scale ELSE 0]
        /\ venue = Cardinality(S) * Entry
  BY DEF InitLedger
<1>2. /\ parents = [p \in Parent |-> Free] /\ astray = FALSE /\ stream = <<>> /\ venue \in Int
      /\ local = venue /\ pass.qty = 0 /\ sync.qty = 0 /\ raced = FALSE /\ misread = FALSE
  BY DEF InitLedger, InitBook, Qty, Idle
<1>3. PICK c \in Int : c = Entry * Scale
  BY Distributes
<1>4. /\ ledger \in [Strategy -> Int]
      /\ \A s \in Strategy : ledger[s] = IF s \in S THEN c ELSE 0
  BY <1>1, <1>3
<1>5. /\ Free \in Order /\ ~Free.kept /\ OrderOK(Free) /\ Free.seen = 0 /\ Free.qty - Free.left = 0
  BY DEF Free, NoShare, Order, OrderOK
<1>6. TypeInv
  <2>1. parents \in [Parent -> Order] /\ \A p \in Parent : ~parents[p].kept
    <3> HIDE DEF Free, Order
    <3> QED BY <1>2, <1>5
  <2>2. stream \in Seq(Frame) /\ raced \in BOOLEAN /\ misread \in BOOLEAN /\ astray \in BOOLEAN
    <3>1. <<>> \in Seq(Frame)
      OBVIOUS
    <3>2. raced \in BOOLEAN /\ misread \in BOOLEAN /\ astray \in BOOLEAN
      BY <1>2
    <3> QED BY <1>2, <3>1, <3>2, Zenon
  <2>3. venue \in Int /\ local \in Int /\ pass.qty \in Int /\ sync.qty \in Int
    BY <1>2
  <2> HIDE DEF Frame, Order
  <2> QED BY <1>4, <2>1, <2>2, <2>3 DEF TypeInv
<1>7. SumInv(stream, venue, ledger, parents)
  <2>1. Total(ledger) = venue * Scale
    <3>1. Total(ledger) = Cardinality(S) * c
      BY <1>4, TotalOf
    <3>2. IsFiniteSet(S)
      BY FS_Subset
    <3>3. PICK k \in Nat : k = Cardinality(S)
      BY <3>2, FS_CardinalityType
    <3>4. k * (Entry * Scale) = (k * Entry) * Scale
      OBVIOUS
    <3> QED BY <1>1, <1>3, <3>1, <3>3, <3>4
  <2>2. Leads(<<>>, venue, venue) /\ \A p \in Parent : Due(<<>>, p, 0, 0)
    BY <1>2, Empty
  <2>3. Len(<<>>) = 0 /\ 1..0 = {}
    OBVIOUS
  <2>4. \A p \in Parent : parents[p] = Free
    BY <1>2
  <2>5. \A p \in Parent : OrderOK(parents[p]) /\ Due(stream, p, parents[p].seen, parents[p].qty - parents[p].left)
    <3> HIDE DEF Free
    <3> QED BY <1>2, <1>5, <2>2, <2>4
  <2>6. \A i \in 1..Len(stream) : FillOK(stream[i], parents)
    BY <1>2, <2>3
  <2>7. \E told \in Int : Total(ledger) = told * Scale /\ Leads(stream, told, venue)
    BY <1>2, <2>1, <2>2
  <2> QED BY <2>5, <2>6, <2>7 DEF SumInv
<1>8. PairInv(stream, local)
  <2>1. Len(<<>>) = 0 /\ 1..0 = {}
    OBVIOUS
  <2> QED BY <1>2, <2>1 DEF PairInv
<1> QED BY <1>2, <1>6, <1>7, <1>8 DEF LedgerInv

LEMMA LedgerStep == LedgerInv /\ [NextLedger]_ledgerVars => LedgerInv'
<1> SUFFICES ASSUME LedgerInv, [NextLedger]_ledgerVars PROVE LedgerInv'
  OBVIOUS
<1>1. TypeInv /\ TypeInv'
  BY LedgerTypeStep DEF LedgerInv
<1>2. ~FillsFirst /\ ~raced' => ~misread' /\ PairInv(stream', local')
  BY <1>1, PairStep DEF LedgerInv
<1>3. ~astray' => SumInv(stream', venue', ledger', parents')
  BY <1>1, SumStep DEF LedgerInv
<1> QED BY <1>1, <1>2, <1>3 DEF LedgerInv, PairInv, SumInv

LEMMA LedgerAlways == SpecLedger => []LedgerInv
<1>1. InitLedger => LedgerInv
  BY LedgerStarts
<1>2. LedgerInv /\ [NextLedger]_ledgerVars => LedgerInv'
  BY LedgerStep
<1> QED BY <1>1, <1>2, PTL DEF SpecLedger

\* Whatever the number of strategies, the size of an entry and the share of a leg, and however
\* netted parents are filled in parts, at rest the legs add up to the position of the venue,
\* unless something happened that the attribution does not see (_on_fill, apply_fill and
\* _apply_attributed_ledger_delta).
THEOREM LegsAddUpHolds == SpecLedger => []LegsAddUp
<1>1. LedgerInv => LegsAddUp
  <2> SUFFICES ASSUME LedgerInv, Quiet, ~astray PROVE Total(ledger) = venue * Scale
    BY DEF LegsAddUp
  <2>1. PICK told \in Int : Total(ledger) = told * Scale /\ Leads(stream, told, venue)
    BY DEF LedgerInv, SumInv
  <2>2. told = venue
    BY <2>1, LeadsEmpty DEF Quiet
  <2> QED BY <2>1, <2>2
<1> QED BY <1>1, LedgerAlways, PTL

\* A fill is classified by classify_fill() for what it was, whatever the position, as long as
\* ACCOUNT_UPDATE comes first and no snapshot or break has come between: each fill of the
\* stream comes right after the frame that has its position.
THEOREM ClassifiedRightHolds == SpecLedger => []ClassifiedRight
<1>1. LedgerInv => ClassifiedRight
  BY DEF LedgerInv, ClassifiedRight
<1> QED BY <1>1, LedgerAlways, PTL
=============================================================================
