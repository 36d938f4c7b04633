---------------------------- MODULE TokenBucket ----------------------------
(***************************************************************************)
(* The token bucket that throttles submissions (_TokenBucket in            *)
(* backend/engine/execution/submit_guard.py), shared by the coroutines     *)
(* that submit child orders.                                               *)
(*                                                                         *)
(* Time passes in ticks and a token is earned in Period of them, so tokens *)
(* are counted by the ticks it takes to earn them.  The lock is held       *)
(* across no await: acquire() is one step up to its sleep and one after.   *)
(***************************************************************************)
EXTENDS Integers, FiniteSets

CONSTANTS
  Caller,     \* coroutines that may acquire at the same time
  Period,     \* ticks in which a token is earned, 1 / _rate
  Capacity,   \* _capacity
  Speed,      \* a rate to measure the grants by, in multiples of _rate,
  Burst       \* and the grants it allows at once

ASSUME BucketAssumption ==
  /\ Period \in Nat \ {0}
  /\ Capacity \in Nat \ {0}
  /\ Speed \in Nat \ {0}
  /\ Burst \in Nat \ {0}

VARIABLES
  credit,   \* _tokens
  elapsed,  \* time since _last, up to the time that fills the bucket
  asleep,   \* callers sleeping in acquire()
  left,     \* caller -> ticks its sleep still lasts
  room      \* history: what the measuring rate still allows

vars == <<credit, elapsed, asleep, left, room>>

Full == Capacity * Period
Least(a, b) == IF a < b THEN a ELSE b

TypeOK ==
  /\ credit \in 0 .. Full
  /\ elapsed \in 0 .. Full
  /\ asleep \subseteq Caller
  /\ left \in [Caller -> 0 .. Period]
  /\ room \in Int

Init ==
  /\ credit = Full
  /\ elapsed = 0
  /\ asleep = {}
  /\ left = [c \in Caller |-> 0]
  /\ room = Burst * Period

-----------------------------------------------------------------------------
Refilled == Least(Full, credit + elapsed)

Grant == room' = room - Period

\* Mutated form of Acquire: _last is left behind, and the same time refills again.
AcquireKeepsLast(c) ==
  /\ c \notin asleep
  /\ Refilled >= Period
  /\ credit' = Refilled - Period
  /\ Grant
  /\ UNCHANGED <<elapsed, asleep, left>>

\* A token is there.
Acquire(c) ==
  /\ c \notin asleep
  /\ Refilled >= Period
  /\ credit' = Refilled - Period
  /\ elapsed' = 0
  /\ Grant
  /\ UNCHANGED <<asleep, left>>

\* None is: the caller sleeps until it would be.
FallAsleep(c) ==
  /\ c \notin asleep
  /\ Refilled < Period
  /\ credit' = Refilled
  /\ elapsed' = 0
  /\ asleep' = asleep \union {c}
  /\ left' = [left EXCEPT ![c] = Period - Refilled]
  /\ UNCHANGED room

\* After the sleep a token is taken without refilling, and without moving _last.
Awake(c) ==
  /\ c \in asleep
  /\ left[c] = 0
  /\ credit' = IF credit < Period THEN 0 ELSE credit - Period
  /\ asleep' = asleep \ {c}
  /\ Grant
  /\ UNCHANGED <<elapsed, left>>

\* A caller whose sleep is over may be resumed late.
Tick ==
  /\ elapsed' = Least(Full, elapsed + 1)
  /\ left' = [c \in Caller |-> IF c \in asleep /\ left[c] > 0 THEN left[c] - 1 ELSE left[c]]
  /\ room' = Least(Burst * Period, room + Speed)
  /\ UNCHANGED <<credit, asleep>>

Next == Tick \/ \E c \in Caller : Acquire(c) \/ FallAsleep(c) \/ Awake(c)

Spec == Init /\ [][Next]_vars

-----------------------------------------------------------------------------
\* In every span of time the grants are at most Burst plus what the measuring rate earns
\* in that span: the throttle bounds the submissions.
WithinRate == room >= 0
=============================================================================
