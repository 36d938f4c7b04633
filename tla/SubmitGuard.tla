---------------------------- MODULE SubmitGuard ----------------------------
(***************************************************************************)
(* What stands between a child order and the venue                         *)
(* (backend/engine/execution/submit_guard.py, gate_child and               *)
(* record_status), with the breaker it consults and trips                  *)
(* (backend/engine/risk/circuit_breaker.py), the cap on working orders     *)
(* (backend/engine/risk/order_exposure_guard.py) and the throttle          *)
(* (TokenBucket).                                                          *)
(*                                                                         *)
(* Callers are the coroutines in OrderManager.submit_child(), for one      *)
(* symbol and one strategy.  A call is a step up to the throttle, the      *)
(* steps of the throttle, and the answer of the POST.  The bucket of the   *)
(* symbol, waited for after the global one, only makes that wait longer.   *)
(***************************************************************************)
EXTENDS TokenBucket

CONSTANTS
  MaxWorking,  \* bound on the children in flight or working
  MaxOrders,   \* max_active_orders, the cap set to some value
  MaxRejects,  \* max_consecutive_rejects
  Cooldown     \* reject_cooldown_sec, in ticks

ASSUME GuardAssumption ==
  /\ IsFiniteSet(Caller)
  /\ MaxWorking \in Nat
  /\ MaxOrders \in Nat \ {0}
  /\ MaxRejects \in Nat \ {0}
  /\ Cooldown \in Nat

VARIABLES
  at,        \* caller -> what its submit_child() awaits
  child,     \* caller -> the child it submits
  over,      \* callers whose child is over before its POST is answered
  placed,    \* answered children that are working, by kind
  strays,    \* children have been rejected of which frames may still come
  halted,    \* a MAJOR breach of ENGINE scope is latched
  paused,    \* repeat_reject is active for the symbol
  cooling,   \* ticks to its cooldown_until
  streak,    \* _reject_streak
  late       \* history: caller -> entries it posted since the halt

guardVars == <<at, child, over, placed, strays, halted, paused, cooling, streak, late>>
allVars == <<vars, guardVars>>

Point == {"idle", "throttle", "post"}

\* Children that add exposure and reduce-only ones.
Kind == {"entry", "exit"}

TypeOKGuard ==
  /\ at \in [Caller -> Point]
  /\ child \in [Caller -> Kind \union {"none"}]
  /\ over \subseteq Caller
  /\ placed \in [Kind -> 0 .. MaxWorking]
  /\ strays \in BOOLEAN
  /\ halted \in BOOLEAN
  /\ paused \in BOOLEAN
  /\ cooling \in 0 .. Cooldown
  /\ streak \in 0 .. MaxRejects - 1
  /\ late \in [Caller -> 0 .. 2]

GuardInit ==
  /\ Init
  /\ at = [c \in Caller |-> "idle"]
  /\ child = [c \in Caller |-> "none"]
  /\ over = {}
  /\ placed = [k \in Kind |-> 0]
  /\ strays = FALSE
  /\ halted = FALSE
  /\ paused = FALSE
  /\ cooling = 0
  /\ streak = 0
  /\ late = [c \in Caller |-> 0]

-----------------------------------------------------------------------------
\* working_children() of a kind: those being posted count.
Working(k) == placed[k] + Cardinality({c \in Caller \ over : at[c] = "post" /\ child[c] = k})
AllWorking == Working("entry") + Working("exit")

\* Mutated form of Trip: every trip starts the cooldown again.
TripExtends == paused' = TRUE /\ cooling' = Cooldown

\* trip(): a breach that is cooling down already is not extended.
Trip ==
  /\ paused' = TRUE
  /\ cooling' = IF paused THEN cooling ELSE Cooldown

\* record_status().
RecordStatus(s) ==
  CASE s = "REJECTED" /\ streak + 1 >= MaxRejects -> Trip /\ streak' = 0
    [] s = "REJECTED" /\ streak + 1 < MaxRejects  -> streak' = streak + 1 /\ UNCHANGED <<paused, cooling>>
    [] s \in {"entry", "exit", "FILLED"}          -> streak' = 0 /\ UNCHANGED <<paused, cooling>>
    [] OTHER                                      -> UNCHANGED <<streak, paused, cooling>>

\* is_engine_halted() or is_blocked(SYMBOL).
Blocked == halted \/ paused

UnderCap == AllWorking < MaxOrders

\* Mutated form of Passes: the engine breaker is not consulted.
PassesHalted(k) == k = "entry" => ~paused /\ UnderCap

\* gate_child() up to the throttle: a reduce-only child passes all checks.
Passes(k) == k = "entry" => ~Blocked /\ UnderCap

\* A child that is gated is refused and leaves nothing behind.
SubmitChild(c, k) ==
  /\ at[c] = "idle"
  /\ placed["entry"] + placed["exit"] + Cardinality({d \in Caller : at[d] # "idle"}) < MaxWorking
  /\ Passes(k)
  /\ at' = [at EXCEPT ![c] = "throttle"]
  /\ child' = [child EXCEPT ![c] = k]
  /\ UNCHANGED <<vars, over, placed, strays, halted, paused, cooling, streak, late>>

ThrottleSleeps(c) ==
  /\ at[c] = "throttle"
  /\ FallAsleep(c)
  /\ UNCHANGED guardVars

\* The throttle lets it through: the child is tracked and posted.
Post(c) ==
  /\ at[c] = "throttle"
  /\ Acquire(c) \/ Awake(c)
  /\ at' = [at EXCEPT ![c] = "post"]
  /\ late' = IF halted /\ child[c] = "entry" /\ late[c] < 2 THEN [late EXCEPT ![c] = @ + 1] ELSE late
  /\ UNCHANGED <<child, over, placed, strays, halted, paused, cooling, streak>>

Return(c) ==
  /\ at[c] = "post"
  /\ at' = [at EXCEPT ![c] = "idle"]
  /\ child' = [child EXCEPT ![c] = "none"]
  /\ over' = over \ {c}
  /\ UNCHANGED <<vars, halted, late>>

\* The POST is answered with a working order, whatever the frames have said meanwhile.
PostAnswered(c) ==
  /\ Return(c)
  /\ placed' = [placed EXCEPT ![child[c]] = @ + 1]
  /\ RecordStatus(child[c])
  /\ UNCHANGED strays

\* It is answered with an order that has ended already.
PostEnds(c) ==
  /\ Return(c)
  /\ \E s \in {"FILLED", "EXPIRED"} : RecordStatus(s)
  /\ UNCHANGED <<placed, strays>>

\* The POST raises: -2022 for a reduce-only child clears the streak, a throttle error
\* counts for nothing, any other one is a reject.
PostFails(c) ==
  /\ Return(c)
  /\ strays' = TRUE
  /\ \/ child[c] # "entry" /\ streak' = 0 /\ UNCHANGED <<paused, cooling>>
     \/ UNCHANGED <<streak, paused, cooling>>
     \/ RecordStatus("REJECTED")
  /\ UNCHANGED placed

\* on_order_update() for a placed child: the merged status is recorded.
OnOrderUpdate(k) ==
  /\ placed[k] > 0
  /\ \/ RecordStatus(k) /\ UNCHANGED <<placed, strays>>
     \/ \E s \in {"FILLED", "CANCELLED", "REJECTED"} :
          /\ RecordStatus(s)
          /\ placed' = [placed EXCEPT ![k] = @ - 1]
          /\ strays' = (strays \/ s = "REJECTED")
  /\ UNCHANGED <<vars, at, child, over, halted, late>>

\* The same for one whose POST is not answered yet.
OnEarlyUpdate(c) ==
  /\ at[c] = "post"
  /\ c \notin over
  /\ \/ RecordStatus(child[c]) /\ UNCHANGED <<over, strays>>
     \/ \E s \in {"FILLED", "CANCELLED", "REJECTED"} :
          /\ RecordStatus(s)
          /\ over' = over \union {c}
          /\ strays' = (strays \/ s = "REJECTED")
  /\ UNCHANGED <<vars, at, child, placed, halted, late>>

\* And for one that has ended: it keeps its status, and the frame records it again.
OnLateUpdate ==
  /\ \/ strays /\ RecordStatus("REJECTED")
     \/ RecordStatus("FILLED")
  /\ UNCHANGED <<vars, at, child, over, placed, strays, halted, late>>

\* A MAJOR breach latches.
Halt ==
  /\ ~halted
  /\ halted' = TRUE
  /\ UNCHANGED <<vars, at, child, over, placed, strays, paused, cooling, streak, late>>

\* rearm(): the operator clears every breach.
Rearm ==
  /\ Blocked
  /\ halted' = FALSE
  /\ paused' = FALSE
  /\ cooling' = 0
  /\ late' = [c \in Caller |-> 0]
  /\ UNCHANGED <<vars, at, child, over, placed, strays, streak>>

\* tick(), on the heartbeat: a breach that has cooled down is cleared.
BreakerTick ==
  /\ paused
  /\ cooling = 0
  /\ paused' = FALSE
  /\ UNCHANGED <<vars, at, child, over, placed, strays, halted, cooling, streak, late>>

TimePasses ==
  /\ Tick
  /\ cooling' = IF cooling > 0 THEN cooling - 1 ELSE 0
  /\ UNCHANGED <<at, child, over, placed, strays, halted, paused, streak, late>>

\* The steps that bring a call nearer its end.
Calls(c) ==
  \/ ThrottleSleeps(c) \/ Post(c)
  \/ PostEnds(c) \/ PostFails(c) \/ PostAnswered(c)

GuardNext ==
  \/ \E c \in Caller : Calls(c) \/ OnEarlyUpdate(c) \/ \E k \in Kind : SubmitChild(c, k)
  \/ \E k \in Kind : OnOrderUpdate(k)
  \/ OnLateUpdate
  \/ Halt \/ Rearm \/ BreakerTick \/ TimePasses

\* An order ends sooner or later.
Ends(k) == OnOrderUpdate(k) /\ placed'[k] < placed[k]

\* Time passes, the heartbeat beats, a coroutine that can go on does, and POSTs are
\* answered or time out.
GuardSpec ==
  /\ GuardInit
  /\ [][GuardNext]_allVars
  /\ WF_allVars(TimePasses)
  /\ WF_allVars(BreakerTick)
  /\ \A c \in Caller : WF_allVars(Calls(c))
  /\ \A k \in Kind : WF_allVars(Ends(k))

-----------------------------------------------------------------------------
\* A halt lets through only the entries that had passed the breaker and were waiting for
\* the throttle: each caller posts at most one until the operator rearms.
LatePerCaller == \A c \in Caller : late[c] <= 1

\* The cap on working orders is read before the wait and the child counts only after it,
\* so callers overrun it together, by at most one each but the first.
WorkingEntriesBounded == Working("entry") <= MaxOrders + Cardinality(Caller) - 1

\* What was checked before the wait for the throttle is overrun by the callers that waited,
\* and by no more: a halt by one child each, the cap by one each but the first (gate_child()).
OverrunBounded == LatePerCaller /\ WorkingEntriesBounded

\* A pause for repeated rejects ends without the operator, however many rejects the
\* exits and the late frames still bring.
PauseEnds == paused ~> ~paused

\* No child waits for ever: a coroutine that found the bucket empty takes its token after
\* one sleep, however many others have come in between.
EveryCallReturns == \A c \in Caller : at[c] # "idle" ~> at[c] = "idle"

\* Nothing the guard holds up is held up for ever (gate_child(), record_status()).
GuardReturns == EveryCallReturns /\ PauseEnds
=============================================================================
