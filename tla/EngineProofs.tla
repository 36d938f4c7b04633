---------------------------- MODULE EngineProofs ----------------------------
(***************************************************************************)
(* Theorems about two parts of the engine that share no state.             *)
(*                                                                         *)
(* EngineLifecycle: for every number of requests, every set of enabled     *)
(* breakers and every number of rounds, and with a lone operator where the *)
(* theorem says so.                                                        *)
(*                                                                         *)
(* PairsTrading over GroupDispatch: for every number of lots, every cap    *)
(* and all timeouts.                                                       *)
(***************************************************************************)
EXTENDS EngineLifecycle, PairsTrading, FiniteSetTheorems, TLAPS

USE LifecycleAssumption

-----------------------------------------------------------------------------
\* What the helpers keep: their results have the types of the state they write.
LEMMA GoType ==
  ASSUME TypeOK, NEW r \in Request, NEW p \in Point, Go(r, p)
  PROVE  at' \in [Request -> Point] /\ job' \in [Request -> Job]
  BY DEF TypeOK, Go, NoJob, Job, Kind

LEMMA ServeType ==
  ASSUME TypeOK, NEW r \in Request, NEW k \in Kind, NEW p \in Point, Serve(r, k, p)
  PROVE  at' \in [Request -> Point] /\ job' \in [Request -> Job]
  BY DEF TypeOK, Serve, NoJob, Job, Kind

LEMMA KillClockType ==
  ASSUME TypeOK, NEW r \in Request, NEW p \in Point, KillClock(r, p)
  PROVE  /\ at' \in [Request -> Point] /\ job' \in [Request -> Job]
         /\ clock' = FALSE /\ tick' = "off" /\ seen' = {}
         /\ task' \in 0 .. Rounds + 1
  <1>1. at' \in [Request -> Point]
    BY DEF TypeOK, KillClock, Beheaded, InFlatten, Point
  <1>2. job' \in [Request -> Job]
    BY DEF TypeOK, KillClock, Beheaded, InFlatten, NoJob, Job, Kind
  <1>3. task' \in 0 .. Rounds + 1
    BY DEF TypeOK, KillClock
  <1> QED BY <1>1, <1>2, <1>3 DEF KillClock

LEMMA EndTaskType ==
  ASSUME TypeOK, NEW ok \in BOOLEAN, EndTask(ok)
  PROVE  /\ at' \in [Request -> Point] /\ tick' \in TickPoint
         /\ seen' \subseteq Code /\ task' \in 0 .. Rounds + 1
  <1>1. at' \in [Request -> Point]
    BY DEF TypeOK, EndTask, InFlatten, Point
  <1>2. tick' \in TickPoint /\ seen' \subseteq Code /\ task' \in 0 .. Rounds + 1
    BY DEF TypeOK, EndTask, TickPoint
  <1> QED BY <1>1, <1>2

-----------------------------------------------------------------------------
LEMMA ServesType == ASSUME TypeOK, NEW r \in Request, Serves(r) PROVE TypeOK'
  <1>1. CASE ServeStart(r)
    BY <1>1, ServeType DEF ServeStart, TypeOK, Kind, Point, riskVars, bookVars
  <1>2. CASE ServePause(r)
    BY <1>2, ServeType DEF ServePause, TypeOK, Kind, Point, riskVars, bookVars
  <1>3. CASE ServeResume(r)
    BY <1>3, ServeType DEF ServeResume, TypeOK, Kind, Point, riskVars, bookVars
  <1>4. CASE ServeFlatten(r)
    <2>1. at' \in [Request -> Point] /\ job' \in [Request -> Job] /\ flagged' \in BOOLEAN
      BY <1>4, ServeType DEF ServeFlatten, BeginFlatten, TypeOK, Kind, Point
    <2> QED BY <1>4, <2>1 DEF ServeFlatten, TypeOK, riskVars, bookVars
  <1>5. CASE ServeStop(r)
    <2>1. CASE BeginFlatten(r, "stop") /\ UNCHANGED <<clock, tick, task, seen>>
      <3>1. at' \in [Request -> Point] /\ job' \in [Request -> Job] /\ flagged' \in BOOLEAN
        BY <2>1, ServeType DEF BeginFlatten, TypeOK, Kind, Point
      <3> QED BY <1>5, <2>1, <3>1 DEF ServeStop, TypeOK, riskVars, bookVars
    <2>2. CASE KillClock(r, "down") /\ UNCHANGED flagged
      BY <1>5, <2>2, KillClockType DEF ServeStop, TypeOK, Point, TickPoint, riskVars, bookVars
    <2> QED BY <1>5, <2>1, <2>2 DEF ServeStop
  <1>6. CASE ServeHalt(r)
    <2> PICK flattens \in BOOLEAN, pauses \in BOOLEAN :
          /\ Serve(r, IF pauses THEN "halt" ELSE "trip",
                      IF flattens THEN "joined" ELSE IF pauses THEN PausePoint ELSE "idle")
          /\ active' = active \union {"operator_halt"}
          /\ IF flattens /\ task = 0
               THEN task' = 1 /\ fresh' = {}
               ELSE task' = task /\ fresh' = fresh \union ({"operator_halt"} \ active)
          /\ UNCHANGED <<status, clock, flagged, tick, seen, done, breach, bookVars>>
      BY <1>6 DEF ServeHalt
    <2>1. at' \in [Request -> Point] /\ job' \in [Request -> Job]
      BY ServeType DEF PausePoint, Point, Kind
    <2>2. fresh' \subseteq Code /\ active' \subseteq Code
      <3>1. fresh' = {} \/ fresh' = fresh \union ({"operator_halt"} \ active)
        OBVIOUS
      <3> QED BY <3>1 DEF TypeOK, Code
    <2>3. task' \in 0 .. Rounds + 1
      <3>1. task' = 1 \/ task' = task
        OBVIOUS
      <3> QED BY <3>1 DEF TypeOK
    <2> QED BY <2>1, <2>2, <2>3 DEF TypeOK, bookVars
  <1> QED BY <1>1, <1>2, <1>3, <1>4, <1>5, <1>6 DEF Serves

LEMMA ProceedsType == ASSUME TypeOK, NEW r \in Request, Proceeds(r) PROVE TypeOK'
  <1>1. CASE EnterStart(r)
    BY <1>1, GoType DEF EnterStart, TypeOK, Point, Status, riskVars, bookVars
  <1>2. CASE StartDone(r)
    BY <1>2, GoType DEF StartDone, TypeOK, Point, Status, TickPoint, riskVars, bookVars
  <1>3. CASE StartFails(r)
    BY <1>3, KillClockType DEF StartFails, TypeOK, Point, Status, TickPoint, riskVars, bookVars
  <1>4. CASE AbortDone(r)
    BY <1>4, GoType DEF AbortDone, TypeOK, Point, riskVars, bookVars
  <1>5. CASE QuotesCancelled(r)
    BY <1>5, GoType DEF QuotesCancelled, TypeOK, Point, Status, riskVars, bookVars
  <1>6. CASE ResumeDone(r)
    BY <1>6, GoType DEF ResumeDone, TypeOK, Point, Status, riskVars, bookVars
  <1>7. CASE Look(r)
    <2>1. at' \in [Request -> Point] /\ job' \in [Request -> Job] /\ flagged' \in BOOLEAN
      BY <1>7, GoType DEF Look, Leave, TypeOK, Point
    <2>2. task' \in 0 .. Rounds + 1 /\ fresh' \subseteq Code
      <3>1. (task' = 1 /\ fresh' = {}) \/ (task' = task /\ fresh' = fresh)
        BY <1>7 DEF Look, EnterFlatten
      <3> QED BY <3>1 DEF TypeOK
    <2> QED BY <1>7, <2>1, <2>2 DEF Look, TypeOK, bookVars
  <1>8. CASE FlattenRaised(r)
    BY <1>8, GoType DEF FlattenRaised, Leave, TypeOK, Point, riskVars, bookVars
  <1>9. CASE PollEnds(r)
    BY <1>9, GoType DEF PollEnds, Leave, TypeOK, Point, riskVars, bookVars
  <1>10. CASE FinalSync(r)
    <2>1. CASE job[r].was /\ status = "PAUSED"
      BY <1>10, <2>1, GoType DEF FinalSync, TypeOK, Point, riskVars, bookVars
    <2>2. CASE ~(job[r].was /\ status = "PAUSED")
      BY <1>10, <2>2, GoType, KillClockType
         DEF FinalSync, Continue, TypeOK, Point, TickPoint, riskVars, bookVars
    <2> QED BY <2>1, <2>2
  <1>11. CASE AfterResume(r)
    BY <1>11, GoType, KillClockType
       DEF AfterResume, Continue, TypeOK, Point, TickPoint, riskVars, bookVars
  <1>12. CASE StopDone(r)
    BY <1>12, GoType DEF StopDone, TypeOK, Point, Status, riskVars
  <1>13. CASE HaltFlattened(r)
    BY <1>13, GoType DEF HaltFlattened, PausePoint, TypeOK, Point, riskVars, bookVars
  <1> QED BY <1>1, <1>2, <1>3, <1>4, <1>5, <1>6, <1>7, <1>8, <1>9, <1>10, <1>11, <1>12, <1>13
          DEF Proceeds

LEMMA FlattenTaskType == ASSUME TypeOK, FlattenTask PROVE TypeOK'
  <1>1. CASE MassCancelled
    BY <1>1 DEF MassCancelled, TypeOK, reqVars, riskVars
  <1>2. CASE FlattenStep
    <2>1. /\ at' \in [Request -> Point] /\ tick' \in TickPoint /\ open' \in BOOLEAN
          /\ seen' \subseteq Code /\ task' \in 0 .. Rounds + 1
      <3>1. CASE SeesFlat
        BY <3>1, EndTaskType DEF SeesFlat, TypeOK
      <3>2. CASE ClosesRound
        <4>1. CASE task = Rounds + 1
          BY <3>2, <4>1, EndTaskType DEF ClosesRound, TypeOK
        <4>2. CASE task # Rounds + 1
          <5>1. /\ task > 1 /\ task' = task + 1 /\ UNCHANGED <<at, tick, seen>>
                /\ open' \in {FALSE, open}
            BY <3>2, <4>2 DEF ClosesRound
          <5>2. task' \in 0 .. Rounds + 1
            BY <5>1, <4>2 DEF TypeOK
          <5> QED BY <5>1, <5>2 DEF TypeOK
        <4> QED BY <4>1, <4>2
      <3>3. CASE FlattenFails
        BY <3>3, EndTaskType DEF FlattenFails, TypeOK
      <3> QED BY <1>2, <3>1, <3>2, <3>3 DEF FlattenStep
    <2> QED BY <1>2, <2>1 DEF FlattenStep, TypeOK, riskVars
  <1> QED BY <1>1, <1>2 DEF FlattenTask

LEMMA HeartbeatType == ASSUME TypeOK, Heartbeat \/ Dispatch PROVE TypeOK'
  <1>1. CASE TickBegins
    BY <1>1 DEF TickBegins, Trip, TypeOK, TickPoint, Code, Watched, reqVars, bookVars
  <1>2. CASE TickChecks
    BY <1>2 DEF TickChecks, TypeOK, TickPoint, reqVars, bookVars
  <1>3. CASE TickFlattened
    BY <1>3 DEF TickFlattened, RearmedCodes, TypeOK, TickPoint, reqVars, bookVars
  <1>4. CASE TickTrades
    BY <1>4 DEF TickTrades, TypeOK, TickPoint, reqVars, riskVars, bookVars
  <1>5. CASE TickEnds
    BY <1>5 DEF TickEnds, TypeOK, TickPoint, reqVars, riskVars, bookVars
  <1>6. CASE Dispatch
    BY <1>6 DEF Dispatch, TypeOK, reqVars, riskVars
  <1> QED BY <1>1, <1>2, <1>3, <1>4, <1>5, <1>6 DEF Heartbeat

Meanwhile == Rearm \/ ReconcileTrips \/ LossesChange \/ EntrySends \/ EntryFills \/ EntryEnds

LEMMA MeanwhileType == ASSUME TypeOK, Meanwhile PROVE TypeOK'
  <1>1. CASE Rearm
    BY <1>1 DEF Rearm, TypeOK, reqVars, bookVars
  <1>2. CASE ReconcileTrips
    BY <1>2 DEF ReconcileTrips, Trip, TypeOK, Code, reqVars, bookVars
  <1>3. CASE LossesChange
    BY <1>3 DEF LossesChange, TypeOK, reqVars
  <1>4. CASE EntrySends
    BY <1>4 DEF EntrySends, TypeOK, reqVars, riskVars
  <1>5. CASE EntryFills
    BY <1>5 DEF EntryFills, TypeOK, reqVars, riskVars
  <1>6. CASE EntryEnds
    BY <1>6 DEF EntryEnds, TypeOK, reqVars, riskVars
  <1> QED BY <1>1, <1>2, <1>3, <1>4, <1>5, <1>6 DEF Meanwhile

\* Type correctness, whatever the number of requests.
THEOREM TypeCorrect == Spec => []TypeOK
  <1>1. Init => TypeOK
    <2> SUFFICES ASSUME Init PROVE TypeOK
      OBVIOUS
    <2>1. job \in [Request -> Job] /\ at \in [Request -> Point]
      BY DEF Init, Point, Job, NoJob, Kind
    <2>2. task \in 0 .. Rounds + 1
      BY DEF Init
    <2> QED BY <2>1, <2>2 DEF Init, TypeOK, Status, TickPoint
  <1>2. TypeOK /\ [Next]_vars => TypeOK'
    <2> SUFFICES ASSUME TypeOK, [Next]_vars PROVE TypeOK'
      OBVIOUS
    <2>1. CASE UNCHANGED vars
      BY <2>1 DEF vars, reqVars, riskVars, bookVars, TypeOK
    <2>2. ASSUME NEW r \in Request, PollCloses(r) PROVE TypeOK'
      BY <2>2 DEF PollCloses, TypeOK, reqVars, riskVars
    <2> QED BY <2>1, <2>2, ServesType, ProceedsType, FlattenTaskType, HeartbeatType, MeanwhileType
            DEF Next, Meanwhile
  <1> QED BY <1>1, <1>2, PTL DEF Spec

-----------------------------------------------------------------------------
\* While the heartbeat waits for its flatten the loss tracker cannot run, so a streak
\* breach it finds afterwards is one it flattened for.
StreakIsOld == tick \in {"flatten", "flattened"} => "consecutive_losses" \notin fresh

LEMMA StreakStaysOld == ASSUME TypeOK, StreakIsOld, [Next]_vars PROVE StreakIsOld'
  <1>1. CASE UNCHANGED vars
    BY <1>1 DEF vars, riskVars, StreakIsOld
  <1>2. ASSUME NEW r \in Request, Serves(r) PROVE StreakIsOld'
    <2>1. CASE ServeStart(r) \/ ServePause(r) \/ ServeResume(r) \/ ServeFlatten(r)
      BY <2>1 DEF ServeStart, ServePause, ServeResume, ServeFlatten, riskVars, StreakIsOld
    <2>2. CASE ServeStop(r)
      BY <2>2 DEF ServeStop, KillClock, riskVars, StreakIsOld
    <2>3. CASE ServeHalt(r)
      <3>1. /\ tick' = tick
            /\ fresh' = {} \/ fresh' = fresh \union ({"operator_halt"} \ active)
        BY <2>3 DEF ServeHalt
      <3> QED BY <3>1 DEF StreakIsOld
    <2> QED BY <1>2, <2>1, <2>2, <2>3 DEF Serves
  <1>3. ASSUME NEW r \in Request, Proceeds(r) PROVE StreakIsOld'
    <2>1. tick' \in {tick, "off", "sleep"} /\ (fresh' = fresh \/ fresh' = {})
      <3>1. CASE Look(r)
        BY <3>1 DEF Look, EnterFlatten
      <3>2. CASE FinalSync(r) \/ AfterResume(r)
        BY <3>2 DEF FinalSync, AfterResume, Continue, KillClock, riskVars
      <3>3. CASE StartFails(r) \/ StartDone(r)
        BY <3>3 DEF StartFails, StartDone, KillClock, riskVars
      <3>4. CASE EnterStart(r) \/ AbortDone(r) \/ QuotesCancelled(r) \/ ResumeDone(r)
                 \/ FlattenRaised(r) \/ PollEnds(r) \/ StopDone(r) \/ HaltFlattened(r)
        BY <3>4 DEF EnterStart, AbortDone, QuotesCancelled, ResumeDone, FlattenRaised,
                    PollEnds, StopDone, HaltFlattened, riskVars
      <3> QED BY <1>3, <3>1, <3>2, <3>3, <3>4 DEF Proceeds
    <2> QED BY <2>1 DEF StreakIsOld
  <1>4. ASSUME NEW r \in Request, PollCloses(r) PROVE StreakIsOld'
    BY <1>4 DEF PollCloses, riskVars, StreakIsOld
  <1>5. CASE FlattenTask
    BY <1>5 DEF FlattenTask, MassCancelled, FlattenStep, SeesFlat, ClosesRound, FlattenFails,
                EndTask, riskVars, StreakIsOld
  <1>6. CASE Heartbeat \/ Dispatch
    BY <1>6 DEF Heartbeat, Dispatch, TickBegins, TickChecks, TickFlattened, TickTrades, TickEnds,
                riskVars, StreakIsOld
  <1>7. CASE Meanwhile
    <2>1. tick' = tick /\ ("consecutive_losses" \in fresh' => "consecutive_losses" \in fresh)
      BY <1>7 DEF Meanwhile, Rearm, ReconcileTrips, Trip, LossesChange, EntrySends, EntryFills,
                  EntryEnds, riskVars
    <2> QED BY <2>1 DEF StreakIsOld
  <1> QED BY <1>1, <1>2, <1>3, <1>4, <1>5, <1>6, <1>7 DEF Next, Meanwhile

\* The automatic rearm of consecutive_losses (_maybe_flatten_for_breaker) never clears a
\* breach that latched after the flatten it follows, however operators interleave.
THEOREM RearmSafe == Spec => RearmsFlattenedOnly
  <1>1. Init => StreakIsOld
    BY DEF Init, StreakIsOld
  <1>2. TypeOK /\ StreakIsOld /\ [Next]_vars => StreakIsOld'
    BY StreakStaysOld
  <1>3. TypeOK /\ StreakIsOld /\ [Next]_vars =>
          [tick = "flattened" /\ tick' = "trade" => fresh \intersect active \subseteq active']_vars
    <2> SUFFICES ASSUME TypeOK, StreakIsOld, Next, tick = "flattened", tick' = "trade"
                 PROVE  fresh \intersect active \subseteq active'
      BY DEF RearmsFlattenedOnly
    <2>1. CASE TickFlattened
      BY <2>1 DEF TickFlattened, RearmedCodes, StreakIsOld
    <2>2. CASE ~TickFlattened
      <3>1. active' = active \/ active' = active \union {"operator_halt"}
            \/ active' = active \union {"reconcile_mismatch"} \/ tick' = tick \/ tick' = "off"
        <4>1. ASSUME NEW r \in Request, Serves(r) \/ Proceeds(r) \/ PollCloses(r)
              PROVE  active' = active \/ active' = active \union {"operator_halt"}
          BY <4>1 DEF Serves, Proceeds, ServeStart, ServePause, ServeResume, ServeFlatten, ServeStop,
                ServeHalt, EnterStart, StartDone, StartFails, AbortDone, QuotesCancelled, ResumeDone,
                Look, FlattenRaised, PollEnds, FinalSync, AfterResume, StopDone, HaltFlattened,
                PollCloses, riskVars
        <4>2. CASE FlattenTask
          BY <4>2 DEF FlattenTask, MassCancelled, FlattenStep, riskVars
        <4>3. CASE Heartbeat \/ Dispatch
          BY <2>2, <4>3 DEF Heartbeat, Dispatch, TickBegins, TickChecks, TickTrades, TickEnds, riskVars
        <4>4. CASE Meanwhile
          BY <4>4 DEF Meanwhile, Rearm, ReconcileTrips, LossesChange, EntrySends, EntryFills,
                EntryEnds, riskVars
        <4> QED BY <4>1, <4>2, <4>3, <4>4 DEF Next, Meanwhile
      <3> QED BY <3>1
    <2> QED BY <2>1, <2>2
  <1> QED BY <1>1, <1>2, <1>3, TypeCorrect, PTL DEF Spec, RearmsFlattenedOnly

-----------------------------------------------------------------------------
\* With a lone operator the status follows the request that is in progress.
OneOperator == \A r, s \in Request : r = s

Consistent ==
  \/ status = "STOPPED" /\ ~clock /\ entry = "none"
  \/ status \in {"RUNNING", "PAUSED"} /\ clock

StatusAt(r) ==
  /\ at[r] \in {"idle", "look", "joined", "woken", "raised", "poll", "final"} => Consistent
  /\ at[r] \in {"lock", "aborting"} => status = "STOPPED" /\ ~clock /\ entry = "none"
  /\ at[r] = "starting" => status = "STARTING" /\ ~clock /\ entry = "none"
  /\ at[r] \in {"quotes", "sync", "resumed"} => status \in {"RUNNING", "PAUSED"} /\ clock
  /\ at[r] = "down" => ~clock

Follows ==
  /\ tick = "off" <=> ~clock
  /\ \A r \in Request : StatusAt(r)

LEMMA ServesFollows ==
  ASSUME OneOperator, TypeOK, Follows, NEW r \in Request, Serves(r)
  PROVE  Follows'
  <1>0. at[r] = "idle" /\ Consistent
    BY DEF Serves, ServeStart, ServePause, ServeResume, ServeFlatten, BeginFlatten, ServeStop,
           ServeHalt, Serve, Follows, StatusAt
  <1> SUFFICES /\ tick' = "off" <=> ~clock'
               /\ StatusAt(r)'
    BY DEF Follows, OneOperator
  <1>1. CASE ServeStart(r) \/ ServePause(r) \/ ServeResume(r) \/ ServeFlatten(r)
    <2>1. UNCHANGED <<status, clock, tick, entry>>
      BY <1>1 DEF ServeStart, ServePause, ServeResume, ServeFlatten, bookVars
    <2>2. \/ at'[r] = "lock" /\ status = "STOPPED"
          \/ at'[r] = "quotes" /\ status = "RUNNING"
          \/ at'[r] = "sync" /\ status = "PAUSED"
          \/ at'[r] = "look"
      BY <1>1 DEF ServeStart, ServePause, ServeResume, ServeFlatten, BeginFlatten, Serve, TypeOK
    <2> QED BY <1>0, <2>1, <2>2 DEF Follows, StatusAt, Consistent
  <1>2. CASE ServeStop(r)
    <2>1. CASE BeginFlatten(r, "stop") /\ UNCHANGED <<clock, tick, task, seen>>
      <3>1. UNCHANGED <<status, clock, tick, entry>>
        BY <1>2, <2>1 DEF ServeStop, bookVars
      <3>2. \/ at'[r] = "quotes" /\ status = "RUNNING"
            \/ at'[r] = "look"
        BY <2>1 DEF BeginFlatten, Serve, TypeOK
      <3> QED BY <1>0, <3>1, <3>2 DEF Follows, StatusAt, Consistent
    <2>2. CASE KillClock(r, "down")
      <3>1. at'[r] = "down" /\ ~clock' /\ tick' = "off"
        BY <2>2 DEF KillClock
      <3> QED BY <3>1 DEF StatusAt
    <2> QED BY <1>2, <2>1, <2>2 DEF ServeStop
  <1>3. CASE ServeHalt(r)
    <2>1. UNCHANGED <<status, clock, tick, entry>>
      BY <1>3 DEF ServeHalt, bookVars
    <2>2. at'[r] \in {"joined", "idle"} \/ (at'[r] = "quotes" /\ status = "RUNNING")
      BY <1>3 DEF ServeHalt, Serve, PausePoint, TypeOK
    <2> QED BY <1>0, <2>1, <2>2 DEF Follows, StatusAt, Consistent
  <1> QED BY <1>1, <1>2, <1>3 DEF Serves

LEMMA ContinueFollows ==
  ASSUME TypeOK, Follows, NEW r \in Request, Consistent, Continue(r), UNCHANGED <<status, entry>>
  PROVE  (tick' = "off" <=> ~clock') /\ StatusAt(r)'
  <1>1. CASE job[r].kind = "stop"
    <2>1. at'[r] = "down" /\ ~clock' /\ tick' = "off"
      BY <1>1 DEF Continue, KillClock
    <2> QED BY <2>1 DEF StatusAt
  <1>2. CASE job[r].kind # "stop"
    <2>1. at'[r] = "idle" /\ UNCHANGED <<clock, tick>>
      BY <1>2 DEF Continue, Go, TypeOK
    <2> QED BY <2>1 DEF StatusAt, Follows, Consistent
  <1> QED BY <1>1, <1>2

LEMMA ProceedsFollows ==
  ASSUME OneOperator, TypeOK, Follows, NEW r \in Request, Proceeds(r)
  PROVE  Follows'
  <1>0. StatusAt(r) /\ (tick = "off" <=> ~clock)
    BY DEF Follows
  <1> SUFFICES /\ tick' = "off" <=> ~clock'
               /\ StatusAt(r)'
    BY DEF Follows, OneOperator
  <1>1. CASE EnterStart(r)
    <2>1. /\ at[r] = "lock" /\ at'[r] = "starting" /\ status' = "STARTING"
          /\ UNCHANGED <<clock, tick, entry>>
      BY <1>0, <1>1 DEF EnterStart, Go, TypeOK, StatusAt, bookVars
    <2> QED BY <1>0, <2>1 DEF StatusAt
  <1>2. CASE StartDone(r)
    <2>1. /\ at[r] = "starting" /\ at'[r] = "idle" /\ status' = "RUNNING" /\ clock'
          /\ tick' # "off"
      BY <1>0, <1>2 DEF StartDone, Go, TypeOK, StatusAt
    <2> QED BY <2>1 DEF StatusAt, Consistent
  <1>3. CASE StartFails(r)
    <2>1. /\ at[r] = "starting" /\ at'[r] = "aborting" /\ status' = "STOPPED" /\ ~clock'
          /\ tick' = "off" /\ UNCHANGED entry
      BY <1>3 DEF StartFails, KillClock, bookVars
    <2> QED BY <1>0, <2>1 DEF StatusAt
  <1>4. CASE AbortDone(r)
    <2>1. at[r] = "aborting" /\ at'[r] = "idle" /\ UNCHANGED <<status, clock, tick, entry>>
      BY <1>4 DEF AbortDone, Go, TypeOK, bookVars
    <2> QED BY <1>0, <2>1 DEF StatusAt, Consistent
  <1>5. CASE QuotesCancelled(r)
    <2>1. /\ at[r] = "quotes" /\ at'[r] \in {"look", "idle"} /\ status' = "PAUSED"
          /\ UNCHANGED <<clock, tick>>
      BY <1>5 DEF QuotesCancelled, Go, TypeOK
    <2> QED BY <1>0, <2>1 DEF StatusAt, Consistent
  <1>6. CASE ResumeDone(r)
    <2>1. /\ at[r] = "sync" /\ at'[r] \in {"resumed", "idle"} /\ status' = "RUNNING"
          /\ UNCHANGED <<clock, tick>>
      BY <1>6 DEF ResumeDone, Go, TypeOK
    <2> QED BY <1>0, <2>1 DEF StatusAt, Consistent
  <1>7. CASE Look(r) \/ FlattenRaised(r) \/ PollEnds(r)
    <2>1. /\ at[r] \in {"look", "raised", "poll"} /\ at'[r] \in {"joined", "final"}
          /\ UNCHANGED <<status, clock, tick, entry>>
      BY <1>7 DEF Look, FlattenRaised, PollEnds, Leave, Go, TypeOK, bookVars
    <2> QED BY <1>0, <2>1 DEF StatusAt, Consistent
  <1>8. CASE FinalSync(r)
    <2>1. at[r] = "final" /\ Consistent /\ UNCHANGED <<status, entry>>
      BY <1>0, <1>8 DEF FinalSync, StatusAt, bookVars
    <2>2. CASE job[r].was /\ status = "PAUSED"
      <3>1. at'[r] = "sync" /\ UNCHANGED <<clock, tick>>
        BY <1>8, <2>2 DEF FinalSync, Go, TypeOK
      <3> QED BY <1>0, <2>1, <2>2, <3>1 DEF StatusAt, Consistent
    <2>3. CASE ~(job[r].was /\ status = "PAUSED")
      BY <1>8, <2>1, <2>3, ContinueFollows DEF FinalSync
    <2> QED BY <2>2, <2>3
  <1>9. CASE AfterResume(r)
    <2>1. Consistent /\ Continue(r) /\ UNCHANGED <<status, entry>>
      BY <1>0, <1>9 DEF AfterResume, StatusAt, Consistent, bookVars
    <2> QED BY <2>1, ContinueFollows
  <1>10. CASE StopDone(r)
    <2>1. /\ at[r] = "down" /\ at'[r] = "idle" /\ status' = "STOPPED" /\ entry' = "none"
          /\ UNCHANGED <<clock, tick>>
      BY <1>10 DEF StopDone, Go, TypeOK
    <2> QED BY <1>0, <2>1 DEF StatusAt, Consistent
  <1>11. CASE HaltFlattened(r)
    <2>1. /\ at'[r] = "idle" \/ (at'[r] = "quotes" /\ status = "RUNNING")
          /\ UNCHANGED <<status, clock, tick, entry>>
      BY <1>11 DEF HaltFlattened, PausePoint, Go, TypeOK, bookVars
    <2>2. at[r] = "woken"
      BY <1>11 DEF HaltFlattened
    <2> QED BY <1>0, <1>11, <2>1, <2>2 DEF StatusAt, Consistent, HaltFlattened, bookVars
  <1> QED BY <1>1, <1>2, <1>3, <1>4, <1>5, <1>6, <1>7, <1>8, <1>9, <1>10, <1>11 DEF Proceeds

\* The flatten task wakes those who joined it and moves the heartbeat off its await.
LEMMA FlattenTaskFollows == ASSUME TypeOK, Follows, FlattenTask PROVE Follows'
  <1>1. /\ UNCHANGED <<status, clock>>
        /\ entry = "none" => entry' = "none"
    BY DEF FlattenTask, MassCancelled, FlattenStep
  <1>2. (tick' = "off" <=> tick = "off")
    BY DEF FlattenTask, MassCancelled, FlattenStep, SeesFlat, ClosesRound, FlattenFails, EndTask
  <1>3. ASSUME NEW s \in Request
        PROVE  at'[s] = at[s] \/ (at[s] = "joined" /\ at'[s] \in {"woken", "poll", "raised"})
    BY DEF FlattenTask, MassCancelled, FlattenStep, SeesFlat, ClosesRound, FlattenFails, EndTask,
           reqVars
  <1>4. ASSUME NEW s \in Request PROVE StatusAt(s)'
    <2>1. StatusAt(s)
      BY DEF Follows
    <2>2. CASE at'[s] = at[s]
      BY <1>1, <2>1, <2>2 DEF StatusAt, Consistent
    <2>3. CASE at[s] = "joined" /\ at'[s] \in {"woken", "poll", "raised"}
      BY <1>1, <2>1, <2>3 DEF StatusAt, Consistent
    <2> QED BY <1>3, <2>2, <2>3
  <1> QED BY <1>1, <1>2, <1>4 DEF Follows

\* Everything else leaves the status alone; an entry parent is born only of a heartbeat
\* that is alive.
LEMMA RestFollows ==
  ASSUME TypeOK, Follows,
         Heartbeat \/ Dispatch \/ Meanwhile \/ (\E r \in Request : PollCloses(r)) \/ UNCHANGED vars
  PROVE  Follows'
  <1>1. /\ UNCHANGED <<status, clock, at>>
        /\ tick' = "off" <=> tick = "off"
        /\ entry = "none" => entry' = "none" \/ tick = "dispatch"
    <2>1. CASE Heartbeat \/ Dispatch
      BY <2>1 DEF Heartbeat, Dispatch, TickBegins, TickChecks, TickFlattened, TickTrades, TickEnds,
                  reqVars, bookVars
    <2>2. CASE Meanwhile
      BY <2>2 DEF Meanwhile, Rearm, ReconcileTrips, LossesChange, EntrySends, EntryFills, EntryEnds,
                  reqVars, bookVars
    <2>3. CASE \E r \in Request : PollCloses(r)
      BY <2>3 DEF PollCloses, reqVars
    <2>4. CASE UNCHANGED vars
      BY <2>4 DEF vars, reqVars, bookVars
    <2> QED BY <2>1, <2>2, <2>3, <2>4
  <1>2. ASSUME NEW s \in Request PROVE StatusAt(s)'
    BY <1>1 DEF Follows, StatusAt, Consistent
  <1> QED BY <1>1, <1>2 DEF Follows

\* With one operator, whenever no request is in progress an engine that is not STOPPED has
\* a heartbeat, and one that says STOPPED has neither a heartbeat nor an entry parent
\* (start, stop and their finally clauses in engine.py).
THEOREM StoppedIsDown ==
  ASSUME OneOperator, Request # {}
  PROVE  Spec => []DownIsStopped
  <1>1. Init => Follows
    BY DEF Init, Follows, StatusAt, Consistent
  <1>2. TypeOK /\ Follows /\ [Next]_vars => Follows'
    BY ServesFollows, ProceedsFollows, FlattenTaskFollows, RestFollows DEF Next, Meanwhile
  <1>3. Follows => DownIsStopped
    BY DEF Follows, StatusAt, Consistent, DownIsStopped
  <1> QED BY <1>1, <1>2, <1>3, TypeCorrect, PTL DEF Spec

HIDE LifecycleAssumption

-----------------------------------------------------------------------------
(* The account of a pair.  Of a group for q lots the legs L are sent and   *)
(* each has executed e[l] lots; a leg is at work until e[l] is q.          *)

\* The order of leg l of a group that goes "in" or "out".
LegOrder(w, c, q, l, n) ==
  [leg |-> l, toward |-> IF c = "out" THEN -Toward(w, l) ELSE Toward(w, l),
   left |-> q - n, reduce |-> c = "out"]
AtWork(w, c, q, e, L) == {LegOrder(w, c, q, l, e[l]) : l \in {m \in L : e[m] < q}}
\* The order that unwinds leg l when the other is refused.
Unwinding(w, l, left) ==
  IF left = 0 THEN {} ELSE {[leg |-> l, toward |-> -Toward(w, l), left |-> left, reduce |-> TRUE]}

\* A first execution of a leg is counted as its fill.
Counted(a, e, L) ==
  \/ /\ \A l \in L : e[l] = 0
     /\ a.fills = 2 /\ a.first = "none"
  \/ \E l \in L : /\ e[l] > 0 /\ \A m \in L \ {l} : e[m] = 0
                  /\ a.fills = 1 /\ a.first = l

Awaits(a, w, c) == a \in Awaited /\ a.way = w /\ a.close = (c = "out")

Executed(q, L) == {e \in [Leg -> 0 .. q] : \A l \in Leg \ L : e[l] = 0}

\* What is still to be submitted.
Submits(A, w, q) == [todo |-> A, sent |-> <<>>, way |-> w, qty |-> q, close |-> FALSE]
SubmitsSecond(A, B, w, q) == [todo |-> <<B>>, sent |-> <<A>>, way |-> w, qty |-> q, close |-> FALSE]
Pending(g, w, q, L) ==
  \/ g = NoGroup /\ L \in {{}, Leg}
  \/ \E A, B \in Leg :
       /\ A # B
       /\ \/ L = {} /\ g = Submits(<<A, B>>, w, q)
          \/ L = {A} /\ g = SubmitsSecond(A, B, w, q)

Lots == [Leg -> 0 .. Size]

\* At rest the legs hedge each other.
Rests(s, a, g, b, x) ==
  /\ a = Nothing /\ g = NoGroup /\ b = EmptyBag
  /\ \/ s = 0 /\ \A l \in Leg : x[l] = 0
     \/ s \in Way /\ \E h \in 1 .. Size : \A l \in Leg : x[l] = Toward(s, l) * h

\* A group goes in, from a flat position.
Enters(s, a, g, b, x, w, q, L, e) ==
  /\ s = 0 /\ Awaits(a, w, "in") /\ Counted(a, e, L) /\ Pending(g, w, q, L) /\ e \in Executed(q, L)
  /\ b = SetToBag(AtWork(w, "in", q, e, L))
  /\ \A l \in Leg : x[l] = Toward(w, l) * e[l]

\* The second leg was refused as soon as the first, A, was sent.
Unwinds(s, a, g, b, x, w, q, A, e, left) ==
  /\ s = 0 /\ Awaits(a, w, "in") /\ Counted(a, e, {A}) /\ g = NoGroup /\ e \in Executed(q, {A})
  /\ left <= q /\ q - left <= e[A]
  /\ b = SetToBag(AtWork(w, "in", q, e, {A}) \union Unwinding(w, A, left))
  /\ \A l \in Leg : x[l] = IF l = A THEN Toward(w, A) * (e[A] - (q - left)) ELSE 0

\* A group goes out of a position of q lots, if the dispatch lets it.
Leaves(s, a, g, b, x, w, q, L, e) ==
  /\ s = w /\ Awaits(a, w, "out") /\ Counted(a, e, L) /\ g = NoGroup /\ e \in Executed(q, L)
  /\ b = SetToBag(AtWork(w, "out", q, e, L))
  /\ \A l \in Leg : x[l] = Toward(w, l) * (q - e[l])

AtRest == Rests(side, awaited, group, parents, pos)
Entering == \E w \in Way, q \in 1 .. Size, L \in SUBSET Leg, e \in Lots :
  Enters(side, awaited, group, parents, pos, w, q, L, e)
Alone == \E w \in Way, q \in 1 .. Size, A \in Leg, e \in Lots, left \in 0 .. Size :
  Unwinds(side, awaited, group, parents, pos, w, q, A, e, left)
Leaving == \E w \in Way, q \in 1 .. Size, L \in {{}, Leg}, e \in Lots :
  Leaves(side, awaited, group, parents, pos, w, q, L, e)

Account == AtRest \/ Entering \/ Alone \/ Leaving
PairInv == ~astray => Account

-----------------------------------------------------------------------------
(* Bags of orders that are all different. *)

LEMMA SetBagEmpty ==
  ASSUME NEW S
  PROVE  SetToBag(S) = EmptyBag <=> S = {}
<1>1. DOMAIN SetToBag(S) = S /\ DOMAIN SetToBag({}) = {}
  BY DEF SetToBag
<1> QED
  BY <1>1 DEF EmptyBag

LEMMA SetBagAdd ==
  ASSUME NEW S, NEW x, x \notin S
  PROVE  BagAdd(SetToBag(S), x) = SetToBag(S \union {x})
<1>1. DOMAIN SetToBag(S) = S /\ \A y \in S : SetToBag(S)[y] = 1
  BY DEF SetToBag
<1>2. BagAdd(SetToBag(S), x) = [y \in S \union {x} |-> IF y = x THEN 1 ELSE SetToBag(S)[y]]
  BY <1>1 DEF BagAdd
<1>3. \A y \in S \union {x} : (IF y = x THEN 1 ELSE SetToBag(S)[y]) = 1
  BY <1>1
<1> QED
  BY <1>2, <1>3 DEF SetToBag

LEMMA SetBagRemove ==
  ASSUME NEW S, NEW x \in S
  PROVE  BagRemove(SetToBag(S), x) = SetToBag(S \ {x})
<1>1. DOMAIN SetToBag(S) = S /\ \A y \in S : SetToBag(S)[y] = 1
  BY DEF SetToBag
<1>2. BagRemove(SetToBag(S), x) = [y \in S \ {x} |-> SetToBag(S)[y]]
  BY <1>1 DEF BagRemove
<1>3. \A y \in S \ {x} : SetToBag(S)[y] = 1
  BY <1>1
<1> QED
  BY <1>2, <1>3 DEF SetToBag

\* An execution of one of them.
Less(p, n) == [p EXCEPT !.left = @ - n]
One(S, p, n) ==
  /\ parents = SetToBag(S) /\ p \in BagToSet(parents) /\ Execute(p, n)
  /\ Less(p, n) \notin S \ {p}

LEMMA ExecutedOne ==
  ASSUME NEW S, NEW p, NEW n, One(S, p, n)
  PROVE  /\ p \in S
         /\ n < p.left => parents' = SetToBag((S \ {p}) \union {Less(p, n)})
         /\ ~(n < p.left) => parents' = SetToBag(S \ {p})
<1>1. p \in S
  BY DEF One, SetToBag, BagToSet
<1>2. BagRemove(parents, p) = SetToBag(S \ {p})
  BY <1>1, SetBagRemove DEF One
<1>3. BagAdd(SetToBag(S \ {p}), Less(p, n))
        = SetToBag((S \ {p}) \union {Less(p, n)})
  BY SetBagAdd DEF One
<1> QED
  BY <1>1, <1>2, <1>3 DEF One, Execute, Less

-----------------------------------------------------------------------------
(* Executions. *)

LEMMA Directions ==
  /\ Leg = {"usdt", "usdc"} /\ "usdt" # "usdc"
  /\ \A w \in Way, l \in Leg : Toward(w, l) \in {-1, 1} /\ -Toward(w, l) # Toward(w, l)
  /\ \A w \in Way : w \in {-1, 1} /\ -w \in Way /\ \A l \in Leg : Toward(-w, l) = -Toward(w, l)
<1>1. \A w \in {-1, 1} : -w \in {-1, 1} /\ -(-w) = w /\ -w # w
  OBVIOUS
<1>3. \A w \in Way, l \in Leg : Toward(w, l) \in {-1, 1}
  BY <1>1 DEF Toward, Way
<1>4. \A w \in Way, l \in Leg : -Toward(w, l) # Toward(w, l)
  BY <1>1, <1>3 DEF Way
<1>6. \A w \in Way, l \in Leg : Toward(-w, l) = -Toward(w, l)
  BY <1>1 DEF Toward, Way
<1> QED
  BY <1>1, <1>3, <1>4, <1>6 DEF Leg, Way

More(e, l, n) == [e EXCEPT ![l] = @ + n]
OneIn(a, l) == [a EXCEPT !.fills = 1, !.first = l]

\* An order of a leg executes n lots more, beside the orders X.
Filling(w, c, q, L, e, X, p, n) ==
  /\ w \in Way /\ c \in {"in", "out"} /\ q \in 1 .. Size /\ L \in SUBSET Leg /\ e \in Executed(q, L)
  /\ \A x \in X : x.reduce # (c = "out")
  /\ parents = SetToBag(AtWork(w, c, q, e, L) \union X)
  /\ p \in BagToSet(parents) /\ p.reduce = (c = "out")
  /\ n \in Nat \ {0} /\ Execute(p, n)

\* That was leg l, and f is executed by then.
Filled(w, c, q, L, e, X, p, n, l, f) ==
  /\ l \in L /\ f \in Executed(q, L) /\ f = More(e, l, n) /\ e[l] < q
  /\ p.leg = l /\ p.toward = IF c = "out" THEN -Toward(w, l) ELSE Toward(w, l)
  /\ parents' = SetToBag(AtWork(w, c, q, f, L) \union X)

LEMMA LegExecutes ==
  ASSUME NEW w, NEW c, NEW q, NEW L, NEW e, NEW X, NEW p, NEW n, Filling(w, c, q, L, e, X, p, n)
  PROVE  \E l, f : Filled(w, c, q, L, e, X, p, n, l, f)
<1> USE DEF Filling, More
<1> DEFINE S == AtWork(w, c, q, e, L) \union X
<1>0. Size \in Nat /\ Leg = {"usdt", "usdc"}
  BY DispatchAssumption DEF Leg
<1>1. p \in AtWork(w, c, q, e, L)
  BY DEF SetToBag, BagToSet
<1>2. PICK l \in L : e[l] < q /\ p = LegOrder(w, c, q, l, e[l])
  BY <1>1 DEF AtWork
<1>3. p.leg = l /\ p.toward = (IF c = "out" THEN -Toward(w, l) ELSE Toward(w, l)) /\ p.left = q - e[l]
  BY <1>2 DEF LegOrder
<1>4. e \in [Leg -> 0 .. q] /\ l \in Leg /\ e[l] \in 0 .. q
  BY DEF Executed
<1>5. n \in Nat /\ n > 0 /\ n <= q - e[l]
  BY <1>3 DEF Execute
<1> DEFINE f == More(e, l, n)
<1>6. f[l] = e[l] + n /\ f[l] \in 0 .. q /\ \A m \in Leg \ {l} : f[m] = e[m]
  BY <1>0, <1>4, <1>5
<1>7. f \in Executed(q, L)
  BY <1>4, <1>6 DEF Executed
<1>8. Less(p, n) = LegOrder(w, c, q, l, f[l])
  BY <1>0, <1>2, <1>4, <1>5, <1>6 DEF LegOrder, Less
<1>9. \A m \in L, x \in Int : LegOrder(w, c, q, m, x).leg = m /\ LegOrder(w, c, q, m, x).reduce = (c = "out")
  BY DEF LegOrder
<1>10. \A x \in S \ {p} : x # LegOrder(w, c, q, l, f[l])
  <2> SUFFICES ASSUME NEW x \in S, x # p, x = LegOrder(w, c, q, l, f[l]) PROVE FALSE
    OBVIOUS
  <2>1. x.reduce = (c = "out") /\ x.leg = l
    BY DEF LegOrder
  <2>2. x \in AtWork(w, c, q, e, L)
    BY <2>1
  <2>3. PICK m \in L : x = LegOrder(w, c, q, m, e[m])
    BY <2>2 DEF AtWork
  <2>4. m = l
    BY <2>1, <2>3 DEF LegOrder
  <2> QED BY <2>3, <2>4, <1>2
<1>11. /\ n < p.left => parents' = SetToBag((S \ {p}) \union {LegOrder(w, c, q, l, f[l])})
       /\ ~(n < p.left) => parents' = SetToBag(S \ {p})
  <2>1. One(S, p, n)
    BY <1>8, <1>10 DEF One
  <2> HIDE DEF S, f, Filling
  <2>2. /\ n < p.left => parents' = SetToBag((S \ {p}) \union {Less(p, n)})
        /\ ~(n < p.left) => parents' = SetToBag(S \ {p})
    BY <2>1, ExecutedOne
  <2> QED BY <1>8, <2>2
<1>12. n < p.left <=> f[l] < q
  BY <1>0, <1>3, <1>4, <1>5, <1>6
<1>13. S \ {p} = {LegOrder(w, c, q, m, e[m]) : m \in {k \in L \ {l} : e[k] < q}} \union X
  <2>1. p \notin X
    BY <1>2 DEF LegOrder
  <2>2. \A m \in L \ {l} : LegOrder(w, c, q, m, e[m]) # p
    BY <1>2 DEF LegOrder
  <2> QED BY <2>1, <2>2, <1>2 DEF AtWork
<1>14. {LegOrder(w, c, q, m, e[m]) : m \in {k \in L \ {l} : e[k] < q}}
        = {LegOrder(w, c, q, m, f[m]) : m \in {k \in L \ {l} : f[k] < q}}
  <2>1. \A m \in L \ {l} : f[m] = e[m]
    BY <1>6
  <2> HIDE DEF f
  <2> QED BY <2>1
<1>15. AtWork(w, c, q, f, L)
        = {LegOrder(w, c, q, m, f[m]) : m \in {k \in L \ {l} : f[k] < q}}
          \union (IF f[l] < q THEN {LegOrder(w, c, q, l, f[l])} ELSE {})
  <2> HIDE DEF f
  <2> QED BY DEF AtWork
<1>16. parents' = SetToBag(AtWork(w, c, q, f, L) \union X)
  <2> HIDE DEF f, S
  <2>1. CASE n < p.left
    <3>1. (S \ {p}) \union {LegOrder(w, c, q, l, f[l])} = AtWork(w, c, q, f, L) \union X
      BY <1>12, <1>13, <1>14, <1>15, <2>1
    <3> QED BY <1>11, <2>1, <3>1
  <2>2. CASE ~(n < p.left)
    <3>1. S \ {p} = AtWork(w, c, q, f, L) \union X
      BY <1>12, <1>13, <1>14, <1>15, <2>2
    <3> QED BY <1>11, <2>2, <3>1
  <2> QED BY <2>1, <2>2
<1>17. Filled(w, c, q, L, e, X, p, n, l, f)
  BY <1>2, <1>3, <1>7, <1>16 DEF Filled
<1> QED
  BY <1>17

\* A count of a leg more.
LEMMA CountsOne ==
  ASSUME NEW w, NEW c, NEW q, NEW L, NEW e, NEW X, NEW p, NEW n, NEW l, NEW f,
         Filling(w, c, q, L, e, X, p, n), Filled(w, c, q, L, e, X, p, n, l, f),
         NEW a, Awaits(a, w, c), Counted(a, e, L)
  PROVE  /\ a.fills \in {1, 2}
         /\ \A z : a.fills = 2 /\ z = OneIn(a, l) => Awaits(z, w, c) /\ Counted(z, f, L)
<1> USE DEF Filling, Filled, More, OneIn
<1>1. e \in [Leg -> 0 .. q] /\ l \in Leg /\ f[l] = e[l] + n /\ \A m \in Leg \ {l} : f[m] = e[m]
  BY DEF Executed
<1>2. f[l] > 0
  BY <1>1
<1>3. ASSUME a.fills = 2, NEW z, z = OneIn(a, l)
      PROVE  Awaits(z, w, c) /\ Counted(z, f, L)
  <2>1. a \in Awaited /\ a.way = w /\ a.close = (c = "out")
    BY DEF Awaits
  <2>2. PICK k, y : k = a.close /\ y = [a EXCEPT !.fills = 1]
    OBVIOUS
  <2>3. a = [fills |-> 2, way |-> w, close |-> k, first |-> a.first] /\ k \in BOOLEAN
    BY <1>3, <2>1, <2>2 DEF Awaited
  <2>4. y = [fills |-> 1, way |-> w, close |-> k, first |-> a.first]
    BY <2>2, <2>3
  <2>5. z = [y EXCEPT !.first = l]
    BY <1>3, <2>2
  <2>6. z = [fills |-> 1, way |-> w, close |-> k, first |-> l]
    BY <2>4, <2>5
  <2>7. z \in Awaited /\ z.way = w /\ z.close = k /\ z.fills = 1 /\ z.first = l
    BY <1>1, <2>3, <2>6 DEF Awaited
  <2>8. \A m \in L : e[m] = 0
    BY <1>3 DEF Counted
  <2>9. \A m \in L \ {l} : f[m] = 0
    BY <1>1, <2>8
  <2> QED BY <1>2, <2>1, <2>2, <2>7, <2>9 DEF Awaits, Counted
<1> QED
  BY <1>2, <1>3 DEF Counted

\* Once both fills are in, nothing is at work unless the belief may be wrong.
LEMMA Finishes ==
  ASSUME NEW p, OnFill(p.leg, p.toward), p.toward = Expected(p.leg), awaited.fills = 1, ~astray'
  PROVE  /\ side' = Finalised /\ awaited' = Nothing
         /\ group = NoGroup /\ parents' = EmptyBag /\ ~astray
<1>1. awaited.fills # 0 /\ awaited.fills # 2
  OBVIOUS
<1>2. /\ side' = Finalised /\ awaited' = Nothing
      /\ astray' = (astray \/ group # NoGroup \/ parents' # EmptyBag)
  BY <1>1 DEF OnFill
<1> QED
  BY <1>2

LEMMA FillEnters ==
  ASSUME DOMAIN pos = Leg, Entering, NEW p \in BagToSet(parents), NEW n \in 1 .. Size, Fill(p, n), ~astray'
  PROVE  Account'
<1>1. PICK w \in Way, q \in 1 .. Size, L \in SUBSET Leg, e \in Lots :
        Enters(side, awaited, group, parents, pos, w, q, L, e)
  BY DEF Entering
<1>2. /\ side = 0 /\ Awaits(awaited, w, "in") /\ Counted(awaited, e, L) /\ Pending(group, w, q, L)
      /\ e \in Executed(q, L)
      /\ parents = SetToBag(AtWork(w, "in", q, e, L))
      /\ \A l \in Leg : pos[l] = Toward(w, l) * e[l]
  BY <1>1 DEF Enters
<1>3. n \in Nat \ {0} /\ Execute(p, n) /\ OnFill(p.leg, p.toward) /\ group' = group
  BY DispatchAssumption DEF Fill
<1>4. Filling(w, "in", q, L, e, {}, p, n)
  <2>1. parents = SetToBag(AtWork(w, "in", q, e, L) \union {})
    BY <1>2
  <2>2. p \in AtWork(w, "in", q, e, L)
    BY <1>2 DEF SetToBag, BagToSet
  <2>3. p.reduce = ("in" = "out")
    BY <2>2 DEF AtWork, LegOrder
  <2> QED BY <1>2, <1>3, <2>1, <2>3 DEF Filling
<1>5. PICK l, f : Filled(w, "in", q, L, e, {}, p, n, l, f)
  BY <1>4, LegExecutes
<1>6. /\ l \in L /\ f \in Executed(q, L) /\ f = More(e, l, n) /\ e[l] < q
      /\ p.leg = l /\ p.toward = Toward(w, l)
      /\ parents' = SetToBag(AtWork(w, "in", q, f, L))
  BY <1>5 DEF Filled
<1>7. p.toward = Expected(p.leg)
  BY <1>2, <1>6 DEF Expected, Awaits
<1>8. \A m \in Leg : pos'[m] = Toward(w, m) * f[m]
  <2>1. e \in [Leg -> 0 .. q] /\ q \in Nat /\ \A m \in Leg : Toward(w, m) \in {-1, 1}
    BY <1>2, DispatchAssumption, Directions DEF Executed
  <2>2. pos' = [pos EXCEPT ![l] = @ + n * Toward(w, l)]
    BY <1>3, <1>6 DEF Execute
  <2>3. ASSUME NEW m \in Leg PROVE pos'[m] = Toward(w, m) * f[m]
    <3>1. pos[m] = Toward(w, m) * e[m] /\ DOMAIN pos = Leg
      BY <1>2
    <3>2. PICK d : d = Toward(w, m)
      OBVIOUS
    <3>3. d \in {-1, 1} /\ e[m] \in Nat /\ n \in Nat
      BY <1>3, <2>1, <3>2
    <3>4. d * (e[m] + n) = d * e[m] + n * d
      BY <3>3
    <3>5. f[m] = IF m = l THEN e[m] + n ELSE e[m]
      BY <1>6, <2>1 DEF More
    <3>6. pos'[m] = IF m = l THEN pos[m] + n * d ELSE pos[m]
      BY <1>6, <2>2, <3>1, <3>2
    <3> QED BY <3>1, <3>2, <3>4, <3>5, <3>6
  <2> QED BY <2>3
<1>9. /\ awaited.fills \in {1, 2}
      /\ \A z : awaited.fills = 2 /\ z = OneIn(awaited, l)
                  => Awaits(z, w, "in") /\ Counted(z, f, L)
  BY <1>2, <1>4, <1>5, CountsOne
<1>10. CASE awaited.fills = 2
  <2>1. awaited' = OneIn(awaited, l) /\ side' = side
    BY <1>3, <1>6, <1>7, <1>10 DEF OnFill, OneIn
  <2>2. Awaits(awaited', w, "in") /\ Counted(awaited', f, L) /\ side' = 0
    BY <1>2, <1>9, <1>10, <2>1
  <2>3. Enters(side', awaited', group', parents', pos', w, q, L, f)
    BY <1>2, <1>3, <1>6, <1>8, <2>2 DEF Enters
  <2>4. f \in Lots
    BY <1>6, DispatchAssumption DEF Executed, Lots
  <2>5. Entering'
    BY <2>3, <2>4 DEF Entering
  <2> QED BY <2>5 DEF Account
<1>11. CASE awaited.fills = 1
  <2>1. side' = Finalised /\ awaited' = Nothing /\ group = NoGroup /\ parents' = EmptyBag
    BY <1>3, <1>7, <1>11, Finishes
  <2>2. side' = w
    BY <1>2, <2>1 DEF Finalised, Awaits
  <2>3. L = Leg
    <3>1. \A A, B : NoGroup # Submits(<<A, B>>, w, q) /\ NoGroup # SubmitsSecond(A, B, w, q)
      BY DEF NoGroup, Submits, SubmitsSecond
    <3>2. L \in {{}, Leg}
      BY <1>2, <2>1, <3>1 DEF Pending
    <3> QED BY <1>6, <3>2
  <2>4. \A m \in Leg : f[m] = q
    <3>1. AtWork(w, "in", q, f, L) = {}
      BY <1>6, <2>1, SetBagEmpty
    <3>2. \A m \in L : f[m] = q
      <4>1. \A m \in L : ~(f[m] < q) /\ f[m] \in 0 .. q
        BY <1>6, <3>1 DEF AtWork, Executed
      <4> QED BY <4>1, DispatchAssumption
    <3> QED BY <2>3, <3>2
  <2>5. Rests(side', awaited', group', parents', pos')
    <3>1. \A m \in Leg : pos'[m] = Toward(side', m) * q
      BY <1>8, <2>2, <2>4
    <3> QED BY <1>3, <2>1, <2>2, <3>1 DEF Rests
  <2> QED BY <2>5 DEF Account, AtRest
<1> QED
  BY <1>9, <1>10, <1>11

\* A leg's order of its own fills, or what unwinds it, which fills against its position only.
LEMMA FillUnwinds ==
  ASSUME DOMAIN pos = Leg, Alone, NEW p \in BagToSet(parents), NEW n \in 1 .. Size, Fill(p, n), ~astray'
  PROVE  Account'
<1>1. PICK w \in Way, q \in 1 .. Size, A \in Leg, e \in Lots, left \in 0 .. Size :
        Unwinds(side, awaited, group, parents, pos, w, q, A, e, left)
  BY DEF Alone
<1>2. /\ side = 0 /\ Awaits(awaited, w, "in") /\ Counted(awaited, e, {A}) /\ group = NoGroup
      /\ e \in Executed(q, {A}) /\ left <= q /\ q - left <= e[A]
      /\ parents = SetToBag(AtWork(w, "in", q, e, {A}) \union Unwinding(w, A, left))
      /\ \A l \in Leg : pos[l] = IF l = A THEN Toward(w, A) * (e[A] - (q - left)) ELSE 0
  BY <1>1 DEF Unwinds
<1>3. n \in Nat \ {0} /\ Execute(p, n) /\ OnFill(p.leg, p.toward) /\ group' = group
  BY DispatchAssumption DEF Fill
<1>4. /\ e \in [Leg -> 0 .. q] /\ q \in Nat /\ left \in Nat /\ e[A] \in Nat /\ e[A] <= q
      /\ w \in {-1, 1} /\ Toward(w, A) \in {-1, 1} /\ -Toward(w, A) # Toward(w, A)
  BY <1>2, DispatchAssumption, Directions DEF Executed
<1>5. \A x \in Unwinding(w, A, left) : left > 0 /\ x.leg = A /\ x.toward = -Toward(w, A) /\ x.left = left /\ x.reduce
  BY <1>4 DEF Unwinding
<1>6. p \in AtWork(w, "in", q, e, {A}) \union Unwinding(w, A, left)
  BY <1>2 DEF SetToBag, BagToSet
<1>7. CASE p \in AtWork(w, "in", q, e, {A})
  <2>1. p.reduce = ("in" = "out")
    BY <1>7 DEF AtWork, LegOrder
  <2>2. \A x \in Unwinding(w, A, left) : x.reduce # ("in" = "out")
    BY <1>5
  <2>3. Filling(w, "in", q, {A}, e, Unwinding(w, A, left), p, n)
    BY <1>2, <1>3, <2>1, <2>2 DEF Filling
  <2>4. PICK l, f : Filled(w, "in", q, {A}, e, Unwinding(w, A, left), p, n, l, f)
    BY <2>3, LegExecutes
  <2>5. /\ l = A /\ f \in Executed(q, {A}) /\ f = More(e, A, n) /\ e[A] < q
        /\ p.leg = A /\ p.toward = Toward(w, A)
        /\ parents' = SetToBag(AtWork(w, "in", q, f, {A}) \union Unwinding(w, A, left))
    BY <2>4 DEF Filled
  <2>6. p.toward = Expected(p.leg)
    BY <1>2, <2>5 DEF Expected, Awaits
  <2>7. /\ awaited.fills \in {1, 2}
        /\ \A z : awaited.fills = 2 /\ z = OneIn(awaited, A) => Awaits(z, w, "in") /\ Counted(z, f, {A})
    BY <1>2, <2>3, <2>4, <2>5, CountsOne
  <2>8. CASE awaited.fills = 2
    <3>1. awaited' = OneIn(awaited, A) /\ side' = side
      BY <1>3, <2>5, <2>6, <2>8 DEF OnFill, OneIn
    <3>2. f[A] = e[A] + n /\ f \in Lots
      BY <1>4, <2>5, DispatchAssumption DEF Executed, Lots, More
    <3>3. pos' = [pos EXCEPT ![A] = @ + n * Toward(w, A)]
      BY <1>3, <2>5 DEF Execute
    <3>4. ASSUME NEW m \in Leg
          PROVE  pos'[m] = IF m = A THEN Toward(w, A) * (f[A] - (q - left)) ELSE 0
      <4>1. PICK d, x : d = Toward(w, A) /\ x = e[A] - (q - left)
        OBVIOUS
      <4>2. d * (x + n) = d * x + n * d /\ f[A] - (q - left) = x + n
        BY <1>3, <1>4, <3>2, <4>1
      <4>3. pos'[m] = IF m = A THEN pos[m] + n * d ELSE pos[m]
        BY <3>3, <4>1
      <4> QED BY <1>2, <4>1, <4>2, <4>3
    <3>5. q - left <= f[A]
      BY <1>2, <1>3, <1>4, <3>2
    <3>6. Unwinds(side', awaited', group', parents', pos', w, q, A, f, left)
      BY <1>2, <1>3, <2>5, <2>7, <2>8, <3>1, <3>4, <3>5 DEF Unwinds
    <3>7. Alone'
      BY <3>2, <3>6 DEF Alone
    <3> QED BY <3>7 DEF Account
  <2>9. CASE awaited.fills = 1
    <3>1. parents' = EmptyBag
      BY <1>3, <2>6, <2>9, Finishes
    <3>2. Unwinding(w, A, left) = {}
      BY <2>5, <3>1, SetBagEmpty
    <3>3. left = 0
      BY <3>2 DEF Unwinding
    <3> QED BY <1>2, <1>4, <2>5, <3>3
  <2> QED BY <2>7, <2>8, <2>9
<1>8. CASE p \in Unwinding(w, A, left)
  <2>1. left > 0 /\ p.leg = A /\ p.toward = -Toward(w, A) /\ p.left = left /\ p.reduce
        /\ p = [leg |-> A, toward |-> -Toward(w, A), left |-> left, reduce |-> TRUE]
    BY <1>5, <1>8 DEF Unwinding
  <2>2. p.toward # Expected(p.leg)
    BY <1>2, <1>4, <2>1 DEF Expected, Awaits
  <2>3. UNCHANGED <<side, awaited>>
    BY <1>3, <2>2 DEF OnFill, pairVars
  <2>4. pos[A] * p.toward < 0 /\ n <= Abs(pos[A]) /\ n <= left
    BY <1>3, <2>1 DEF Execute
  <2>5. PICK d, x : d = Toward(w, A) /\ x = e[A] - (q - left)
    OBVIOUS
  <2>6. n <= x /\ x \in Nat
    <3>1. pos[A] = d * x /\ x \in Nat /\ d \in {-1, 1}
      BY <1>2, <1>4, <2>5
    <3>2. Abs(pos[A]) = x
      BY <3>1 DEF Abs
    <3> QED BY <2>4, <3>1, <3>2
  <2>7. q - (left - n) <= e[A] /\ left - n \in 0 .. Size /\ left - n <= q
    <3>1. PICK k : k = e[A]
      OBVIOUS
    <3>2. k \in Nat /\ q \in Nat /\ left \in Nat /\ n \in Nat /\ Size \in Nat
          /\ left <= q /\ left <= Size /\ n <= left /\ n <= k - (q - left)
      BY <1>2, <1>3, <1>4, <2>4, <2>5, <2>6, <3>1, DispatchAssumption
    <3> QED BY <3>1, <3>2
  <2>8. parents' = SetToBag(AtWork(w, "in", q, e, {A}) \union Unwinding(w, A, left - n))
    <3> DEFINE W == AtWork(w, "in", q, e, {A})
    <3>1. Unwinding(w, A, left) = {p}
      BY <2>1 DEF Unwinding
    <3>2. Less(p, n) = [leg |-> A, toward |-> -Toward(w, A), left |-> left - n, reduce |-> TRUE]
      <4>1. PICK o, t : o = -Toward(w, A) /\ t = TRUE
        OBVIOUS
      <4>2. p = [leg |-> A, toward |-> o, left |-> left, reduce |-> t]
        BY <2>1, <4>1
      <4>3. PICK k : k = left - n
        OBVIOUS
      <4>4. p.left - n = k /\ Less(p, n) = [p EXCEPT !.left = k]
        BY <4>2, <4>3 DEF Less
      <4>5. [p EXCEPT !.left = k] = [leg |-> A, toward |-> o, left |-> k, reduce |-> t]
        BY <4>2
      <4> QED BY <4>1, <4>3, <4>4, <4>5
    <3>3. \A x1 \in W : x1.reduce = ("in" = "out")
      BY DEF AtWork, LegOrder
    <3>4. Less(p, n) \notin W /\ p \notin W
      <4>1. Less(p, n).reduce /\ p.reduce
        BY <2>1, <3>2
      <4> HIDE DEF W
      <4> QED BY <3>3, <4>1
    <3>5. One(W \union {p}, p, n)
      BY <1>2, <1>3, <3>1, <3>4 DEF One
    <3>6. (W \union {p}) \ {p} = W
      BY <3>4
    <3>7. /\ n < left => parents' = SetToBag(W \union {Less(p, n)})
          /\ ~(n < left) => parents' = SetToBag(W)
      <4> HIDE DEF W
      <4> QED BY <2>1, <3>5, <3>6, ExecutedOne
    <3>8. CASE n < left
      <4>1. Unwinding(w, A, left - n) = {Less(p, n)}
        BY <1>3, <1>4, <3>2, <3>8 DEF Unwinding
      <4> QED BY <3>7, <3>8, <4>1
    <3>9. CASE ~(n < left)
      <4>1. Unwinding(w, A, left - n) = {}
        BY <1>3, <1>4, <2>4, <3>9 DEF Unwinding
      <4>2. W \union {} = W
        OBVIOUS
      <4> QED BY <3>7, <3>9, <4>1, <4>2
    <3> QED BY <3>8, <3>9
  <2>9. ASSUME NEW m \in Leg
        PROVE  pos'[m] = IF m = A THEN Toward(w, A) * (e[A] - (q - (left - n))) ELSE 0
    <3>1. pos' = [pos EXCEPT ![A] = @ + n * (-Toward(w, A))]
      BY <1>3, <2>1 DEF Execute
    <3>2. d * (x - n) = d * x + n * (-d) /\ e[A] - (q - (left - n)) = x - n
      BY <1>3, <1>4, <2>5, <2>6
    <3>3. pos'[m] = IF m = A THEN pos[m] + n * (-d) ELSE pos[m]
      BY <3>1, <2>5
    <3> QED BY <1>2, <2>5, <3>2, <3>3
  <2>10. Unwinds(side', awaited', group', parents', pos', w, q, A, e, left - n)
    BY <1>2, <1>3, <2>3, <2>7, <2>8, <2>9 DEF Unwinds
  <2>11. Alone'
    BY <2>7, <2>10 DEF Alone
  <2> QED BY <2>11 DEF Account
<1> QED
  BY <1>6, <1>7, <1>8

LEMMA FillLeaves ==
  ASSUME DOMAIN pos = Leg, Leaving, NEW p \in BagToSet(parents), NEW n \in 1 .. Size, Fill(p, n), ~astray'
  PROVE  Account'
<1>1. PICK w \in Way, q \in 1 .. Size, L \in {{}, Leg}, e \in Lots :
        Leaves(side, awaited, group, parents, pos, w, q, L, e)
  BY DEF Leaving
<1>2. /\ side = w /\ Awaits(awaited, w, "out") /\ Counted(awaited, e, L) /\ group = NoGroup
      /\ e \in Executed(q, L)
      /\ parents = SetToBag(AtWork(w, "out", q, e, L))
      /\ \A l \in Leg : pos[l] = Toward(w, l) * (q - e[l])
  BY <1>1 DEF Leaves
<1>3. n \in Nat \ {0} /\ Execute(p, n) /\ OnFill(p.leg, p.toward) /\ group' = group
  BY DispatchAssumption DEF Fill
<1>4. Filling(w, "out", q, L, e, {}, p, n)
  <2>1. parents = SetToBag(AtWork(w, "out", q, e, L) \union {})
    BY <1>2
  <2>2. p \in AtWork(w, "out", q, e, L)
    BY <1>2 DEF SetToBag, BagToSet
  <2>3. p.reduce = ("out" = "out")
    BY <2>2 DEF AtWork, LegOrder
  <2> QED BY <1>2, <1>3, <2>1, <2>3 DEF Filling
<1>5. PICK l, f : Filled(w, "out", q, L, e, {}, p, n, l, f)
  BY <1>4, LegExecutes
<1>6. /\ l \in L /\ f \in Executed(q, L) /\ f = More(e, l, n) /\ e[l] < q
      /\ p.leg = l /\ p.toward = -Toward(w, l)
      /\ parents' = SetToBag(AtWork(w, "out", q, f, L))
  BY <1>5 DEF Filled
<1>7. p.toward = Expected(p.leg)
  BY <1>2, <1>6 DEF Expected, Awaits
<1>8. \A m \in Leg : pos'[m] = Toward(w, m) * (q - f[m])
  <2>1. e \in [Leg -> 0 .. q] /\ q \in Nat /\ l \in Leg /\ \A m \in Leg : Toward(w, m) \in {-1, 1}
    BY <1>2, <1>6, DispatchAssumption, Directions DEF Executed
  <2>2. pos' = [pos EXCEPT ![l] = @ + n * (-Toward(w, l))]
    BY <1>3, <1>6 DEF Execute
  <2>3. ASSUME NEW m \in Leg PROVE pos'[m] = Toward(w, m) * (q - f[m])
    <3>2. PICK d, x : d = Toward(w, m) /\ x = q - e[m]
      OBVIOUS
    <3>3. d \in {-1, 1} /\ x \in Int /\ n \in Nat
      BY <1>3, <2>1, <3>2
    <3>4. d * (x - n) = d * x + n * (-d)
      BY <3>3
    <3>5. q - f[m] = IF m = l THEN x - n ELSE x
      BY <1>3, <1>6, <2>1, <3>2 DEF More
    <3>6. pos'[m] = IF m = l THEN pos[m] + n * (-d) ELSE pos[m]
      BY <1>6, <2>2, <3>2
    <3> QED BY <1>2, <3>2, <3>4, <3>5, <3>6
  <2> QED BY <2>3
<1>9. /\ awaited.fills \in {1, 2}
      /\ \A z : awaited.fills = 2 /\ z = OneIn(awaited, l)
                  => Awaits(z, w, "out") /\ Counted(z, f, L)
  BY <1>2, <1>4, <1>5, CountsOne
<1>10. CASE awaited.fills = 2
  <2>1. awaited' = OneIn(awaited, l) /\ side' = side
    BY <1>3, <1>6, <1>7, <1>10 DEF OnFill, OneIn
  <2>2. Awaits(awaited', w, "out") /\ Counted(awaited', f, L) /\ side' = w
    BY <1>2, <1>9, <1>10, <2>1
  <2>3. Leaves(side', awaited', group', parents', pos', w, q, L, f)
    BY <1>2, <1>3, <1>6, <1>8, <2>2 DEF Leaves
  <2>4. f \in Lots
    BY <1>6, DispatchAssumption DEF Executed, Lots
  <2>5. Leaving'
    BY <2>3, <2>4 DEF Leaving
  <2> QED BY <2>5 DEF Account
<1>11. CASE awaited.fills = 1
  <2>1. side' = Finalised /\ awaited' = Nothing /\ group = NoGroup /\ parents' = EmptyBag
    BY <1>3, <1>7, <1>11, Finishes
  <2>2. side' = 0
    BY <1>2, <2>1 DEF Finalised, Awaits
  <2>3. L = Leg
    BY <1>6
  <2>4. \A m \in Leg : f[m] = q
    <3>1. AtWork(w, "out", q, f, L) = {}
      BY <1>6, <2>1, SetBagEmpty
    <3>2. \A m \in L : ~(f[m] < q) /\ f[m] \in 0 .. q
      BY <1>6, <3>1 DEF AtWork, Executed
    <3> QED BY <2>3, <3>2, DispatchAssumption
  <2>5. Rests(side', awaited', group', parents', pos')
    <3>1. \A m \in Leg : pos'[m] = 0
      <4>1. \A m \in Leg : Toward(w, m) \in Int /\ q \in Int
        BY Directions, DispatchAssumption
      <4> QED BY <1>8, <2>4, <4>1
    <3> QED BY <1>3, <2>1, <2>2, <3>1 DEF Rests
  <2> QED BY <2>5 DEF Account, AtRest
<1> QED
  BY <1>9, <1>10, <1>11

LEMMA FillKeeps ==
  ASSUME DOMAIN pos = Leg, PairInv, NEW p \in BagToSet(parents), NEW n \in 1 .. Size, Fill(p, n)
  PROVE  PairInv'
<1> SUFFICES ASSUME ~astray' PROVE Account'
  BY DEF PairInv
<1>1. ~astray
  <2>1. OnFill(p.leg, p.toward)
    BY DEF Fill
  <2>2. astray' = astray \/ astray' = (astray \/ group # NoGroup \/ parents' # EmptyBag)
    BY <2>1 DEF OnFill, pairVars
  <2> QED BY <2>2
<1>2. ~AtRest
  BY DEF AtRest, Rests, BagToSet, EmptyBag, SetToBag
<1> QED
  BY <1>1, <1>2, FillEnters, FillUnwinds, FillLeaves DEF PairInv, Account

-----------------------------------------------------------------------------
(* Submissions. *)

None == [l \in Leg |-> 0]

\* Where a submission of an entry stands after the legs L were taken.
Stands(g, b, w, q, L) == Pending(g, w, q, L) /\ b = SetToBag(AtWork(w, "in", q, None, L))
\* The second leg was refused right after the first.
Refused(g, b, w, q, A) ==
  g = NoGroup /\ b = SetToBag(AtWork(w, "in", q, None, {A}) \union Unwinding(w, A, q))

LEMMA NoneExecuted ==
  ASSUME NEW q \in 1 .. Size
  PROVE  /\ None \in Lots /\ \A L \in SUBSET Leg : None \in Executed(q, L)
         /\ \A l \in Leg : None[l] = 0 /\ None[l] < q
BY DispatchAssumption DEF None, Lots, Executed

\* The orders of nobody, of one leg and of both, before any executes.
LEMMA NoOrders ==
  ASSUME NEW w, NEW c, NEW q
  PROVE  AtWork(w, c, q, None, {}) = {}
BY DEF AtWork

LEMMA FirstOrder ==
  ASSUME NEW w, NEW c, NEW q \in 1 .. Size, NEW A \in Leg
  PROVE  AtWork(w, c, q, None, {A}) = {LegOrder(w, c, q, A, 0)}
<1>1. None[A] = 0 /\ {m \in {A} : None[m] < q} = {A}
  BY DispatchAssumption DEF None
<1> QED
  BY <1>1 DEF AtWork

LEMMA BothOrders ==
  ASSUME NEW w, NEW c, NEW q \in 1 .. Size, NEW A \in Leg, NEW B \in Leg, A # B
  PROVE  /\ AtWork(w, c, q, None, {A}) \union {LegOrder(w, c, q, B, 0)} = AtWork(w, c, q, None, Leg)
         /\ LegOrder(w, c, q, B, 0) \notin AtWork(w, c, q, None, {A})
<1>1. None[A] = 0 /\ None[B] = 0 /\ Leg = {A, B} /\ 0 < q
  BY DispatchAssumption DEF None, Leg
<1>2. {m \in Leg : None[m] < q} = {A, B}
  BY <1>1
<1>3. AtWork(w, c, q, None, Leg) = {LegOrder(w, c, q, A, 0), LegOrder(w, c, q, B, 0)}
  BY <1>1, <1>2 DEF AtWork
<1>4. LegOrder(w, c, q, A, 0).leg = A /\ LegOrder(w, c, q, B, 0).leg = B
  BY DEF LegOrder
<1> QED
  BY <1>3, <1>4, FirstOrder

\* Orders are opened as the account has them.
LEMMA OpensIn ==
  ASSUME NEW b, NEW w, NEW q \in 1 .. Size, NEW l
  PROVE  Open(b, l, Toward(w, l), q, FALSE) = BagAdd(b, LegOrder(w, "in", q, l, 0))
<1>1. q - 0 = q
  BY DispatchAssumption
<1>2. LegOrder(w, "in", q, l, 0) = [leg |-> l, toward |-> Toward(w, l), left |-> q, reduce |-> FALSE]
  BY <1>1 DEF LegOrder
<1> QED
  BY <1>2 DEF Open

LEMMA OpensOut ==
  ASSUME NEW b, NEW w, NEW q \in 1 .. Size, NEW l
  PROVE  Open(b, l, -Toward(w, l), q, TRUE) = BagAdd(b, LegOrder(w, "out", q, l, 0))
<1>1. q - 0 = q
  BY DispatchAssumption
<1>2. LegOrder(w, "out", q, l, 0) = [leg |-> l, toward |-> -Toward(w, l), left |-> q, reduce |-> TRUE]
  BY <1>1 DEF LegOrder
<1> QED
  BY <1>2 DEF Open

LEMMA UnwindingIs ==
  ASSUME NEW w, NEW q \in 1 .. Size, NEW l
  PROVE  Unwinding(w, l, q) = {LegOrder(w, "out", q, l, 0)}
<1>1. q - 0 = q /\ q # 0
  BY DispatchAssumption
<1>2. LegOrder(w, "out", q, l, 0) = [leg |-> l, toward |-> -Toward(w, l), left |-> q, reduce |-> TRUE]
  BY <1>1 DEF LegOrder
<1> QED
  BY <1>1, <1>2 DEF Unwinding

LEMMA Groups ==
  ASSUME NEW A, NEW B, NEW w, NEW q
  PROVE  /\ Submits(<<A, B>>, w, q) # NoGroup /\ SubmitsSecond(A, B, w, q) # NoGroup
         /\ Submits(<<A, B>>, w, q) # SubmitsSecond(A, B, w, q)
BY DEF Submits, SubmitsSecond, NoGroup

\* The first leg of an entry is taken, or refused.
LEMMA FirstLeg ==
  ASSUME NEW w \in Way, NEW q \in 1 .. Size, NEW A \in Leg, NEW B \in Leg, A # B
  PROVE  LET r == SubmitLeg(Submits(<<A, B>>, w, q), EmptyBag) IN
           \/ r.group = NoGroup /\ r.parents = EmptyBag
           \/ /\ r.group = SubmitsSecond(A, B, w, q)
              /\ r.parents = SetToBag(AtWork(w, "in", q, None, {A}))
<1> DEFINE g == Submits(<<A, B>>, w, q)
<1>1. Head(g.todo) = A /\ Tail(g.todo) = <<B>> /\ g.sent = <<>> /\ g.way = w /\ g.qty = q /\ g.close = FALSE
  BY DEF Submits
<1>2. [g EXCEPT !.todo = Tail(@), !.sent = Append(@, A)] = SubmitsSecond(A, B, w, q)
  <2>1. PICK t, u, v, x, z : t = <<A, B>> /\ u = <<>> /\ v = <<B>> /\ x = <<A>> /\ z = FALSE
    OBVIOUS
  <2>2. Tail(t) = v /\ Append(u, A) = x
    BY <2>1
  <2>3. g = [todo |-> t, sent |-> u, way |-> w, qty |-> q, close |-> z]
    BY <2>1 DEF Submits
  <2>4. SubmitsSecond(A, B, w, q) = [todo |-> v, sent |-> x, way |-> w, qty |-> q, close |-> z]
    BY <2>1 DEF SubmitsSecond
  <2> HIDE DEF g
  <2>5. g.todo = t /\ g.sent = u
    BY <2>3
  <2>6. [[g EXCEPT !.todo = v] EXCEPT !.sent = x]
          = [todo |-> v, sent |-> x, way |-> w, qty |-> q, close |-> z]
    <3>1. PICK y : y = [g EXCEPT !.todo = v]
      OBVIOUS
    <3>2. y = [todo |-> v, sent |-> u, way |-> w, qty |-> q, close |-> z]
      BY <2>3, <3>1
    <3>3. [y EXCEPT !.sent = x] = [todo |-> v, sent |-> x, way |-> w, qty |-> q, close |-> z]
      BY <3>2
    <3> QED BY <3>1, <3>3
  <2> QED BY <2>2, <2>4, <2>5, <2>6
<1>3. Compensated(g, EmptyBag) = EmptyBag
  BY <1>1 DEF Compensated
<1>4. Open(EmptyBag, A, Toward(w, A), q, FALSE) = SetToBag(AtWork(w, "in", q, None, {A}))
  <2>1. EmptyBag = SetToBag({})
    BY SetBagEmpty
  <2>2. BagAdd(SetToBag({}), LegOrder(w, "in", q, A, 0)) = SetToBag({} \union {LegOrder(w, "in", q, A, 0)})
    BY SetBagAdd
  <2>3. AtWork(w, "in", q, None, {A}) = {LegOrder(w, "in", q, A, 0)}
    BY FirstOrder
  <2> QED BY <2>1, <2>2, <2>3, OpensIn
<1>5. Tail(g.todo) # <<>>
  <2>1. <<B>> # <<>>
    OBVIOUS
  <2> QED BY <1>1, <2>1
<1> HIDE DEF g
<1>6. SubmitLeg(g, EmptyBag) = IF CanSubmit(A, EmptyBag)
        THEN [group |-> SubmitsSecond(A, B, w, q), parents |-> SetToBag(AtWork(w, "in", q, None, {A}))]
        ELSE [group |-> NoGroup, parents |-> EmptyBag]
  BY <1>1, <1>2, <1>3, <1>4, <1>5 DEF SubmitLeg
<1> QED
  BY <1>6 DEF g

\* So is the second, and then the first is unwound.
LEMMA SecondLeg ==
  ASSUME NEW w \in Way, NEW q \in 1 .. Size, NEW A \in Leg, NEW B \in Leg, A # B, NEW b
  PROVE  LET g == SubmitsSecond(A, B, w, q)
             r == SubmitLeg(g, b)
         IN  /\ r.group = NoGroup
             /\ \/ r.parents = BagAdd(b, LegOrder(w, "in", q, B, 0))
                \/ /\ r.parents = Compensated(g, b)
                   /\ r.parents = BagAdd(b, LegOrder(w, "out", q, A, 0))
<1> DEFINE g == SubmitsSecond(A, B, w, q)
<1>1. /\ Head(g.todo) = B /\ Tail(g.todo) = <<>> /\ g.sent # <<>> /\ g.sent[1] = A
      /\ g.way = w /\ g.qty = q /\ g.close = FALSE
  BY DEF SubmitsSecond
<1> HIDE DEF g
<1>2. Compensated(g, b) = BagAdd(b, LegOrder(w, "out", q, A, 0))
  <2>1. Compensated(g, b) = Open(b, A, -Toward(w, A), q, TRUE)
    BY <1>1 DEF Compensated
  <2> QED BY <2>1, OpensOut
<1>3. SubmitLeg(g, b) = IF CanSubmit(B, b)
        THEN [group |-> NoGroup, parents |-> Open(b, B, Toward(w, B), q, FALSE)]
        ELSE [group |-> NoGroup, parents |-> Compensated(g, b)]
  BY <1>1 DEF SubmitLeg
<1>4. CASE CanSubmit(B, b)
  <2>1. PICK y : y = Open(b, B, Toward(w, B), q, FALSE)
    OBVIOUS
  <2>2. y = BagAdd(b, LegOrder(w, "in", q, B, 0))
    BY <2>1, OpensIn
  <2>3. SubmitLeg(g, b) = [group |-> NoGroup, parents |-> y]
    BY <1>3, <1>4, <2>1
  <2> QED BY <2>2, <2>3 DEF g
<1>5. CASE ~CanSubmit(B, b)
  <2>1. PICK y : y = Compensated(g, b)
    OBVIOUS
  <2>2. SubmitLeg(g, b) = [group |-> NoGroup, parents |-> y]
    BY <1>3, <1>5, <2>1
  <2> QED BY <1>2, <2>1, <2>2 DEF g
<1> QED
  BY <1>4, <1>5

\* A whole entry, up to its next await.
LEMMA EntryAdvances ==
  ASSUME NEW w \in Way, NEW q \in 1 .. Size, NEW A \in Leg, NEW B \in Leg, A # B, NEW lev,
         parents = EmptyBag, Advance(Submits(<<A, B>>, w, q), lev)
  PROVE  \/ \E L \in SUBSET Leg : Stands(group', parents', w, q, L)
         \/ Refused(group', parents', w, q, A)
<1> DEFINE g == Submits(<<A, B>>, w, q)
           h == SubmitsSecond(A, B, w, q)
           one == IF Waits(g, lev) THEN [group |-> g, parents |-> parents] ELSE SubmitLeg(g, parents)
           last == IF one.group = NoGroup \/ Waits(one.group, lev) THEN one
                   ELSE SubmitLeg(one.group, one.parents)
           W == AtWork(w, "in", q, None, {A})
<1>1. group' = last.group /\ parents' = last.parents
  BY DEF Advance
<1>2. SetToBag(AtWork(w, "in", q, None, {})) = EmptyBag
  BY NoOrders, SetBagEmpty
<1>3. Pending(g, w, q, {}) /\ Pending(NoGroup, w, q, {}) /\ Pending(NoGroup, w, q, Leg) /\ Pending(h, w, q, {A})
  BY DEF Pending
<1>4. CASE Waits(g, lev)
  <2>1. one.group = g /\ one.parents = EmptyBag
    BY <1>4
  <2>2. last = one
    BY <1>4, <2>1
  <2>3. Stands(group', parents', w, q, {})
    BY <1>1, <1>2, <1>3, <2>1, <2>2 DEF Stands
  <2> QED BY <2>3
<1>5. CASE ~Waits(g, lev)
  <2>1. one = SubmitLeg(g, EmptyBag)
    BY <1>5
  <2>2. CASE one.group = NoGroup /\ one.parents = EmptyBag
    <3>1. last = one
      BY <2>2
    <3>2. Stands(group', parents', w, q, {})
      BY <1>1, <1>2, <1>3, <2>2, <3>1 DEF Stands
    <3> QED BY <3>2
  <2>3. CASE one.group = h /\ one.parents = SetToBag(W)
    <3>1. CASE Waits(h, lev)
      <4>1. last = one
        BY <2>3, <3>1
      <4>2. Stands(group', parents', w, q, {A})
        BY <1>1, <1>3, <2>3, <4>1 DEF Stands
      <4> QED BY <4>2
    <3>2. CASE ~Waits(h, lev)
      <4>1. last = SubmitLeg(h, SetToBag(W))
        BY <2>3, <3>2, Groups
      <4> HIDE DEF last, one, W, h
      <4>2. \/ last.parents = BagAdd(SetToBag(W), LegOrder(w, "in", q, B, 0))
            \/ last.parents = BagAdd(SetToBag(W), LegOrder(w, "out", q, A, 0))
        BY <4>1, SecondLeg DEF h
      <4>3. last.group = NoGroup
        BY <4>1, SecondLeg DEF h
      <4>4. W = {LegOrder(w, "in", q, A, 0)}
        BY FirstOrder DEF W
      <4>5. CASE last.parents = BagAdd(SetToBag(W), LegOrder(w, "in", q, B, 0))
        <5>1. LegOrder(w, "in", q, B, 0) \notin W /\ W \union {LegOrder(w, "in", q, B, 0)} = AtWork(w, "in", q, None, Leg)
          BY BothOrders DEF W
        <5>2. BagAdd(SetToBag(W), LegOrder(w, "in", q, B, 0)) = SetToBag(AtWork(w, "in", q, None, Leg))
          BY <5>1, SetBagAdd
        <5>3. Stands(group', parents', w, q, Leg)
          BY <1>1, <1>3, <4>3, <4>5, <5>2 DEF Stands
        <5> QED BY <5>3
      <4>6. CASE last.parents = BagAdd(SetToBag(W), LegOrder(w, "out", q, A, 0))
        <5>1. LegOrder(w, "out", q, A, 0) \notin W
          <6>1. LegOrder(w, "out", q, A, 0).reduce # LegOrder(w, "in", q, A, 0).reduce
            BY DEF LegOrder
          <6> QED BY <4>4, <6>1
        <5>2. BagAdd(SetToBag(W), LegOrder(w, "out", q, A, 0)) = SetToBag(W \union Unwinding(w, A, q))
          BY <5>1, SetBagAdd, UnwindingIs
        <5>3. Refused(group', parents', w, q, A)
          BY <1>1, <4>3, <4>6, <5>2 DEF Refused, W
        <5> QED BY <5>3
      <4> QED BY <4>2, <4>5, <4>6
    <3> QED BY <3>1, <3>2
  <2> QED BY <2>1, <2>2, <2>3, FirstLeg
<1> QED
  BY <1>4, <1>5

\* That leaves the account right.
LEMMA EntryAccounted ==
  ASSUME NEW w \in Way, NEW q \in 1 .. Size, NEW A \in Leg,
         \/ \E L \in SUBSET Leg : Stands(group', parents', w, q, L)
         \/ Refused(group', parents', w, q, A),
         \A l \in Leg : pos[l] = 0, pos' = pos, side' = 0,
         Awaits(awaited', w, "in"), awaited'.fills = 2, awaited'.first = "none"
  PROVE  Account'
<1>1. /\ None \in Lots /\ \A L \in SUBSET Leg : None \in Executed(q, L)
      /\ \A l \in Leg : None[l] = 0
  BY NoneExecuted
<1>2. \A L \in SUBSET Leg : Counted(awaited', None, L)
  BY <1>1 DEF Counted
<1>3. \A l \in Leg : Toward(w, l) \in Int /\ Toward(w, l) * 0 = 0
  BY Directions
<1>4. ASSUME NEW L \in SUBSET Leg, Stands(group', parents', w, q, L)
      PROVE  Account'
  <2>1. \A l \in Leg : pos'[l] = Toward(w, l) * None[l]
    BY <1>1, <1>3
  <2>2. Enters(side', awaited', group', parents', pos', w, q, L, None)
    BY <1>1, <1>2, <1>4, <2>1 DEF Enters, Stands
  <2>3. Entering'
    BY <1>1, <2>2 DEF Entering
  <2> QED BY <2>3 DEF Account
<1>5. ASSUME Refused(group', parents', w, q, A)
      PROVE  Account'
  <2>1. q \in 0 .. Size /\ q <= q /\ q - q = 0 /\ None[A] - (q - q) = 0 /\ q - q <= None[A]
    BY <1>1, DispatchAssumption
  <2>2. \A l \in Leg : pos'[l] = IF l = A THEN Toward(w, A) * (None[A] - (q - q)) ELSE 0
    BY <1>1, <1>3, <2>1
  <2>3. None \in Executed(q, {A}) /\ Counted(awaited', None, {A})
    BY <1>1, <1>2
  <2>4. Unwinds(side', awaited', group', parents', pos', w, q, A, None, q)
    BY <1>5, <2>1, <2>2, <2>3 DEF Unwinds, Refused
  <2>5. Alone'
    BY <1>1, <2>1, <2>4 DEF Alone
  <2> QED BY <2>5 DEF Account
<1> QED
  BY <1>4, <1>5

\* Nothing the account is about changes.
AccountKept == UNCHANGED <<side, awaited, group, parents, pos>>

LEMMA AccountStays ==
  ASSUME PairInv, AccountKept, astray' = astray
  PROVE  PairInv'
<1>1. side' = side /\ awaited' = awaited /\ group' = group /\ parents' = parents /\ pos' = pos
  BY DEF AccountKept
<1> QED
  BY <1>1 DEF PairInv, Account, AtRest, Entering, Alone, Leaving

\* It does not wait: the pair is at rest.
LEMMA NotWaiting ==
  ASSUME Account, awaited = Nothing
  PROVE  AtRest
<1>1. awaited.fills = 0
  BY DEF Nothing
<1>2. \A e, L : ~Counted(awaited, e, L)
  BY <1>1 DEF Counted
<1> QED
  BY <1>2 DEF Account, Entering, Alone, Leaving, Enters, Unwinds, Leaves

\* It starts to wait for both fills.
LEMMA AwaitsIn ==
  ASSUME NEW w \in Way, Await(w, FALSE)
  PROVE  Awaits(awaited', w, "in") /\ awaited'.fills = 2 /\ awaited'.first = "none"
<1>1. PICK z : z = FALSE
  OBVIOUS
<1>2. awaited' = [fills |-> 2, way |-> w, close |-> z, first |-> "none"] /\ z \in BOOLEAN
  BY <1>1 DEF Await
<1>3. awaited' \in Awaited /\ awaited'.way = w /\ awaited'.close = z
  BY <1>2 DEF Awaited
<1>4. z = ("in" = "out")
  BY <1>1
<1> QED
  BY <1>2, <1>3, <1>4 DEF Awaits

LEMMA AwaitsOut ==
  ASSUME NEW w \in Way, Await(w, TRUE)
  PROVE  Awaits(awaited', w, "out") /\ awaited'.fills = 2 /\ awaited'.first = "none"
<1>1. PICK z : z = TRUE
  OBVIOUS
<1>2. awaited' = [fills |-> 2, way |-> w, close |-> z, first |-> "none"] /\ z \in BOOLEAN
  BY <1>1 DEF Await
<1>3. awaited' \in Awaited /\ awaited'.way = w /\ awaited'.close = z
  BY <1>2 DEF Awaited
<1>4. z = ("out" = "out")
  BY <1>1
<1> QED
  BY <1>2, <1>3, <1>4 DEF Awaits

LEMMA EnterKeeps ==
  ASSUME PairInv, NEW w \in Way, TickEnters(w)
  PROVE  PairInv'
<1> SUFFICES ASSUME ~astray' PROVE Account'
  BY DEF PairInv
<1>1. /\ side = 0 /\ awaited = Nothing /\ Await(w, FALSE) /\ astray' = astray /\ side' = side /\ pos' = pos
      /\ Emit(IF w = 1 THEN <<"usdc", "usdt">> ELSE <<"usdt", "usdc">>, w, FALSE)
      /\ group = NoGroup
  BY DEF TickEnters, Beats
<1>2. AtRest
  BY <1>1, NotWaiting DEF PairInv
<1>3. parents = EmptyBag /\ \A l \in Leg : pos[l] = 0
  <2>1. 0 \notin Way
    BY DEF Way
  <2> QED BY <1>1, <1>2, <2>1 DEF AtRest, Rests
<1>4. PICK A \in Leg, B \in Leg :
        A # B /\ Emit(<<A, B>>, w, FALSE)
  <2>1. CASE w = 1
    BY <1>1, <2>1 DEF Leg
  <2>2. CASE w # 1
    BY <1>1, <2>2 DEF Leg
  <2> QED BY <2>1, <2>2
<1>5. Awaits(awaited', w, "in") /\ awaited'.fills = 2 /\ awaited'.first = "none"
  BY <1>1, AwaitsIn
<1>6. \/ \E q \in 1 .. Size : Advance(Submits(<<A, B>>, w, q), levered)
      \/ UNCHANGED <<group, parents>>
  BY <1>4 DEF Emit, DispatchGroup, PairQty, Submits
<1>7. CASE \E q \in 1 .. Size : Advance(Submits(<<A, B>>, w, q), levered)
  <2>1. PICK q \in 1 .. Size : Advance(Submits(<<A, B>>, w, q), levered)
    BY <1>7
  <2>2. \/ \E L \in SUBSET Leg : Stands(group', parents', w, q, L)
        \/ Refused(group', parents', w, q, A)
    BY <1>3, <1>4, <2>1, EntryAdvances
  <2> QED BY <1>1, <1>3, <1>5, <2>2, EntryAccounted
<1>8. CASE UNCHANGED <<group, parents>>
  <2>1. PICK q : q \in 1 .. Size
    BY DispatchAssumption
  <2>2. SetToBag(AtWork(w, "in", q, None, {})) = EmptyBag
    BY NoOrders, SetBagEmpty
  <2>3. Stands(group', parents', w, q, {})
    BY <1>1, <1>3, <1>8, <2>2 DEF Stands, Pending
  <2> QED BY <1>1, <1>3, <1>5, <2>1, <2>3, EntryAccounted
<1> QED
  BY <1>6, <1>7, <1>8

\* A group is at its await while an entry goes in only.
LEMMA AtAwait ==
  ASSUME Account, group # NoGroup
  PROVE  \E w \in Way, q \in 1 .. Size, L \in SUBSET Leg, e \in Lots :
           Enters(side, awaited, group, parents, pos, w, q, L, e)
BY DEF Account, AtRest, Entering, Alone, Leaving, Rests, Unwinds, Leaves

\* No leg was sent: nothing is executed.
LEMMA Unsent ==
  ASSUME NEW w \in Way, NEW q \in 1 .. Size, NEW e \in Lots,
         Enters(side, awaited, group, parents, pos, w, q, {}, e)
  PROVE  /\ parents = EmptyBag /\ \A l \in Leg : pos[l] = 0
         /\ side = 0 /\ Awaits(awaited, w, "in") /\ awaited.fills = 2 /\ awaited.first = "none"
<1>1. \A l \in Leg : e[l] = 0
  BY DEF Enters, Executed
<1>2. AtWork(w, "in", q, e, {}) = {}
  BY DEF AtWork
<1>3. parents = EmptyBag
  BY <1>2, SetBagEmpty DEF Enters
<1>4. \A l \in Leg : pos[l] = Toward(w, l) * 0 /\ Toward(w, l) \in Int
  BY <1>1, Directions DEF Enters
<1>5. \A l \in Leg : pos[l] = 0
  BY <1>4
<1> QED
  BY <1>3, <1>5 DEF Enters, Counted

LEMMA LeverageKeeps ==
  ASSUME PairInv, LeverageReturns
  PROVE  PairInv'
<1> SUFFICES ASSUME ~astray' PROVE Account'
  BY DEF PairInv
<1>1. /\ group # NoGroup /\ levered' = levered \union {Head(group.todo)} /\ Advance(group, levered')
      /\ pos' = pos /\ side' = side /\ awaited' = awaited
      /\ ~astray /\ ~GivenUp
  BY DEF LeverageReturns, LeverageSet
<1>2. PICK w \in Way, q \in 1 .. Size, L \in SUBSET Leg, e \in Lots :
        Enters(side, awaited, group, parents, pos, w, q, L, e)
  BY <1>1, AtAwait DEF PairInv
<1>3. PICK A \in Leg, B \in Leg :
        /\ A # B
        /\ \/ L = {} /\ group = Submits(<<A, B>>, w, q)
           \/ L = {A} /\ group = SubmitsSecond(A, B, w, q)
  BY <1>1, <1>2 DEF Enters, Pending
<1>4. CASE L = {} /\ group = Submits(<<A, B>>, w, q)
  <2>1. /\ parents = EmptyBag /\ \A l \in Leg : pos[l] = 0
        /\ side = 0 /\ Awaits(awaited, w, "in") /\ awaited.fills = 2 /\ awaited.first = "none"
    BY <1>2, <1>4, Unsent
  <2>2. \/ \E M \in SUBSET Leg : Stands(group', parents', w, q, M)
        \/ Refused(group', parents', w, q, A)
    BY <1>1, <1>3, <1>4, <2>1, EntryAdvances
  <2> QED BY <1>1, <2>1, <2>2, EntryAccounted
<1>5. CASE L = {A} /\ group = SubmitsSecond(A, B, w, q)
  <2> DEFINE g == SubmitsSecond(A, B, w, q)
  <2>1. Head(g.todo) = B /\ g.sent # <<>>
    BY DEF SubmitsSecond
  <2>2. ~Waits(g, levered')
    BY <1>1, <1>5, <2>1 DEF Waits
  <2>3. group' = SubmitLeg(g, parents).group /\ parents' = SubmitLeg(g, parents).parents
    <3>1. SubmitLeg(g, parents).group = NoGroup
      BY <1>3, SecondLeg
    <3> HIDE DEF g
    <3> QED BY <1>1, <1>5, <2>2, <3>1 DEF Advance, g
  <2>4. parents' # Compensated(g, parents)
    BY <1>1, <1>5, <2>1 DEF GivenUp
  <2>5. group' = NoGroup /\ parents' = BagAdd(parents, LegOrder(w, "in", q, B, 0))
    BY <1>3, <2>3, <2>4, SecondLeg
  <2>6. /\ side = 0 /\ Awaits(awaited, w, "in") /\ Counted(awaited, e, {A}) /\ e \in Executed(q, {A})
        /\ parents = SetToBag(AtWork(w, "in", q, e, {A}))
        /\ \A l \in Leg : pos[l] = Toward(w, l) * e[l]
    BY <1>2, <1>5 DEF Enters
  <2>7. e[B] = 0 /\ Leg = {A, B}
    BY <1>3, <2>6 DEF Executed, Leg
  <2>8. LegOrder(w, "in", q, B, 0) \notin AtWork(w, "in", q, e, {A})
    <3>1. \A x : LegOrder(w, "in", q, A, x).leg = A /\ LegOrder(w, "in", q, B, x).leg = B
      BY DEF LegOrder
    <3> QED BY <1>3, <3>1 DEF AtWork
  <2>9. AtWork(w, "in", q, e, Leg) = AtWork(w, "in", q, e, {A}) \union {LegOrder(w, "in", q, B, 0)}
    <3>1. 0 < q
      BY DispatchAssumption
    <3>2. {m \in Leg : e[m] < q} = {m \in {A} : e[m] < q} \union {B}
      BY <2>7, <3>1
    <3> QED BY <2>7, <3>2 DEF AtWork
  <2>10. parents' = SetToBag(AtWork(w, "in", q, e, Leg))
    BY <2>5, <2>6, <2>8, <2>9, SetBagAdd
  <2>11. Counted(awaited, e, Leg)
    BY <1>3, <2>6, <2>7 DEF Counted
  <2>12. e \in Executed(q, Leg)
    BY <2>6 DEF Executed
  <2>13. Enters(side', awaited', group', parents', pos', w, q, Leg, e)
    BY <1>1, <2>5, <2>6, <2>10, <2>11, <2>12 DEF Enters, Pending
  <2>14. Entering'
    BY <2>13 DEF Entering
  <2> QED BY <2>14 DEF Account
<1> QED
  BY <1>3, <1>4, <1>5

LEMMA RaiseKeeps ==
  ASSUME PairInv, LeverageRaises
  PROVE  PairInv'
<1> SUFFICES ASSUME ~astray' PROVE Account'
  BY DEF PairInv
<1>1. /\ group # NoGroup /\ group' = NoGroup /\ parents' = Compensated(group, parents)
      /\ pos' = pos /\ side' = side /\ awaited' = awaited
      /\ ~astray /\ ~GivenUp
  BY DEF LeverageRaises, LeverageFails
<1>2. PICK w \in Way, q \in 1 .. Size, L \in SUBSET Leg, e \in Lots :
        Enters(side, awaited, group, parents, pos, w, q, L, e)
  BY <1>1, AtAwait DEF PairInv
<1>3. PICK A \in Leg, B \in Leg :
        /\ A # B
        /\ \/ L = {} /\ group = Submits(<<A, B>>, w, q)
           \/ L = {A} /\ group = SubmitsSecond(A, B, w, q)
  BY <1>1, <1>2 DEF Enters, Pending
<1>4. group.sent = <<>>
  BY <1>1 DEF GivenUp
<1>5. L = {}
  BY <1>3, <1>4 DEF SubmitsSecond
<1>6. /\ parents = EmptyBag /\ \A l \in Leg : pos[l] = 0
      /\ side = 0 /\ Awaits(awaited, w, "in") /\ awaited.fills = 2 /\ awaited.first = "none"
  BY <1>2, <1>5, Unsent
<1>7. parents' = EmptyBag
  BY <1>1, <1>4, <1>6 DEF Compensated
<1>8. SetToBag(AtWork(w, "in", q, None, {})) = EmptyBag
  BY NoOrders, SetBagEmpty
<1>9. Stands(group', parents', w, q, {})
  BY <1>1, <1>7, <1>8 DEF Stands, Pending
<1> QED
  BY <1>1, <1>6, <1>9, EntryAccounted

LEMMA TimeoutKeeps ==
  ASSUME PairInv, TickTimesOut
  PROVE  PairInv'
<1> SUFFICES ASSUME ~astray' PROVE Account'
  BY DEF PairInv
<1>1. /\ group = NoGroup /\ parents = EmptyBag /\ awaited.fills # 1 /\ ~astray
      /\ awaited' = Nothing /\ group' = group /\ parents' = parents /\ pos' = pos /\ side' = side
      /\ awaited.fills = 2 \/ awaited.close
  BY DEF TickTimesOut, Beats, Abandon, dispatchVars
<1>2. \A l \in Leg : Toward(side, l) \in Int \/ side \notin Way
  BY Directions
<1>3. CASE AtRest
  <2>1. awaited.fills = 0 /\ ~awaited.close
    BY <1>3 DEF AtRest, Rests, Nothing
  <2> QED BY <1>1, <2>1
<1>4. CASE Entering
  <2>1. PICK w \in Way, q \in 1 .. Size, L \in SUBSET Leg, e \in Lots :
          Enters(side, awaited, group, parents, pos, w, q, L, e)
    BY <1>4 DEF Entering
  <2>2. \A l \in Leg : e[l] = 0
    BY <1>1, <2>1 DEF Enters, Counted, Executed
  <2>3. \A l \in Leg : pos[l] = Toward(w, l) * 0 /\ Toward(w, l) \in Int
    BY <2>1, <2>2, Directions DEF Enters
  <2>4. \A l \in Leg : pos[l] = 0
    BY <2>3
  <2>5. Rests(side', awaited', group', parents', pos')
    BY <1>1, <2>1, <2>4 DEF Rests, Enters
  <2> QED BY <2>5 DEF Account, AtRest
<1>5. CASE Alone
  <2>1. PICK w \in Way, q \in 1 .. Size, A \in Leg, e \in Lots, left \in 0 .. Size :
          Unwinds(side, awaited, group, parents, pos, w, q, A, e, left)
    BY <1>5 DEF Alone
  <2>2. e[A] = 0
    BY <1>1, <2>1 DEF Unwinds, Counted
  <2>3. left = q
    BY <2>1, <2>2, DispatchAssumption DEF Unwinds
  <2>4. Unwinding(w, A, left) # {}
    BY <2>3, UnwindingIs
  <2>5. parents # EmptyBag
    BY <2>1, <2>4, SetBagEmpty DEF Unwinds
  <2> QED BY <1>1, <2>5
<1>6. CASE Leaving
  <2>1. PICK w \in Way, q \in 1 .. Size, L \in {{}, Leg}, e \in Lots :
          Leaves(side, awaited, group, parents, pos, w, q, L, e)
    BY <1>6 DEF Leaving
  <2>2. \A l \in Leg : e[l] = 0
    BY <1>1, <2>1 DEF Leaves, Counted, Executed
  <2>3. \A l \in Leg : pos[l] = Toward(w, l) * (q - 0) /\ q - 0 = q
    BY <2>1, <2>2, DispatchAssumption DEF Leaves
  <2>4. side' = w /\ \A l \in Leg : pos'[l] = Toward(w, l) * q
    BY <1>1, <2>1, <2>3 DEF Leaves
  <2>5. Rests(side', awaited', group', parents', pos')
    BY <1>1, <2>4 DEF Rests
  <2> QED BY <2>5 DEF Account, AtRest
<1> QED
  BY <1>1, <1>3, <1>4, <1>5, <1>6 DEF PairInv, Account

LEMMA AbortKeeps ==
  ASSUME PairInv, TickAborts
  PROVE  PairInv'
<1>1. awaited.fills = 1 /\ astray' = (astray \/ parents # EmptyBag \/ awaited.fills = 1)
  BY DEF TickAborts, Abandon
<1> QED
  BY <1>1 DEF PairInv

\* Both legs of an exit are taken at once: nothing is asked of the gate.
Closes(A, B, w, q) == [todo |-> <<A, B>>, sent |-> <<>>, way |-> -w, qty |-> q, close |-> TRUE]
ClosesSecond(A, B, w, q) == [todo |-> <<B>>, sent |-> <<A>>, way |-> -w, qty |-> q, close |-> TRUE]

LEMMA ExitAdvances ==
  ASSUME NEW w \in Way, NEW q \in 1 .. Size, NEW A \in Leg, NEW B \in Leg, A # B, NEW lev,
         parents = EmptyBag, Advance(Closes(A, B, w, q), lev)
  PROVE  group' = NoGroup /\ parents' = SetToBag(AtWork(w, "out", q, None, Leg))
<1> DEFINE g == Closes(A, B, w, q)
           h == ClosesSecond(A, B, w, q)
           x == LegOrder(w, "out", q, A, 0)
           y == LegOrder(w, "out", q, B, 0)
<1>1. /\ Head(g.todo) = A /\ Tail(g.todo) = <<B>> /\ g.way = -w /\ g.qty = q /\ g.close = TRUE
      /\ Head(h.todo) = B /\ Tail(h.todo) = <<>> /\ h.way = -w /\ h.qty = q /\ h.close = TRUE
      /\ g # NoGroup /\ h # NoGroup /\ <<B>> # <<>>
  BY DEF Closes, ClosesSecond, NoGroup
<1>2. [g EXCEPT !.todo = Tail(@), !.sent = Append(@, A)] = h
  <2>1. PICK t, u, v, k, z, o : t = <<A, B>> /\ u = <<>> /\ v = <<B>> /\ k = <<A>> /\ z = TRUE /\ o = -w
    OBVIOUS
  <2>2. Tail(t) = v /\ Append(u, A) = k
    BY <2>1
  <2>3. g = [todo |-> t, sent |-> u, way |-> o, qty |-> q, close |-> z]
    BY <2>1 DEF Closes
  <2>4. h = [todo |-> v, sent |-> k, way |-> o, qty |-> q, close |-> z]
    BY <2>1 DEF ClosesSecond
  <2> HIDE DEF g, h
  <2>5. g.todo = t /\ g.sent = u
    BY <2>3
  <2>6. [[g EXCEPT !.todo = v] EXCEPT !.sent = k]
          = [todo |-> v, sent |-> k, way |-> o, qty |-> q, close |-> z]
    <3>1. PICK r : r = [g EXCEPT !.todo = v]
      OBVIOUS
    <3>2. r = [todo |-> v, sent |-> u, way |-> o, qty |-> q, close |-> z]
      BY <2>3, <3>1
    <3>3. [r EXCEPT !.sent = k] = [todo |-> v, sent |-> k, way |-> o, qty |-> q, close |-> z]
      BY <3>2
    <3> QED BY <3>1, <3>3
  <2> QED BY <2>2, <2>4, <2>5, <2>6
<1>3. Toward(-w, A) = -Toward(w, A) /\ Toward(-w, B) = -Toward(w, B)
  BY Directions
<1> HIDE DEF g, h
<1>4. SubmitLeg(g, parents) = [group |-> h, parents |-> BagAdd(parents, x)]
  <2>1. PICK k, z : k = Open(parents, A, -Toward(w, A), q, z) /\ z = TRUE
    OBVIOUS
  <2>2. SubmitLeg(g, parents) = [group |-> h, parents |-> k]
    BY <1>1, <1>2, <1>3, <2>1 DEF SubmitLeg
  <2>3. k = BagAdd(parents, x)
    BY <2>1, OpensOut
  <2> QED BY <2>2, <2>3
<1>5. \A b : SubmitLeg(h, b) = [group |-> NoGroup, parents |-> BagAdd(b, y)]
  <2> TAKE b
  <2>1. PICK k, z : k = Open(b, B, -Toward(w, B), q, z) /\ z = TRUE
    OBVIOUS
  <2>2. SubmitLeg(h, b) = [group |-> NoGroup, parents |-> k]
    BY <1>1, <1>3, <2>1 DEF SubmitLeg
  <2>3. k = BagAdd(b, y)
    BY <2>1, OpensOut
  <2> QED BY <2>2, <2>3
<1>6. ~Waits(g, lev) /\ ~Waits(h, lev)
  BY <1>1 DEF Waits
<1> HIDE DEF x, y
<1>7. group' = NoGroup /\ parents' = BagAdd(BagAdd(EmptyBag, x), y)
  <2>1. SubmitLeg(g, parents).group = h /\ SubmitLeg(g, parents).parents = BagAdd(EmptyBag, x)
    BY <1>4
  <2>2. group' = SubmitLeg(h, BagAdd(EmptyBag, x)).group /\ parents' = SubmitLeg(h, BagAdd(EmptyBag, x)).parents
    BY <1>1, <1>6, <2>1 DEF Advance, g
  <2>3. SubmitLeg(h, BagAdd(EmptyBag, x)) = [group |-> NoGroup, parents |-> BagAdd(BagAdd(EmptyBag, x), y)]
    BY <1>5
  <2> QED BY <2>2, <2>3
<1>8. BagAdd(EmptyBag, x) = SetToBag({x})
  <2>1. EmptyBag = SetToBag({})
    BY SetBagEmpty
  <2>2. BagAdd(SetToBag({}), x) = SetToBag({} \union {x})
    BY SetBagAdd
  <2> QED BY <2>1, <2>2
<1>9. {x} = AtWork(w, "out", q, None, {A})
  BY FirstOrder DEF x
<1>10. y \notin {x} /\ {x} \union {y} = AtWork(w, "out", q, None, Leg)
  BY <1>9, BothOrders DEF y
<1>11. BagAdd(SetToBag({x}), y) = SetToBag({x} \union {y})
  BY <1>10, SetBagAdd
<1> QED
  BY <1>7, <1>8, <1>10, <1>11

\* The quantity of an exit is that of the position.
LEMMA WholeExit ==
  ASSUME NEW w \in Way, NEW h \in 1 .. Size, \A l \in Leg : pos[l] = Toward(w, l) * h,
         NEW q \in PairQty(TRUE)
  PROVE  q = h
<1> DEFINE P(z) == /\ \A l \in Leg : pos[l] # 0 => z <= Abs(pos[l])
                   /\ z = Size \/ \E l \in Leg : pos[l] # 0 /\ z = Abs(pos[l])
<1>1. q = CHOOSE z \in 1 .. Size : P(z)
  BY DEF PairQty
<1>2. \A l \in Leg : pos[l] # 0 /\ Abs(pos[l]) = h
  <2> TAKE l \in Leg
  <2>1. PICK d : d = Toward(w, l)
    OBVIOUS
  <2>2. d \in {-1, 1} /\ pos[l] = d * h
    BY <2>1, Directions
  <2> QED BY <2>2, DispatchAssumption DEF Abs
<1>3. \A z \in 1 .. Size : P(z) <=> z <= h /\ (z = Size \/ z = h)
  BY <1>2, Directions
<1>4. P(h)
  BY <1>3, DispatchAssumption
<1>5. q \in 1 .. Size /\ P(q)
  <2> HIDE DEF P
  <2> QED BY <1>1, <1>4
<1> QED
  BY <1>3, <1>5, DispatchAssumption

LEMMA ExitKeeps ==
  ASSUME PairInv, TickExits
  PROVE  PairInv'
<1> SUFFICES ASSUME ~astray' PROVE Account'
  BY DEF PairInv
<1>1. /\ side # 0 /\ awaited = Nothing /\ Await(side, TRUE) /\ astray' = astray /\ side' = side /\ pos' = pos
      /\ Emit(<<"usdc", "usdt">>, -side, TRUE)
      /\ group = NoGroup
  BY DEF TickExits, Beats
<1>2. AtRest
  BY <1>1, NotWaiting DEF PairInv
<1>3. PICK w \in Way, h \in 1 .. Size : side = w /\ \A l \in Leg : pos[l] = Toward(w, l) * h
  BY <1>1, <1>2 DEF AtRest, Rests
<1>4. parents = EmptyBag
  BY <1>2 DEF AtRest, Rests
<1>5. Awaits(awaited', w, "out") /\ awaited'.fills = 2 /\ awaited'.first = "none"
  BY <1>1, <1>3, AwaitsOut
<1>6. /\ None \in Lots /\ \A L \in SUBSET Leg : None \in Executed(h, L)
      /\ \A l \in Leg : None[l] = 0
  BY NoneExecuted
<1>7. \A l \in Leg : pos'[l] = Toward(w, l) * (h - None[l])
  <2>1. \A l \in Leg : h - None[l] = h
    BY <1>6, DispatchAssumption
  <2> QED BY <1>1, <1>3, <2>1
<1>8. \E L \in {{}, Leg} : group' = NoGroup /\ parents' = SetToBag(AtWork(w, "out", h, None, L))
  <2>1. \/ \E q \in PairQty(TRUE) : Advance(Closes("usdc", "usdt", w, q), levered)
        \/ UNCHANGED <<group, parents>>
    BY <1>1, <1>3 DEF Emit, DispatchGroup, Closes
  <2>2. CASE \E q \in PairQty(TRUE) : Advance(Closes("usdc", "usdt", w, q), levered)
    <3>1. PICK q \in PairQty(TRUE) : Advance(Closes("usdc", "usdt", w, q), levered)
      BY <2>2
    <3>2. q = h
      BY <1>3, WholeExit
    <3>3. "usdc" \in Leg /\ "usdt" \in Leg /\ "usdc" # "usdt"
      BY DEF Leg
    <3>4. Advance(Closes("usdc", "usdt", w, h), levered)
      BY <3>1, <3>2
    <3> QED BY <1>4, <3>3, <3>4, ExitAdvances
  <2>3. CASE UNCHANGED <<group, parents>>
    <3>1. SetToBag(AtWork(w, "out", h, None, {})) = EmptyBag
      BY NoOrders, SetBagEmpty
    <3> QED BY <1>1, <1>4, <2>3, <3>1
  <2> QED BY <2>1, <2>2, <2>3
<1>9. PICK L \in {{}, Leg} : group' = NoGroup /\ parents' = SetToBag(AtWork(w, "out", h, None, L))
  BY <1>8
<1>10. Counted(awaited', None, L)
  BY <1>5, <1>6 DEF Counted
<1>11. Leaves(side', awaited', group', parents', pos', w, h, L, None)
  BY <1>1, <1>3, <1>5, <1>6, <1>7, <1>9, <1>10 DEF Leaves
<1>12. Leaving'
  BY <1>6, <1>11 DEF Leaving
<1> QED
  BY <1>12 DEF Account

-----------------------------------------------------------------------------
PairIInv == DOMAIN pos = Leg /\ PairInv

LEMMA PairInitially == InitPairs => PairIInv
<1> SUFFICES ASSUME InitPairs PROVE PairIInv
  OBVIOUS
<1>1. Rests(side, awaited, group, parents, pos)
  BY DEF InitPairs, InitDispatch, Rests
<1> QED
  BY <1>1 DEF InitPairs, InitDispatch, PairIInv, PairInv, Account, AtRest

LEMMA PairSteps == PairIInv /\ [NextPairs]_tradingVars => PairIInv'
<1> SUFFICES ASSUME PairIInv, [NextPairs]_tradingVars PROVE PairIInv'
  OBVIOUS
<1> USE DEF PairIInv
<1>1. ASSUME NEW w \in Way, TickEnters(w) PROVE PairIInv'
  BY <1>1, EnterKeeps DEF TickEnters
<1>2. CASE TickExits
  BY <1>2, ExitKeeps DEF TickExits
<1>3. CASE TickAborts
  BY <1>3, AbortKeeps DEF TickAborts
<1>4. CASE TickTimesOut
  BY <1>4, TimeoutKeeps DEF TickTimesOut, dispatchVars
<1>5. ASSUME NEW p \in BagToSet(parents), ParentEnds(p) PROVE PairIInv'
  BY <1>5 DEF ParentEnds, PairInv
<1>6. ASSUME NEW p \in BagToSet(parents), NEW n \in 1 .. Size, Fill(p, n) PROVE PairIInv'
  <2>1. DOMAIN pos' = DOMAIN pos
    BY <1>6 DEF Fill, Execute
  <2> QED BY <1>6, <2>1, FillKeeps
<1>7. CASE LeverageReturns
  BY <1>7, LeverageKeeps DEF LeverageReturns, LeverageSet
<1>8. CASE LeverageRaises
  BY <1>8, RaiseKeeps DEF LeverageRaises, LeverageFails
<1>9. CASE Forget
  BY <1>9 DEF Forget, PairInv, dispatchVars
<1>10. CASE Around
  BY <1>10, AccountStays DEF Around, Elsewhere, AccountKept, pairVars
<1>11. CASE TimePasses
  BY <1>11, AccountStays DEF TimePasses, AccountKept, dispatchVars
<1>12. CASE UNCHANGED tradingVars
  BY <1>12, AccountStays DEF tradingVars, AccountKept, dispatchVars, pairVars
<1> QED
  BY <1>1, <1>2, <1>3, <1>4, <1>5, <1>6, <1>7, <1>8, <1>9, <1>10, <1>11, <1>12 DEF NextPairs

LEMMA AccountTells == PairIInv => BeliefHolds
<1> SUFFICES ASSUME PairIInv, Quiet, ~astray
    PROVE  /\ pos["usdt"] = -pos["usdc"]
           /\ side = 0 <=> pos["usdt"] = 0
           /\ side * pos["usdt"] >= 0
  BY DEF BeliefHolds
<1>1. AtRest
  BY NotWaiting DEF PairIInv, PairInv, Quiet
<1>2. "usdt" \in Leg /\ "usdc" \in Leg
  BY DEF Leg
<1>3. CASE side = 0 /\ \A l \in Leg : pos[l] = 0
  BY <1>2, <1>3
<1>4. CASE side \in Way /\ \E h \in 1 .. Size : \A l \in Leg : pos[l] = Toward(side, l) * h
  <2>1. PICK h \in 1 .. Size : \A l \in Leg : pos[l] = Toward(side, l) * h
    BY <1>4
  <2>2. pos["usdt"] = side * h /\ pos["usdc"] = (-side) * h
    BY <1>2, <2>1 DEF Toward
  <2>3. side \in {-1, 1} /\ h \in Nat \ {0}
    BY <1>4, DispatchAssumption DEF Way
  <2> QED BY <2>2, <2>3
<1> QED
  BY <1>1, <1>3, <1>4 DEF AtRest, Rests

\* At rest, and unless something has happened that may mislead it, the pair knows its
\* position and its legs hedge each other, for any number of lots, parents and legs at work.
THEOREM BeliefIsRight == SpecPairs => []BeliefHolds
<1>1. InitPairs => PairIInv
  BY PairInitially
<1>2. PairIInv /\ [NextPairs]_tradingVars => PairIInv'
  BY PairSteps
<1>3. PairIInv => BeliefHolds
  BY AccountTells
<1> QED
  BY <1>1, <1>2, <1>3, PTL DEF SpecPairs

-----------------------------------------------------------------------------
(* Numbers of parents. *)

\* A bag of finitely many parents.
Parents(b) ==
  /\ IsFiniteSet(Copies(b))
  /\ \A p \in DOMAIN b : b[p] \in Nat \ {0} /\ p.reduce \in BOOLEAN

LEMMA CopyIs ==
  ASSUME NEW b, NEW c
  PROVE  c \in Copies(b) <=> \E p \in DOMAIN b : \E k \in 1 .. b[p] : c = <<p, k>>
<1>1. c \in Copies(b) <=> \E p \in DOMAIN b : c \in {p} \X (1 .. b[p])
  BY DEF Copies, BagToSet
<1>2. \A p, S : c \in {p} \X S <=> \E k \in S : c = <<p, k>>
  OBVIOUS
<1> QED
  BY <1>1, <1>2

\* The parents that can only have been entries are those of their copies.
LEMMA EntryCopies ==
  ASSUME NEW b
  PROVE  Copies(Entries(b)) = {c \in Copies(b) : ~c[1].reduce}
<1> DEFINE E == Entries(b)
<1>1. DOMAIN E = {q \in DOMAIN b : ~q.reduce} /\ \A p \in DOMAIN E : E[p] = b[p]
  BY DEF Entries, BagToSet
<1> HIDE DEF E
<1>2. ASSUME NEW c \in Copies(E) PROVE c \in Copies(b) /\ ~c[1].reduce
  <2>1. PICK p, k : p \in DOMAIN E /\ k \in 1 .. E[p] /\ c = <<p, k>>
    BY CopyIs
  <2>2. p \in DOMAIN b /\ k \in 1 .. b[p] /\ ~p.reduce /\ c[1] = p
    BY <1>1, <2>1
  <2> QED BY <2>1, <2>2, CopyIs
<1>3. ASSUME NEW c \in Copies(b), ~c[1].reduce PROVE c \in Copies(E)
  <2>1. PICK p, k : p \in DOMAIN b /\ k \in 1 .. b[p] /\ c = <<p, k>>
    BY CopyIs
  <2>2. c[1] = p
    BY <2>1
  <2>3. p \in DOMAIN E /\ k \in 1 .. E[p]
    BY <1>1, <1>3, <2>1, <2>2
  <2> QED BY <2>1, <2>3, CopyIs
<1> QED
  BY <1>2, <1>3 DEF E

\* One parent more is one copy more.
LEMMA CopyAdded ==
  ASSUME NEW b, Parents(b), NEW x
  PROVE  \E k : <<x, k>> \notin Copies(b) /\ Copies(BagAdd(b, x)) = Copies(b) \union {<<x, k>>}
<1> DEFINE a == BagAdd(b, x)
           k == IF x \in DOMAIN b THEN b[x] + 1 ELSE 1
<1>1. DOMAIN a = DOMAIN b \union {x} /\ a[x] = k /\ \A p \in DOMAIN b : p # x => a[p] = b[p]
  BY DEF BagAdd
<1>2. \A p \in DOMAIN b : b[p] \in Nat \ {0}
  BY DEF Parents
<1>3. k \in Nat /\ k > 0 /\ \A i : i \in 1 .. k <=> i = k \/ (x \in DOMAIN b /\ i \in 1 .. b[x])
  BY <1>2
<1> HIDE DEF a, k
<1>4. <<x, k>> \notin Copies(b)
  <2> SUFFICES ASSUME <<x, k>> \in Copies(b) PROVE FALSE
    OBVIOUS
  <2>1. PICK p, i : p \in DOMAIN b /\ i \in 1 .. b[p] /\ <<x, k>> = <<p, i>>
    BY CopyIs
  <2>2. x \in DOMAIN b /\ k \in 1 .. b[x]
    BY <2>1
  <2> QED BY <1>2, <2>2 DEF k
<1>5. ASSUME NEW c \in Copies(a) PROVE c \in Copies(b) \union {<<x, k>>}
  <2>1. PICK p, i : p \in DOMAIN a /\ i \in 1 .. a[p] /\ c = <<p, i>>
    BY CopyIs
  <2>2. CASE p = x
    <3>1. i = k \/ (x \in DOMAIN b /\ i \in 1 .. b[x])
      BY <1>1, <1>3, <2>1, <2>2
    <3> QED BY <2>1, <2>2, <3>1, CopyIs
  <2>3. CASE p # x
    <3>1. p \in DOMAIN b /\ i \in 1 .. b[p]
      BY <1>1, <2>1, <2>3
    <3> QED BY <2>1, <3>1, CopyIs
  <2> QED BY <2>2, <2>3
<1>6. ASSUME NEW c \in Copies(b) \union {<<x, k>>} PROVE c \in Copies(a)
  <2>1. CASE c = <<x, k>>
    <3>1. x \in DOMAIN a /\ k \in 1 .. a[x]
      BY <1>1, <1>3
    <3> QED BY <2>1, <3>1, CopyIs
  <2>2. CASE c \in Copies(b)
    <3>1. PICK p, i : p \in DOMAIN b /\ i \in 1 .. b[p] /\ c = <<p, i>>
      BY <2>2, CopyIs
    <3>2. p \in DOMAIN a /\ i \in 1 .. a[p]
      BY <1>1, <1>3, <3>1
    <3> QED BY <3>1, <3>2, CopyIs
  <2> QED BY <2>1, <2>2
<1>7. Copies(a) = Copies(b) \union {<<x, k>>}
  BY <1>5, <1>6
<1> QED
  BY <1>4, <1>7 DEF a

\* One less is one less.
LEMMA CopyRemoved ==
  ASSUME NEW b, Parents(b), NEW x \in DOMAIN b
  PROVE  <<x, b[x]>> \in Copies(b) /\ Copies(BagRemove(b, x)) = Copies(b) \ {<<x, b[x]>>}
<1> DEFINE a == BagRemove(b, x)
<1>1. \A p \in DOMAIN b : b[p] \in Nat \ {0}
  BY DEF Parents
<1>2. /\ DOMAIN a = IF b[x] = 1 THEN DOMAIN b \ {x} ELSE DOMAIN b
      /\ b[x] # 1 => a[x] = b[x] - 1
      /\ \A p \in DOMAIN b : p # x => a[p] = b[p]
  BY DEF BagRemove
<1> HIDE DEF a
<1>3. <<x, b[x]>> \in Copies(b)
  <2>1. b[x] \in 1 .. b[x]
    BY <1>1
  <2> QED BY <2>1, CopyIs
<1>4. ASSUME NEW c \in Copies(a) PROVE c \in Copies(b) /\ c # <<x, b[x]>>
  <2>1. PICK p, i : p \in DOMAIN a /\ i \in 1 .. a[p] /\ c = <<p, i>>
    BY CopyIs
  <2>2. CASE p = x
    <3>1. i \in 1 .. b[x] - 1
      BY <1>2, <2>1, <2>2
    <3>2. i \in 1 .. b[x] /\ i # b[x]
      BY <1>1, <3>1
    <3> QED BY <2>1, <2>2, <3>2, CopyIs
  <2>3. CASE p # x
    <3>1. p \in DOMAIN b /\ i \in 1 .. b[p]
      BY <1>2, <2>1, <2>3
    <3> QED BY <2>1, <2>3, <3>1, CopyIs
  <2> QED BY <2>2, <2>3
<1>5. ASSUME NEW c \in Copies(b), c # <<x, b[x]>> PROVE c \in Copies(a)
  <2>1. PICK p, i : p \in DOMAIN b /\ i \in 1 .. b[p] /\ c = <<p, i>>
    BY CopyIs
  <2>2. CASE p = x
    <3>1. i # b[x] /\ i \in 1 .. b[x] - 1 /\ b[x] # 1
      BY <1>1, <1>5, <2>1, <2>2
    <3>2. p \in DOMAIN a /\ i \in 1 .. a[p]
      BY <1>2, <2>2, <3>1
    <3> QED BY <2>1, <3>2, CopyIs
  <2>3. CASE p # x
    <3>1. p \in DOMAIN a /\ i \in 1 .. a[p]
      BY <1>2, <2>1, <2>3
    <3> QED BY <2>1, <3>1, CopyIs
  <2> QED BY <2>2, <2>3
<1> QED
  BY <1>3, <1>4, <1>5 DEF a

LEMMA ParentsNumbered ==
  ASSUME NEW b, Parents(b)
  PROVE  /\ Number(b) \in Nat /\ Number(Entries(b)) \in Nat
         /\ Number(Entries(b)) <= Number(b) /\ IsFiniteSet(Copies(Entries(b)))
<1>1. IsFiniteSet(Copies(b)) /\ Copies(Entries(b)) \subseteq Copies(b)
  BY EntryCopies DEF Parents
<1> QED
  BY <1>1, FS_Subset, FS_CardinalityType DEF Number

LEMMA ParentAdded ==
  ASSUME NEW b, Parents(b), NEW x, x.reduce \in BOOLEAN
  PROVE  /\ Parents(BagAdd(b, x))
         /\ Number(Entries(BagAdd(b, x))) = Number(Entries(b)) + (IF x.reduce THEN 0 ELSE 1)
<1>1. PICK k : <<x, k>> \notin Copies(b) /\ Copies(BagAdd(b, x)) = Copies(b) \union {<<x, k>>}
  BY CopyAdded
<1>2. Parents(BagAdd(b, x))
  <2>1. IsFiniteSet(Copies(BagAdd(b, x)))
    BY <1>1, FS_AddElement DEF Parents
  <2>2. \A p \in DOMAIN BagAdd(b, x) : BagAdd(b, x)[p] \in Nat \ {0} /\ p.reduce \in BOOLEAN
    BY DEF Parents, BagAdd
  <2> QED BY <2>1, <2>2 DEF Parents
<1>3. <<x, k>>[1] = x
  OBVIOUS
<1>4. Copies(Entries(BagAdd(b, x))) = Copies(Entries(b)) \union (IF x.reduce THEN {} ELSE {<<x, k>>})
  BY <1>1, <1>3, EntryCopies
<1>5. <<x, k>> \notin Copies(Entries(b)) /\ IsFiniteSet(Copies(Entries(b)))
  BY <1>1, EntryCopies, ParentsNumbered
<1>6. CASE x.reduce
  BY <1>2, <1>4, <1>6, ParentsNumbered DEF Number
<1>7. CASE ~x.reduce
  BY <1>2, <1>4, <1>5, <1>7, FS_AddElement DEF Number
<1> QED
  BY <1>6, <1>7

LEMMA ParentRemoved ==
  ASSUME NEW b, Parents(b), NEW x \in DOMAIN b
  PROVE  /\ Parents(BagRemove(b, x))
         /\ Number(Entries(BagRemove(b, x))) = Number(Entries(b)) - (IF x.reduce THEN 0 ELSE 1)
<1> DEFINE c == <<x, b[x]>>
<1>1. c \in Copies(b) /\ Copies(BagRemove(b, x)) = Copies(b) \ {c}
  BY CopyRemoved
<1>2. Parents(BagRemove(b, x))
  <2>1. IsFiniteSet(Copies(BagRemove(b, x)))
    BY <1>1, FS_RemoveElement DEF Parents
  <2>2. \A p \in DOMAIN BagRemove(b, x) : BagRemove(b, x)[p] \in Nat \ {0} /\ p.reduce \in BOOLEAN
    BY DEF Parents, BagRemove
  <2> QED BY <2>1, <2>2 DEF Parents
<1>3. c[1] = x
  OBVIOUS
<1> HIDE DEF c
<1>4. Copies(Entries(BagRemove(b, x))) = Copies(Entries(b)) \ (IF x.reduce THEN {} ELSE {c})
  BY <1>1, <1>3, EntryCopies
<1>5. (~x.reduce => c \in Copies(Entries(b))) /\ IsFiniteSet(Copies(Entries(b)))
  BY <1>1, <1>3, EntryCopies, ParentsNumbered
<1>6. CASE x.reduce
  BY <1>2, <1>4, <1>6, ParentsNumbered DEF Number
<1>7. CASE ~x.reduce
  BY <1>2, <1>4, <1>5, <1>7, FS_RemoveElement DEF Number
<1> QED
  BY <1>6, <1>7

-----------------------------------------------------------------------------
(* The cap on them. *)

Within(b) == Parents(b) /\ others + Number(Entries(b)) <= MaxParents
Closing(g) == g.close \in BOOLEAN

LEMMA OpenReduces ==
  ASSUME others \in Nat, NEW b, Within(b), NEW leg, NEW toward, NEW qty
  PROVE  Within(Open(b, leg, toward, qty, TRUE))
<1> DEFINE x == [leg |-> leg, toward |-> toward, left |-> qty, reduce |-> TRUE]
<1>1. x.reduce \in BOOLEAN
  OBVIOUS
<1>2. x.reduce
  OBVIOUS
<1>3. Open(b, leg, toward, qty, TRUE) = BagAdd(b, x)
  BY DEF Open
<1> HIDE DEF x
<1>4. Parents(b) /\ others + Number(Entries(b)) <= MaxParents
  BY DEF Within
<1>5. Parents(BagAdd(b, x)) /\ Number(Entries(BagAdd(b, x))) = Number(Entries(b))
  <2>1. /\ Parents(BagAdd(b, x))
        /\ Number(Entries(BagAdd(b, x))) = Number(Entries(b)) + (IF x.reduce THEN 0 ELSE 1)
    BY <1>1, <1>4, ParentAdded
  <2>2. Number(Entries(b)) \in Nat
    BY <1>4, ParentsNumbered
  <2>3. Number(Entries(BagAdd(b, x))) = Number(Entries(b)) + 0
    BY <1>2, <2>1
  <2> QED BY <2>1, <2>2, <2>3
<1> QED
  BY <1>4, <1>5, <1>3 DEF Within

LEMMA OpenAdds ==
  ASSUME others \in Nat, NEW b, Within(b), OpenCount(b) < MaxParents,
         NEW leg, NEW toward, NEW qty, NEW reduce \in BOOLEAN
  PROVE  Within(Open(b, leg, toward, qty, reduce))
<1> DEFINE x == [leg |-> leg, toward |-> toward, left |-> qty, reduce |-> reduce]
<1>1. x.reduce \in BOOLEAN
  OBVIOUS
<1>2. Open(b, leg, toward, qty, reduce) = BagAdd(b, x)
  BY DEF Open
<1> HIDE DEF x
<1>3. Parents(BagAdd(b, x)) /\ Number(Entries(BagAdd(b, x))) = Number(Entries(b)) + (IF x.reduce THEN 0 ELSE 1)
  BY <1>1, ParentAdded DEF Within
<1>4. Number(Entries(b)) \in Nat /\ Number(b) \in Nat /\ Number(Entries(b)) <= Number(b)
  BY ParentsNumbered DEF Within
<1> QED
  BY <1>2, <1>3, <1>4, DispatchAssumption DEF Within, OpenCount

LEMMA CompensatedWithin ==
  ASSUME others \in Nat, NEW b, Within(b), NEW g
  PROVE  Within(Compensated(g, b))
BY OpenReduces DEF Compensated

\* Each leg is checked against what the one before it has opened.
LEMMA SubmitLegWithin ==
  ASSUME others \in Nat, NEW b, Within(b), NEW g, Closing(g)
  PROVE  /\ Within(SubmitLeg(g, b).parents)
         /\ SubmitLeg(g, b).group = NoGroup \/ Closing(SubmitLeg(g, b).group)
<1> DEFINE leg == Head(g.todo)
           o == Open(b, leg, Toward(g.way, leg), g.qty, g.close)
           c == Compensated(g, b)
           n == IF Tail(g.todo) = <<>> THEN NoGroup
                ELSE [g EXCEPT !.todo = Tail(@), !.sent = Append(@, leg)]
<1>1. g.close \/ CanSubmit(leg, b) => Within(o)
  <2>1. CASE g.close
    <3>1. g.close = TRUE
      BY <2>1 DEF Closing
    <3> QED BY <3>1, OpenReduces
  <2>2. CASE CanSubmit(leg, b)
    BY <2>2, OpenAdds DEF CanSubmit, Closing
  <2> QED BY <2>1, <2>2
<1>2. Within(c)
  BY CompensatedWithin
<1>3. Closing(n)
  <2>1. \A t, u : [g EXCEPT !.todo = t, !.sent = u].close = g.close
    OBVIOUS
  <2>2. NoGroup.close = FALSE
    BY DEF NoGroup
  <2>3. n = NoGroup \/ n.close = g.close
    BY <2>1
  <2> HIDE DEF n
  <2> QED BY <2>2, <2>3 DEF Closing
<1>4. SubmitLeg(g, b) = IF g.close \/ CanSubmit(leg, b) THEN [group |-> n, parents |-> o]
                        ELSE [group |-> NoGroup, parents |-> c]
  BY DEF SubmitLeg
<1> HIDE DEF leg, o, c, n
<1> QED
  BY <1>1, <1>2, <1>3, <1>4

LEMMA AdvanceWithin ==
  ASSUME others \in Nat, Within(parents), NEW g, Closing(g), NEW lev, Advance(g, lev)
  PROVE  Within(parents') /\ Closing(group')
<1> DEFINE one == IF Waits(g, lev) THEN [group |-> g, parents |-> parents] ELSE SubmitLeg(g, parents)
           last == IF one.group = NoGroup \/ Waits(one.group, lev) THEN one
                   ELSE SubmitLeg(one.group, one.parents)
<1>1. group' = last.group /\ parents' = last.parents
  BY DEF Advance
<1>2. Closing(NoGroup)
  BY DEF Closing, NoGroup
<1>3. Within(one.parents) /\ Closing(one.group)
  BY <1>2, SubmitLegWithin
<1> HIDE DEF one
<1>4. Within(last.parents) /\ Closing(last.group)
  BY <1>2, <1>3, SubmitLegWithin
<1> QED
  BY <1>1, <1>4

CapInv ==
  /\ others \in Nat
  /\ Closing(group)
  /\ Within(parents)

LEMMA EmitWithin ==
  ASSUME CapInv, NEW todo, NEW way, NEW close \in BOOLEAN, Emit(todo, way, close)
  PROVE  Within(parents') /\ Closing(group')
<1>1. CASE UNCHANGED <<group, parents>>
  BY <1>1 DEF CapInv, Within
<1>2. ASSUME NEW q, Advance([todo |-> todo, sent |-> <<>>, way |-> way, qty |-> q, close |-> close], levered)
      PROVE  Within(parents') /\ Closing(group')
  <2> DEFINE g == [todo |-> todo, sent |-> <<>>, way |-> way, qty |-> q, close |-> close]
  <2>1. Closing(g) /\ Advance(g, levered)
    BY <1>2 DEF Closing
  <2> HIDE DEF g
  <2> QED BY <2>1, AdvanceWithin DEF CapInv
<1> QED
  BY <1>1, <1>2 DEF Emit, DispatchGroup

\* A parent that executes is replaced by what is left of it.
LEMMA ExecuteWithin ==
  ASSUME CapInv, NEW p \in BagToSet(parents), NEW n, Execute(p, n)
  PROVE  Within(parents')
<1> DEFINE rest == BagRemove(parents, p)
           x == [p EXCEPT !.left = @ - n]
<1>1. p \in DOMAIN parents /\ Parents(parents) /\ p.reduce \in BOOLEAN
  BY DEF CapInv, Within, Parents, BagToSet
<1>2. /\ Parents(rest)
      /\ Number(Entries(rest)) = Number(Entries(parents)) - (IF p.reduce THEN 0 ELSE 1)
  BY <1>1, ParentRemoved
<1>3. x.reduce = p.reduce
  OBVIOUS
<1>4. parents' = IF n < p.left THEN BagAdd(rest, x) ELSE rest
  BY DEF Execute
<1> HIDE DEF rest, x
<1>5. /\ Parents(BagAdd(rest, x))
      /\ Number(Entries(BagAdd(rest, x))) = Number(Entries(rest)) + (IF p.reduce THEN 0 ELSE 1)
  BY <1>1, <1>2, <1>3, ParentAdded
<1>6. Number(Entries(parents)) \in Nat /\ others + Number(Entries(parents)) <= MaxParents /\ others \in Nat
  BY <1>1, ParentsNumbered DEF CapInv, Within
<1> QED
  BY <1>2, <1>4, <1>5, <1>6, DispatchAssumption DEF Within

LEMMA EndsWithin ==
  ASSUME CapInv, NEW p \in BagToSet(parents), EndsShort(p)
  PROVE  Within(parents')
<1>1. p \in DOMAIN parents /\ Parents(parents)
  BY DEF CapInv, Within, BagToSet
<1>2. /\ Parents(parents')
      /\ Number(Entries(parents')) = Number(Entries(parents)) - (IF p.reduce THEN 0 ELSE 1)
  BY <1>1, ParentRemoved DEF EndsShort
<1>3. Number(Entries(parents)) \in Nat /\ others + Number(Entries(parents)) <= MaxParents /\ others \in Nat
  BY <1>1, ParentsNumbered DEF CapInv, Within
<1> QED
  BY <1>2, <1>3, DispatchAssumption DEF Within

LEMMA CapInitially == InitPairs => CapInv
<1> SUFFICES ASSUME InitPairs PROVE CapInv
  OBVIOUS
<1>1. parents = EmptyBag /\ others = 0 /\ group = NoGroup
  BY DEF InitPairs, InitDispatch
<1>2. DOMAIN parents = {} /\ Copies(parents) = {}
  BY <1>1 DEF EmptyBag, SetToBag, Copies, BagToSet
<1>3. Parents(parents)
  BY <1>2, FS_EmptySet DEF Parents
<1>4. Copies(Entries(parents)) = {}
  BY <1>2, EntryCopies
<1>5. Number(Entries(parents)) = 0
  BY <1>4, FS_EmptySet DEF Number
<1> QED
  BY <1>1, <1>3, <1>5, DispatchAssumption DEF CapInv, Within, Closing, NoGroup

LEMMA CapSteps == CapInv /\ [NextPairs]_tradingVars => CapInv'
<1> SUFFICES ASSUME CapInv, [NextPairs]_tradingVars PROVE CapInv'
  OBVIOUS
<1>0. ASSUME others' = others, Within(parents'), Closing(group') PROVE CapInv'
  BY <1>0 DEF CapInv, Within
<1>1. ASSUME NEW w \in Way, TickEnters(w) PROVE CapInv'
  BY <1>0, <1>1, EmitWithin DEF TickEnters
<1>2. CASE TickExits
  BY <1>0, <1>2, EmitWithin DEF TickExits
<1>3. CASE TickAborts
  <2>1. parents' = parents \/ \E leg, toward, qty : parents' = Open(parents, leg, toward, qty, TRUE)
    BY <1>3 DEF TickAborts, DispatchReduce
  <2>2. Within(parents')
    BY <2>1, OpenReduces DEF CapInv
  <2> QED BY <1>0, <1>3, <2>2 DEF TickAborts, CapInv
<1>4. CASE TickTimesOut
  BY <1>0, <1>4 DEF TickTimesOut, dispatchVars, CapInv
<1>5. ASSUME NEW p \in BagToSet(parents), ParentEnds(p) PROVE CapInv'
  BY <1>0, <1>5, EndsWithin DEF ParentEnds, CapInv
<1>6. ASSUME NEW p \in BagToSet(parents), NEW n \in 1 .. Size, Fill(p, n) PROVE CapInv'
  BY <1>0, <1>6, ExecuteWithin DEF Fill, CapInv
<1>7. CASE LeverageReturns
  BY <1>0, <1>7, AdvanceWithin DEF LeverageReturns, LeverageSet, CapInv
<1>8. CASE LeverageRaises
  <2>1. Within(parents')
    BY <1>8, CompensatedWithin DEF LeverageRaises, LeverageFails, CapInv
  <2> QED BY <1>0, <1>8, <2>1 DEF LeverageRaises, LeverageFails, Closing, NoGroup
<1>9. CASE Forget
  BY <1>0, <1>9 DEF Forget, dispatchVars, CapInv
<1>10. CASE Around
  <2>1. parents' = parents /\ group' = group
    BY <1>10 DEF Around, Elsewhere
  <2>2. \/ others' = others
        \/ others' = others + 1 /\ OpenCount(parents) < MaxParents
        \/ others > 0 /\ others' = others - 1
    BY <1>10 DEF Around, Elsewhere
  <2>3. Number(Entries(parents)) \in Nat /\ Number(parents) \in Nat /\ Number(Entries(parents)) <= Number(parents)
    BY ParentsNumbered DEF CapInv, Within
  <2> QED BY <2>1, <2>2, <2>3, DispatchAssumption DEF CapInv, Within, OpenCount
<1>11. CASE TimePasses
  BY <1>0, <1>11 DEF TimePasses, dispatchVars, CapInv
<1>12. CASE UNCHANGED tradingVars
  BY <1>0, <1>12 DEF tradingVars, dispatchVars, CapInv
<1> QED
  BY <1>1, <1>2, <1>3, <1>4, <1>5, <1>6, <1>7, <1>8, <1>9, <1>10, <1>11, <1>12 DEF NextPairs

\* Whatever the cap and however many parents other symbols have, entries do not overrun it:
\* the second leg of a group is checked against a count that has the first in it.
THEOREM CapHolds == SpecPairs => []GroupWithinCap
<1>1. InitPairs => CapInv
  BY CapInitially
<1>2. CapInv /\ [NextPairs]_tradingVars => CapInv'
  BY CapSteps
<1>3. CapInv => GroupWithinCap
  BY DEF CapInv, Within, GroupWithinCap
<1> QED
  BY <1>1, <1>2, <1>3, PTL DEF SpecPairs

=============================================================================
