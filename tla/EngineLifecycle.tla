-------------------------- MODULE EngineLifecycle --------------------------
(***************************************************************************)
(* The engine's lifecycle (backend/engine/core/engine.py): operator        *)
(* requests served by the API, the heartbeat that watches the breakers,    *)
(* and the one flatten task they share.  Each request and the heartbeat is *)
(* a coroutine; its program point names the await it is suspended at.      *)
(*                                                                         *)
(* Trading is reduced to what stopping and flattening must end: whether    *)
(* the venue holds a position (open) and whether an entry parent is alive  *)
(* (entry).                                                                *)
(***************************************************************************)
EXTENDS Naturals

CONSTANTS
  Request,     \* API requests that may be served at the same time
  Enabled,     \* setting breaker_enabled, for the MAJOR codes below
  Rounds,      \* setting flatten_rounds
  Trades,      \* whether a strategy is active
  ReadsFail,   \* whether the venue's answers may fail or lag
  ClosesMiss   \* whether closing orders may stay unfilled

ASSUME LifecycleAssumption ==
  /\ Enabled \subseteq {"consecutive_losses", "daily_loss", "reconcile_mismatch"}
  /\ Rounds \in Nat \ {0}
  /\ Trades \in BOOLEAN
  /\ ReadsFail \in BOOLEAN
  /\ ClosesMiss \in BOOLEAN

VARIABLES
  status,      \* EngineState.status
  clock,       \* the heartbeat task is alive
  at,          \* request -> where its handler is suspended
  job,         \* request -> which handler it is, and its was_running
  flagged,     \* _flatten_op_active
  task,        \* the flatten task: 0 none, 1 mass cancel, 1 + k its round k
  tick,        \* where the heartbeat is suspended
  seen,        \* the codes _maybe_flatten_for_breaker listed before it flattened
  done,        \* _latched_major_flatten_done
  active,      \* latched MAJOR codes of engine scope
  breach,      \* watched conditions that hold now
  entry,       \* a parent that adds exposure
  open,        \* the venue holds a position
  fresh        \* history: codes tripped since the last flatten began

reqVars == <<at, job, flagged>>
riskVars == <<active, breach, fresh>>
bookVars == <<entry, open>>
vars == <<status, clock, reqVars, task, tick, seen, done, riskVars, bookVars>>

Status == {"STOPPED", "STARTING", "RUNNING", "PAUSED"}
Kind == {"none", "start", "pause", "resume", "flatten", "stop", "halt", "trip"}
Job == [kind : Kind, was : BOOLEAN]
NoJob == [kind |-> "none", was |-> FALSE]
Point == {"idle", "lock", "starting", "aborting", "quotes", "sync", "look", "joined",
          "woken", "raised", "poll", "final", "resumed", "down"}
TickPoint == {"off", "sleep", "check", "flatten", "flattened", "trade", "dispatch"}
Code == Enabled \union {"operator_halt"}

\* The conditions the heartbeat evaluates.
Watched == Enabled \ {"reconcile_mismatch"}

TypeOK ==
  /\ status \in Status
  /\ clock \in BOOLEAN
  /\ at \in [Request -> Point]
  /\ job \in [Request -> Job]
  /\ flagged \in BOOLEAN
  /\ task \in 0 .. Rounds + 1
  /\ tick \in TickPoint
  /\ seen \subseteq Code /\ active \subseteq Code /\ fresh \subseteq Code
  /\ breach \subseteq Watched
  /\ done \in BOOLEAN /\ open \in BOOLEAN
  /\ entry \in {"none", "waiting", "resting"}

Init ==
  /\ status = "STOPPED"
  /\ clock = FALSE
  /\ at = [r \in Request |-> "idle"]
  /\ job = [r \in Request |-> NoJob]
  /\ flagged = FALSE
  /\ task = 0
  /\ tick = "off"
  /\ seen = {} /\ active = {} /\ fresh = {} /\ breach = {}
  /\ done = FALSE /\ open \in BOOLEAN
  /\ entry = "none"

-----------------------------------------------------------------------------
Halted == active # {}

\* What a read of the venue's positions may show.
ReadsOpen == IF ReadsFail THEN BOOLEAN ELSE {open}

Trip(codes) ==
  /\ active' = active \union codes
  /\ fresh' = fresh \union (codes \ active)

\* A handler goes on to its next await, or is answered.
Go(r, p) ==
  /\ at' = [at EXCEPT ![r] = p]
  /\ job' = IF p = "idle" THEN [job EXCEPT ![r] = NoJob] ELSE job

Serve(r, k, p) ==
  /\ at[r] = "idle"
  /\ at' = [at EXCEPT ![r] = p]
  /\ job' = [job EXCEPT ![r] = IF p = "idle" THEN NoJob ELSE [kind |-> k, was |-> status = "RUNNING"]]

InFlatten(r) == job[r].kind \in {"flatten", "stop"}

\* Mutated form of Beheaded: waiters are not cancelled with the task.
NobodyBeheaded(r) == FALSE

\* Cancelling the heartbeat while it awaits the flatten task cancels that task, and
\* every other request awaiting it is cancelled with it: a stop is cut short there and
\* only its flatten's cleanup runs.
Beheaded(r) == at[r] = "joined" /\ tick = "flatten"

KillClock(r, p) ==
  /\ clock' = FALSE
  /\ tick' = "off"
  /\ seen' = {}
  /\ task' = IF tick = "flatten" THEN 0 ELSE task
  /\ at' = [s \in Request |->
              IF s = r THEN p
              ELSE IF Beheaded(s) THEN (IF InFlatten(s) THEN "raised" ELSE "idle")
              ELSE at[s]]
  /\ job' = [s \in Request |->
               IF s = r \/ ~Beheaded(s) THEN job[s]
               ELSE IF InFlatten(s) THEN [job[s] EXCEPT !.kind = "flatten"] ELSE NoJob]

\* flatten(): join the task in flight or create it.
EnterFlatten ==
  IF task > 0 THEN UNCHANGED <<task, fresh>> ELSE task' = 1 /\ fresh' = {}

-----------------------------------------------------------------------------
\* POST /start: start a stopped engine, resume a paused one.
ServeStart(r) ==
  /\ \/ status = "STOPPED" /\ Serve(r, "start", "lock")
     \/ status = "PAUSED" /\ Serve(r, "start", "sync")
  /\ UNCHANGED <<status, clock, flagged, task, tick, seen, done, riskVars, bookVars>>

EnterStart(r) ==
  /\ at[r] = "lock"
  /\ \A s \in Request : at[s] \notin {"starting", "aborting"}
  /\ IF status \in {"RUNNING", "STARTING"}
       THEN Go(r, "idle") /\ UNCHANGED status
       ELSE Go(r, "starting") /\ status' = "STARTING"
  /\ UNCHANGED <<clock, flagged, task, tick, seen, done, riskVars, bookVars>>

StartDone(r) ==
  /\ at[r] = "starting"
  /\ Go(r, "idle")
  /\ status' = "RUNNING"
  /\ clock' = TRUE
  /\ tick' = IF clock THEN tick ELSE "sleep"
  /\ UNCHANGED <<flagged, task, seen, done, riskVars, bookVars>>

StartFails(r) ==
  /\ at[r] = "starting"
  /\ status' = "STOPPED"
  /\ KillClock(r, "aborting")
  /\ UNCHANGED <<flagged, done, riskVars, bookVars>>

AbortDone(r) ==
  /\ at[r] = "aborting"
  /\ Go(r, "idle")
  /\ UNCHANGED <<status, clock, flagged, task, tick, seen, done, riskVars, bookVars>>

ServePause(r) ==
  /\ status = "RUNNING"
  /\ Serve(r, "pause", "quotes")
  /\ UNCHANGED <<status, clock, flagged, task, tick, seen, done, riskVars, bookVars>>

\* pause() has cancelled the quotes: it sets PAUSED whatever the status has become.
QuotesCancelled(r) ==
  /\ at[r] = "quotes"
  /\ status' = "PAUSED"
  /\ IF InFlatten(r)
       THEN Go(r, "look") /\ flagged' = TRUE
       ELSE Go(r, "idle") /\ UNCHANGED flagged
  /\ UNCHANGED <<clock, task, tick, seen, done, riskVars, bookVars>>

ServeResume(r) ==
  /\ status = "PAUSED"
  /\ Serve(r, "resume", "sync")
  /\ UNCHANGED <<status, clock, flagged, task, tick, seen, done, riskVars, bookVars>>

\* resume() has synced the book, or a flatten gave up on that: RUNNING either way.
ResumeDone(r) ==
  /\ at[r] = "sync"
  /\ status' = "RUNNING"
  /\ Go(r, IF InFlatten(r) THEN "resumed" ELSE "idle")
  /\ UNCHANGED <<clock, flagged, task, tick, seen, done, riskVars, bookVars>>

-----------------------------------------------------------------------------
\* _flatten_and_wait_for_flat: POST /flatten, and the first half of a stop.
BeginFlatten(r, k) ==
  IF status = "RUNNING"
    THEN Serve(r, k, "quotes") /\ UNCHANGED flagged
    ELSE Serve(r, k, "look") /\ flagged' = TRUE

ServeFlatten(r) ==
  /\ BeginFlatten(r, "flatten")
  /\ UNCHANGED <<status, clock, task, tick, seen, done, riskVars, bookVars>>

\* The finally clause.
Leave(r) == Go(r, "final") /\ flagged' = FALSE

\* Nothing seen open: skip the flatten.  Otherwise flatten() under the wait.
Look(r) ==
  /\ at[r] = "look"
  /\ \/ /\ FALSE \in ReadsOpen
        /\ Leave(r)
        /\ UNCHANGED <<task, fresh>>
     \/ /\ TRUE \in ReadsOpen
        /\ Go(r, "joined")
        /\ EnterFlatten
        /\ UNCHANGED flagged
  /\ UNCHANGED <<status, clock, tick, seen, done, active, breach, bookVars>>

FlattenRaised(r) ==
  /\ at[r] = "raised"
  /\ Leave(r)
  /\ UNCHANGED <<status, clock, task, tick, seen, done, riskVars, bookVars>>

\* The poll ends when the venue looks flat or at the deadline; until then it closes
\* what it sees.
PollEnds(r) ==
  /\ at[r] = "poll"
  /\ FALSE \in ReadsOpen \/ ClosesMiss
  /\ Leave(r)
  /\ UNCHANGED <<status, clock, task, tick, seen, done, riskVars, bookVars>>

PollCloses(r) ==
  /\ at[r] = "poll"
  /\ TRUE \in ReadsOpen
  /\ open' = FALSE
  /\ UNCHANGED <<status, clock, reqVars, task, tick, seen, done, riskVars, entry>>

\* What follows the flatten: a request to flatten is answered, a stop goes on to cancel
\* the heartbeat and tear down.
Continue(r) ==
  IF job[r].kind = "stop"
    THEN KillClock(r, "down")
    ELSE Go(r, "idle") /\ UNCHANGED <<clock, tick, task, seen>>

FinalSync(r) ==
  /\ at[r] = "final"
  /\ IF job[r].was /\ status = "PAUSED"
       THEN Go(r, "sync") /\ UNCHANGED <<clock, tick, task, seen>>
       ELSE Continue(r)
  /\ UNCHANGED <<status, flagged, done, riskVars, bookVars>>

AfterResume(r) ==
  /\ at[r] = "resumed"
  /\ Continue(r)
  /\ UNCHANGED <<status, flagged, done, riskVars, bookVars>>

\* POST /stop and /kill; flatten_on_stop off skips the flatten.
ServeStop(r) ==
  /\ status # "STOPPED"
  /\ \/ BeginFlatten(r, "stop") /\ UNCHANGED <<clock, tick, task, seen>>
     \/ at[r] = "idle" /\ KillClock(r, "down") /\ UNCHANGED flagged
  /\ UNCHANGED <<status, done, riskVars, bookVars>>

\* Mutated form of StopDone: the executor is not shut down.
StopDoneKeepsParents(r) ==
  /\ at[r] = "down"
  /\ Go(r, "idle")
  /\ status' = "STOPPED"
  /\ UNCHANGED <<clock, flagged, task, tick, seen, done, riskVars, bookVars>>

\* The executor is shut down, the venue's orders are swept, the gateway disconnected.
StopDone(r) ==
  /\ at[r] = "down"
  /\ Go(r, "idle")
  /\ status' = "STOPPED"
  /\ entry' = "none"
  /\ UNCHANGED <<clock, flagged, task, tick, seen, done, riskVars, open>>

-----------------------------------------------------------------------------
\* operator_halt: latch, then flatten, then pause; the request may drop either.
PausePoint == IF status = "RUNNING" THEN "quotes" ELSE "idle"

ServeHalt(r) ==
  \E flattens, pauses \in BOOLEAN :
    /\ Serve(r, IF pauses THEN "halt" ELSE "trip",
                IF flattens THEN "joined" ELSE IF pauses THEN PausePoint ELSE "idle")
    /\ active' = active \union {"operator_halt"}
    /\ IF flattens /\ task = 0
         THEN task' = 1 /\ fresh' = {}
         ELSE task' = task /\ fresh' = fresh \union ({"operator_halt"} \ active)
    /\ UNCHANGED <<status, clock, flagged, tick, seen, done, breach, bookVars>>

HaltFlattened(r) ==
  /\ at[r] = "woken"
  /\ Go(r, IF job[r].kind = "halt" THEN PausePoint ELSE "idle")
  /\ UNCHANGED <<status, clock, flagged, task, tick, seen, done, riskVars, bookVars>>

\* POST /breakers/rearm: clear the codes and the conditions that would trip them again.
Rearm ==
  \E codes \in SUBSET active \ {{}} :
    /\ active' = active \ codes
    /\ breach' = breach \ codes
    /\ fresh' = fresh \ codes
    /\ UNCHANGED <<status, clock, reqVars, task, tick, seen, done, bookVars>>

-----------------------------------------------------------------------------
\* The flatten task.
EndTask(ok) ==
  /\ task' = 0
  /\ at' = [r \in Request |->
              IF at[r] # "joined" THEN at[r]
              ELSE IF ~InFlatten(r) THEN "woken"
              ELSE IF ok THEN "poll" ELSE "raised"]
  /\ tick' = IF tick # "flatten" THEN tick ELSE IF ok THEN "flattened" ELSE "trade"
  /\ seen' = IF ok \/ tick # "flatten" THEN seen ELSE {}

MassCancelled ==
  /\ task = 1
  /\ task' = 2
  /\ entry' \in (IF entry = "resting" THEN {"waiting"} \union (IF ReadsFail THEN {"resting"} ELSE {})
                                      ELSE {entry})
  /\ UNCHANGED <<status, clock, reqVars, tick, seen, done, riskVars, open>>

\* A round reads the positions; it ends the task when it sees none, else it closes
\* them, which may not fill, and goes to the next round or ends.
SeesFlat ==
  /\ task > 1
  /\ FALSE \in ReadsOpen
  /\ EndTask(TRUE)
  /\ UNCHANGED open

ClosesRound ==
  /\ task > 1
  /\ TRUE \in ReadsOpen
  /\ open' \in {FALSE} \union (IF ClosesMiss THEN {open} ELSE {})
  /\ IF task = Rounds + 1 THEN EndTask(TRUE) ELSE task' = task + 1 /\ UNCHANGED <<at, tick, seen>>

FlattenFails ==
  /\ task > 1
  /\ ReadsFail
  /\ EndTask(FALSE)
  /\ UNCHANGED open

FlattenStep ==
  /\ SeesFlat \/ ClosesRound \/ FlattenFails
  /\ UNCHANGED <<status, clock, job, flagged, done, riskVars, entry>>

-----------------------------------------------------------------------------
\* The heartbeat.  The loss tracker stands still while a flatten is in flight.
TickBegins ==
  /\ tick = "sleep"
  /\ IF task = 0 THEN Trip(breach) ELSE UNCHANGED <<active, fresh>>
  /\ tick' = "check"
  /\ UNCHANGED <<status, clock, reqVars, task, seen, done, breach, bookVars>>

\* Mutated form of TickChecks: the breakers are looked at only while trading.
TickChecksRunning ==
  /\ tick = "check"
  /\ IF Halted /\ task = 0 /\ ~done /\ status = "RUNNING"
       THEN tick' = "flatten" /\ seen' = active /\ task' = 1 /\ fresh' = {}
       ELSE tick' = "trade" /\ UNCHANGED <<seen, task, fresh>>
  /\ done' = (Halted /\ done)
  /\ UNCHANGED <<status, clock, reqVars, active, breach, bookVars>>

\* _maybe_flatten_for_breaker up to its flatten.
TickChecks ==
  /\ tick = "check"
  /\ IF Halted /\ task = 0 /\ ~done
       THEN tick' = "flatten" /\ seen' = active /\ task' = 1 /\ fresh' = {}
       ELSE tick' = "trade" /\ UNCHANGED <<seen, task, fresh>>
  /\ done' = (Halted /\ done)
  /\ UNCHANGED <<status, clock, reqVars, active, breach, bookVars>>

\* _maybe_flatten_for_breaker after its flatten, with auto_rearm_consecutive_losses.
\* Mutated form of RearmedCodes: rearm() without a code.
RearmedAll == active

RearmedCodes == {"consecutive_losses"} \intersect seen \intersect active

TickFlattened ==
  /\ tick = "flattened"
  /\ tick' = "trade"
  /\ active' = active \ RearmedCodes
  /\ breach' = breach \ RearmedCodes
  /\ done' = (RearmedCodes = {})
  /\ seen' = {}
  /\ UNCHANGED <<status, clock, reqVars, task, fresh, bookVars>>

\* Strategies run while RUNNING; their orders are then submitted one by one, each past
\* the breakers, without another look at the status.
TickTrades ==
  /\ tick = "trade"
  /\ tick' \in {"sleep"} \union (IF Trades /\ status = "RUNNING" THEN {"dispatch"} ELSE {})
  /\ UNCHANGED <<status, clock, reqVars, task, seen, done, riskVars, bookVars>>

Dispatch ==
  /\ tick = "dispatch"
  /\ ~Halted
  /\ entry = "none" /\ entry' = "waiting"
  /\ UNCHANGED <<status, clock, reqVars, task, tick, seen, done, riskVars, open>>

TickEnds ==
  /\ tick = "dispatch"
  /\ tick' = "sleep"
  /\ UNCHANGED <<status, clock, reqVars, task, seen, done, riskVars, bookVars>>

-----------------------------------------------------------------------------
\* The position reconciler finds a drift.
ReconcileTrips ==
  /\ clock /\ "reconcile_mismatch" \in Enabled
  /\ Trip({"reconcile_mismatch"})
  /\ UNCHANGED <<status, clock, reqVars, task, tick, seen, done, breach, bookVars>>

\* A position gains or loses value, or an exit closes it.
LossesChange ==
  /\ open
  /\ open' \in BOOLEAN
  /\ breach' \in SUBSET Watched
  /\ UNCHANGED <<status, clock, reqVars, task, tick, seen, done, active, fresh, entry>>

\* An entry parent's task sends a child past the breakers, the child fills, the task
\* ends.
EntrySends ==
  /\ entry = "waiting" /\ ~Halted
  /\ entry' = "resting"
  /\ UNCHANGED <<status, clock, reqVars, task, tick, seen, done, riskVars, open>>

EntryFills ==
  /\ entry = "resting"
  /\ entry' = "waiting" /\ open' = TRUE
  /\ UNCHANGED <<status, clock, reqVars, task, tick, seen, done, riskVars>>

EntryEnds ==
  /\ entry = "waiting"
  /\ entry' = "none"
  /\ UNCHANGED <<status, clock, reqVars, task, tick, seen, done, riskVars, open>>

-----------------------------------------------------------------------------
Serves(r) ==
  \/ ServeStart(r) \/ ServePause(r) \/ ServeResume(r)
  \/ ServeFlatten(r) \/ ServeStop(r) \/ ServeHalt(r)

\* The steps that bring a request nearer its answer.
Proceeds(r) ==
  \/ EnterStart(r) \/ StartDone(r) \/ StartFails(r) \/ AbortDone(r)
  \/ QuotesCancelled(r) \/ ResumeDone(r) \/ Look(r) \/ FlattenRaised(r) \/ PollEnds(r)
  \/ FinalSync(r) \/ AfterResume(r) \/ StopDone(r) \/ HaltFlattened(r)

FlattenTask == MassCancelled \/ FlattenStep

Heartbeat == TickBegins \/ TickChecks \/ TickFlattened \/ TickTrades \/ TickEnds

Next ==
  \/ \E r \in Request : Serves(r) \/ Proceeds(r) \/ PollCloses(r)
  \/ FlattenTask
  \/ Heartbeat \/ Dispatch
  \/ Rearm \/ ReconcileTrips \/ LossesChange
  \/ EntrySends \/ EntryFills \/ EntryEnds

Spec == Init /\ [][Next]_vars

\* The event loop runs every ready coroutine: REST calls return or time out, the
\* flatten poll has a deadline, the flatten task a number of rounds, and a heartbeat
\* finishes the orders it submits.  The start lock is served first come, first served.
FairSpec ==
  /\ Spec
  /\ \A r \in Request : WF_vars(Proceeds(r)) /\ SF_vars(EnterStart(r))
  /\ WF_vars(FlattenTask)
  /\ WF_vars(Heartbeat)

-----------------------------------------------------------------------------
\* With no request in progress the status tells the truth: an engine not STOPPED has a
\* heartbeat, and a STOPPED one, which Start will start, has none and no entry parent.
DownIsStopped ==
  (\A r \in Request : at[r] = "idle") =>
    /\ status \in {"RUNNING", "PAUSED"} <=> clock
    /\ status = "STOPPED" <=> ~clock
    /\ status = "STOPPED" => entry = "none"

\* The flag that keeps the reconciler away from REST during a flatten is up only under a
\* flatten: however that is cut short, its cleanup runs and lowers it.
FlagIsLowered ==
  flagged => \E r \in Request : InFlatten(r) /\ at[r] \in {"look", "joined", "raised", "poll"}

\* Every request is answered: none waits for ever on the flatten it joined, on the start
\* lock, or on a flatten cancelled under it.
RequestsReturn == \A r \in Request : at[r] # "idle" ~> at[r] = "idle"

\* A MAJOR breach the heartbeat has not flattened for is flattened, paused or not.
HaltFlattens == Halted /\ ~done /\ clock ~> task > 0 \/ ~Halted \/ done \/ ~clock

\* The automatic rearm clears no breach that latched after the flatten began.
RearmsFlattenedOnly == [][tick = "flattened" /\ tick' = "trade" => fresh \intersect active \subseteq active']_vars

=============================================================================
