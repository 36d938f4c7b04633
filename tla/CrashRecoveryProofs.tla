------------------------ MODULE CrashRecoveryProofs ------------------------
(***************************************************************************)
(* Two theorems about crashes and restarts, for any number of orders, of   *)
(* processes and of starts, and any size of the journal's queue and        *)
(* buffer.                                                                 *)
(*                                                                         *)
(* What a start knows: StartSeesVenue.  It depends on the setting          *)
(* reconcile_cancel_orphans, which is on by default: without it the start  *)
(* leaves orders at the venue that it does not know.  The journal plays no *)
(* part: whatever the replay gives is corrected by what the start asks the *)
(* venue for, if the venue answers and does nothing of itself.  This needs *)
(* that no request of an earlier start is still under way that this one    *)
(* would hear of (NoRequests), that no frame waits (QuietStream), and that *)
(* a call's answer is still true when it is used (QuietAnswers).           *)
(*                                                                         *)
(* What the journal tells: JournalTellsAll, because a file may be replayed *)
(* in parts (ReplayParts) and lines change hands in order (JournalInv).    *)
(***************************************************************************)
EXTENDS CrashRecovery, FiniteSetTheorems, SequenceTheorems, WellFoundedInduction, TLAPS

-----------------------------------------------------------------------------
(* The invariant of the start. *)

\* The socket and its frames are of a running engine, and a call is of its phase.
Structured ==
  /\ post \in [Orders -> {"idle", "sent", "taken", "adrift"}]
  /\ phase # "running" => socket = "down"
  /\ socket = "down" => stream = <<>>
  /\ rest.at = "seed" => phase = "seeding"
  /\ rest.at = "list" => phase = "ordering"
  /\ rest.at = "connect" => phase = "running"

\* A start finds no request that can still be answered, only some that may reach the venue.
NoRequests ==
  quiet \/ phase # "running" => post \in [Orders -> {"idle", "adrift"}]

QuietStream == quiet => stream = <<>>

\* What a call has read is still so, in a start that the venue leaves alone.
QuietAnswers ==
  quiet =>
    /\ rest.at = "list" => rest.open = Open
    /\ rest.at = "connect" => rest.qty = pos

\* The orders are known from the start on, the position from the first snapshot on.
QuietOrders == quiet /\ phase = "running" => Working = Open
QuietPosition == quiet /\ socket = "up" => local = pos

StartInv ==
  Structured /\ NoRequests /\ QuietStream /\ QuietAnswers /\ QuietOrders /\ QuietPosition

USE DEF StartInv, Structured, NoRequests, QuietStream, QuietAnswers, QuietOrders, QuietPosition,
        Open, Working, venueVars, engineVars, processVars

LEMMA StartInit == Init => StartInv
BY DEF Init, Idle

-----------------------------------------------------------------------------
(* The steps: those of the venue and of trading end the quiet or cannot    *)
(* happen in it.                                                           *)

LEMMA VenueKeeps == ASSUME StartInv, VenueActs PROVE StartInv'
<1>1. /\ quiet' = FALSE /\ phase' = phase /\ socket' = socket /\ rest' = rest
      /\ status' = status /\ local' = local
  BY DEF VenueActs, VenueTakes, VenueFills, VenueEnds
<1>2. socket = "down" => stream' = stream
  BY DEF VenueActs, VenueTakes, VenueFills, VenueEnds, Sends
<1>3. \/ post' = post
      \/ \E o \in Orders : /\ post[o] \in {"sent", "adrift"}
                           /\ post' = [post EXCEPT ![o] = IF @ = "sent" THEN "taken" ELSE "idle"]
  BY DEF VenueActs, VenueTakes, VenueFills, VenueEnds
<1>4. /\ post' \in [Orders -> {"idle", "sent", "taken", "adrift"}]
      /\ phase # "running" => post' \in [Orders -> {"idle", "adrift"}]
  <2>1. CASE post' = post
    BY <2>1
  <2>2. ASSUME NEW o \in Orders, post[o] \in {"sent", "adrift"},
               post' = [post EXCEPT ![o] = IF @ = "sent" THEN "taken" ELSE "idle"]
        PROVE  /\ post' \in [Orders -> {"idle", "sent", "taken", "adrift"}]
               /\ phase # "running" => post' \in [Orders -> {"idle", "adrift"}]
    BY <2>2
  <2> QED
    BY <1>3, <2>1, <2>2
<1> QED
  BY <1>1, <1>2, <1>4


\* A request is under way only in a running engine that is not quiet.
LEMMA TradingKeeps ==
  ASSUME StartInv,
         \/ \E o \in Orders : Submit(o) \/ Placed(o) \/ PlaceRaises(o)
         \/ HearOrder \/ HearAccount
  PROVE  StartInv'
<1>1. CASE \E o \in Orders : Submit(o)
  BY <1>1 DEF Submit
<1>2. CASE \E o \in Orders : Placed(o) \/ PlaceRaises(o)
  <2>1. PICK o \in Orders : Placed(o) \/ PlaceRaises(o)
    BY <1>2
  <2>2. /\ phase = "running" /\ post[o] \in {"sent", "taken"} /\ quiet' = quiet
        /\ phase' = phase /\ socket' = socket /\ rest' = rest /\ stream' = stream
    BY <2>1 DEF Placed, PlaceRaises
  <2>3. ~quiet
    BY <2>2
  <2>4. post' \in [Orders -> {"idle", "sent", "taken", "adrift"}]
    BY <2>1 DEF Placed, PlaceRaises
  <2> QED
    BY <2>2, <2>3, <2>4
<1>3. CASE HearOrder \/ HearAccount
  <2>1. /\ phase = "running" /\ socket = "up" /\ stream # <<>> /\ quiet' = quiet
        /\ phase' = phase /\ socket' = socket /\ rest' = rest /\ post' = post
    BY <1>3 DEF HearOrder, HearAccount, Reading
  <2>2. ~quiet
    BY <2>1
  <2> QED
    BY <2>1, <2>2
<1> QED
  BY <1>1, <1>2, <1>3

\* A process leaves no request behind that its successor could hear of.
LEMMA AbandonTyped == ASSUME Abandon PROVE post' \in [Orders -> {"idle", "adrift"}]
BY DEF Abandon

LEMMA ProcessKeeps ==
  ASSUME StartInv, Boot \/ Crash \/ Exit \/ Exited \/ WriterRuns
  PROVE  StartInv'
<1>1. CASE Boot
  BY <1>1 DEF Boot
<1>2. CASE Crash
  BY <1>2, AbandonTyped DEF Crash, Forget, Idle
<1>3. CASE Exit
  BY <1>3 DEF Exit
<1>4. CASE Exited
  BY <1>4 DEF Exited, Forget, Idle
<1>5. CASE WriterRuns
  BY <1>5 DEF WriterRuns
<1> QED
  BY <1>1, <1>2, <1>3, <1>4, <1>5

-----------------------------------------------------------------------------
(* The start.  *)

LEMMA StartKeeps ==
  ASSUME StartInv, Start \/ Ask("seeding", Snapshot("seed")) \/ Seeded \/ Aborts
  PROVE  StartInv'
<1>1. CASE Start
  <2>1. /\ phase = "stopped" /\ phase' = "seeding" /\ socket' = socket /\ rest' = rest
        /\ post' = post /\ stream' = stream
    BY <1>1 DEF Start
  <2> QED
    BY <2>1
<1>2. CASE Ask("seeding", Snapshot("seed"))
  BY <1>2 DEF Ask, Snapshot
<1>3. CASE Seeded
  BY <1>3 DEF Seeded, Idle
<1>4. CASE Aborts
  BY <1>4 DEF Aborts, Idle
<1> QED
  BY <1>1, <1>2, <1>3, <1>4

LEMMA NoElements == ASSUME NEW f, f \in Seq({}) PROVE f = <<>>
OBVIOUS

\* Nothing that has ended gives no frame.
LEMMA NoFrames ==
  ASSUME NEW ended, ended = SetToSeq({})
  PROVE  [i \in DOMAIN ended |-> Frame(ended[i], TRUE, FALSE)] = <<>>
<1>1. DOMAIN SetToSeq({}) = {}
  <2>1. Cardinality({}) = 0
    BY FS_EmptySet
  <2>2. 1..0 = {}
    OBVIOUS
  <2>3. [i \in {} |-> i] \in [{} -> {}] /\ IsInjective([i \in {} |-> i])
    BY DEF IsInjective
  <2>4. SetToSeq({}) = CHOOSE f \in [{} -> {}] : IsInjective(f)
    BY <2>1, <2>2 DEF SetToSeq
  <2>5. SetToSeq({}) \in [{} -> {}]
    BY <2>3, <2>4
  <2> QED
    BY <2>5
<1>2. DOMAIN ended = 1..0
  BY <1>1
<1> HIDE DEF SetToSeq
<1> SUFFICES ASSUME NEW frames, frames = [i \in DOMAIN ended |-> Frame(ended[i], TRUE, FALSE)]
             PROVE  frames = <<>>
  OBVIOUS
<1>3. frames \in [1..0 -> {}]
  BY <1>2
<1>4. frames \in Seq({})
  BY <1>3
<1> QED
  BY <1>4, NoElements

\* reconcile_once() on a list that is still true: every stranger is cancelled, every child
\* without an order is rejected, and the rest are the open orders.
LEMMA ListMakesKnown ==
  ASSUME CancelOrphans = TRUE,
         NEW cancelled, NEW answered, NEW relisted,
         OrdersReconciled(Open, cancelled, answered, relisted), quiet'
  PROVE  Working' = Open'
<1>1. cancelled = Open \ Working /\ answered = Working \ Open
  BY DEF OrdersReconciled, Strangers, Missing
<1> DEFINE seen == IF relisted THEN Open \ cancelled ELSE Open
           lost == IF Missing(Open) = {} THEN {} ELSE Working \ seen
           found == Missing(Open) \intersect answered \intersect seen
<1>2. /\ venue' = [o \in Orders |-> IF o \in cancelled /\ venue[o] = "open" THEN "done"
                                    ELSE venue[o]]
      /\ status' = [o \in Orders |-> IF o \in lost THEN "END"
                                     ELSE IF o \in found THEN "ACK" ELSE status[o]]
  BY DEF OrdersReconciled, Reconciled
<1>3. lost = Working \ Open /\ found = {}
  BY <1>1 DEF Missing
<1> HIDE DEF lost, found
<1>4. ASSUME NEW o \in Orders PROVE o \in Open' <=> o \in Open /\ o \in Working
  BY <1>1, <1>2
<1>5. ASSUME NEW o \in Orders PROVE o \in Working' <=> o \in Open /\ o \in Working
  BY <1>2, <1>3
<1> QED
  BY <1>4, <1>5

LEMMA StartOrdersKeeps == ASSUME CancelOrphans = TRUE, StartInv, StartOrders PROVE StartInv'
<1>1. /\ rest.at = "list" /\ phase = "ordering" /\ socket = "down" /\ stream = <<>>
      /\ phase' \in {"running", "stopped"} /\ socket' = socket /\ rest' = Idle
      /\ post' = post
  BY DEF StartOrders, OrdersReconciled
<1>2. stream' = <<>>
  BY <1>1 DEF StartOrders, OrdersReconciled, Sends
<1>3. quiet' => quiet /\ Working' = Open'
  <2>1. CASE quiet' = FALSE
    BY <2>1
  <2>2. ASSUME NEW cancelled \in SUBSET Orders, NEW answered \in SUBSET Orders,
               NEW relisted \in BOOLEAN, OrdersReconciled(rest.open, cancelled, answered, relisted)
        PROVE  quiet' => quiet /\ Working' = Open'
    <3>1. quiet' => quiet
      BY <2>2 DEF OrdersReconciled
    <3>2. quiet => rest.open = Open
      BY <1>1
    <3> HIDE DEF Open, Working
    <3> QED
      BY <2>2, <3>1, <3>2, ListMakesKnown
  <2> QED
    BY <2>1, <2>2 DEF StartOrders
<1>4. post \in [Orders -> {"idle", "adrift"}]
  BY <1>1
<1>5. Structured' /\ NoRequests'
  BY <1>1, <1>2, <1>4 DEF Idle
<1>6. QuietStream' /\ QuietAnswers' /\ QuietPosition'
  BY <1>1, <1>2 DEF Idle
<1>7. QuietOrders'
  BY <1>3
<1> QED
  BY <1>5, <1>6, <1>7

-----------------------------------------------------------------------------
(* The running engine.  *)

LEMMA ConnectKeeps == ASSUME StartInv, Connect \/ Connected \/ PositionPass \/ Stop PROVE StartInv'
<1>1. CASE Connect
  BY <1>1 DEF Connect, Snapshot
<1>2. CASE Connected
  BY <1>2 DEF Connected, Synced, Idle
<1>3. CASE PositionPass
  BY <1>3 DEF PositionPass, Synced
<1>4. CASE Stop
  BY <1>4, AbandonTyped DEF Stop, Idle
<1> QED
  BY <1>1, <1>2, <1>3, <1>4

\* A pass of a quiet engine finds nothing to do.
LEMMA PassKeeps ==
  ASSUME StartInv, NEW cancelled, NEW answered, NEW relisted,
         OrderPass(cancelled, answered, relisted)
  PROVE  StartInv'
<1>1. /\ phase = "running" /\ phase' = phase /\ socket' = socket /\ rest' = Idle /\ post' = post
      /\ pos' = pos /\ local' = local /\ (quiet' => quiet)
  BY DEF OrderPass, OrdersReconciled
<1>2. socket = "down" => stream' = stream
  BY DEF OrderPass, OrdersReconciled, Sends
<1>3. CASE ~quiet'
  BY <1>1, <1>2, <1>3 DEF Idle
<1>4. CASE quiet'
  <2>1. Working = Open /\ stream = <<>>
    BY <1>1, <1>4
  <2>2. Strangers(Open) = {} /\ Missing(Open) = {}
    BY <2>1 DEF Strangers, Missing
  <2>3. cancelled = {}
    BY <2>2 DEF OrderPass, OrdersReconciled
  <2>4. /\ venue' = [o \in Orders |-> venue[o]]
        /\ status' = [o \in Orders |-> status[o]]
    BY <2>2, <2>3 DEF OrderPass, OrdersReconciled, Reconciled
  <2>5. Working' = Working /\ Open' = Open
    BY <2>4
  <2>6. stream' = <<>>
    <3>1. PICK ended : ended = SetToSeq({o \in cancelled : venue[o] = "open"})
      OBVIOUS
    <3>2. ended = SetToSeq({})
      BY <3>1, <2>3
    <3>3. Sends([i \in DOMAIN ended |-> Frame(ended[i], TRUE, FALSE)])
      BY <3>1 DEF OrderPass, OrdersReconciled
    <3>4. Sends(<<>>)
      BY <3>2, <3>3, NoFrames
    <3> QED
      BY <3>4, <2>1 DEF Sends
  <2> QED
    BY <1>1, <1>4, <2>1, <2>5, <2>6 DEF Idle
<1> QED
  BY <1>3, <1>4

-----------------------------------------------------------------------------

LEMMA StartKept ==
  ASSUME CancelOrphans = TRUE
  PROVE  StartInv /\ [Next]_vars => StartInv'
<1> SUFFICES ASSUME StartInv, [Next]_vars PROVE StartInv'
  OBVIOUS
<1>1. CASE UNCHANGED vars
  BY <1>1 DEF vars
<1>2. CASE Ask("ordering", List("list"))
  BY <1>2 DEF Ask, List
<1> HIDE DEF StartInv
<1> QED
  BY <1>1, <1>2, VenueKeeps, TradingKeeps, ProcessKeeps, StartKeeps, StartOrdersKeeps,
     ConnectKeeps, PassKeeps, Zenon DEF Next

HIDE DEF StartInv

\* After a start in which every call succeeded and the venue did nothing of itself, the engine
\* works exactly the orders that are open and has the venue's position, whatever the journal
\* said, for any number of orders, crashes and starts, provided that strangers are cancelled
\* (reconcile_once(), sync_startup(), _on_user_ws_connected()).
THEOREM StartIsComplete ==
  ASSUME CancelOrphans = TRUE
  PROVE  Spec => []StartSeesVenue
<1>1. Init => StartInv
  BY StartInit
<1>2. StartInv /\ [Next]_vars => StartInv'
  BY StartKept
<1>3. StartInv => StartSeesVenue
  BY DEF StartSeesVenue, StartInv
<1> QED
  BY <1>1, <1>2, <1>3, PTL DEF Spec

-----------------------------------------------------------------------------
(* What the journal tells: replaying it line by line.  *)

HIDE DEF Structured, NoRequests, QuietStream, QuietAnswers, QuietOrders, QuietPosition,
         Open, Working, venueVars, engineVars, processVars

\* A set of numbers has a least one, by which the lemmas on replays go.
LEMMA Least ==
  ASSUME NEW T, T \subseteq Nat, T # {}
  PROVE  \E m \in T : \A n \in T : m <= n
<1> DEFINE Below == {1..n : n \in T}
<1>1. Below \subseteq FiniteSubsetsOf(Nat) /\ Below # {}
  <2>1. \A n \in Nat : IsFiniteSet(1..n) /\ 1..n \in SUBSET Nat
    BY FS_Interval
  <2> QED BY <2>1 DEF FiniteSubsetsOf
<1>2. \E x \in Below : \A y \in Below : <<y, x>> \notin StrictSubsetOrdering(Nat)
  <2> HIDE DEF Below
  <2> QED BY <1>1, FS_StrictSubsetOrderingWellFounded, WFMin
<1>3. PICK m \in T : \A n \in T : <<1..n, 1..m>> \notin StrictSubsetOrdering(Nat)
  BY <1>2
<1>4. ASSUME NEW n \in T, n < m
      PROVE  <<1..n, 1..m>> \in StrictSubsetOrdering(Nat)
  <2>1. n \in Nat /\ m \in Nat
    OBVIOUS
  <2>2. m \in 1..m /\ m \notin 1..n
    BY <1>4, <2>1
  <2>3. 1..n \subseteq 1..m /\ 1..m \subseteq Nat /\ 1..n # 1..m
    BY <1>4, <2>1, <2>2
  <2> QED BY <2>3 DEF StrictSubsetOrdering
<1>5. \A n \in T : m <= n
  <2>1. \A n \in T : ~(n < m)
    BY <1>3, <1>4
  <2> QED BY <2>1
<1> QED
  BY <1>5

\* f[n] is what the file is after n lines.
Replays(f, w, s) == f[0] = w /\ \A k \in 1..Len(s) : f[k] = Replay(f[k - 1], s[k])

\* What ReplayAll builds, up to n lines, from what it built before.
After(w, events, n, f) ==
  [k \in 0..n |-> IF k = 0 THEN w ELSE Replay(f[k - 1], events[k])]

LEMMA AfterExists ==
  ASSUME NEW w, NEW events, NEW N \in Nat
  PROVE  \E f : f = After(w, events, N, f)
<1> DEFINE Bad == {n \in Nat : ~\E f : f = After(w, events, n, f)}
<1>1. SUFFICES ASSUME Bad # {} PROVE FALSE
  OBVIOUS
<1>2. PICK m \in Bad : \A n \in Bad : m <= n
  <2>1. Bad \subseteq Nat
    OBVIOUS
  <2> HIDE DEF Bad
  <2> QED BY <1>1, <2>1, Least
<1>3. m # 0
  <2>1. [j \in 0..0 |-> w] = After(w, events, 0, [j \in 0..0 |-> w])
    BY DEF After
  <2> QED BY <2>1
<1>4. PICK f : f = After(w, events, m - 1, f)
  <2>1. m - 1 \in Nat /\ m - 1 \notin Bad
    <3> HIDE DEF Bad
    <3>1. m \in Nat
      BY <1>2 DEF Bad
    <3> QED BY <1>2, <1>3, <3>1
  <2> QED BY <2>1
<1>5. PICK g : g = [k \in 0..m |-> IF k # m THEN f[k] ELSE Replay(f[m - 1], events[m])]
  OBVIOUS
<1> HIDE DEF Replay
<1>6. g = After(w, events, m, g)
  <2>1. ASSUME NEW k \in 0..m
        PROVE  g[k] = IF k = 0 THEN w ELSE Replay(g[k - 1], events[k])
    <3>1. CASE k = m
      BY <1>3, <1>5, <3>1
    <3>2. CASE k # m
      <4>1. g[k] = f[k] /\ k \in 0..m - 1 /\ (k # 0 => g[k - 1] = f[k - 1])
        BY <1>5, <3>2
      <4> QED BY <4>1, <1>4 DEF After
    <3> QED BY <3>1, <3>2
  <2> QED BY <1>5, <2>1 DEF After
<1> QED
  BY <1>6

\* A replay goes from line to line.
LEMMA ReplaySteps ==
  ASSUME NEW S, NEW s \in Seq(S), NEW w
  PROVE  \E f : ReplayAll(w, s) = f[Len(s)] /\ Replays(f, w, s)
<1> DEFINE P(f) == f = After(w, s, Len(s), f)
<1>0. Len(s) \in Nat
  OBVIOUS
<1>1. ReplayAll(w, s) = (CHOOSE f : P(f))[Len(s)]
  BY DEF ReplayAll, After
<1>2. \E f : P(f)
  BY <1>0, AfterExists
<1>3. PICK f : P(f) /\ ReplayAll(w, s) = f[Len(s)]
  <2> HIDE DEF P
  <2> QED BY <1>1, <1>2
<1>4. f = [k \in 0..Len(s) |-> IF k = 0 THEN w ELSE Replay(f[k - 1], s[k])]
  BY <1>3 DEF After
<1> HIDE DEF P
<1>5. f[0] = w
  BY <1>0, <1>4
<1>6. \A k \in 1..Len(s) : f[k] = Replay(f[k - 1], s[k])
  <2>1. PICK h : h = f
    OBVIOUS
  <2>2. f = [k \in 0..Len(s) |-> IF k = 0 THEN w ELSE Replay(h[k - 1], s[k])]
    BY <1>4, <2>1
  <2>3. \A k \in 1..Len(s) : f[k] = Replay(h[k - 1], s[k])
    BY <1>0, <2>2
  <2> QED BY <2>1, <2>3
<1>7. Replays(f, w, s)
  BY <1>5, <1>6, Zenon DEF Replays
<1> QED
  BY <1>3, <1>7

\* Two replays of the same lines from the same state end in the same state.
LEMMA SameReplay ==
  ASSUME NEW f, NEW g, NEW w, NEW s, Len(s) \in Nat, Replays(f, w, s), Replays(g, w, s)
  PROVE  f[Len(s)] = g[Len(s)]
<1> DEFINE Bad == {k \in 0..Len(s) : f[k] # g[k]}
<1>1. SUFFICES ASSUME Bad # {} PROVE FALSE
  OBVIOUS
<1>2. PICK m \in Bad : \A k \in Bad : m <= k
  <2>1. Bad \subseteq Nat
    OBVIOUS
  <2> HIDE DEF Bad
  <2> QED BY <1>1, <2>1, Least
<1>3. m \in 1..Len(s)
  BY <1>2 DEF Replays
<1>4. f[m - 1] = g[m - 1]
  <2>1. m - 1 \notin Bad /\ m - 1 \in 0..Len(s)
    BY <1>2, <1>3
  <2> QED BY <2>1
<1> HIDE DEF Replay
<1>5. f[m] = g[m]
  BY <1>3, <1>4 DEF Replays
<1> QED
  BY <1>5

LEMMA ReplayNothing == \A w : ReplayAll(w, <<>>) = w
<1>1. ASSUME NEW w PROVE ReplayAll(w, <<>>) = w
  <2>1. <<>> \in Seq({}) /\ Len(<<>>) = 0
    OBVIOUS
  <2>2. PICK f : ReplayAll(w, <<>>) = f[Len(<<>>)] /\ Replays(f, w, <<>>)
    BY <2>1, ReplaySteps
  <2> QED BY <2>1, <2>2 DEF Replays
<1> QED BY <1>1

\* A file may be replayed in parts.
LEMMA ReplayParts ==
  ASSUME NEW S, NEW s \in Seq(S), NEW t \in Seq(S), NEW w
  PROVE  ReplayAll(w, s \o t) = ReplayAll(ReplayAll(w, s), t)
<1> HIDE DEF Replay
<1>0. /\ Len(s) \in Nat /\ Len(t) \in Nat /\ s \o t \in Seq(S) /\ Len(s \o t) = Len(s) + Len(t)
      /\ \A k \in 1..Len(s) : (s \o t)[k] = s[k]
      /\ \A k \in 1..Len(t) : (s \o t)[Len(s) + k] = t[k]
  OBVIOUS
<1>1. PICK f : ReplayAll(w, s) = f[Len(s)] /\ Replays(f, w, s)
  BY ReplaySteps
<1>2. PICK g : /\ ReplayAll(ReplayAll(w, s), t) = g[Len(t)]
               /\ Replays(g, ReplayAll(w, s), t)
  BY ReplaySteps
<1>3. PICK h : ReplayAll(w, s \o t) = h[Len(s \o t)] /\ Replays(h, w, s \o t)
  BY <1>0, ReplaySteps
<1>4. h[Len(s)] = f[Len(s)]
  <2>1. Replays(h, w, s)
    BY <1>0, <1>3 DEF Replays
  <2> QED BY <1>0, <1>1, <2>1, SameReplay
<1>5. PICK r : r = [k \in 0..Len(t) |-> h[Len(s) + k]]
  OBVIOUS
<1>6. r[0] = ReplayAll(w, s)
  BY <1>0, <1>1, <1>4, <1>5
<1>7. \A k \in 1..Len(t) : r[k] = Replay(r[k - 1], t[k])
  <2> SUFFICES ASSUME NEW k \in 1..Len(t) PROVE r[k] = Replay(r[k - 1], t[k])
    OBVIOUS
  <2>1. Len(s) + k \in 1..Len(s \o t) /\ (Len(s) + k) - 1 = Len(s) + (k - 1)
    BY <1>0
  <2>2. h[Len(s) + k] = Replay(h[Len(s) + (k - 1)], t[k])
    BY <1>0, <1>3, <2>1 DEF Replays
  <2>3. r[k] = h[Len(s) + k] /\ r[k - 1] = h[Len(s) + (k - 1)]
    BY <1>0, <1>5
  <2> QED BY <2>2, <2>3
<1>8. Replays(r, ReplayAll(w, s), t)
  BY <1>6, <1>7 DEF Replays
<1>9. r[Len(t)] = g[Len(t)]
  BY <1>0, <1>2, <1>8, SameReplay
<1>10. r[Len(t)] = h[Len(s) + Len(t)]
  BY <1>0, <1>5
<1> QED
  BY <1>0, <1>2, <1>3, <1>9, <1>10

\* A sequence, of whatever elements.
Listed(s) == \E S : s \in Seq(S)

LEMMA ListedTogether ==
  ASSUME NEW a, NEW b, NEW c, NEW d, Listed(a), Listed(b), Listed(c), Listed(d)
  PROVE  \E S : a \in Seq(S) /\ b \in Seq(S) /\ c \in Seq(S) /\ d \in Seq(S)
<1>1. PICK A : a \in Seq(A)
  BY DEF Listed
<1>2. PICK B : b \in Seq(B)
  BY DEF Listed
<1>3. PICK C : c \in Seq(C)
  BY DEF Listed
<1>4. PICK D : d \in Seq(D)
  BY DEF Listed
<1>5. PICK S : A \subseteq S /\ B \subseteq S /\ C \subseteq S /\ D \subseteq S
  <2>1. /\ A \subseteq A \cup B \cup C \cup D /\ B \subseteq A \cup B \cup C \cup D
        /\ C \subseteq A \cup B \cup C \cup D /\ D \subseteq A \cup B \cup C \cup D
    OBVIOUS
  <2> QED BY <2>1
<1> QED
  BY <1>1, <1>2, <1>3, <1>4, <1>5, SeqMonotonic

LEMMA ListedPieces ==
  /\ Listed(<<>>)
  /\ \A e : Listed(<<e>>)
  /\ \A d, e : Listed(<<d, e>>)
<1>1. <<>> \in Seq({})
  OBVIOUS
<1>2. ASSUME NEW e PROVE <<e>> \in Seq({e})
  OBVIOUS
<1>3. ASSUME NEW d, NEW e PROVE <<d, e>> \in Seq({d, e})
  OBVIOUS
<1> QED
  BY <1>1, <1>2, <1>3 DEF Listed

LEMMA ListedConcat ==
  ASSUME NEW a, NEW b, Listed(a), Listed(b)
  PROVE  Listed(a \o b)
<1>1. PICK S : a \in Seq(S) /\ b \in Seq(S)
  BY ListedTogether
<1> QED
  BY <1>1 DEF Listed

LEMMA ListedTail ==
  ASSUME NEW a, Listed(a), a # <<>>
  PROVE  Listed(Tail(a)) /\ <<Head(a)>> \o Tail(a) = a
<1>1. PICK S : a \in Seq(S)
  BY DEF Listed
<1>2. Tail(a) \in Seq(S) /\ Head(a) \in S
  BY <1>1
<1>3. <<Head(a)>> \o Tail(a) = a
  BY <1>1, <1>2
<1> QED
  BY <1>2, <1>3 DEF Listed

\* A finite set in some order.
LEMMA ListedSet ==
  ASSUME NEW S, IsFiniteSet(S)
  PROVE  Listed(SetToSeq(S))
<1>1. Cardinality(S) \in Nat /\ \E f : f \in [1..Cardinality(S) -> S] /\ IsInjective(f)
  BY FS_CardinalityType DEF ExistsBijection, Bijection, Injection
<1>2. SetToSeq(S) \in [1..Cardinality(S) -> S]
  BY <1>1 DEF SetToSeq
<1> HIDE DEF SetToSeq
<1>3. SetToSeq(S) \in Seq(S)
  BY <1>1, <1>2
<1> QED
  BY <1>3 DEF Listed

\* Rows of finitely many children.
LEMMA ListedRows ==
  ASSUME NEW S, IsFiniteSet(S), NEW st
  PROVE  Listed(SetToSeq({Row(o, st[o]) : o \in S}))
<1> DEFINE T == {Row(o, st[o]) : o \in S}
           f == [o \in S |-> Row(o, st[o])]
<1>1. f \in Surjection(S, T)
  BY DEF Surjection
<1> HIDE DEF f, T
<1>2. IsFiniteSet(T)
  BY <1>1, FS_Surjection
<1>3. Listed(SetToSeq(T))
  BY <1>2, ListedSet
<1> QED
  BY <1>3 DEF T

-----------------------------------------------------------------------------
(* The invariant of the journal.  *)

\* What was left to an abandoned thread is out of order from then on; a journal that is
\* closed has nothing left to write.  A program that is not there asks nothing.
JournalInv ==
  /\ writer \in {"off", "on", "draining"}
  /\ phase = "off" <=> writer = "off"
  /\ phase = "off" => rest = Idle
  /\ Listed(queue) /\ Listed(buffer)
  /\ held = <<>> \/ \E e : held = <<e>>
  /\ adrift # <<>> => spoilt
  /\ writer = "off" => queue = <<>> /\ held = <<>> /\ buffer = <<>> /\ adrift = <<>>
  /\ JournalTellsAll

LEMMA HeldListed == ASSUME JournalInv PROVE Listed(held)
BY ListedPieces DEF JournalInv

\* A queue that has room takes all, in order.
LEMMA EnqueueAll ==
  ASSUME NEW q, NEW events, Listed(q), Listed(events)
  PROVE  /\ Listed(Enqueue(q, events))
         /\ Len(q) + Len(events) <= MaxQueue => Enqueue(q, events) = q \o events
<1>1. PICK S : q \in Seq(S) /\ events \in Seq(S)
  BY ListedTogether
<1> DEFINE all == q \o events
           from == IF Len(all) > MaxQueue THEN Len(all) - MaxQueue + 1 ELSE 1
<1>2. all \in Seq(S) /\ Len(all) = Len(q) + Len(events) /\ Len(all) \in Nat /\ MaxQueue \in Nat
  BY <1>1, JournalAssumption
<1>3. Enqueue(q, events) = SubSeq(all, from, Len(all))
  BY DEF Enqueue
<1> HIDE DEF all
<1>4. from \in Nat /\ from >= 1
  BY <1>2
<1>5. SubSeq(all, from, Len(all)) \in Seq(S)
  <2> HIDE DEF from
  <2>1. \A i \in from..Len(all) : all[i] \in S
    BY <1>2, <1>4
  <2> QED BY <1>2, <1>4, <2>1, SubSeqProperties
<1>6. ASSUME Len(q) + Len(events) <= MaxQueue PROVE Enqueue(q, events) = all
  <2>1. from = 1
    BY <1>2, <1>6
  <2> QED BY <1>2, <1>3, <2>1, SubSeqFull
<1> QED
  BY <1>3, <1>5, <1>6 DEF Listed, all

-----------------------------------------------------------------------------
(* The steps of the journal.  *)

\* publish() in a process that has a journal.
LEMMA PublishKeeps ==
  ASSUME JournalInv, NEW events, Listed(events), Publish(events),
         phase # "off", phase' # "off"
  PROVE  JournalInv'
<1>1. /\ writer' = writer /\ held' = held /\ adrift' = adrift /\ buffer' = buffer
      /\ wal' = wal /\ queue' = Enqueue(queue, events)
      /\ spoilt' = (spoilt \/ Len(queue) + Len(events) > MaxQueue)
      /\ ~spoilt' => told' = ReplayAll(told, events)
  BY DEF Publish
<1>2. PICK S : buffer \in Seq(S) /\ held \in Seq(S) /\ queue \in Seq(S) /\ events \in Seq(S)
  BY HeldListed, ListedTogether DEF JournalInv
<1>3. Listed(queue')
  BY <1>1, EnqueueAll DEF JournalInv
<1>4. JournalTellsAll'
  <2> SUFFICES ASSUME ~spoilt' PROVE ReplayAll(wal', buffer' \o held' \o queue') = told'
    BY DEF JournalTellsAll
  <2>0. MaxQueue \in Nat /\ Len(queue) \in Nat /\ Len(events) \in Nat
    BY <1>2, JournalAssumption
  <2>1. ~spoilt /\ Len(queue) + Len(events) <= MaxQueue /\ told' = ReplayAll(told, events)
    <3>1. ~spoilt /\ ~(Len(queue) + Len(events) > MaxQueue) /\ told' = ReplayAll(told, events)
      BY <1>1, Zenon
    <3>2. Len(queue) + Len(events) <= MaxQueue
      BY <2>0, <3>1
    <3> QED BY <3>1, <3>2, Zenon
  <2>2. queue' = queue \o events
    BY <1>1, <2>1, EnqueueAll DEF JournalInv
  <2>3. /\ buffer \o held \o queue \in Seq(S)
        /\ buffer \o held \o (queue \o events) = (buffer \o held \o queue) \o events
    <3>1. buffer \o held \in Seq(S)
      BY <1>2
    <3>2. buffer \o held \o queue \in Seq(S)
      BY <1>2, <3>1
    <3>3. PICK a : a = buffer \o held
      OBVIOUS
    <3>4. a \in Seq(S)
      BY <3>1, <3>3, Zenon
    <3>5. queue \in Seq(S) /\ events \in Seq(S)
      BY <1>2, Zenon
    <3>6. (a \o queue) \o events = a \o (queue \o events)
      BY <3>4, <3>5, ConcatAssociative, SMTT(30)
    <3> QED BY <3>2, <3>3, <3>6, Zenon
  <2>4. ReplayAll(wal, buffer \o held \o queue) = told
    BY <2>1 DEF JournalInv, JournalTellsAll
  <2>5. ReplayAll(wal, (buffer \o held \o queue) \o events) = ReplayAll(told, events)
    <3> DEFINE all == buffer \o held \o queue
    <3>1. all \in Seq(S) /\ ReplayAll(wal, all) = told
      BY <2>3, <2>4
    <3> HIDE DEF all
    <3>2. ReplayAll(wal, all \o events) = ReplayAll(told, events)
      BY <1>2, <3>1, ReplayParts
    <3> QED BY <3>2 DEF all
  <2> QED BY <1>1, <2>1, <2>2, <2>3, <2>5
<1> QED
  BY <1>1, <1>3, <1>4 DEF JournalInv

\* A line goes to the file behind what was held back.
LEMMA LineWritten ==
  ASSUME Listed(buffer), NEW e, WriteLine(e)
  PROVE  /\ Listed(buffer')
         /\ \A q : Listed(q) =>
              ReplayAll(wal', buffer' \o q) = ReplayAll(wal, buffer \o <<e>> \o q)
<1>1. Listed(buffer')
  <2>1. PICK S : buffer \in Seq(S) /\ <<e>> \in Seq(S)
    BY ListedPieces, ListedTogether
  <2>2. Append(buffer, e) \in Seq(S)
    BY <2>1
  <2> QED BY <2>1, <2>2 DEF WriteLine, Listed
<1>2. ASSUME NEW q, Listed(q)
      PROVE  ReplayAll(wal', buffer' \o q) = ReplayAll(wal, buffer \o <<e>> \o q)
  <2>1. PICK S : buffer \in Seq(S) /\ <<e>> \in Seq(S) /\ q \in Seq(S)
    BY <1>2, ListedPieces, ListedTogether
  <2>2. CASE buffer' = Append(buffer, e) /\ wal' = wal
    <3>1. Append(buffer, e) = buffer \o <<e>>
      BY <2>1
    <3> QED BY <2>2, <3>1
  <2>3. CASE buffer' = <<e>> /\ wal' = ReplayAll(wal, buffer)
    <3>1. <<e>> \o q \in Seq(S) /\ buffer \o <<e>> \o q = buffer \o (<<e>> \o q)
      BY <2>1, ConcatProperties, ConcatAssociative, SMTT(30)
    <3>2. ReplayAll(wal, buffer \o (<<e>> \o q)) = ReplayAll(ReplayAll(wal, buffer), <<e>> \o q)
      BY <2>1, <3>1, ReplayParts
    <3> QED BY <2>3, <3>1, <3>2
  <2> QED BY <2>2, <2>3 DEF WriteLine
<1> QED
  BY <1>1, <1>2

LEMMA WriterKeeps ==
  ASSUME JournalInv, WriterStep, phase' = phase, rest' = rest
  PROVE  JournalInv'
<1>0. PICK S : buffer \in Seq(S) /\ held \in Seq(S) /\ queue \in Seq(S)
  BY HeldListed, ListedTogether DEF JournalInv
<1>1. CASE WriterTakes
  <2>1. /\ writer # "off" /\ held = <<>> /\ queue # <<>> /\ held' = <<Head(queue)>>
        /\ queue' = Tail(queue) /\ writer' = writer /\ adrift' = adrift /\ buffer' = buffer
        /\ wal' = wal /\ told' = told /\ spoilt' = spoilt
    BY <1>1 DEF WriterTakes
  <2>2. Listed(queue') /\ <<Head(queue)>> \o Tail(queue) = queue
    BY <2>1, ListedTail DEF JournalInv
  <2>3. buffer \o <<Head(queue)>> \o Tail(queue) = buffer \o queue
    <3>1. Head(queue) \in S /\ Tail(queue) \in Seq(S)
      BY <1>0, <2>1
    <3>2. <<Head(queue)>> \in Seq(S)
      BY <3>1
    <3>3. buffer \o <<Head(queue)>> \o Tail(queue) = buffer \o (<<Head(queue)>> \o Tail(queue))
      BY <1>0, <3>1, <3>2, ConcatAssociative, SMTT(30)
    <3> QED BY <2>2, <3>3
  <2>4. buffer \o held = buffer
    BY <1>0, <2>1, ConcatEmptySeq
  <2>5. JournalTellsAll'
    BY <2>1, <2>3, <2>4 DEF JournalInv, JournalTellsAll
  <2> QED BY <2>1, <2>2, <2>5 DEF JournalInv
<1>2. CASE Appended
  <2>1. /\ held # <<>> /\ WriteLine(Head(held)) /\ held' = <<>> /\ writer' = writer
        /\ queue' = queue /\ adrift' = adrift /\ told' = told /\ spoilt' = spoilt
    BY <1>2 DEF Appended
  <2>2. PICK e : held = <<e>>
    BY <2>1 DEF JournalInv
  <2>3. Head(held) = e
    BY <2>2
  <2>4. /\ Listed(buffer')
        /\ ReplayAll(wal', buffer' \o queue) = ReplayAll(wal, buffer \o held \o queue)
    BY <2>1, <2>2, <2>3, LineWritten DEF JournalInv
  <2>5. buffer' \o held' = buffer'
    BY <2>1, <2>4, ConcatEmptySeq DEF Listed
  <2>6. JournalTellsAll'
    BY <2>1, <2>4, <2>5 DEF JournalInv, JournalTellsAll
  <2>7. writer # "off"
    BY <2>1 DEF JournalInv
  <2> QED BY <2>1, <2>4, <2>6, <2>7 DEF JournalInv
<1>3. CASE Flush
  <2>1. /\ writer = "on" /\ held = <<>> /\ wal' = ReplayAll(wal, buffer) /\ buffer' = <<>>
        /\ writer' = writer /\ queue' = queue /\ held' = held /\ adrift' = adrift
        /\ told' = told /\ spoilt' = spoilt
    BY <1>3 DEF Flush
  <2>2. buffer \o held = buffer /\ buffer' \o held' = <<>> /\ <<>> \o queue = queue
    BY <1>0, <2>1, ConcatEmptySeq, EmptySeq
  <2>3. ReplayAll(wal, buffer \o queue) = ReplayAll(wal', queue)
    BY <1>0, <2>1, ReplayParts
  <2>4. JournalTellsAll'
    BY <2>1, <2>2, <2>3 DEF JournalInv, JournalTellsAll
  <2> QED BY <2>1, <2>4, ListedPieces DEF JournalInv
<1>4. CASE AppendedLate
  <2>1. /\ adrift # <<>> /\ WriteLine(Head(adrift)) /\ adrift' = <<>> /\ writer' = writer
        /\ queue' = queue /\ held' = held /\ told' = told /\ spoilt' = spoilt
    BY <1>4 DEF AppendedLate
  <2>2. Listed(buffer') /\ spoilt' /\ writer # "off"
    BY <2>1, LineWritten DEF JournalInv
  <2> QED BY <2>1, <2>2 DEF JournalInv, JournalTellsAll
<1> QED
  BY <1>1, <1>2, <1>3, <1>4 DEF WriterStep

\* The process begins, ends or is killed.
LEMMA OpenKeeps ==
  ASSUME JournalInv, OpenJournal, phase' # "off"
  PROVE  JournalInv'
<1>1. /\ writer = "off" /\ writer' = "on" /\ wal' = EmptyWal /\ told' = EmptyWal
      /\ queue' = queue /\ held' = held /\ adrift' = adrift /\ buffer' = buffer
  BY DEF OpenJournal
<1>2. queue = <<>> /\ held = <<>> /\ buffer = <<>> /\ adrift = <<>>
  BY <1>1 DEF JournalInv
<1>3. <<>> \o <<>> \o <<>> = <<>>
  BY EmptySeq, ConcatEmptySeq
<1>4. JournalTellsAll'
  BY <1>1, <1>2, <1>3, ReplayNothing DEF JournalTellsAll
<1> QED
  BY <1>1, <1>2, <1>4, ListedPieces DEF JournalInv

LEMMA StopWriterKeeps ==
  ASSUME JournalInv, StopWriter, phase' # "off"
  PROVE  JournalInv'
<1>1. /\ writer = "on" /\ writer' = "draining" /\ adrift' \in {held, <<>>} /\ held' = <<>>
      /\ spoilt' = (spoilt \/ held # <<>>) /\ (~spoilt' => told' = told)
      /\ queue' = queue /\ buffer' = buffer /\ wal' = wal
  BY DEF StopWriter
<1>2. JournalTellsAll'
  BY <1>1 DEF JournalInv, JournalTellsAll
<1> QED
  BY <1>1, <1>2 DEF JournalInv

LEMMA CloseKeeps ==
  ASSUME JournalInv, Close \/ Kill, phase' = "off", rest' = Idle
  PROVE  JournalInv'
<1>1. CASE Close
  <2>1. /\ queue = <<>> /\ held = <<>> /\ wal' = ReplayAll(wal, buffer) /\ writer' = "off"
        /\ buffer' = <<>> /\ adrift' = <<>> /\ queue' = queue /\ held' = held
        /\ told' = told /\ spoilt' = spoilt
    BY <1>1 DEF Close
  <2>2. <<>> \o <<>> \o <<>> = <<>> /\ buffer \o <<>> \o <<>> = buffer
    BY EmptySeq, ConcatEmptySeq DEF JournalInv, Listed
  <2>3. JournalTellsAll'
    BY <2>1, <2>2, ReplayNothing DEF JournalInv, JournalTellsAll
  <2> QED BY <2>1, <2>3, ListedPieces DEF JournalInv
<1>2. CASE Kill
  <2>1. /\ writer' = "off" /\ queue' = <<>> /\ held' = <<>> /\ adrift' = <<>> /\ buffer' = <<>>
        /\ spoilt'
    BY <1>2 DEF Kill
  <2> QED BY <2>1, ListedPieces DEF JournalInv, JournalTellsAll
<1> QED
  BY <1>1, <1>2

-----------------------------------------------------------------------------
(* The steps of the program, by what they publish.  *)

LEMMA StillKeeps ==
  ASSUME JournalInv, UNCHANGED journalVars,
         phase = "off" <=> phase' = "off", phase = "off" => rest' = rest
  PROVE  JournalInv'
BY DEF JournalInv, JournalTellsAll, journalVars

LEMMA TradingTells ==
  ASSUME JournalInv,
         \/ VenueActs
         \/ \E o \in Orders : Submit(o) \/ Placed(o) \/ PlaceRaises(o)
         \/ HearOrder \/ HearAccount
  PROVE  JournalInv'
<1>1. CASE VenueActs \/ \E o \in Orders : Submit(o)
  <2>1. UNCHANGED journalVars /\ phase' = phase /\ rest' = rest
    BY <1>1 DEF VenueActs, VenueTakes, VenueFills, VenueEnds, Submit, engineVars
  <2> QED BY <2>1, StillKeeps
<1>2. ASSUME NEW o \in Orders, Placed(o) \/ PlaceRaises(o)
      PROVE  JournalInv'
  <2>1. /\ phase = "running" /\ phase' = phase
        /\ Publish(<<Row(o, "ACK")>>) \/ Publish(<<Row(o, "END")>>)
    BY <1>2 DEF Placed, PlaceRaises
  <2> QED BY <2>1, ListedPieces, PublishKeeps
<1>3. CASE HearOrder
  <2>1. PICK a, b : Publish(<<Row(a, b)>> \o IF Head(stream).fill THEN <<Fill(Lots[a])>> ELSE <<>>)
    BY <1>3 DEF HearOrder
  <2>2. phase = "running" /\ phase' = phase
    BY <1>3 DEF HearOrder, Reading
  <2>3. Listed(<<Row(a, b)>> \o IF Head(stream).fill THEN <<Fill(Lots[a])>> ELSE <<>>)
    BY ListedPieces, ListedConcat
  <2> QED BY <2>1, <2>2, <2>3, PublishKeeps
<1>4. CASE HearAccount
  <2>1. phase = "running" /\ phase' = phase /\ Publish(<<Position(local')>>)
    BY <1>4 DEF HearAccount, Reading
  <2> QED BY <2>1, ListedPieces, PublishKeeps
<1> QED
  BY <1>1, <1>2, <1>3, <1>4

LEMMA ProcessTells ==
  ASSUME JournalInv, Boot \/ Crash \/ Exit \/ Exited \/ WriterRuns
  PROVE  JournalInv'
<1>1. CASE Boot
  BY <1>1, OpenKeeps DEF Boot
<1>2. CASE Crash
  BY <1>2, CloseKeeps DEF Crash, Forget
<1>3. CASE Exit
  BY <1>3, StopWriterKeeps DEF Exit
<1>4. CASE Exited
  BY <1>4, CloseKeeps DEF Exited, Forget
<1>5. CASE WriterRuns
  BY <1>5, WriterKeeps DEF WriterRuns, engineVars
<1> QED
  BY <1>1, <1>2, <1>3, <1>4, <1>5

LEMMA StartTells ==
  ASSUME JournalInv,
         \/ Start \/ Ask("seeding", Snapshot("seed")) \/ Seeded \/ Aborts
         \/ Ask("ordering", List("list")) \/ Connect \/ Connected \/ PositionPass
  PROVE  JournalInv'
<1>0. rest.at \in {"seed", "connect"} => phase # "off"
  BY DEF JournalInv, Idle
<1>1. CASE Start
  <2>1. phase = "stopped" /\ phase' = "seeding"
    BY <1>1 DEF Start
  <2>2. Publish(<<Note, Position(local')>>) \/ Publish(<<Note>>)
    BY <1>1 DEF Start
  <2> QED BY <2>1, <2>2, ListedPieces, PublishKeeps
<1>2. CASE \/ Ask("seeding", Snapshot("seed")) \/ Seeded
           \/ Ask("ordering", List("list")) \/ Connect
  <2>1. UNCHANGED journalVars /\ phase # "off" /\ phase' # "off"
    BY <1>0, <1>2 DEF Ask, Seeded, Connect
  <2> QED BY <2>1, StillKeeps
<1>3. CASE Aborts
  <2>1. phase # "off" /\ phase' # "off" /\ Publish(<<Note>>)
    BY <1>3 DEF Aborts
  <2> QED BY <2>1, ListedPieces, PublishKeeps
<1>4. CASE Connected \/ PositionPass
  <2>1. phase # "off" /\ phase' # "off"
    BY <1>0, <1>4 DEF Connected, PositionPass
  <2>2. \/ \E q : Publish(<<Position(q)>>)
        \/ Publish(<<>>)
        \/ UNCHANGED journalVars
    BY <1>4 DEF Connected, PositionPass, Synced
  <2> QED BY <2>1, <2>2, ListedPieces, PublishKeeps, StillKeeps
<1> QED
  BY <1>1, <1>2, <1>3, <1>4

\* reconcile_once() publishes a row for each child it changes.
LEMMA ReconciledTells ==
  ASSUME JournalInv, IsFiniteSet(Orders), NEW open, NEW cancelled, NEW answered, NEW relisted,
         OrdersReconciled(open, cancelled, answered, relisted), phase # "off", phase' # "off"
  PROVE  JournalInv'
<1> DEFINE seen == IF relisted THEN Open \ cancelled ELSE open
           lost == IF Missing(open) = {} THEN {} ELSE Working \ seen
           found == Missing(open) \intersect answered \intersect seen
           rows == {Row(o, status'[o]) : o \in lost \union found}
<1>1. lost \union found \subseteq Orders
  BY DEF Missing, Working
<1>2. Publish(SetToSeq(rows))
  BY DEF OrdersReconciled, Reconciled
<1> HIDE DEF lost, found
<1>3. IsFiniteSet(lost \union found)
  BY <1>1, FS_Subset
<1>4. PICK st : st = status'
  OBVIOUS
<1>5. Listed(SetToSeq({Row(o, st[o]) : o \in lost \union found}))
  BY <1>3, ListedRows
<1>6. Listed(SetToSeq(rows))
  BY <1>4, <1>5
<1> HIDE DEF rows
<1> QED
  BY <1>2, <1>6, PublishKeeps

LEMMA RunningTells ==
  ASSUME JournalInv, IsFiniteSet(Orders),
         \/ StartOrders \/ Stop
         \/ \E cancelled, answered \in SUBSET Orders, relisted \in BOOLEAN :
              OrderPass(cancelled, answered, relisted)
  PROVE  JournalInv'
<1>1. CASE StartOrders
  <2>1. phase # "off" /\ phase' # "off"
    BY <1>1 DEF StartOrders, JournalInv, Idle
  <2>2. \/ \E cancelled, answered \in SUBSET Orders, relisted \in BOOLEAN :
             OrdersReconciled(rest.open, cancelled, answered, relisted)
        \/ UNCHANGED journalVars
    BY <1>1 DEF StartOrders
  <2> QED BY <2>1, <2>2, ReconciledTells, StillKeeps
<1>2. CASE Stop
  <2>1. phase # "off" /\ phase' # "off"
    BY <1>2 DEF Stop
  <2>2. Publish(SetToSeq({Row(o, "END") : o \in Working}) \o <<Note>>)
    BY <1>2 DEF Stop
  <2>3. PICK st : st = [o \in Working |-> "END"]
    OBVIOUS
  <2>4. {Row(o, "END") : o \in Working} = {Row(o, st[o]) : o \in Working}
    BY <2>3
  <2>5. IsFiniteSet(Working)
    BY FS_Subset DEF Working
  <2>6. Listed(SetToSeq({Row(o, "END") : o \in Working}))
    BY <2>4, <2>5, ListedRows
  <2>7. Listed(SetToSeq({Row(o, "END") : o \in Working}) \o <<Note>>)
    BY <2>6, ListedPieces, ListedConcat
  <2> QED BY <2>1, <2>2, <2>7, PublishKeeps
<1>3. ASSUME NEW cancelled \in SUBSET Orders, NEW answered \in SUBSET Orders,
             NEW relisted \in BOOLEAN, OrderPass(cancelled, answered, relisted)
      PROVE  JournalInv'
  <2>1. /\ phase # "off" /\ phase' # "off"
        /\ OrdersReconciled(Open, cancelled, answered, relisted)
    BY <1>3 DEF OrderPass
  <2> QED BY <2>1, ReconciledTells
<1> QED
  BY <1>1, <1>2, <1>3

\* The file, what a thread holds and the queue together are all that the process has
\* published, in order, through flushes, lines that do not fit, restarts of the engine and
\* crashes of the program, unless the queue has overflowed or the writer was cancelled while
\* a thread appended; so a clean exit leaves all of it in the file (EventBus.publish(),
\* EventJournal.append(), close()).
THEOREM JournalIsComplete ==
  ASSUME IsFiniteSet(Orders)
  PROVE  Spec => []JournalTellsAll
<1>1. Init => JournalInv
  <2> SUFFICES ASSUME Init PROVE JournalInv
    OBVIOUS
  <2>1. <<>> \o <<>> \o <<>> = <<>>
    BY EmptySeq, ConcatEmptySeq
  <2>2. JournalTellsAll
    BY <2>1, ReplayNothing DEF Init, InitJournal, JournalTellsAll
  <2> QED BY <2>2, ListedPieces DEF Init, InitJournal, JournalInv
<1>2. JournalInv /\ [Next]_vars => JournalInv'
  <2> SUFFICES ASSUME JournalInv, [Next]_vars PROVE JournalInv'
    OBVIOUS
  <2>1. CASE UNCHANGED vars
    <3>1. UNCHANGED journalVars /\ phase' = phase /\ rest' = rest
      BY <2>1 DEF vars, engineVars
    <3> QED BY <3>1, StillKeeps
  <2> QED
    BY <2>1, TradingTells, ProcessTells, StartTells, RunningTells, Zenon DEF Next
<1>3. JournalInv => JournalTellsAll
  BY DEF JournalInv
<1> QED
  BY <1>1, <1>2, <1>3, PTL DEF Spec
=============================================================================
