--------------------------- MODULE CrashRecovery ---------------------------
(***************************************************************************)
(* Crashes, clean exits and restarts of the backend: what a start makes of *)
(* the journal of an earlier process (Engine._start_impl in                *)
(* backend/engine/core/engine.py), of a REST snapshot, of the venue's open *)
(* orders and of the snapshot its first user-data connection asks for,     *)
(* while the venue goes on.                                                *)
(*                                                                         *)
(* The steps of an order pass are those of module OrderReconciler and the  *)
(* steps of a position pass those of PositionBook; here each is one call   *)
(* that reads and one step that applies, since what matters is what the    *)
(* start makes of both.                                                    *)
(***************************************************************************)
EXTENDS EventJournal

CONSTANTS
  Lots,           \* Lots[o]: the signed lots of order o
  StartQty,       \* what the account may hold at first
  CancelOrphans,  \* setting reconcile_cancel_orphans
  RecoverOnStart, \* setting recover_on_start
  MaxFrames,      \* bound on the frames on their way
  MaxBoots,       \* bound on the processes
  MaxStarts       \* bound on the starts of the engine in a process

ASSUME RecoveryAssumption ==
  /\ Lots \in [Orders -> {-1, 1}]
  /\ StartQty \subseteq -1..1
  /\ {CancelOrphans, RecoverOnStart} \subseteq BOOLEAN
  /\ {MaxFrames, MaxBoots, MaxStarts} \subseteq Nat

VARIABLES
  phase,   \* the process and EngineStatus
  boots,   \* processes so far
  starts,  \* starts of the engine in this process
  venue,   \* venue[o]: the order at the venue
  pos,     \* the position at the venue
  post,    \* post[o]: the POST of the order
  socket,  \* the user-data socket: "down", "syncing" before it is read, "up"
  stream,  \* frames sent on it and not read
  rest,    \* the REST call of the start or of a pass, with what it has read
  status,  \* the children of the order manager
  local,   \* the position of the tracker
  quiet    \* history: since the last start began no call failed and the venue
           \* did nothing that the start had not asked for

venueVars == <<venue, pos, stream>>
engineVars == <<phase, socket, rest, status, local>>
processVars == <<boots, starts>>
vars == <<journalVars, venueVars, engineVars, processVars, post, quiet>>


Open == {o \in Orders : venue[o] = "open"}

Idle == [at |-> "idle", open |-> {}, qty |-> 0]
List(at) == [at |-> at, open |-> Open, qty |-> 0]
Snapshot(at) == [at |-> at, open |-> {}, qty |-> pos]

Qty == -2..2
Working == {o \in Orders : status[o] \in {"NEW", "ACK"}}

TypeOK ==
  /\ TypeOKJournal
  /\ phase \in {"off", "stopped", "seeding", "ordering", "running", "exiting"}
  /\ boots \in 0..MaxBoots /\ starts \in 0..MaxStarts
  /\ venue \in [Orders -> {"none", "open", "done"}]
  /\ {pos, local} \subseteq Qty
  /\ post \in [Orders -> {"idle", "sent", "taken", "adrift"}]
  /\ socket \in {"down", "syncing", "up"}
  /\ Len(stream) <= MaxFrames
  /\ rest \in [at : {"idle", "seed", "list", "connect"},
               open : SUBSET Orders, qty : Qty]
  /\ status \in [Orders -> {"none", "NEW", "ACK", "END"}]
  /\ quiet \in BOOLEAN

Init ==
  /\ InitJournal
  /\ phase = "off" /\ boots = 0 /\ starts = 0
  /\ venue = [o \in Orders |-> "none"] /\ pos \in StartQty
  /\ post = [o \in Orders |-> "idle"]
  /\ socket = "down" /\ stream = <<>>
  /\ rest = Idle
  /\ status = [o \in Orders |-> "none"] /\ local = 0
  /\ quiet = FALSE

-----------------------------------------------------------------------------
\* The venue.

Frame(o, end, fill) == [kind |-> "order", id |-> o, end |-> end, fill |-> fill]
Account(q) == [kind |-> "account", qty |-> q]

Sends(frames) ==
  /\ Len(stream) + Len(frames) <= MaxFrames
  /\ stream' = IF socket = "down" THEN stream ELSE stream \o frames

VenueTakes(o) ==
  /\ post[o] \in {"sent", "adrift"}
  /\ venue' = [venue EXCEPT ![o] = "open"]
  /\ post' = [post EXCEPT ![o] = IF @ = "sent" THEN "taken" ELSE "idle"]
  /\ Sends(<<Frame(o, FALSE, FALSE)>>)
  /\ quiet' = FALSE
  /\ UNCHANGED <<journalVars, engineVars, processVars, pos>>

VenueFills(o) ==
  /\ venue[o] = "open"
  /\ venue' = [venue EXCEPT ![o] = "done"]
  /\ pos' = pos + Lots[o]
  /\ Sends(<<Account(pos'), Frame(o, TRUE, TRUE)>>)
  /\ quiet' = FALSE
  /\ UNCHANGED <<journalVars, engineVars, processVars, post>>

VenueEnds(o) ==
  /\ venue[o] = "open"
  /\ venue' = [venue EXCEPT ![o] = "done"]
  /\ Sends(<<Frame(o, TRUE, FALSE)>>)
  /\ quiet' = FALSE
  /\ UNCHANGED <<journalVars, engineVars, processVars, pos, post>>

VenueActs == \E o \in Orders : VenueTakes(o) \/ VenueFills(o) \/ VenueEnds(o)

-----------------------------------------------------------------------------
\* Trading: what an order goes through.

\* submit_child(): a child that is new is not published.
Submit(o) ==
  /\ phase = "running" /\ status[o] = "none" /\ venue[o] = "none" /\ post[o] = "idle"
  /\ status' = [status EXCEPT ![o] = "NEW"]
  /\ post' = [post EXCEPT ![o] = "sent"]
  /\ quiet' = FALSE
  /\ UNCHANGED <<journalVars, venueVars, processVars, phase, socket, rest, local>>

\* The response is stored whatever the child has become since.
Placed(o) ==
  /\ phase = "running" /\ post[o] = "taken"
  /\ status' = [status EXCEPT ![o] = "ACK"]
  /\ post' = [post EXCEPT ![o] = "idle"]
  /\ Publish(<<Row(o, "ACK")>>)
  /\ UNCHANGED <<venueVars, processVars, phase, socket, rest, local, quiet>>

\* A request that failed, or whose response was lost, may still reach the venue.
PlaceRaises(o) ==
  /\ phase = "running" /\ post[o] \in {"sent", "taken"}
  /\ status' = [status EXCEPT ![o] = "END"]
  /\ \/ post' = [post EXCEPT ![o] = "idle"]
     \/ post[o] = "sent" /\ post' = [post EXCEPT ![o] = "adrift"]
  /\ Publish(<<Row(o, "END")>>)
  /\ UNCHANGED <<venueVars, processVars, phase, socket, rest, local, quiet>>

Reading == phase = "running" /\ socket = "up" /\ stream # <<>>

\* merge_order_status(), with an order that is not known adopted as it is.
Merge(current, end) == IF end \/ current = "END" THEN "END" ELSE "ACK"

\* An order frame, and after it the fill that it carries.
HearOrder ==
  /\ Reading /\ Head(stream).kind = "order"
  /\ LET f == Head(stream)
         st == Merge(status[f.id], f.end)
     IN /\ status' = [status EXCEPT ![f.id] = st]
        /\ Publish(<<Row(f.id, st)>> \o IF f.fill THEN <<Fill(Lots[f.id])>> ELSE <<>>)
  /\ stream' = Tail(stream)
  /\ UNCHANGED <<venue, pos, processVars, phase, socket, rest, local, post, quiet>>

HearAccount ==
  /\ Reading /\ Head(stream).kind = "account"
  /\ local' = Head(stream).qty
  /\ Publish(<<Position(local')>>)
  /\ stream' = Tail(stream)
  /\ UNCHANGED <<venue, pos, processVars, phase, socket, rest, status, post, quiet>>

-----------------------------------------------------------------------------
\* The process.

\* What is left of the requests of a process that ends.
Abandoned ==
  [o \in Orders |-> {p \in {"idle", "adrift"} : p = "adrift" => post[o] \in {"sent", "adrift"}}]

Abandon == \E p \in [Orders -> {"idle", "adrift"}] :
             /\ \A o \in Orders : p[o] \in Abandoned[o]
             /\ post' = p

\* The memory of the process is gone.
Forget ==
  /\ phase' = "off" /\ starts' = 0 /\ quiet' = FALSE
  /\ status' = [o \in Orders |-> "none"] /\ local' = 0
  /\ socket' = "down" /\ stream' = <<>> /\ rest' = Idle

Boot ==
  /\ phase = "off" /\ boots < MaxBoots
  /\ OpenJournal
  /\ phase' = "stopped"
  /\ boots' = boots + 1
  /\ UNCHANGED <<venueVars, post, starts, socket, rest, status, local, quiet>>

Crash ==
  /\ phase # "off"
  /\ Kill
  /\ Forget
  /\ Abandon
  /\ UNCHANGED <<venue, pos, boots>>

\* The program is told to end: the engine is stopped, then the journal.
Exit ==
  /\ phase = "stopped"
  /\ StopWriter
  /\ phase' = "exiting"
  /\ UNCHANGED <<venueVars, processVars, socket, rest, status, local, post, quiet>>

Exited ==
  /\ phase = "exiting"
  /\ Close
  /\ Forget
  /\ UNCHANGED <<venue, pos, boots, post>>

WriterRuns ==
  /\ WriterStep
  /\ UNCHANGED <<venueVars, engineVars, processVars, post, quiet>>

-----------------------------------------------------------------------------
\* The start of the engine.

\* replay_wal_async(), with restore_state(): the file is that of the process before,
\* at each start of this one.  Fills count from the position the tracker has.
Start ==
  /\ phase = "stopped" /\ starts < MaxStarts
  /\ phase' = "seeding"
  /\ starts' = starts + 1
  /\ quiet' = TRUE
  /\ IF RecoverOnStart
     THEN /\ status' = [o \in Orders |-> IF older.child[o] = "none" THEN status[o]
                                         ELSE older.child[o]]
          /\ local' = IF older.rows # {} THEN CHOOSE q \in Qty : q \in older.rows
                      ELSE local + older.fills
          /\ Publish(IF older.rows = {} /\ older.fills # 0
                     THEN <<Note, Position(local')>> ELSE <<Note>>)
     ELSE Publish(<<Note>>) /\ UNCHANGED <<status, local>>
  /\ UNCHANGED <<venueVars, boots, socket, rest, post>>

\* A call is answered by the venue, and what the answer says is used later.
Ask(at, call) ==
  /\ phase = at /\ rest = Idle
  /\ rest' = call
  /\ UNCHANGED <<journalVars, venueVars, processVars, phase, socket, status, local, post, quiet>>

\* seed(): the answer has rows for open positions only, so a flat symbol keeps what
\* the replay gave it.
Seeded ==
  /\ rest.at = "seed"
  /\ local' = IF rest.qty # 0 THEN rest.qty ELSE local
  /\ rest' = Idle
  /\ phase' = "ordering"
  /\ UNCHANGED <<journalVars, venueVars, processVars, socket, status, post, quiet>>

\* A call that fails during the start aborts it.
Aborts ==
  /\ phase \in {"seeding", "ordering"} /\ rest.at \in {"idle", "seed"}
  /\ phase' = "stopped"
  /\ rest' = Idle
  /\ Publish(<<Note>>)
  /\ UNCHANGED <<venueVars, processVars, socket, status, local, post, quiet>>

\* reconcile_once() on a list of open orders.  A stranger is cancelled, and then the list
\* is fetched again; a working child that the first list does not have is asked for, and
\* rejected when no list has it, whatever the answer said.  The cancels that succeed are
\* `cancelled`, the queries `answered`, the second list came if `relisted`.
Strangers(open) == IF CancelOrphans THEN open \ Working ELSE {}
Missing(open) == Working \ open

\* Mutated form of Reconciled: a working child is believed on its word.
ReconciledStrangers(open, cancelled, answered, relisted) ==
  /\ venue' = [o \in Orders |-> IF o \in cancelled /\ venue[o] = "open" THEN "done" ELSE venue[o]]
  /\ UNCHANGED <<status, journalVars>>

Reconciled(open, cancelled, answered, relisted) ==
  LET seen == IF relisted THEN Open \ cancelled ELSE open
      lost == IF Missing(open) = {} THEN {} ELSE Working \ seen
      found == Missing(open) \intersect answered \intersect seen
  IN /\ venue' = [o \in Orders |-> IF o \in cancelled /\ venue[o] = "open" THEN "done" ELSE venue[o]]
     /\ status' = [o \in Orders |-> IF o \in lost THEN "END"
                                    ELSE IF o \in found THEN "ACK" ELSE status[o]]
     /\ Publish(SetToSeq({Row(o, status'[o]) : o \in lost \union found}))

OrdersReconciled(open, cancelled, answered, relisted) ==
  /\ cancelled \subseteq Strangers(open) /\ answered \subseteq Missing(open)
  /\ relisted => Strangers(open) # {}
  /\ Reconciled(open, cancelled, answered, relisted)
  /\ LET ended == SetToSeq({o \in cancelled : venue[o] = "open"}) IN
       Sends([i \in DOMAIN ended |-> Frame(ended[i], TRUE, FALSE)])
  /\ quiet' = (quiet /\ cancelled = Strangers(open) /\ answered = Missing(open))
  /\ rest' = Idle
  /\ UNCHANGED <<pos, processVars, local, post>>

\* sync_startup(): a list that fails is passed over.  The stream is subscribed to next, or
\* the start fails at that; the first connection and the engine's first tick do not wait for each other.
StartOrders ==
  /\ rest.at = "list"
  /\ \/ \E cancelled, answered \in SUBSET Orders, relisted \in BOOLEAN :
           OrdersReconciled(rest.open, cancelled, answered, relisted)
     \/ /\ rest' = Idle /\ quiet' = FALSE
        /\ UNCHANGED <<journalVars, venueVars, processVars, status, local, post>>
  /\ phase' \in {"running", "stopped"}
  /\ UNCHANGED socket

\* The socket is open; frames wait until the snapshot of _on_user_ws_connected is in.
Connect ==
  /\ phase = "running" /\ socket = "down" /\ rest = Idle
  /\ socket' = "syncing"
  /\ rest' = Snapshot("connect")
  /\ UNCHANGED <<journalVars, venueVars, processVars, phase, status, local, post, quiet>>

\* sync_from_venue(): a symbol without a row is flat.
Synced(q) ==
  /\ local' = q
  /\ Publish(IF q # 0 \/ local # 0 THEN <<Position(q)>> ELSE <<>>)

\* Mutated form of Connected: only a later connection asks for a snapshot.
ConnectedQuietly ==
  /\ rest.at = "connect"
  /\ rest' = Idle
  /\ socket' = "up"
  /\ UNCHANGED <<journalVars, venueVars, processVars, phase, status, local, post, quiet>>

Connected ==
  /\ rest.at = "connect"
  /\ \/ Synced(rest.qty) /\ UNCHANGED quiet
     \/ quiet' = FALSE /\ UNCHANGED <<local, journalVars>>
  /\ rest' = Idle
  /\ socket' = "up"
  /\ UNCHANGED <<venueVars, processVars, phase, status, post>>

\* The passes of a running engine: their calls may interleave with more than they do
\* here, see OrderReconciler and PositionBook.
OrderPass(cancelled, answered, relisted) ==
  /\ phase = "running" /\ rest = Idle
  /\ OrdersReconciled(Open, cancelled, answered, relisted)
  /\ UNCHANGED <<phase, socket>>

PositionPass ==
  /\ phase = "running" /\ rest = Idle /\ pos # local
  /\ Synced(pos)
  /\ UNCHANGED <<venueVars, processVars, phase, socket, rest, status, post, quiet>>

\* stop(): the mass cancel may fail, and the working children are marked all the same.
\* The positions are kept (setting flatten_on_stop off, or a flatten that gave up).
Stop ==
  /\ phase = "running"
  /\ \E obeyed \in {{}, Open} :
       venue' = [o \in Orders |-> IF o \in obeyed THEN "done" ELSE venue[o]]
  /\ status' = [o \in Orders |-> IF o \in Working THEN "END" ELSE status[o]]
  /\ Publish(SetToSeq({Row(o, "END") : o \in Working}) \o <<Note>>)
  /\ socket' = "down" /\ stream' = <<>> /\ rest' = Idle
  /\ phase' = "stopped"
  /\ Abandon
  /\ UNCHANGED <<pos, processVars, local, quiet>>

-----------------------------------------------------------------------------
Next ==
  \/ VenueActs
  \/ \E o \in Orders : Submit(o) \/ Placed(o) \/ PlaceRaises(o)
  \/ HearOrder \/ HearAccount
  \/ Boot \/ Crash \/ Exit \/ Exited \/ WriterRuns
  \/ Start \/ Ask("seeding", Snapshot("seed")) \/ Seeded \/ Aborts
  \/ Ask("ordering", List("list")) \/ StartOrders \/ Connect \/ Connected
  \/ \E cancelled, answered \in SUBSET Orders, relisted \in BOOLEAN :
       OrderPass(cancelled, answered, relisted)
  \/ PositionPass
  \/ Stop

Spec == Init /\ [][Next]_vars

\* The reconcilers' tasks go on, and their calls do not fail for ever; a snapshot that was
\* asked for is answered.  Neither the socket nor a response need ever come.
FairSpec ==
  /\ Spec
  /\ WF_vars(Connected)
  /\ SF_vars(\E relisted \in BOOLEAN : OrderPass(Strangers(Open), Missing(Open), relisted))
  /\ SF_vars(PositionPass)

-----------------------------------------------------------------------------
\* The file, the buffer, the event in the writer's hands and the queue together are
\* everything this process has published, in order, unless the queue overflowed or the
\* writer was cancelled while a thread appended.  A clean exit leaves it in the file.
JournalTellsAll ==
  ~spoilt =>
    ReplayAll(wal, buffer \o held \o queue) = told

\* After a start in which every call succeeded and the venue did nothing of itself, the
\* engine works exactly the orders that are open and has the position the venue has,
\* whatever the journal said: how the last process ended, what it lost, and how often
\* the old file was replayed.
StartSeesVenue ==
  phase = "running" /\ socket = "up" /\ quiet =>
    Working = Open /\ local = pos

\* An engine that stays up does not leave an order at the venue that it does not know
\* of, take an order for working that has ended, nor keep a position that is not the
\* venue's, whatever a crash has cut short and whatever the journal said.
ViewSettles ==
  <>[](phase = "running") => []<>(Working = Open /\ local = pos)
=============================================================================
