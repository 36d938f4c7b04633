------------------------------ MODULE BookSync ------------------------------
(***************************************************************************)
(* The L2 book of one symbol (backend/engine/market_data/orderbook.py)     *)
(* kept in step with the venue: depth events of a market data shard        *)
(* (backend/gateways/binance/market_connection.py), their sequence check   *)
(* (backend/engine/market_data/data_quality.py, _on_depth), and the REST   *)
(* snapshots that repair it, asked for by the gap task, by the bulk        *)
(* resync of a reconnect or of a strategy swap                             *)
(* (backend/engine/core/book_resync_runtime.py) and by the clock when no   *)
(* event has been applied for too long.  Their answers are applied when    *)
(* they arrive, in any order.                                              *)
(*                                                                         *)
(* Levels are left out: a book is the id of its last update, and whether   *)
(* its content is that of the venue at this id.  Other symbols show where  *)
(* they keep the shared gap task busy.                                     *)
(***************************************************************************)
EXTENDS Integers, Sequences

CONSTANTS
  MaxId,    \* bound on the update ids
  MaxWire,  \* size of a shard's ingest queue
  MaxCuts   \* bound on disconnects and resubscriptions

ASSUME BookSyncAssumption == MaxId \in Nat /\ MaxWire \in Nat \ {0} /\ MaxCuts \in Nat

VARIABLES
  head,     \* last update of the venue's book
  sent,     \* last update that an event carried
  link,     \* the shard: down, up, draining (closed, its queue not empty), dead
  had,      \* the shard has had a session (_shard_had_session)
  wire,     \* the ingest queue of the shard
  cuts,     \* disconnects and resubscriptions so far
  book,     \* [ready, last, right]
  fed,      \* an event has been applied once (last_diff_ts > 0)
  old,      \* that was stale_resnapshot_sec ago
  pending,  \* the symbol is in _gap_resync_pending
  gap,      \* the gap task
  due,      \* the symbol is in _reconnect_resync_pending
  bulk,     \* the bulk resync
  clock,    \* the snapshot of the clock
  frozen    \* _book_resync is set: no strategy is evaluated

net == <<head, sent, link, had, wire, cuts>>
feed == <<book, fed, old>>
repair == <<pending, gap, due, bulk, clock, frozen>>
vars == <<net, feed, repair>>

Id == 0 .. MaxId
\* A REST call for a snapshot: idle, or asked for and read at an id.
Call(at, id) == [at |-> at, id |-> id]
Idle == Call("idle", 0)

TypeOK ==
  /\ head \in Id /\ sent \in 0 .. head
  /\ link \in {"down", "up", "draining", "dead"} /\ had \in BOOLEAN
  /\ Len(wire) <= MaxWire /\ cuts \in 0 .. MaxCuts
  /\ book \in [ready : BOOLEAN, last : 0 .. head, right : BOOLEAN]
  /\ {fed, old, pending, due, frozen} \subseteq BOOLEAN
  /\ old => fed
  /\ gap \in [at : {"idle", "start", "claimed", "asked", "ending"}, id : Id]
  /\ bulk \in [at : {"idle", "wait", "asked"}, id : Id]
  /\ clock \in [at : {"idle", "asked"}, id : Id]
  /\ frozen => bulk.at = "asked"

\* _bootstrap_order_books(): a snapshot is taken before the stream is subscribed, or fails.
Init ==
  /\ head = 0 /\ sent = 0 /\ link = "down" /\ had = FALSE /\ wire = <<>> /\ cuts = 0
  /\ book \in {[ready |-> r, last |-> 0, right |-> TRUE] : r \in BOOLEAN}
  /\ fed = FALSE /\ old = FALSE
  /\ pending = FALSE /\ gap = Idle /\ due = FALSE /\ bulk = Idle /\ clock = Idle
  /\ frozen = FALSE

-----------------------------------------------------------------------------
\* The book of the venue changes; an event carries all updates since the last one.
VenueUpdates ==
  /\ head < MaxId
  /\ head' = head + 1
  /\ UNCHANGED <<sent, link, had, wire, cuts, feed, repair>>

Event == [prev |-> sent, final |-> head]

VenueSends ==
  /\ sent < head
  /\ sent' = head
  /\ IF link = "up"
     THEN Len(wire) < MaxWire /\ wire' = Append(wire, Event)
     ELSE wire' = wire
  /\ UNCHANGED <<head, link, had, cuts, feed, repair>>

\* _run_shard() connects; on_market_ws_reconnect() when it is not the first time.
Connect ==
  /\ link = "down"
  /\ link' = "up" /\ had' = TRUE
  /\ due' = (due \/ had)
  /\ UNCHANGED <<head, sent, wire, cuts, feed, pending, gap, bulk, clock, frozen>>

\* The handshake is refused: the exception is none that _run_shard() retries after.
HandshakeFails ==
  /\ link = "down"
  /\ link' = "dead"
  /\ UNCHANGED <<head, sent, had, wire, cuts, feed, repair>>

\* The socket closes: what the reader has not read is lost, what is in the queue is still
\* processed.  When the queue is full _QUEUE_STOP does not fit, and the shard ends.
Disconnect ==
  /\ link = "up" /\ cuts < MaxCuts
  /\ cuts' = cuts + 1
  /\ \E n \in 0 .. Len(wire) : wire' = SubSeq(wire, 1, n)
  /\ link' = IF Len(wire') = MaxWire THEN "dead" ELSE "draining"
  /\ UNCHANGED <<head, sent, had, feed, repair>>

Drained ==
  /\ link = "draining" /\ wire = <<>>
  /\ link' = "down"
  /\ UNCHANGED <<head, sent, had, wire, cuts, feed, repair>>

\* refresh_market_universe(): all shards are stopped and started; the bulk resync is for the
\* symbols that are added, and is left out while REST is throttled.
Resubscribe ==
  /\ link # "down" /\ cuts < MaxCuts
  /\ bulk.at = "idle"
  /\ cuts' = cuts + 1
  /\ link' = "down" /\ had' = FALSE /\ wire' = <<>>
  /\ bulk' \in {bulk, Call("wait", 0)}
  /\ UNCHANGED <<head, sent, feed, pending, gap, due, clock, frozen>>

-----------------------------------------------------------------------------
\* Mutated form of Assess: an event that starts after the book is applied.
AssessLoose(e) ==
  IF ~book.ready THEN "resnapshot"
  ELSE IF e.final <= book.last THEN "drop"
  ELSE "apply"

\* assess(): whether a depth event can be applied.
Assess(e) ==
  IF ~book.ready THEN "resnapshot"
  ELSE IF e.final <= book.last THEN "drop"
  ELSE IF e.prev # book.last THEN "resnapshot"
  ELSE "apply"

Reading == link \in {"up", "draining", "dead"} /\ wire # <<>>
FrontEvent == Head(wire)
Read == wire' = Tail(wire) /\ UNCHANGED <<head, sent, link, had, cuts>>

\* apply_diff(): its levels are absolute, so only updates that are left out make it wrong.
DepthApplied ==
  /\ Reading /\ Assess(FrontEvent) = "apply"
  /\ Read
  /\ book' = [book EXCEPT !.last = FrontEvent.final, !.right = @ /\ FrontEvent.prev <= book.last]
  /\ fed' = TRUE /\ old' = FALSE
  /\ UNCHANGED repair

DepthDropped ==
  /\ Reading /\ Assess(FrontEvent) = "drop"
  /\ Read
  /\ UNCHANGED <<feed, repair>>

\* The symbol is noted for the gap task, unless a bulk resync has it or its snapshot is on
\* its way; schedule_gap_resync() starts the task when none runs.
DepthGap ==
  /\ Reading /\ Assess(FrontEvent) = "resnapshot"
  /\ Read
  /\ IF bulk.at = "asked" \/ gap.at = "asked"
     THEN UNCHANGED <<pending, gap>>
     ELSE /\ pending' = TRUE
          /\ gap' = IF gap.at = "idle" THEN Call("start", 0) ELSE gap
  /\ UNCHANGED <<feed, due, bulk, clock, frozen>>

-----------------------------------------------------------------------------
\* apply_snapshot(): whatever the book was.
Seeded(id) == [ready |-> TRUE, last |-> id, right |-> TRUE]
Blank == [ready |-> FALSE, last |-> 0, right |-> TRUE]

\* drain_gap_resync() takes the pending symbols.
GapClaims ==
  /\ gap.at = "start"
  /\ pending' = FALSE
  /\ gap' = Call(IF pending THEN "claimed" ELSE "ending", 0)
  /\ UNCHANGED <<net, feed, due, bulk, clock, frozen>>

GapAsks ==
  /\ gap.at = "claimed"
  /\ gap' = IF bulk.at = "asked" THEN Call("ending", 0) ELSE Call("asked", head)
  /\ UNCHANGED <<net, feed, pending, due, bulk, clock, frozen>>

\* The answer, or none (rate limit, error, time out).
GapEnds(ok) ==
  /\ gap.at = "asked"
  /\ book' = IF ok THEN Seeded(gap.id) ELSE book
  /\ gap' = Call("ending", 0)
  /\ UNCHANGED <<net, fed, old, pending, due, bulk, clock, frozen>>

\* The snapshots of the other symbols are done too.
GapDone ==
  /\ gap.at = "ending"
  /\ gap' = Idle
  /\ UNCHANGED <<net, feed, pending, due, bulk, clock, frozen>>

\* flush_reconnect_resync() has the serial lock: the book is invalidated and asked for.
BulkReconnect ==
  /\ due /\ bulk.at = "idle"
  /\ due' = FALSE
  /\ book' = Blank
  /\ bulk' = Call("asked", head)
  /\ UNCHANGED <<net, fed, old, pending, gap, clock, frozen>>

BulkSwap ==
  /\ bulk.at = "wait"
  /\ book' = Blank
  /\ bulk' = Call("asked", head)
  /\ frozen' = TRUE
  /\ UNCHANGED <<net, fed, old, pending, gap, due, clock>>

BulkEnds(ok) ==
  /\ bulk.at = "asked"
  /\ book' = IF ok THEN Seeded(bulk.id) ELSE book
  /\ bulk' = Idle
  /\ frozen' = FALSE
  /\ UNCHANGED <<net, fed, old, pending, gap, due, clock>>

\* stale_resnapshot_sec passes without an event that was applied.
TimePasses ==
  /\ fed /\ ~old
  /\ old' = TRUE
  /\ UNCHANGED <<net, book, fed, repair>>

\* Mutated form of ClockAsks: a book that is not ready is left to the other resyncs.
ClockAsksReady ==
  /\ old /\ clock.at = "idle" /\ book.ready
  /\ clock' = Call("asked", head)
  /\ UNCHANGED <<net, feed, pending, gap, due, bulk, frozen>>

\* tick_staleness(), and the snapshot that _on_clock_tick() takes of such a symbol.
ClockAsks ==
  /\ old /\ clock.at = "idle"
  /\ clock' = Call("asked", head)
  /\ UNCHANGED <<net, feed, pending, gap, due, bulk, frozen>>

ClockEnds(ok) ==
  /\ clock.at = "asked"
  /\ book' = IF ok THEN Seeded(clock.id) ELSE book
  /\ clock' = Idle
  /\ UNCHANGED <<net, fed, old, pending, gap, due, bulk, frozen>>

Next ==
  \/ VenueUpdates \/ VenueSends
  \/ Connect \/ HandshakeFails \/ Disconnect \/ Drained \/ Resubscribe
  \/ DepthApplied \/ DepthDropped \/ DepthGap
  \/ GapClaims \/ GapAsks \/ GapDone
  \/ BulkReconnect \/ BulkSwap \/ TimePasses \/ ClockAsks
  \/ \E ok \in BOOLEAN : GapEnds(ok) \/ BulkEnds(ok) \/ ClockEnds(ok)

\* Tasks go on; a bulk snapshot ends, if only by its time out; time passes, and the snapshots
\* of the clock succeed again and again.
Spec ==
  /\ Init
  /\ [][Next]_vars
  /\ WF_vars(DepthApplied \/ DepthDropped \/ DepthGap) /\ WF_vars(VenueSends)
  /\ WF_vars(BulkReconnect) /\ WF_vars(BulkSwap) /\ WF_vars(BulkEnds(FALSE))
  /\ WF_vars(\E ok \in BOOLEAN : GapEnds(ok))
  /\ WF_vars(TimePasses) /\ WF_vars(ClockAsks)
  /\ SF_vars(ClockEnds(TRUE))

-----------------------------------------------------------------------------
\* A book that is shown as ready is the venue's at its last update, whichever snapshots and
\* events were lost, late or out of order: nothing is ever applied across a gap.
BookExact == book.ready => book.right

\* A book that has been fed comes back to the venue's once it is quiet, even when its shard
\* died, its last events met a resync on its way, or its resync failed.
CatchesUp == []<>(fed => book.ready /\ book.last = head)

\* A strategy swap blocks the strategies only for a while, whether snapshots hang or fail.
FreezeEnds == frozen ~> ~frozen
=============================================================================
