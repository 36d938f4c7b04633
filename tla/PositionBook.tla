---------------------------- MODULE PositionBook ----------------------------
(***************************************************************************)
(* What the engine knows of its position in one symbol                     *)
(* (backend/engine/position/position_tracker.py), against the position the *)
(* venue holds: ACCOUNT_UPDATE and ORDER_TRADE_UPDATE frames of the user   *)
(* stream, REST snapshots of a reconcile pass                              *)
(* (backend/engine/core/reconciliation.py), of a reconnect and of a heal,  *)
(* each applied when it arrives and not when it was read.  A call is one   *)
(* step that reads and one that applies: an answer is as old as its read.  *)
(*                                                                         *)
(* On Binance a fill never moves the book: its own frame makes the stream  *)
(* count as fresh, and then ACCOUNT_UPDATE alone does.                     *)
(***************************************************************************)
EXTENDS Integers, Sequences, FiniteSets

CONSTANTS
  MaxPos,     \* bound on the position
  MaxStream,  \* bound on the frames on their way
  FillsFirst  \* may the venue send a fill before its ACCOUNT_UPDATE?

ASSUME BookAssumption ==
  /\ MaxPos \in Nat \ {0}
  /\ MaxStream \in Nat \ {0}
  /\ FillsFirst \in BOOLEAN

VARIABLES
  venue,    \* the position at the venue
  stream,   \* frames sent and not read yet
  up,       \* the user stream is connected and read
  local,    \* the position of the tracker, and its copy of the venue's
  fresh,    \* a frame came within reconcile_user_data_fresh_sec
  pass,     \* the reconcile pass
  sync,     \* the snapshot asked for by a reconnect or by a heal
  raced,    \* history: a snapshot has replaced the book, or frames were lost
  misread   \* history: a fill was classified otherwise than it was

bookVars == <<venue, stream, up, local, fresh, pass, sync, raced, misread>>

Qty == -MaxPos .. MaxPos

\* A REST call: none, or one that has read a position.
Idle == [at |-> "idle", qty |-> 0]
Answer(at, q) == [at |-> at, qty |-> q]

TypeOKBook ==
  /\ venue \in Qty
  /\ Len(stream) <= MaxStream
  /\ {up, fresh, raced, misread} \subseteq BOOLEAN
  /\ local \in Qty
  /\ pass \in [at : {"read", "read2", "end", "trip"}, qty : Qty] \union {Idle}
  /\ sync \in [at : {"connect", "heal"}, qty : Qty] \union {Idle}

InitBook ==
  /\ venue \in Qty /\ local = venue
  /\ stream = <<>> /\ up = TRUE
  /\ fresh = FALSE
  /\ pass = Idle /\ sync = Idle
  /\ raced = FALSE /\ misread = FALSE

-----------------------------------------------------------------------------
\* The frames of an execution of d lots for a parent (0: none of this engine).
Account(q) == [kind |-> "account", qty |-> q, parent |-> 0, was |-> 0]
Trade(p, d, was) == [kind |-> "fill", qty |-> d, parent |-> p, was |-> was]

\* The venue executes d lots.
Executes(p, d) ==
  /\ venue + d \in Qty
  /\ Len(stream) + 2 <= MaxStream
  /\ venue' = venue + d
  /\ IF up
     THEN LET a == Account(venue') f == Trade(p, d, venue) IN
            \/ stream' = stream \o <<a, f>>
            \/ FillsFirst /\ stream' = stream \o <<f, a>>
     ELSE UNCHANGED stream
  /\ raced' = (raced \/ ~up)
  /\ UNCHANGED <<up, local, fresh, pass, sync, misread>>

\* A reconnect resyncs from REST before it reads a frame.
Reading == up /\ stream # <<>> /\ sync.at # "connect"
Front == Head(stream)

\* apply_exchange_positions().
OnAccountUpdate ==
  /\ Reading /\ Front.kind = "account"
  /\ stream' = Tail(stream)
  /\ local' = Front.qty
  /\ fresh' = TRUE
  /\ UNCHANGED <<venue, up, pass, sync, raced, misread>>

\* classify_fill(): a fill opens when the position before it was flat or on its side.
Opens(before, d) == before * d >= 0

\* Mutated form of Before: the book after the fill is taken for the book before it.
BeforeIsAfter(d) == local

\* position_before_fill(): the position before a fill, from the book after it.
Before(d) == local - d

\* The part of _on_fill() that concerns the book: only its classification.
ReadFill ==
  /\ Reading /\ Front.kind = "fill"
  /\ stream' = Tail(stream)
  /\ fresh' = TRUE
  /\ misread' = (misread \/ Opens(Before(Front.qty), Front.qty) # Opens(Front.was, Front.qty))
  /\ UNCHANGED <<venue, up, local, pass, sync, raced>>

\* No frame comes for long enough.
Lapse ==
  /\ fresh /\ stream = <<>>
  /\ fresh' = FALSE
  /\ UNCHANGED <<venue, stream, up, local, pass, sync, raced, misread>>

\* The stream breaks: what was on its way is lost.
Disconnect ==
  /\ up
  /\ up' = FALSE
  /\ stream' = <<>>
  /\ raced' = (raced \/ stream # <<>>)
  /\ UNCHANGED <<venue, local, fresh, pass, sync, misread>>

\* The account snapshot shows the position, or wrongly none at all.
AccountShows == {venue, 0}

\* It is up again; its first act is _on_user_ws_connected(), whose snapshot may fail.
Reconnect ==
  /\ ~up /\ sync = Idle
  /\ up' = TRUE
  /\ sync' \in {Answer("connect", q) : q \in AccountShows} \union {Idle}
  /\ UNCHANGED <<venue, stream, local, fresh, pass, raced, misread>>

\* sync_from_venue(): a symbol that is missing in the answer is flat.
SyncLocal(q) == local' = q /\ raced' = TRUE

ConnectSynced ==
  /\ sync.at = "connect"
  /\ SyncLocal(sync.qty) /\ fresh' = TRUE
  /\ sync' = Idle
  /\ UNCHANGED <<venue, stream, up, pass, misread>>

HealSynced ==
  /\ sync.at = "heal"
  /\ SyncLocal(sync.qty)
  /\ sync' = Idle
  /\ UNCHANGED <<venue, stream, up, fresh, pass, misread>>

-----------------------------------------------------------------------------
\* reconcile_once(), unless _reconcile_should_skip_rest(); a call that fails ends the pass.
PassStarts(shown) ==
  /\ pass = Idle /\ ~fresh
  /\ pass' = Answer("read", shown)
  /\ UNCHANGED <<venue, stream, up, local, fresh, sync, raced, misread>>

\* The account seems flat where the book is not: positions are asked for again.  If that
\* fails the first answer stands.
PassAsksAgain(shown) ==
  /\ pass.at = "read" /\ pass.qty = 0 /\ local # 0
  /\ pass' = Answer("read2", shown)
  /\ UNCHANGED <<venue, stream, up, local, fresh, sync, raced, misread>>

\* The book is healed.  A difference from the first answer that is still there then trips
\* reconcile_mismatch, which only a second answer leaves.
PassHeals ==
  /\ \/ pass.at = "read" /\ (pass.qty # 0 \/ local = 0)
     \/ pass.at = "read2"
  /\ IF pass.at = "read" /\ pass.qty = local
     THEN UNCHANGED <<local, raced>>
     ELSE SyncLocal(pass.qty)
  /\ pass' = Answer(IF pass.at = "read2" /\ pass.qty # 0 THEN "trip" ELSE "end", 0)
  /\ UNCHANGED <<venue, stream, up, fresh, sync, misread>>

\* The positions have been published.
PassDone ==
  /\ pass.at \in {"end", "trip"}
  /\ pass' = Idle
  /\ UNCHANGED <<venue, stream, up, local, fresh, sync, raced, misread>>
=============================================================================
