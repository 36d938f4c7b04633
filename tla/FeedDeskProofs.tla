--------------------------- MODULE FeedDeskProofs ---------------------------
(***************************************************************************)
(* Proofs of two components that share nothing but this file: the market   *)
(* data of a symbol (MarketFreshness with BookSync) and the directional    *)
(* strategy that trades it (SignalDesk).                                   *)
(*                                                                         *)
(* The feed: what is shown to a strategy can be trusted, for any number of *)
(* updates, any ingest queue, any number of disconnects and any limit on   *)
(* the age of a price.  The book is right because an event is applied only *)
(* where the last one ended, and because every snapshot, however late,     *)
(* replaces the book as a whole.  Types alone do not carry this: that the  *)
(* book never shows an id the venue has not reached needs that events in   *)
(* the queue and snapshots on their way do not either (EventsSent,         *)
(* ReadsTrue).                                                             *)
(*                                                                         *)
(* The desk: what the stop monitor and flow momentum remember of a         *)
(* position follows the book, for any market, any number of orders and     *)
(* frames and any failures.  The tracker is right, or will be once the     *)
(* frames on their way are heard, because a fill's account frame precedes  *)
(* its trade frame (StreamOK); and a cooldown outlives the ticks in which  *)
(* no further exit is called for (CoolOK).                                 *)
(***************************************************************************)
EXTENDS MarketFreshness, SignalDesk, SequenceTheorems, TLAPS

USE DEF Id

-----------------------------------------------------------------------------
(* The inductive invariant. *)

\* A depth event of the queue carries updates that the venue has sent.
EventsSent == wire \in Seq([prev : 0 .. sent, final : 0 .. sent])

\* A snapshot is read at an id that the venue has reached.
ReadsTrue == gap.id <= head /\ bulk.id <= head /\ clock.id <= head

\* The content of the book is the venue's, ready or not.
BookRight == book.right = TRUE

\* The types of BookSync, each variable with its own.
Typed ==
  /\ head \in 0 .. MaxId /\ sent \in 0 .. head
  /\ link \in {"down", "up", "draining", "dead"} /\ had \in BOOLEAN
  /\ Len(wire) <= MaxWire /\ cuts \in 0 .. MaxCuts
  /\ book \in [ready : BOOLEAN, last : 0 .. head, right : BOOLEAN]
  /\ gap \in [at : {"idle", "start", "claimed", "asked", "ending"}, id : 0 .. MaxId]
  /\ bulk \in [at : {"idle", "wait", "asked"}, id : 0 .. MaxId]
  /\ clock \in [at : {"idle", "asked"}, id : 0 .. MaxId]

Flags ==
  /\ fed \in BOOLEAN /\ old \in BOOLEAN /\ pending \in BOOLEAN
  /\ due \in BOOLEAN /\ frozen \in BOOLEAN
  /\ old => fed
  /\ frozen => bulk.at = "asked"

BookInv == Typed /\ Flags /\ EventsSent /\ ReadsTrue /\ BookRight

LEMMA FlagsTyped == Typed /\ Flags => TypeOK
<1>1. Flags => {fed, old, pending, due, frozen} \subseteq BOOLEAN
  BY Zenon DEF Flags
<1> QED
  BY <1>1 DEF Typed, Flags, TypeOK

LEMMA BookInit == Init => BookInv
<1> SUFFICES ASSUME Init PROVE BookInv
  OBVIOUS
<1> USE BookSyncAssumption DEF Init
<1>1. Typed /\ ReadsTrue /\ BookRight
  <2>1. book \in [ready : BOOLEAN, last : 0 .. head, right : BOOLEAN] /\ book.right = TRUE
    <3>1. PICK r \in BOOLEAN : book = [ready |-> r, last |-> 0, right |-> TRUE]
      BY Zenon
    <3>2. head = 0
      OBVIOUS
    <3> QED
      BY <3>1, <3>2
  <2>2. Len(wire) <= MaxWire
    OBVIOUS
  <2>3. gap = [at |-> "idle", id |-> 0] /\ bulk = [at |-> "idle", id |-> 0]
        /\ clock = [at |-> "idle", id |-> 0]
    BY DEF Idle, Call
  <2>4. head = 0 /\ sent = 0 /\ link = "down" /\ had = FALSE /\ cuts = 0
    BY Zenon
  <2> HIDE DEF Init
  <2>5. /\ gap \in [at : {"idle", "start", "claimed", "asked", "ending"}, id : 0 .. MaxId]
        /\ bulk \in [at : {"idle", "wait", "asked"}, id : 0 .. MaxId]
        /\ clock \in [at : {"idle", "asked"}, id : 0 .. MaxId]
        /\ gap.id <= head /\ bulk.id <= head /\ clock.id <= head
    BY <2>3, <2>4
  <2>6. head \in 0 .. MaxId /\ sent \in 0 .. head /\ cuts \in 0 .. MaxCuts
    BY <2>4
  <2>7. link \in {"down", "up", "draining", "dead"} /\ had \in BOOLEAN
    BY <2>4, Zenon
  <2> QED
    BY <2>1, <2>2, <2>5, <2>6, <2>7, Zenon DEF Typed, ReadsTrue, BookRight
<1>2. EventsSent
  BY DEF EventsSent
<1>3. Flags
  BY DEF Flags
<1> QED
  BY <1>1, <1>2, <1>3 DEF BookInv

-----------------------------------------------------------------------------
(* The operations on the book, the calls and the queue. *)

\* What has been sent stays sent.
LEMMA EventsStay ==
  ASSUME head \in Nat, sent \in 0 .. head, sent' \in Nat, sent <= sent', EventsSent,
         NEW w \in Seq([prev : 0 .. sent, final : 0 .. sent])
  PROVE  w \in Seq([prev : 0 .. sent', final : 0 .. sent'])
<1> DEFINE Before == [prev : 0 .. sent, final : 0 .. sent]
           After == [prev : 0 .. sent', final : 0 .. sent']
<1>1. Before \subseteq After
  OBVIOUS
<1>2. w \in Seq(Before)
  OBVIOUS
<1> HIDE DEF Before, After
<1>3. w \in Seq(After)
  BY <1>1, <1>2, SeqMonotonic
<1> QED
  BY <1>3 DEF After

\* The first event of a queue, and the queue without it.
LEMMA FrontTyped ==
  ASSUME Reading, Typed, EventsSent
  PROVE  /\ FrontEvent \in [prev : 0 .. sent, final : 0 .. sent]
         /\ Tail(wire) \in Seq([prev : 0 .. sent, final : 0 .. sent])
         /\ Len(Tail(wire)) <= MaxWire
<1>1. wire \in Seq([prev : 0 .. sent, final : 0 .. sent]) /\ wire # <<>>
  BY DEF Reading, EventsSent
<1>2. FrontEvent \in [prev : 0 .. sent, final : 0 .. sent]
  BY <1>1, HeadTailProperties DEF FrontEvent
<1>3. Tail(wire) \in Seq([prev : 0 .. sent, final : 0 .. sent]) /\ Len(Tail(wire)) = Len(wire) - 1
  BY <1>1, HeadTailProperties
<1>4. Len(Tail(wire)) <= MaxWire
  BY <1>1, <1>3, BookSyncAssumption DEF Typed
<1> QED
  BY <1>2, <1>3, <1>4

-----------------------------------------------------------------------------
(* Every action keeps the invariant. *)

LEMMA VenueKeeps ==
  ASSUME BookInv, VenueUpdates \/ VenueSends
  PROVE  BookInv'
<1> USE BookSyncAssumption
<1> USE DEF BookInv, feed, repair
<1>1. CASE VenueUpdates
  <2> USE <1>1 DEF VenueUpdates
  <2>1. head \in Nat /\ head' = head + 1 /\ head' \in 0 .. MaxId /\ sent' \in 0 .. head'
    BY DEF Typed
  <2>2. book' \in [ready : BOOLEAN, last : 0 .. head', right : BOOLEAN]
    BY <2>1 DEF Typed
  <2>3. Typed'
    BY <2>1, <2>2 DEF Typed
  <2>4. ReadsTrue'
    BY <2>1 DEF ReadsTrue, Typed
  <2>5. Flags'
    BY Zenon DEF Flags
  <2> QED
    BY <2>3, <2>4, <2>5 DEF EventsSent, BookRight
<1>2. CASE VenueSends
  <2> USE <1>2 DEF VenueSends
  <2>1. sent' = head /\ head' = head /\ head \in 0 .. MaxId /\ sent \in 0 .. head
    BY DEF Typed
  <2>2. wire \in Seq([prev : 0 .. sent', final : 0 .. sent'])
    <3>1. head \in Nat /\ sent' \in Nat /\ sent <= sent'
      BY <2>1
    <3>2. EventsSent /\ wire \in Seq([prev : 0 .. sent, final : 0 .. sent])
      BY DEF EventsSent
    <3> QED
      BY <2>1, <3>1, <3>2, EventsStay
  <2>3. Event \in [prev : 0 .. sent', final : 0 .. sent']
    BY <2>1 DEF Event
  <2>4. wire' \in Seq([prev : 0 .. sent', final : 0 .. sent']) /\ Len(wire') <= MaxWire
    <3> DEFINE Sent == [prev : 0 .. sent', final : 0 .. sent']
    <3>0. wire \in Seq(Sent) /\ Event \in Sent
      BY <2>2, <2>3
    <3> HIDE DEF Sent
    <3>1. CASE link = "up"
      <4>1. wire' = Append(wire, Event) /\ Len(wire) < MaxWire
        BY <3>1
      <4>2. wire' \in Seq(Sent) /\ Len(wire') = Len(wire) + 1 /\ Len(wire) \in Nat
        BY <3>0, <4>1, AppendProperties, LenProperties
      <4> QED
        BY <4>1, <4>2 DEF Sent
    <3>2. CASE link # "up"
      BY <3>2, <2>2 DEF Typed
    <3> QED
      BY <3>1, <3>2
  <2>5. Typed'
    BY <2>1, <2>4 DEF Typed
  <2>6. ReadsTrue' /\ BookRight'
    BY <2>1 DEF ReadsTrue, BookRight
  <2>7. Flags'
    BY Zenon DEF Flags
  <2> QED
    BY <2>4, <2>5, <2>6, <2>7 DEF EventsSent
<1> QED
  BY <1>1, <1>2

\* The shard: the queue only loses events, and the book is left alone.
LEMMA ShardKeeps ==
  ASSUME BookInv, Connect \/ HandshakeFails \/ Disconnect \/ Drained \/ Resubscribe
  PROVE  BookInv'
<1> USE BookSyncAssumption
<1> USE DEF BookInv, feed, repair
<1>1. wire' \in Seq([prev : 0 .. sent, final : 0 .. sent]) /\ Len(wire') <= MaxWire
  <2> USE DEF EventsSent, Typed
  <2>1. CASE Disconnect
    <3>1. PICK n \in 0 .. Len(wire) : wire' = SubSeq(wire, 1, n)
      BY <2>1 DEF Disconnect
    <3>2. n \in Nat /\ n <= Len(wire) /\ Len(wire) \in Nat
      BY <3>1, LenProperties
    <3> DEFINE Sent == [prev : 0 .. sent, final : 0 .. sent]
    <3>3. wire \in Seq(Sent)
      OBVIOUS
    <3> HIDE DEF Sent
    <3>4. \A i \in 1 .. n : wire[i] \in Sent
      BY <3>2, <3>3, ElementOfSeq
    <3>5. wire' \in Seq(Sent) /\ Len(wire') = n
      BY <3>1, <3>2, <3>4, SubSeqProperties
    <3> QED
      BY <3>2, <3>5 DEF Sent
  <2>2. CASE Resubscribe
    BY <2>2 DEF Resubscribe
  <2>3. CASE Connect \/ HandshakeFails \/ Drained
    BY <2>3 DEF Connect, HandshakeFails, Drained
  <2> QED
    BY <2>1, <2>2, <2>3
<1>2. /\ head' = head /\ sent' = sent /\ book' = book /\ fed' = fed /\ old' = old
      /\ pending' = pending /\ gap' = gap /\ clock' = clock /\ frozen' = frozen
  BY DEF Connect, HandshakeFails, Disconnect, Drained, Resubscribe
<1>3. /\ link' \in {"down", "up", "draining", "dead"}
      /\ cuts' \in 0 .. MaxCuts
  BY DEF Connect, HandshakeFails, Disconnect, Drained, Resubscribe, Typed
<1>4. had' \in BOOLEAN /\ due' \in BOOLEAN
  <2>1. had \in BOOLEAN /\ due \in BOOLEAN
    BY DEF Typed, Flags
  <2> QED
    BY <2>1, Zenon DEF Connect, HandshakeFails, Disconnect, Drained, Resubscribe
<1>5. /\ bulk' \in [at : {"idle", "wait", "asked"}, id : 0 .. MaxId] /\ bulk'.id <= head
      /\ bulk' = bulk \/ bulk.at = "idle"
  <2>1. bulk \in [at : {"idle", "wait", "asked"}, id : 0 .. MaxId] /\ bulk.id <= head
        /\ head \in Nat
    BY DEF Typed, ReadsTrue
  <2> QED
    BY <2>1 DEF Connect, HandshakeFails, Disconnect, Drained, Resubscribe, Call
<1>6. Typed' /\ ReadsTrue'
  BY <1>1, <1>2, <1>3, <1>4, <1>5 DEF Typed, ReadsTrue
<1>7. Flags'
  <2>1. frozen => bulk'.at = "asked"
    BY <1>5 DEF Flags
  <2> QED
    BY <2>1, <1>2, <1>4, Zenon DEF Flags
<1> QED
  BY <1>1, <1>2, <1>6, <1>7 DEF EventsSent, BookRight

\* A depth event: it is applied where the book ends.
LEMMA DepthKeeps ==
  ASSUME BookInv, DepthApplied \/ DepthDropped \/ DepthGap
  PROVE  BookInv'
<1> USE BookSyncAssumption
<1> USE DEF BookInv
<1>1. Reading /\ Read
  BY DEF DepthApplied, DepthDropped, DepthGap
<1>2. /\ FrontEvent \in [prev : 0 .. sent, final : 0 .. sent]
      /\ Tail(wire) \in Seq([prev : 0 .. sent, final : 0 .. sent])
      /\ Len(Tail(wire)) <= MaxWire
  BY <1>1, FrontTyped
<1>3. /\ wire' = Tail(wire) /\ head' = head /\ sent' = sent /\ link' = link /\ had' = had
      /\ cuts' = cuts
  BY <1>1 DEF Read
<1>4. bulk' = bulk /\ clock' = clock /\ due' = due /\ frozen' = frozen
  BY DEF DepthApplied, DepthDropped, DepthGap, repair
<1>5. /\ book' \in [ready : BOOLEAN, last : 0 .. head, right : BOOLEAN] /\ book'.right = TRUE
  <2>1. book \in [ready : BOOLEAN, last : 0 .. head, right : BOOLEAN] /\ book.right = TRUE
        /\ head \in Nat /\ sent \in 0 .. head
    BY DEF Typed, BookRight
  <2>2. CASE DepthApplied
    <3>1. FrontEvent.prev = book.last
      BY <2>2 DEF DepthApplied, Assess
    <3>2. FrontEvent.final \in 0 .. head /\ FrontEvent.prev <= book.last
      BY <3>1, <1>2, <2>1
    <3>3. book' = [book EXCEPT !.last = FrontEvent.final, !.right = TRUE]
      BY <2>2, <2>1, <3>2 DEF DepthApplied
    <3> QED
      BY <3>2, <3>3, <2>1
  <2>3. CASE DepthDropped \/ DepthGap
    BY <2>1, <2>3 DEF DepthDropped, DepthGap, feed
  <2> QED
    BY <2>2, <2>3
<1>6. /\ gap' \in [at : {"idle", "start", "claimed", "asked", "ending"}, id : 0 .. MaxId]
      /\ gap'.id <= head
  BY DEF DepthApplied, DepthDropped, DepthGap, repair, Call, Typed, ReadsTrue
<1>7. Typed' /\ ReadsTrue'
  BY <1>2, <1>3, <1>4, <1>5, <1>6 DEF Typed, ReadsTrue
<1>8. fed' \in BOOLEAN /\ old' \in BOOLEAN /\ (old' => fed') /\ pending' \in BOOLEAN
  <2>1. CASE DepthApplied
    BY <2>1, Zenon DEF DepthApplied, repair, Flags
  <2>2. CASE DepthDropped
    BY <2>2, Zenon DEF DepthDropped, feed, repair, Flags
  <2>3. CASE DepthGap
    <3>1. fed' = fed /\ old' = old
      BY <2>3, Zenon DEF DepthGap, feed
    <3>2. pending' = pending \/ pending' = TRUE
      BY <2>3, Zenon DEF DepthGap
    <3> QED
      BY <3>1, <3>2, Zenon DEF Flags
  <2> QED
    BY <2>1, <2>2, <2>3
<1>9. Flags'
  BY <1>4, <1>8, Zenon DEF Flags
<1> QED
  BY <1>2, <1>3, <1>5, <1>7, <1>9 DEF EventsSent, BookRight

\* The calls for snapshots, asked for at the venue's last id and answered as a whole.
LEMMA CallsKeep ==
  ASSUME BookInv,
         \/ GapClaims \/ GapAsks \/ GapDone
         \/ BulkReconnect \/ BulkSwap \/ TimePasses \/ ClockAsks
         \/ \E ok \in BOOLEAN : GapEnds(ok) \/ BulkEnds(ok) \/ ClockEnds(ok)
  PROVE  BookInv'
<1> USE BookSyncAssumption
<1> USE DEF BookInv
<1> DEFINE Step == \/ GapClaims \/ GapAsks \/ GapDone
                   \/ BulkReconnect \/ BulkSwap \/ TimePasses \/ ClockAsks
                   \/ \E ok \in BOOLEAN : GapEnds(ok) \/ BulkEnds(ok) \/ ClockEnds(ok)
<1>0. Step
  OBVIOUS
<1>1. /\ head' = head /\ sent' = sent /\ link' = link /\ had' = had /\ wire' = wire
      /\ cuts' = cuts
  BY <1>0 DEF GapClaims, GapAsks, GapDone, BulkReconnect, BulkSwap, TimePasses, ClockAsks,
     GapEnds, BulkEnds, ClockEnds, net
<1>2. /\ head \in 0 .. MaxId /\ head \in Nat
      /\ book \in [ready : BOOLEAN, last : 0 .. head, right : BOOLEAN] /\ book.right = TRUE
      /\ gap \in [at : {"idle", "start", "claimed", "asked", "ending"}, id : 0 .. MaxId]
      /\ bulk \in [at : {"idle", "wait", "asked"}, id : 0 .. MaxId]
      /\ clock \in [at : {"idle", "asked"}, id : 0 .. MaxId]
      /\ gap.id <= head /\ bulk.id <= head /\ clock.id <= head
  BY DEF Typed, ReadsTrue, BookRight
<1>3. book' \in [ready : BOOLEAN, last : 0 .. head, right : BOOLEAN] /\ book'.right = TRUE
  <2>1. \A i \in 0 .. head : Seeded(i) \in [ready : BOOLEAN, last : 0 .. head, right : BOOLEAN]
                             /\ Seeded(i).right = TRUE
    BY <1>2 DEF Seeded
  <2>2. gap.id \in 0 .. head /\ bulk.id \in 0 .. head /\ clock.id \in 0 .. head
    BY <1>2
  <2>3. \/ book' = book
        \/ book' = Blank
        \/ book' = Seeded(gap.id) \/ book' = Seeded(bulk.id) \/ book' = Seeded(clock.id)
    BY <1>0, Zenon DEF GapClaims, GapAsks, GapDone, BulkReconnect, BulkSwap, TimePasses, ClockAsks,
       GapEnds, BulkEnds, ClockEnds, feed
  <2>4. Blank \in [ready : BOOLEAN, last : 0 .. head, right : BOOLEAN] /\ Blank.right = TRUE
    BY <1>2 DEF Blank
  <2> QED
    BY <1>2, <2>1, <2>2, <2>3, <2>4
<1>4. /\ gap' \in [at : {"idle", "start", "claimed", "asked", "ending"}, id : 0 .. MaxId]
      /\ gap'.id <= head
  BY <1>0, <1>2 DEF GapClaims, GapAsks, GapDone, BulkReconnect, BulkSwap, TimePasses, ClockAsks,
     GapEnds, BulkEnds, ClockEnds, repair, Call, Idle
<1>5. /\ bulk' \in [at : {"idle", "wait", "asked"}, id : 0 .. MaxId]
      /\ bulk'.id <= head
  BY <1>0, <1>2 DEF GapClaims, GapAsks, GapDone, BulkReconnect, BulkSwap, TimePasses, ClockAsks,
     GapEnds, BulkEnds, ClockEnds, repair, Call, Idle
<1>6. /\ clock' \in [at : {"idle", "asked"}, id : 0 .. MaxId]
      /\ clock'.id <= head
  BY <1>0, <1>2 DEF GapClaims, GapAsks, GapDone, BulkReconnect, BulkSwap, TimePasses, ClockAsks,
     GapEnds, BulkEnds, ClockEnds, repair, Call, Idle
<1>7. Typed' /\ ReadsTrue'
  BY <1>1, <1>3, <1>4, <1>5, <1>6 DEF Typed, ReadsTrue
<1>8. fed' \in BOOLEAN /\ old' \in BOOLEAN /\ (old' => fed') /\ pending' \in BOOLEAN
      /\ due' \in BOOLEAN /\ frozen' \in BOOLEAN
  <2>1. /\ fed' = fed
        /\ old' = old \/ (old' = TRUE /\ fed)
        /\ pending' = pending \/ pending' = FALSE
        /\ due' = due \/ due' = FALSE
        /\ frozen' = frozen \/ frozen' = TRUE \/ frozen' = FALSE
    <3>1. CASE GapClaims \/ GapAsks \/ GapDone \/ ClockAsks
      BY <3>1 DEF GapClaims, GapAsks, GapDone, ClockAsks, feed
    <3>2. CASE BulkReconnect \/ BulkSwap \/ TimePasses
      BY <3>2 DEF BulkReconnect, BulkSwap, TimePasses, repair
    <3>3. CASE \E ok \in BOOLEAN : GapEnds(ok) \/ BulkEnds(ok) \/ ClockEnds(ok)
      BY <3>3 DEF GapEnds, BulkEnds, ClockEnds
    <3> QED
      BY <1>0, <3>1, <3>2, <3>3, Zenon
  <2>2. /\ fed \in BOOLEAN /\ old \in BOOLEAN /\ pending \in BOOLEAN
        /\ due \in BOOLEAN /\ frozen \in BOOLEAN /\ (old => fed)
    BY Zenon DEF Flags
  <2>3. fed' \in BOOLEAN /\ pending' \in BOOLEAN /\ due' \in BOOLEAN /\ frozen' \in BOOLEAN
    BY <2>1, <2>2, Zenon
  <2>4. old' \in BOOLEAN
    BY <2>1, <2>2, Zenon
  <2>5. old' => fed'
    BY <2>1, <2>2, Zenon
  <2> QED
    BY <2>3, <2>4, <2>5, Zenon
<1>9. frozen' => bulk'.at = "asked"
  <2>1. Call("asked", head).at = "asked"
    BY DEF Call
  <2>2. \/ frozen' = frozen /\ bulk' = bulk
        \/ bulk' = Call("asked", head)
        \/ frozen' = FALSE
    BY <1>0, Zenon DEF GapClaims, GapAsks, GapDone, BulkReconnect, BulkSwap, TimePasses, ClockAsks,
       GapEnds, BulkEnds, ClockEnds, feed, repair
  <2> QED
    BY <2>1, <2>2, Zenon DEF Flags
<1>10. Flags'
  BY <1>8, <1>9, Zenon DEF Flags
<1> QED
  BY <1>1, <1>3, <1>7, <1>10 DEF EventsSent, BookRight

LEMMA BookKept == BookInv /\ [Next]_vars => BookInv'
<1> SUFFICES ASSUME BookInv, [Next]_vars PROVE BookInv'
  OBVIOUS
<1>1. CASE Next
  BY <1>1, VenueKeeps, ShardKeeps, DepthKeeps, CallsKeep, Zenon DEF Next
<1>2. CASE UNCHANGED vars
  BY <1>2 DEF vars, net, feed, repair, BookInv, Typed, Flags, EventsSent, ReadsTrue, BookRight
<1> QED
  BY <1>1, <1>2


-----------------------------------------------------------------------------
(* The ages of MarketFreshness. *)

\* Each step of the feed is a step of the book, or leaves it alone.
LEMMA FreshIsBook == NextFresh => [Next]_vars
BY Zenon DEF NextFresh, TickArrives, Depth, Snapshot, Beat, Unseen, Swap, Next

\* A stamp of a frame is as old as the price it came with; one of a beat may be younger.
AgesInv ==
  /\ tick \in [stamp : Age, price : Age, by : {"frame", "beat"}] /\ tick.stamp <= tick.price
  /\ tick.by = "frame" => tick.stamp = tick.price
  /\ bookAge \in Age /\ feedAge \in Age
  /\ entered \in {"none", "fresh", "stale book"}

FreshInv == BookInv /\ AgesInv /\ stale \in BOOLEAN

LEMMA OlderTyped ==
  \A a \in Age : Older(a) \in Age /\ a <= Older(a)
BY FreshnessAssumption DEF Age, Older

LEMMA AgesKept == AgesInv /\ [NextFresh]_all => AgesInv'
<1> SUFFICES ASSUME AgesInv, [NextFresh]_all PROVE AgesInv'
  OBVIOUS
<1> USE FreshnessAssumption
<1>1. New \in [stamp : Age, price : Age, by : {"frame", "beat"}] /\ New.stamp = New.price
      /\ 0 \in Age /\ New.stamp \in Nat
  BY DEF New, Age
<1>2. ASSUME tick' = New \/ tick' = tick, bookAge' = 0 \/ bookAge' = bookAge,
             feedAge' = 0 \/ feedAge' = feedAge, entered' = entered
      PROVE  AgesInv'
  <2>1. /\ tick' \in [stamp : Age, price : Age, by : {"frame", "beat"}]
        /\ tick'.stamp <= tick'.price
        /\ tick'.by = "frame" => tick'.stamp = tick'.price
    <3>1. CASE tick' = tick
      BY <3>1 DEF AgesInv
    <3>2. CASE tick' = New
      <4>1. New = [stamp |-> 0, price |-> 0, by |-> "frame"]
        BY DEF New
      <4> QED
        BY <4>1, <3>2, <1>1
    <3> QED
      BY <1>2, <3>1, <3>2
  <2>2. bookAge' \in Age /\ feedAge' \in Age
    BY <1>1, <1>2 DEF AgesInv
  <2> QED
    BY <2>1, <2>2, <1>2 DEF AgesInv
<1>3. CASE TickArrives \/ Depth \/ Unseen \/ Swap \/ \E ok \in BOOLEAN : Snapshot(ok)
  BY <1>2, <1>3 DEF TickArrives, Depth, Unseen, Swap, Snapshot, Touched, ages
<1>4. CASE Beat
  <2>1. bookAge' \in Age /\ feedAge' \in Age
    BY <1>4, OlderTyped DEF Beat, AgesInv
  <2>2. /\ tick' \in [stamp : Age, price : Age, by : {"frame", "beat"}]
        /\ tick'.stamp <= tick'.price
        /\ tick'.by = "frame" => tick'.stamp = tick'.price
    <3>1. CASE book.ready
      <4>1. tick' = [stamp |-> 0, price |-> bookAge', by |-> "beat"]
        BY <1>4, <3>1 DEF Beat, Refreshed
      <4> QED
        BY <4>1, <2>1 DEF Age
    <3>2. CASE ~book.ready
      <4>1. tick' = [tick EXCEPT !.stamp = Older(@), !.price = Older(@)]
        BY <1>4, <3>2 DEF Beat, Refreshed
      <4>2. /\ tick \in [stamp : Age, price : Age, by : {"frame", "beat"}]
            /\ tick.stamp <= tick.price
            /\ tick.by = "frame" => tick.stamp = tick.price
        BY DEF AgesInv
      <4>3. Older(tick.stamp) \in Age /\ Older(tick.price) \in Age
            /\ Older(tick.stamp) <= Older(tick.price)
        BY <4>2 DEF Older, Age
      <4>4. tick'.stamp = Older(tick.stamp) /\ tick'.price = Older(tick.price)
            /\ tick'.by = tick.by
            /\ tick' = [stamp |-> Older(tick.stamp), price |-> Older(tick.price), by |-> tick.by]
        BY <4>1, <4>2
      <4> QED
        BY <4>2, <4>3, <4>4
    <3> QED
      BY <3>1, <3>2
  <2>3. entered' \in {"none", "fresh", "stale book"}
    <3>1. CASE UNCHANGED entered
      BY <3>1 DEF AgesInv
    <3>2. CASE GuardPasses /\ entered' = IF tick'.price <= MaxAge THEN "fresh"
                              ELSE IF tick'.by = "beat" THEN "stale book" ELSE "stale tick"
      <4>1. tick'.stamp <= MaxAge
        BY <3>2 DEF GuardPasses
      <4>2. tick'.price <= MaxAge \/ tick'.by = "beat"
        <5>1. tick'.by \in {"frame", "beat"}
          BY <2>2
        <5> QED
          BY <5>1, <4>1, <2>2
      <4> QED
        BY <3>2, <4>2
    <3> QED
      BY <1>4, <3>1, <3>2 DEF Beat
  <2> QED
    BY <2>1, <2>2, <2>3 DEF AgesInv
<1>5. CASE UNCHANGED all
  BY <1>5, <1>2 DEF all, ages
<1> QED
  BY <1>3, <1>4, <1>5 DEF NextFresh

\* The feed keeps the book's invariant and its own.
LEMMA FreshKept == FreshInv /\ [NextFresh]_all => FreshInv'
<1> SUFFICES ASSUME FreshInv, [NextFresh]_all PROVE FreshInv'
  OBVIOUS
<1>1. [Next]_vars
  BY FreshIsBook, Zenon DEF all
<1>2. stale' \in BOOLEAN
  <2>1. stale' = stale \/ stale' = (feedAge' > MaxAge)
    BY Zenon DEF NextFresh, TickArrives, Depth, Snapshot, Beat, Unseen, Swap, Monitored, ages, all
  <2>2. (feedAge' > MaxAge) \in BOOLEAN
    OBVIOUS
  <2> QED
    BY <2>1, <2>2, Zenon DEF FreshInv
<1> QED
  BY <1>1, <1>2, BookKept, AgesKept, Zenon DEF FreshInv

LEMMA FreshInit == InitFresh => FreshInv
<1> SUFFICES ASSUME InitFresh PROVE FreshInv
  OBVIOUS
<1>1. BookInv
  BY BookInit DEF InitFresh
<1>2. AgesInv
  BY FreshnessAssumption DEF InitFresh, AgesInv, New, Age
<1>3. stale \in BOOLEAN
  BY Zenon DEF InitFresh
<1> QED
  BY <1>1, <1>2, <1>3 DEF FreshInv

LEMMA FreshAlways == SpecFresh => []FreshInv
<1>1. InitFresh => FreshInv
  BY FreshInit
<1>2. FreshInv /\ [NextFresh]_all => FreshInv'
  BY FreshKept
<1> QED
  BY <1>1, <1>2, PTL DEF SpecFresh

-----------------------------------------------------------------------------
(* The theorems. *)

\* The book, its queue, its snapshots and the ages keep their types, for any bounds; the book
\* never shows an update the venue has not made, and the strategies are blocked only while a
\* bulk snapshot is asked for.
THEOREM FeedTypeCorrect == SpecFresh => []TypeOKFresh
<1>1. FreshInv => TypeOKFresh
  BY FlagsTyped DEF FreshInv, BookInv, AgesInv, TypeOKFresh
<1> QED
  BY <1>1, FreshAlways, PTL

\* With its ages left out the feed does what BookSync does, step by step.
THEOREM FeedIsBookSync == SpecFresh => Init /\ [][Next]_vars
<1>1. InitFresh => Init
  BY DEF InitFresh
<1>2. [NextFresh]_all => [Next]_vars
  BY FreshIsBook, Zenon DEF all
<1> QED
  BY <1>1, <1>2, PTL DEF SpecFresh

\* A book that is shown as ready is the venue's, whatever was lost, late or out of order, and
\* no price that a frame brought is entered on when it is older than the limit.
THEOREM FeedIsTrusted == SpecFresh => []FeedTrusted
<1>1. FreshInv => FeedTrusted
  BY DEF FreshInv, BookInv, BookRight, AgesInv, FeedTrusted, BookExact, NoStaleTickEntry
<1> QED
  BY <1>1, FreshAlways, PTL

HIDE DEF Id

-----------------------------------------------------------------------------
(* The desk. *)

\* The types of the desk.
Lots == [side : Int, lots : Int, reduce : BOOLEAN]
Known == [qty : Int, entry : Int, up : Int]
Heards == [kind : {"account"}, book : Known] \union [kind : {"trade"}]
Monitors == [bracket : [stop : Int, take : Int], armed : Int, cool : Nat, backoff : Nat, managed : BOOLEAN]

BlendShape(s) ==
  \E bar, bars, regime, prev, cool, entry :
    s = [bar |-> bar, bars |-> bars, regime |-> regime, prev |-> prev, cool |-> cool, entry |-> entry]
FlowShape(s) ==
  \E confirm, fades, open, since, peak, cool :
    s = [confirm |-> confirm, fades |-> fades, open |-> open, since |-> since, peak |-> peak, cool |-> cool]

MemoryShape(s) == (active = "blend" => BlendShape(s)) /\ (active = "flow" => FlowShape(s))

DeskType ==
  /\ price \in Nat /\ active \in {"sma", "blend", "flow"} /\ active \in Names
  /\ venue \in [qty : Int, entry : Int]
  /\ tracked \in Known
  /\ stream \in Seq(Heards)
  /\ orders \in Seq(Lots) /\ intent \in Lots
  /\ monitor \in Monitors
  /\ quiet \in Nat /\ astray \in BOOLEAN
  /\ MemoryShape(memory)

\* The tracker has what the venue has, or will have once the frames on their way are heard.
StreamOK(str, t, v) ==
  /\ Len(str) <= 1 => t.qty = v.qty /\ t.entry = v.entry
  /\ Len(str) >= 1 => str[Len(str)].kind = "trade"
  /\ Len(str) >= 2 => /\ str[Len(str) - 1].kind = "account"
                      /\ str[Len(str) - 1].book.qty = v.qty /\ str[Len(str) - 1].book.entry = v.entry

BracketOK(m, t) == ~m.managed => m.bracket = IF t.qty = 0 THEN NoBracket ELSE Bracket(t.qty, t.entry)

\* A cooldown is not over before the ticks in which no further exit is called for.
CoolOK(m, n) == ~m.managed => n <= m.cool

ForgetOK(s, t) == t.qty = 0 => s.since = Unset /\ s.peak = 0

DeskInv ==
  /\ DeskType
  /\ StreamOK(stream, tracked, venue)
  /\ CoolOK(monitor, quiet)
  /\ stream = <<>> /\ ~astray => BracketOK(monitor, tracked)
  /\ stream = <<>> /\ ~astray /\ active = "flow" => ForgetOK(memory, tracked)

-----------------------------------------------------------------------------
LEMMA TwoAfter ==
  \A n \in Nat : /\ n + 1 \in 1..(n + 2) /\ n + 2 \in 1..(n + 2) /\ ~(n + 1 <= n) /\ ~(n + 2 <= n)
                /\ (n + 1) - n = 1 /\ (n + 2) - n = 2 /\ (n + 2) - 1 = n + 1
OBVIOUS

LEMMA TwoFrames ==
  ASSUME NEW s \in Seq(Heards), NEW w \in Seq(Heards), Len(w) = 2
  PROVE  /\ s \o w \in Seq(Heards) /\ Len(s \o w) = Len(s) + 2
         /\ (s \o w)[Len(s) + 1] = w[1] /\ (s \o w)[Len(s) + 2] = w[2]
<1> HIDE DEF Heards
<1>1. PICK n \in Nat : n = Len(s)
  OBVIOUS
<1>2. /\ s \o w \in Seq(Heards) /\ Len(s \o w) = n + 2
      /\ \A i \in 1..(n + 2) : (s \o w)[i] = IF i <= n THEN s[i] ELSE w[i - n]
  <2>1. /\ s \o w \in Seq(Heards) /\ Len(s \o w) = Len(s) + Len(w)
        /\ \A i \in 1..(Len(s) + Len(w)) : (s \o w)[i] = IF i <= Len(s) THEN s[i] ELSE w[i - Len(s)]
    BY ConcatProperties
  <2> QED BY <1>1, <2>1, Zenon
<1>3. (s \o w)[n + 1] = w[1] /\ (s \o w)[n + 2] = w[2]
  BY <1>2, TwoAfter, Zenon
<1> QED BY <1>1, <1>2, <1>3, Zenon

LEMMA RemovedTyped ==
  ASSUME NEW s \in Seq(Lots), NEW i \in 1..Len(s) PROVE RemoveAt(s, i) \in Seq(Lots)
<1> HIDE DEF Lots
<1>1. SubSeq(s, 1, i - 1) \in Seq(Lots) /\ SubSeq(s, i + 1, Len(s)) \in Seq(Lots)
  <2>1. \A j \in 1..(i - 1) : s[j] \in Lots
    BY LenProperties
  <2>2. \A j \in (i + 1)..Len(s) : s[j] \in Lots
    OBVIOUS
  <2>3. 1 \in Int /\ i - 1 \in Int /\ i + 1 \in Int /\ Len(s) \in Int
    OBVIOUS
  <2> QED BY <2>1, <2>2, <2>3, SubSeqProperties, Zenon
<1> QED BY <1>1, ConcatProperties DEF RemoveAt

\* What the assumptions say of the constants.
LEMMA DeskNumbers ==
  /\ StopGap \in Int /\ TakeGap \in Int /\ Recoil \in Nat
  /\ SmaLots \in Int /\ BlendLots \in Int /\ FlowLots \in Int /\ EntryScore \in Int
BY StopAssumption, SmaAssumption, BlendAssumption, FlowAssumption

LEMMA DeskSets == Names \subseteq {"sma", "blend", "flow"} /\ Prices \subseteq Nat /\ Bars \subseteq BarType /\ Tapes \subseteq TapeType
BY DeskAssumption

LEMMA Sides == \A q \in Int : SideOf(q) \in -1..1 /\ Size(q) \in Nat /\ (q # 0 => Size(q) > 0)
BY DEF SideOf, Size

LEMMA CloseTyped == \A q \in Int : CloseSignal(q) \in Lots
<1>1. \A q \in Int : -SideOf(q) \in Int /\ Size(q) \in Int
  BY DEF SideOf, Size
<1> QED BY <1>1 DEF CloseSignal, Lots

LEMMA PlanTyped == ASSUME NEW g \in Int, NEW n \in Int, NEW q \in Int PROVE Plan(g, n, q) \in Lots
BY CloseTyped DEF Plan, NoSignal, Lots

LEMMA NoSignalTyped == NoSignal \in Lots
BY DEF NoSignal, Lots

LEMMA FlipScore ==
  ASSUME NEW bar \in BarType, NEW former, former # RegimeOf(bar), RegimeOf(bar) # "warmup"
  PROVE  Score(Votes(former, bar), RegimeOf(bar)) \in -35..35
<1>1. PICK votes : votes = Votes(former, bar)
  OBVIOUS
<1>2. bar.micro \in -1..1 /\ bar.ema \in -1..1 /\ bar.macd \in -1..1 /\ bar.bands \in -1..1
  BY DEF BarType
<1>3. /\ votes.micro = bar.micro
      /\ votes.ema = IF former = "trending" /\ Blocked(former, bar) = 0 THEN bar.ema ELSE 0
      /\ votes.macd = IF former = "trending" /\ Blocked(former, bar) = 0 THEN bar.macd ELSE 0
      /\ votes.bands = IF former = "ranging" THEN bar.bands ELSE 0
      /\ votes.rsi = CASE former = "ranging" /\ bar.rsi \in {"oversold", "low"} -> 1
                       [] former = "ranging" /\ bar.rsi \in {"overbought", "high"} -> -1
                       [] OTHER -> 0
  BY <1>1 DEF Votes
<1>4. votes.rsi \in -1..1 /\ (former # "ranging" => votes.rsi = 0)
  BY <1>3
<1>5. RegimeOf(bar) \in {"trending", "ranging"}
  BY DEF RegimeOf
<1>6. CASE RegimeOf(bar) = "trending"
  <2>1. votes.ema = 0 /\ votes.macd = 0 /\ votes.bands \in -1..1
    BY <1>2, <1>3, <1>6
  <2>2. Score(votes, "trending") = 0 * 35 + 0 * 30 + votes.rsi * 0 + votes.bands * 0 + votes.micro * 35
    BY <2>1 DEF Score, Weights
  <2> QED BY <1>1, <1>2, <1>3, <1>4, <1>6, <2>1, <2>2
<1>7. CASE RegimeOf(bar) = "ranging"
  <2>1. votes.rsi = 0 /\ votes.bands = 0 /\ votes.ema \in -1..1 /\ votes.macd \in -1..1
    BY <1>2, <1>3, <1>4, <1>7
  <2>2. Score(votes, "ranging") = votes.ema * 0 + votes.macd * 0 + 0 * 35 + 0 * 40 + votes.micro * 25
    BY <2>1 DEF Score, Weights
  <2> QED BY <1>1, <1>2, <1>3, <1>7, <2>1, <2>2
<1> QED BY <1>5, <1>6, <1>7

LEMMA NoFlipEntry ==
  ASSUME NEW s, NEW bar \in BarType, EntryScore > 35, RegimeOf(bar) # s.regime, RegimeOf(bar) # "warmup"
  PROVE  EntrySide(s, bar, Votes(s.regime, bar), RegimeOf(bar), Score(Votes(s.regime, bar), RegimeOf(bar))) = 0
<1>1. PICK score \in -35..35 : score = Score(Votes(s.regime, bar), RegimeOf(bar))
  BY FlipScore
<1>2. ~(EntryScore <= 1 * score) /\ ~(EntryScore <= -1 * score)
  BY DeskNumbers
<1> QED BY <1>1, <1>2 DEF EntrySide

\* What a strategy answers: an order or none, and a memory.
BlendAnswer(s, r) ==
  /\ r.signal \in Lots /\ BlendShape(r.memory)
  /\ EntryScore > 35 /\ s.entry = "none" /\ r.memory.entry # "none" => r.memory.regime = s.regime

LEMMA BlendCloses ==
  ASSUME NEW s, BlendShape(s), NEW bar \in BarType, NEW q \in Int
  PROVE  BlendAnswer(s, BarClose(s, bar, q))
<1>1. PICK b1, b2, b3, b4, b5, b6 :
        s = [bar |-> b1, bars |-> b2, regime |-> b3, prev |-> b4, cool |-> b5, entry |-> b6]
  BY DEF BlendShape
<1>2. PICK votes, regime, score : votes = Votes(s.regime, bar) /\ regime = RegimeOf(bar) /\ score = Score(votes, regime)
  OBVIOUS
<1>3. PICK seen : seen = [s EXCEPT !.regime = regime, !.prev = score]
  OBVIOUS
<1>4. seen = [bar |-> b1, bars |-> b2, regime |-> regime, prev |-> score, cool |-> b5, entry |-> b6]
  BY <1>1, <1>3
<1>5. PICK leave : leave = (\/ FlipExit(s, q, bar)
                            \/ q > 0 /\ score < ExitScore
                            \/ q < 0 /\ score > -ExitScore)
  OBVIOUS
<1>6. PICK side : side = IF q = 0 THEN EntrySide(s, bar, votes, regime, score) ELSE 0
  OBVIOUS
<1>7. side \in -1..1 /\ (EntryScore > 35 /\ regime # s.regime /\ regime # "warmup" => side = 0)
  BY <1>2, <1>6, NoFlipEntry DEF EntrySide
<1>8. BarClose(s, bar, q) =
        IF regime = "warmup" THEN [memory |-> [s EXCEPT !.regime = regime], signal |-> NoSignal]
        ELSE IF leave
        THEN [memory |-> [seen EXCEPT !.entry = "none", !.cool = BlendCooldown], signal |-> CloseSignal(q)]
        ELSE IF side # 0
        THEN [memory |-> [seen EXCEPT !.entry = regime, !.cool = BlendCooldown], signal |-> Plan(side, BlendLots, q)]
        ELSE [memory |-> seen, signal |-> NoSignal]
  <2> DEFINE dv == Votes(s.regime, bar)
             dr == RegimeOf(bar)
             ds == Score(dv, dr)
             dl == \/ FlipExit(s, q, bar)
                   \/ q > 0 /\ ds < ExitScore
                   \/ q < 0 /\ ds > -ExitScore
             dside == IF q = 0 THEN EntrySide(s, bar, dv, dr, ds) ELSE 0
             dseen == [s EXCEPT !.regime = dr, !.prev = ds]
  <2>1. BarClose(s, bar, q) =
          IF dr = "warmup" THEN [memory |-> [s EXCEPT !.regime = dr], signal |-> NoSignal]
          ELSE IF dl
          THEN [memory |-> [dseen EXCEPT !.entry = "none", !.cool = BlendCooldown], signal |-> CloseSignal(q)]
          ELSE IF dside # 0
          THEN [memory |-> [dseen EXCEPT !.entry = dr, !.cool = BlendCooldown], signal |-> Plan(dside, BlendLots, q)]
          ELSE [memory |-> dseen, signal |-> NoSignal]
    BY Zenon DEF BarClose
  <2>2. dv = votes /\ dr = regime /\ ds = score
    BY <1>2
  <2>3. dseen = seen /\ dside = side
    <3> HIDE DEF dv, dr, ds
    <3> QED BY <1>3, <1>6, <2>2
  <2>4. dl = leave
    <3> HIDE DEF dv, dr, ds
    <3> QED BY <1>5, <2>2, Zenon
  <2> HIDE DEF dv, dr, ds, dl, dside, dseen
  <2> QED BY <2>1, <2>2, <2>3, <2>4, Zenon
<1>9. PICK m1, m2, m3 :
        /\ m1 = [s EXCEPT !.regime = regime] /\ m2 = [seen EXCEPT !.entry = "none", !.cool = BlendCooldown]
        /\ m3 = [seen EXCEPT !.entry = regime, !.cool = BlendCooldown]
  OBVIOUS
<1>10. /\ BlendShape(m1) /\ BlendShape(m2) /\ BlendShape(m3) /\ BlendShape(seen)
       /\ m1.entry = s.entry /\ m2.entry = "none" /\ m3.regime = regime /\ seen.entry = s.entry
  BY <1>1, <1>4, <1>9 DEF BlendShape
<1>11. CloseSignal(q) \in Lots /\ Plan(side, BlendLots, q) \in Lots /\ NoSignal \in Lots
  BY <1>7, CloseTyped, PlanTyped, NoSignalTyped, DeskNumbers
<1> HIDE DEF BlendShape, Lots, NoSignal, CloseSignal, Plan
<1>12. CASE regime = "warmup"
  <2>1. BarClose(s, bar, q) = [memory |-> m1, signal |-> NoSignal]
    BY <1>8, <1>9, <1>12
  <2> QED BY <1>10, <1>11, <2>1 DEF BlendAnswer
<1>13. CASE regime # "warmup" /\ leave
  <2>1. BarClose(s, bar, q) = [memory |-> m2, signal |-> CloseSignal(q)]
    BY <1>8, <1>9, <1>13
  <2> QED BY <1>10, <1>11, <2>1 DEF BlendAnswer
<1>14. CASE regime # "warmup" /\ ~leave /\ side # 0
  <2>1. BarClose(s, bar, q) = [memory |-> m3, signal |-> Plan(side, BlendLots, q)]
    BY <1>8, <1>9, <1>14
  <2> QED BY <1>7, <1>10, <1>11, <1>14, <2>1 DEF BlendAnswer
<1>15. CASE regime # "warmup" /\ ~leave /\ side = 0
  <2>1. BarClose(s, bar, q) = [memory |-> seen, signal |-> NoSignal]
    BY <1>8, <1>9, <1>15
  <2> QED BY <1>10, <1>11, <2>1 DEF BlendAnswer
<1> QED BY <1>12, <1>13, <1>14, <1>15

LEMMA BlendAnswers ==
  ASSUME NEW s, BlendShape(s), NEW bar \in BarType, NEW q \in Int
  PROVE  BlendAnswer(s, BlendTick(s, bar, q))
<1>1. PICK b1, b2, b3, b4, b5, b6 :
        s = [bar |-> b1, bars |-> b2, regime |-> b3, prev |-> b4, cool |-> b5, entry |-> b6]
  BY DEF BlendShape
<1>2. PICK ends : ends = (s.bar + 1 = BlendBar)
  OBVIOUS
<1>3. PICK cooler : cooler = [s EXCEPT !.cool = CountDown(@),
                               !.bar = IF ends THEN 0 ELSE @ + 1,
                               !.bars = IF ends /\ @ < BlendWarmup THEN @ + 1 ELSE @]
  OBVIOUS
<1>4. BlendShape(cooler) /\ cooler.entry = s.entry /\ cooler.regime = s.regime
  BY <1>1, <1>3 DEF BlendShape
<1>5. BlendTick(s, bar, q) =
        IF ~ends \/ cooler.bars < BlendWarmup \/ cooler.cool > 0
        THEN [memory |-> cooler, signal |-> NoSignal] ELSE BarClose(cooler, bar, q)
  BY <1>2, <1>3 DEF BlendTick
<1>6. BlendAnswer(cooler, BarClose(cooler, bar, q))
  BY <1>4, BlendCloses
<1>7. BlendAnswer(s, [memory |-> cooler, signal |-> NoSignal])
  BY <1>4, NoSignalTyped DEF BlendAnswer
<1>8. BlendAnswer(s, BarClose(cooler, bar, q))
  BY <1>4, <1>6 DEF BlendAnswer
<1> HIDE DEF BlendAnswer, NoSignal
<1> QED BY <1>5, <1>7, <1>8

LEMMA SmaAnswers ==
  ASSUME NEW s, NEW p, NEW q \in Int PROVE SmaTick(s, p, q).signal \in Lots
<1> DEFINE pushed == [PushSample(s, p) EXCEPT !.cool = CountDown(@)]
           above == Above(pushed)
           crossed == s.above # "unknown" /\ above # s.above
           signal == IF crossed THEN Plan(IF above = "yes" THEN 1 ELSE -1, SmaLots, q) ELSE NoSignal
           next == [pushed EXCEPT !.above = above,
                                  !.cool = IF signal = NoSignal THEN 0 ELSE SmaCooldown]
<1>1. SmaTick(s, p, q) =
        IF pushed.cool > 0 \/ ~BarEnds(s) \/ Len(pushed.mids) < SlowWindow
        THEN [memory |-> pushed, signal |-> NoSignal]
        ELSE [memory |-> next, signal |-> signal]
  BY Zenon DEF SmaTick
<1>2. signal \in Lots /\ NoSignal \in Lots
  <2> HIDE DEF above, crossed
  <2>1. Plan(1, SmaLots, q) \in Lots /\ Plan(-1, SmaLots, q) \in Lots /\ NoSignal \in Lots
    BY PlanTyped, NoSignalTyped, DeskNumbers
  <2> QED BY <2>1, Zenon
<1> HIDE DEF Lots, NoSignal, Plan, pushed, signal, next
<1> QED BY <1>1, <1>2

\* What flow momentum answers: its memory of a position that has ended stays empty.
FlowAnswer(s, q, r) ==
  /\ r.signal \in Lots /\ FlowShape(r.memory)
  /\ q = 0 /\ s.since = Unset /\ s.peak = 0 => r.memory.since = Unset /\ r.memory.peak = 0

LEMMA FlowAnswers ==
  ASSUME NEW s, FlowShape(s), NEW f \in TapeType, NEW q \in Int, NEW profit
  PROVE  FlowAnswer(s, q, FlowTick(s, f, q, profit))
<1>1. PICK b1, b2, b3, b4, b5, b6 :
        s = [confirm |-> b1, fades |-> b2, open |-> b3, since |-> b4, peak |-> b5, cool |-> b6]
  BY DEF FlowShape
<1>2. PICK older : older = [s EXCEPT !.since = IF @ = Unset THEN Unset ELSE IF @ = FlowHold THEN @ ELSE @ + 1,
                              !.cool = CountDown(@)]
  OBVIOUS
<1>3. FlowShape(older) /\ older.peak = s.peak /\ (s.since = Unset => older.since = Unset)
  <2>1. PICK x, y : /\ x = IF s.since = Unset THEN Unset ELSE IF s.since = FlowHold THEN s.since ELSE s.since + 1
                    /\ y = CountDown(s.cool)
    OBVIOUS
  <2>2. older = [s EXCEPT !.since = x, !.cool = y]
    BY <1>2, <2>1
  <2>3. s.since = Unset => x = Unset
    BY <2>1
  <2>4. older = [confirm |-> b1, fades |-> b2, open |-> b3, since |-> x, peak |-> b5, cool |-> y]
    BY <1>1, <2>2
  <2> QED BY <1>1, <2>3, <2>4 DEF FlowShape
<1>4. PICK direction \in -1..1 : direction = Direction(f)
  BY DEF Direction
<1>5. PICK seen : seen = [SyncState(older, q) EXCEPT !.confirm = Keep(@, direction, ConfirmTicks)]
  OBVIOUS
<1>6. /\ FlowShape(seen) /\ (q = 0 => seen.peak = older.peak) /\ seen.since = older.since
  BY <1>3, <1>5 DEF FlowShape, SyncState
<1>7. PICK held : held = Hold(seen, f, q, profit)
  OBVIOUS
<1>8. FlowShape(held.memory)
  <2>1. PICK x, y, z :
          \/ held.memory = [seen EXCEPT !.since = x, !.peak = y]
          \/ held.memory = [[seen EXCEPT !.since = x, !.peak = y] EXCEPT !.fades = z]
    <3> DEFINE dside == SideOf(q)
               dheld == [seen EXCEPT !.since = IF @ = Unset THEN 0 ELSE @,
                                     !.peak = IF profit > @ THEN profit ELSE @]
               dearly == \/ Turned(dside, f) \/ profit <= -FlowStop
                         \/ dheld.peak >= TrailArm /\ profit <= dheld.peak - TrailStop
                         \/ dheld.since = FlowHold
               dcounted == IF dearly THEN dheld ELSE [dheld EXCEPT !.fades = Keep(@, Pressed(dside, f), ExitTicks)]
    <3>1. Hold(seen, f, q, profit) = [memory |-> dcounted, due |-> ExitDue(dheld, f, q, profit)]
      BY Zenon DEF Hold
    <3>2. held.memory = dcounted
      <4> HIDE DEF dcounted, dheld
      <4> QED BY <1>7, <3>1
    <3>3. PICK x, y : dheld = [seen EXCEPT !.since = x, !.peak = y]
      OBVIOUS
    <3>4. PICK z : [dheld EXCEPT !.fades = Keep(@, Pressed(dside, f), ExitTicks)] = [dheld EXCEPT !.fades = z]
      <4> HIDE DEF dheld
      <4> QED OBVIOUS
    <3>5. \/ held.memory = dheld
          \/ held.memory = [dheld EXCEPT !.fades = z]
      <4> HIDE DEF dearly, dheld
      <4> QED BY <3>2, <3>4, Zenon
    <3> HIDE DEF dheld
    <3>6. \/ held.memory = [seen EXCEPT !.since = x, !.peak = y]
          \/ held.memory = [[seen EXCEPT !.since = x, !.peak = y] EXCEPT !.fades = z]
      BY <3>3, <3>5
    <3> QED BY <3>6
  <2> QED BY <1>6, <2>1 DEF FlowShape
<1>9. PICK m1, m2 : m1 = [held.memory EXCEPT !.cool = FlowCooldown]
                    /\ m2 = [seen EXCEPT !.cool = FlowCooldown, !.peak = 0, !.fades = <<>>]
  OBVIOUS
<1>10. FlowShape(m1) /\ FlowShape(m2) /\ m2.since = seen.since /\ m2.peak = 0
  BY <1>6, <1>8, <1>9 DEF FlowShape
<1>11. CloseSignal(q) \in Lots /\ Plan(direction, FlowLots, q) \in Lots /\ NoSignal \in Lots
  BY CloseTyped, PlanTyped, NoSignalTyped, DeskNumbers
<1>12. PICK enter : enter = (/\ seen.cool = 0 /\ f.gates /\ direction # 0
                             /\ Confirmed(seen.confirm, ConfirmTicks))
  OBVIOUS
<1>13. FlowTick(s, f, q, profit) =
         IF q # 0 THEN
           IF held.due THEN [memory |-> m1, signal |-> CloseSignal(q)]
           ELSE [memory |-> held.memory, signal |-> NoSignal]
         ELSE IF enter THEN [memory |-> m2, signal |-> Plan(direction, FlowLots, q)]
         ELSE [memory |-> seen, signal |-> NoSignal]
  <2> DEFINE dolder == [s EXCEPT !.since = IF @ = Unset THEN Unset ELSE IF @ = FlowHold THEN @ ELSE @ + 1,
                                 !.cool = CountDown(@)]
             ddirection == Direction(f)
             dseen == [SyncState(dolder, q) EXCEPT !.confirm = Keep(@, ddirection, ConfirmTicks)]
             dheld == Hold(dseen, f, q, profit)
             denter == /\ dseen.cool = 0 /\ f.gates /\ ddirection # 0
                       /\ Confirmed(dseen.confirm, ConfirmTicks)
  <2>1. FlowTick(s, f, q, profit) =
          IF q # 0 THEN
            IF dheld.due THEN [memory |-> [dheld.memory EXCEPT !.cool = FlowCooldown],
                              signal |-> CloseSignal(q)]
            ELSE [memory |-> dheld.memory, signal |-> NoSignal]
          ELSE IF denter THEN [memory |-> [dseen EXCEPT !.cool = FlowCooldown, !.peak = 0, !.fades = <<>>],
                              signal |-> Plan(ddirection, FlowLots, q)]
          ELSE [memory |-> dseen, signal |-> NoSignal]
    BY Zenon DEF FlowTick
  <2>2. ddirection = direction /\ dolder = older
    BY <1>2, <1>4
  <2>3. dseen = seen
    <3> HIDE DEF ddirection, dolder
    <3> QED BY <1>5, <2>2
  <2>4. dheld = held
    <3> HIDE DEF dseen
    <3> QED BY <1>7, <2>3
  <2>5. denter = enter
    <3> HIDE DEF dseen, ddirection
    <3> QED BY <1>12, <2>2, <2>3, Zenon
  <2> HIDE DEF dolder, ddirection, dseen, dheld, denter
  <2> QED BY <1>9, <2>1, <2>2, <2>3, <2>4, <2>5, Zenon
<1> HIDE DEF FlowShape, Lots, NoSignal, CloseSignal, Plan
<1>14. CASE q # 0
  BY <1>8, <1>10, <1>11, <1>13, <1>14 DEF FlowAnswer
<1>15. CASE q = 0
  BY <1>3, <1>6, <1>10, <1>11, <1>13, <1>15 DEF FlowAnswer
<1> QED BY <1>14, <1>15

-----------------------------------------------------------------------------
\* The operators of the monitor: their types, and what becomes of the bracket and the cooldown.
MonitorLike(m, k) == k \in Monitors /\ (k.managed <=> m.managed)

LEMMA LaterOf ==
  ASSUME NEW m \in Monitors
  PROVE  /\ MonitorLike(m, Later(m)) /\ Later(m).bracket = m.bracket /\ Later(m).cool = CountDown(m.cool)
<1>1. PICK c \in Nat, b \in Nat : c = CountDown(m.cool) /\ b = CountDown(m.backoff)
  BY DEF Monitors, CountDown
<1>2. Later(m) = [m EXCEPT !.cool = c, !.backoff = b]
  BY <1>1 DEF Later
<1>3. Later(m) \in Monitors /\ Later(m).bracket = m.bracket /\ Later(m).cool = c /\ Later(m).managed = m.managed
  BY <1>2 DEF Monitors
<1> QED BY <1>1, <1>3 DEF MonitorLike

LEMMA FiredOf ==
  ASSUME NEW m \in Monitors
  PROVE  /\ MonitorLike(m, Fired(m)) /\ Fired(m).bracket = m.bracket /\ Fired(m).cool = Recoil
BY DeskNumbers DEF Fired, Monitors, MonitorLike

LEMMA NoBracketTyped == NoBracket \in [stop : Int, take : Int]
BY DEF NoBracket

LEMMA BracketTyped == ASSUME NEW q \in Int, NEW e \in Int PROVE Bracket(q, e) \in [stop : Int, take : Int]
<1>1. SideOf(q) * StopGap \in Int /\ SideOf(q) * TakeGap \in Int
  <2>1. SideOf(q) = -1 \/ SideOf(q) = 0 \/ SideOf(q) = 1
    BY DEF SideOf
  <2> QED BY <2>1, DeskNumbers
<1> QED BY <1>1 DEF Bracket

LEMMA DisarmOf ==
  ASSUME NEW m \in Monitors
  PROVE  /\ MonitorLike(m, Disarm(m)) /\ Disarm(m).bracket = NoBracket /\ Disarm(m).cool = 0
         /\ MonitorLike(m, Disarm(NoteRejected(m))) /\ Disarm(NoteRejected(m)).bracket = NoBracket
<1> HIDE DEF NoBracket
<1>1. m.managed \in BOOLEAN /\ NoteRejected(m).managed = m.managed
  BY DEF Monitors, NoteRejected
<1>2. \A b \in BOOLEAN : NewMonitor(b) \in Monitors /\ NewMonitor(b).managed = b
                          /\ NewMonitor(b).bracket = NoBracket /\ NewMonitor(b).cool = 0
  BY NoBracketTyped DEF NewMonitor, Monitors
<1> QED BY <1>1, <1>2 DEF Disarm, MonitorLike

LEMMA RearmOf ==
  ASSUME NEW m \in Monitors, NEW q \in Int, NEW e \in Int, NEW k, k = RearmAfterFill(m, q, e)
  PROVE  /\ MonitorLike(m, k)
         /\ ~m.managed => /\ k.bracket = IF q = 0 THEN NoBracket ELSE Bracket(q, e)
                          /\ \/ k.cool = m.cool
                             \/ q = 0 \/ Size(q) > Size(m.armed) \/ SideOf(q) # SideOf(m.armed)
<1> HIDE DEF NoBracket, Bracket
<1>1. CASE q = 0
  BY <1>1, DisarmOf DEF RearmAfterFill
<1>2. CASE q # 0
  <2>1. k = Arm(m, q, e)
    BY <1>2 DEF RearmAfterFill
  <2>2. PICK b : b = Bracket(q, e) /\ b \in [stop : Int, take : Int]
    BY BracketTyped
  <2>3. CASE m.managed
    BY <2>1, <2>3 DEF Arm, MonitorLike
  <2>4. CASE ~m.managed
    <3>1. m.armed \in Int /\ m.cool \in Nat
      BY DEF Monitors
    <3>2. m.armed = 0 => SideOf(q) # SideOf(m.armed)
      BY <1>2 DEF SideOf
    <3>3. PICK c \in Nat : /\ c = IF m.armed = 0 \/ SideOf(m.armed) # SideOf(q) \/ Size(q) > Size(m.armed)
                                  THEN 0 ELSE m.cool
                           /\ \/ c = m.cool \/ Size(q) > Size(m.armed) \/ SideOf(q) # SideOf(m.armed)
      BY <3>1, <3>2
    <3>4. k = [m EXCEPT !.bracket = b, !.armed = q, !.cool = c]
      BY <2>1, <2>2, <2>4, <3>3 DEF Arm
    <3>5. /\ k \in Monitors /\ k.bracket = b /\ k.cool = c /\ (k.managed <=> m.managed)
      BY <2>2, <3>4 DEF Monitors
    <3> QED BY <1>2, <2>2, <3>3, <3>5 DEF MonitorLike
  <2> QED BY <2>3, <2>4
<1> QED BY <1>1, <1>2

-----------------------------------------------------------------------------
\* What the strategy remembers once it was asked, or told of a fill.
Remembers(s, r) ==
  /\ MemoryShape(r)
  /\ active = "blend" /\ EntryScore > 35 /\ s.entry = "none" /\ r.entry # "none" => r.regime = s.regime
  /\ active = "flow" /\ ForgetOK(s, tracked) => ForgetOK(r, tracked)

LEMMA StillRemembers == ASSUME NEW s, MemoryShape(s) PROVE Remembers(s, s)
BY DEF Remembers

LEMMA AnswersTyped ==
  ASSUME DeskType, NEW a \in Answers
  PROVE  a.signal \in Lots /\ Remembers(memory, a.memory)
<1>1. tracked.qty \in Int
  BY DEF DeskType, Known
<1>2. CASE active = "sma"
  <2>1. a = SmaTick(memory, price, tracked.qty)
    BY <1>2 DEF Answers
  <2> QED BY <1>1, <1>2, <2>1, SmaAnswers DEF Remembers, MemoryShape
<1>3. CASE active = "blend"
  <2>1. PICK bar \in Bars : a = BlendTick(memory, bar, tracked.qty)
    BY <1>3 DEF Answers
  <2>2. BlendShape(memory) /\ bar \in BarType
    BY <1>3, DeskSets DEF DeskType, MemoryShape
  <2>3. BlendAnswer(memory, a)
    BY <1>1, <2>1, <2>2, BlendAnswers
  <2> HIDE DEF BlendShape, FlowShape, Lots
  <2> QED BY <1>3, <2>3 DEF Remembers, MemoryShape, BlendAnswer
<1>4. CASE active = "flow"
  <2>1. PICK f \in Tapes : a = FlowTick(memory, f, tracked.qty, tracked.up)
    BY <1>4 DEF Answers
  <2>2. FlowShape(memory) /\ f \in TapeType
    BY <1>4, DeskSets DEF DeskType, MemoryShape
  <2>3. FlowAnswer(memory, tracked.qty, a)
    BY <1>1, <2>1, <2>2, FlowAnswers
  <2> HIDE DEF BlendShape, FlowShape, Lots
  <2> QED BY <1>4, <2>3 DEF Remembers, MemoryShape, FlowAnswer, ForgetOK
<1> QED BY <1>2, <1>3, <1>4 DEF DeskType

LEMMA SubmitTyped ==
  ASSUME orders \in Seq(Lots), NEW o \in Lots, Submit(o)
  PROVE  orders' \in Seq(Lots)
<1>1. orders' = orders \/ orders' = Append(orders, o)
  BY Zenon DEF Submit
<1>2. Append(orders, o) \in Seq(Lots)
  <2> HIDE DEF Lots
  <2> QED OBVIOUS
<1> QED BY <1>1, <1>2, Zenon

LEMMA DispatchTyped ==
  ASSUME DeskType, Dispatch
  PROVE  orders' \in Seq(Lots) /\ Remembers(memory, memory')
<1>1. PICK a \in Answers :
        /\ memory' = a.memory
        /\ orders' = orders \/ Submit(a.signal)
  BY Zenon DEF Dispatch
<1>2. a.signal \in Lots /\ Remembers(memory, a.memory)
  BY AnswersTyped
<1>3. orders \in Seq(Lots)
  BY DEF DeskType
<1> HIDE DEF Lots, Submit, Remembers
<1>4. Remembers(memory, memory')
  BY <1>1, <1>2
<1> QED BY <1>1, <1>2, <1>3, <1>4, SubmitTyped

LEMMA SeenTyped ==
  ASSUME NEW v \in [qty : Int, entry : Int], NEW p \in Int
  PROVE  Seen(v, p) \in Known /\ Seen(v, p).qty = v.qty /\ Seen(v, p).entry = v.entry
<1>1. Profit(v, p) \in Int
  <2>1. SideOf(v.qty) = -1 \/ SideOf(v.qty) = 0 \/ SideOf(v.qty) = 1
    BY DEF SideOf
  <2> QED BY <2>1 DEF Profit
<1> QED BY <1>1 DEF Seen, Known

LEMMA TradedTyped ==
  ASSUME NEW v \in [qty : Int, entry : Int], NEW p \in Int, NEW side \in Int
  PROVE  Traded(v, side, p) \in [qty : Int, entry : Int]
<1>1. PICK n \in Int : n = v.qty + side
  OBVIOUS
<1>2. PICK m \in Int : m = Size(v.qty) * v.entry + p
  <2>1. Size(v.qty) \in Int /\ v.entry \in Int
    BY Sides
  <2> QED BY <2>1
<1>3. n # 0 => m \div Size(n) \in Int
  <2>1. n # 0 => Size(n) \in Int /\ Size(n) > 0
    BY DEF Size
  <2> QED BY <2>1
<1>4. Traded(v, side, p) = IF n = 0 THEN Flat
                           ELSE IF Size(n) < Size(v.qty) THEN [v EXCEPT !.qty = n]
                           ELSE [qty |-> n, entry |-> m \div Size(n)]
  BY <1>1, <1>2 DEF Traded
<1>5. Flat \in [qty : Int, entry : Int] /\ [v EXCEPT !.qty = n] \in [qty : Int, entry : Int]
  BY DEF Flat
<1> QED BY <1>3, <1>4, <1>5

LEMMA ReportTyped ==
  ASSUME stream \in Seq(Heards), price \in Int, NEW v \in [qty : Int, entry : Int]
  PROVE  Report(v) \in Seq(Heards) /\ Report(v) # <<>> /\ \A t : StreamOK(Report(v), t, v)
<1>1. PICK a, b : a = [kind |-> "account", book |-> Seen(v, price)] /\ b = [kind |-> "trade"]
  OBVIOUS
<1>2. a \in Heards /\ b \in Heards
  BY <1>1, SeenTyped DEF Heards
<1>3. a.kind = "account" /\ b.kind = "trade" /\ a.book.qty = v.qty /\ a.book.entry = v.entry
  BY <1>1, SeenTyped
<1> HIDE DEF Heards
<1>4. PICK w \in Seq(Heards) : w = <<a, b>> /\ Len(w) = 2 /\ w[1] = a /\ w[2] = b
  <2>1. <<a, b>> \in Seq(Heards)
    BY <1>2
  <2>2. Len(<<a, b>>) = 2 /\ <<a, b>>[1] = a /\ <<a, b>>[2] = b
    OBVIOUS
  <2> QED BY <2>1, <2>2, Zenon
<1>5. PICK str \in Seq(Heards), n \in Nat :
        str = stream \o w /\ Len(str) = n + 2 /\ str[n + 1] = a /\ str[n + 2] = b
  <2>1. PICK former \in Seq(Heards), n \in Nat : former = stream /\ n = Len(former)
    OBVIOUS
  <2>2. /\ former \o w \in Seq(Heards) /\ Len(former \o w) = n + 2
        /\ (former \o w)[n + 1] = a /\ (former \o w)[n + 2] = b
    BY <1>4, <2>1, TwoFrames
  <2> QED BY <2>1, <2>2
<1>6. Report(v) = str
  <2>1. Report(v) = stream \o <<a, b>>
    BY <1>1, Zenon DEF Report
  <2> QED BY <1>4, <1>5, <2>1, Zenon
<1>7. (n + 2) - 1 = n + 1 /\ ~(n + 2 <= 1)
  BY TwoAfter
<1>8. str # <<>>
  BY <1>5
<1>9. \A t : StreamOK(str, t, v)
  BY <1>3, <1>5, <1>7, Zenon DEF StreamOK
<1> QED BY <1>5, <1>6, <1>8, <1>9, Zenon

-----------------------------------------------------------------------------
\* The invariant is kept by what leaves the book, the stream and the ghosts alone.
StillBook == price' \in Nat /\ UNCHANGED <<venue, tracked, stream, active, astray>>

LEMMA StillKept ==
  ASSUME DeskInv, StillBook, Remembers(memory, memory'),
         orders' \in Seq(Lots), intent' \in Lots, MonitorLike(monitor, monitor'),
         monitor'.bracket = monitor.bracket, quiet' \in Nat, CoolOK(monitor', quiet')
  PROVE  DeskInv'
<1>1. DeskType'
  BY DEF DeskInv, DeskType, StillBook, Remembers, MonitorLike, MemoryShape
<1>2. StreamOK(stream, tracked, venue)'
  BY DEF DeskInv, StillBook, StreamOK
<1>3. (stream = <<>> /\ ~astray => BracketOK(monitor, tracked))'
  BY DEF DeskInv, StillBook, BracketOK, MonitorLike
<1>4. (stream = <<>> /\ ~astray /\ active = "flow" => ForgetOK(memory, tracked))'
  BY DEF DeskInv, StillBook, Remembers
<1> QED BY <1>1, <1>2, <1>3, <1>4 DEF DeskInv

LEMMA SameMonitor ==
  ASSUME DeskInv, UNCHANGED <<monitor, quiet>>
  PROVE  /\ MonitorLike(monitor, monitor') /\ monitor'.bracket = monitor.bracket
         /\ quiet' \in Nat /\ CoolOK(monitor', quiet')
BY DEF DeskInv, DeskType, MonitorLike, CoolOK

LEMMA CountsDown == \A a \in Nat, b \in Nat : CountDown(a) \in Nat /\ (a <= b => CountDown(a) <= CountDown(b))
BY DEF CountDown

LEMMA TickKeeps == ASSUME DeskInv, Tick PROVE DeskInv'
<1>1. StillBook /\ DeskType /\ monitor \in Monitors /\ quiet \in Nat
  BY DEF Tick, DeskInv, DeskType, StillBook
<1>2. Remembers(memory, memory)
  BY StillRemembers DEF DeskInv, DeskType
<1>3. PICK later : /\ later = Later(monitor) /\ MonitorLike(monitor, later)
                   /\ later.bracket = monitor.bracket /\ later.cool = CountDown(monitor.cool)
  BY <1>1, LaterOf
<1>4. CASE mode = "running" /\ Triggered(later, tracked.qty, price)
  <2>1. /\ monitor' = Fired(later) /\ quiet' = Recoil /\ intent' = CloseSignal(tracked.qty)
        /\ UNCHANGED <<orders, memory>>
    BY <1>3, <1>4 DEF Tick
  <2>2. later \in Monitors /\ tracked.qty \in Int /\ Recoil \in Nat /\ orders \in Seq(Lots)
    BY <1>1, <1>3, DeskNumbers DEF MonitorLike, DeskType, Known
  <2>3. MonitorLike(later, monitor') /\ monitor'.bracket = later.bracket /\ monitor'.cool = Recoil
    BY <2>1, <2>2, FiredOf
  <2>4. MonitorLike(monitor, monitor') /\ monitor'.bracket = monitor.bracket
    BY <1>3, <2>3 DEF MonitorLike
  <2>5. quiet' \in Nat /\ CoolOK(monitor', quiet')
    BY <2>1, <2>2, <2>3 DEF CoolOK
  <2>6. intent' \in Lots
    BY <2>1, <2>2, CloseTyped, Zenon
  <2>7. orders' \in Seq(Lots) /\ Remembers(memory, memory')
    BY <1>2, <2>1, <2>2, Zenon
  <2> QED BY <1>1, <2>4, <2>5, <2>6, <2>7, StillKept
<1>5. CASE ~(mode = "running" /\ Triggered(later, tracked.qty, price))
  <2>1. /\ monitor' = later /\ quiet' = CountDown(quiet) /\ intent' = intent
        /\ UNCHANGED <<orders, memory>> \/ Dispatch
    BY <1>3, <1>5 DEF Tick
  <2>2. monitor.cool \in Nat /\ (~monitor'.managed => ~monitor.managed)
    BY <1>1, <1>3, <2>1 DEF Monitors, MonitorLike
  <2>3. quiet' \in Nat /\ CoolOK(monitor', quiet')
    <3>1. CountDown(quiet) \in Nat /\ (quiet <= monitor.cool => CountDown(quiet) <= CountDown(monitor.cool))
      BY <1>1, <2>2, CountsDown
    <3>2. quiet' = CountDown(quiet) /\ monitor'.cool = CountDown(monitor.cool)
      BY <1>3, <2>1, Zenon
    <3>3. CoolOK(monitor, quiet)
      BY Zenon DEF DeskInv
    <3> QED BY <2>2, <3>1, <3>2, <3>3, Zenon DEF CoolOK
  <2>4. MonitorLike(monitor, monitor') /\ monitor'.bracket = monitor.bracket
    BY <1>3, <2>1
  <2>5. intent' \in Lots /\ orders \in Seq(Lots)
    BY <1>1, <2>1, Zenon DEF DeskType
  <2>6. orders' \in Seq(Lots) /\ Remembers(memory, memory')
    BY <1>1, <1>2, <2>1, <2>5, DispatchTyped, Zenon
  <2> QED BY <1>1, <2>3, <2>4, <2>5, <2>6, StillKept
<1> QED BY <1>4, <1>5

LEMMA SignalsKeeps == ASSUME DeskInv, Signals PROVE DeskInv'
<1>1. StillBook /\ DeskType /\ intent' \in Lots
  BY DEF Signals, DeskInv, DeskType, StillBook
<1>2. UNCHANGED <<monitor, quiet>> /\ Dispatch
  BY DEF Signals
<1> QED BY <1>1, <1>2, DispatchTyped, SameMonitor, StillKept

\* What changes neither the memory nor the monitor.
LEMMA OrdersKept ==
  ASSUME DeskInv, StillBook, UNCHANGED <<monitor, quiet, memory>>,
         orders' \in Seq(Lots), intent' \in Lots
  PROVE  DeskInv'
<1>1. Remembers(memory, memory')
  BY StillRemembers DEF DeskInv, DeskType
<1> QED BY <1>1, SameMonitor, StillKept

LEMMA SubmitExitKeeps == ASSUME DeskInv, SubmitExit PROVE DeskInv'
<1>1. StillBook /\ orders \in Seq(Lots) /\ intent \in Lots /\ venue.qty \in Int /\ intent.lots \in Int
  BY DEF SubmitExit, DeskInv, DeskType, StillBook, atVenue, strategy, Lots
<1>2. UNCHANGED <<monitor, quiet, memory>> /\ intent' \in Lots
  BY NoSignalTyped DEF SubmitExit, strategy
<1>3. PICK n \in Int : n = IF Size(venue.qty) < intent.lots THEN venue.qty
                           ELSE SideOf(venue.qty) * intent.lots
  <2>1. PICK q \in Int, l \in Int : q = venue.qty /\ l = intent.lots
    BY <1>1
  <2>2. SideOf(q) * l \in Int
    BY DEF SideOf
  <2> QED BY <2>1, <2>2, Zenon
<1>4. orders' = orders \/ Submit(intent) \/ Submit(CloseSignal(n))
  BY <1>3 DEF SubmitExit
<1>5. orders' \in Seq(Lots)
  BY <1>1, <1>4, SubmitTyped, CloseTyped, Zenon
<1> QED BY <1>1, <1>2, <1>5, OrdersKept

LEMMA EndKeeps == ASSUME DeskInv, NEW i \in 1..Len(orders), End(i) PROVE DeskInv'
<1>1. StillBook /\ orders \in Seq(Lots) /\ intent' \in Lots /\ UNCHANGED <<monitor, quiet, memory>>
  BY DEF End, DeskInv, DeskType, StillBook, strategy
<1>2. orders' \in Seq(Lots)
  BY <1>1, RemovedTyped DEF End
<1> QED BY <1>1, <1>2, OrdersKept

LEMMA MarketKeeps == ASSUME DeskInv, MarketMoves PROVE DeskInv'
<1>1. StillBook /\ orders' \in Seq(Lots) /\ intent' \in Lots /\ UNCHANGED <<monitor, quiet, memory>>
  BY DeskSets DEF MarketMoves, DeskInv, DeskType, StillBook, strategy
<1> QED BY <1>1, OrdersKept

LEMMA ModeKeeps == ASSUME DeskInv, SetMode PROVE DeskInv'
<1>1. StillBook /\ orders' \in Seq(Lots) /\ intent' \in Lots /\ UNCHANGED <<monitor, quiet, memory>>
  BY DEF SetMode, DeskInv, DeskType, StillBook, strategy, atVenue
<1> QED BY <1>1, OrdersKept

-----------------------------------------------------------------------------
\* What reads the book anew leaves it as the venue has it.
LEMMA HealKeeps ==
  ASSUME DeskInv, HealBook, UNCHANGED <<price, venue, stream, intent, active, memory>>,
         orders' \in Seq(Lots)
  PROVE  DeskInv'
<1>1. DeskType /\ venue \in [qty : Int, entry : Int] /\ price \in Int /\ monitor \in Monitors
  BY DEF DeskInv, DeskType
<1>2. PICK t \in Known : t = tracked' /\ t.qty = venue.qty /\ t.entry = venue.entry
  BY <1>1, SeenTyped DEF HealBook
<1>3. /\ MonitorLike(monitor, monitor') /\ quiet' \in Nat /\ CoolOK(monitor', quiet')
      /\ venue.qty = 0 => monitor'.bracket = NoBracket
      /\ venue.qty # 0 => monitor'.bracket = monitor.bracket
  <2>1. CASE venue.qty = 0
    <3>1. monitor' = Disarm(NoteRejected(monitor)) /\ quiet' = 0
      BY <2>1 DEF HealBook
    <3>2. MonitorLike(monitor, monitor') /\ monitor'.bracket = NoBracket
      BY <1>1, <3>1, DisarmOf, Zenon
    <3>3. monitor'.cool \in Nat
      BY <3>2 DEF MonitorLike, Monitors
    <3> QED BY <2>1, <3>1, <3>2, <3>3 DEF CoolOK
  <2>2. CASE venue.qty # 0
    <3>1. UNCHANGED <<monitor, quiet>>
      BY <2>2 DEF HealBook
    <3> QED BY <2>2, <3>1, SameMonitor
  <2> QED BY <2>1, <2>2
<1>4. DeskType'
  <2>1. astray' \in BOOLEAN
    BY DEF HealBook, DeskInv, DeskType
  <2> QED BY <1>1, <1>2, <1>3, <2>1 DEF DeskType, MonitorLike, MemoryShape
<1>5. StreamOK(stream, tracked, venue)'
  BY <1>2 DEF DeskInv, StreamOK
<1>6. ~astray' => ~astray /\ venue.qty = tracked.qty
  BY DEF HealBook
<1>7. (stream = <<>> /\ ~astray => BracketOK(monitor, tracked))'
  <2>1. SUFFICES ASSUME stream = <<>>, ~astray' PROVE BracketOK(monitor', t)
    BY <1>2
  <2>2. Len(stream) <= 1
    BY <2>1
  <2>3. tracked.qty = t.qty /\ tracked.entry = t.entry /\ BracketOK(monitor, tracked)
    BY <1>2, <1>6, <2>1, <2>2 DEF DeskInv, StreamOK
  <2> QED BY <1>2, <1>3, <2>3, Zenon DEF BracketOK, MonitorLike
<1>8. (stream = <<>> /\ ~astray /\ active = "flow" => ForgetOK(memory, tracked))'
  BY <1>2, <1>6 DEF DeskInv, ForgetOK
<1> QED BY <1>3, <1>4, <1>5, <1>7, <1>8 DEF DeskInv

LEMMA HealStep == ASSUME DeskInv, Heal PROVE DeskInv'
<1>1. UNCHANGED <<price, venue, stream, intent, active, memory>> /\ orders' \in Seq(Lots)
  BY DEF Heal, atVenue, strategy, DeskInv, DeskType
<1>2. CASE HealBook
  BY <1>1, <1>2, HealKeeps
<1>3. CASE UNCHANGED <<tracked, astray, monitor, quiet>>
  <2>1. StillBook /\ intent' \in Lots
    BY <1>1, <1>3 DEF StillBook, DeskInv, DeskType
  <2> QED BY <1>1, <1>3, <2>1, OrdersKept
<1> QED BY <1>2, <1>3 DEF Heal

LEMMA RefuseKeeps == ASSUME DeskInv, NEW i \in 1..Len(orders), Refuse(i) PROVE DeskInv'
<1>1. UNCHANGED <<price, venue, stream, intent, active, memory>> /\ HealBook
  BY DEF Refuse, strategy
<1>2. orders' \in Seq(Lots)
  BY RemovedTyped DEF Refuse, DeskInv, DeskType
<1> QED BY <1>1, <1>2, HealKeeps

LEMMA ReconnectKeeps == ASSUME DeskInv, Reconnect PROVE DeskInv'
<1>1. /\ venue \in [qty : Int, entry : Int] /\ price \in Int
      /\ UNCHANGED <<price, venue, orders, intent, active, memory, monitor, quiet>>
      /\ stream' = <<>> /\ tracked' = Seen(venue, price) /\ astray' = TRUE
  BY DEF Reconnect, atVenue, strategy, DeskInv, DeskType
<1>2. PICK t \in Known : t = tracked' /\ t.qty = venue.qty /\ t.entry = venue.entry
  BY <1>1, SeenTyped
<1>3. stream' \in Seq(Heards) /\ Len(stream') = 0
  <2> HIDE DEF Heards
  <2> QED BY <1>1, EmptySeq
<1>4. DeskType'
  BY <1>1, <1>2, <1>3 DEF DeskInv, DeskType, MemoryShape
<1>5. StreamOK(stream, tracked, venue)'
  BY <1>1, <1>2, <1>3 DEF StreamOK
<1> QED BY <1>1, <1>4, <1>5 DEF DeskInv, CoolOK

\* A fill puts two frames on their way, the book's and the trade's.
LEMMA ReportKeeps ==
  ASSUME DeskInv, NEW pos \in [qty : Int, entry : Int], venue' = pos, stream' = Report(pos),
         UNCHANGED <<price, tracked, intent, active, memory, monitor, quiet, astray>>,
         orders' \in Seq(Lots)
  PROVE  DeskInv'
<1>1. stream' \in Seq(Heards) /\ stream' # <<>> /\ StreamOK(stream', tracked', venue')
  BY ReportTyped DEF DeskInv, DeskType
<1>2. DeskType'
  BY <1>1 DEF DeskInv, DeskType, MemoryShape
<1> QED BY <1>1, <1>2 DEF DeskInv, CoolOK

LEMMA FillKeeps == ASSUME DeskInv, NEW i \in 1..Len(orders), Fill(i) PROVE DeskInv'
<1>1. /\ venue \in [qty : Int, entry : Int] /\ price \in Int /\ orders \in Seq(Lots)
      /\ UNCHANGED <<price, tracked, intent, active, memory, monitor, quiet, astray>>
  BY DEF Fill, strategy, DeskInv, DeskType
<1>2. PICK o \in Lots : o = orders[i]
  <2> HIDE DEF Lots
  <2> QED BY <1>1
<1>3. PICK pos : /\ pos = Traded(venue, o.side, price) /\ venue' = pos /\ stream' = Report(pos)
  BY <1>2 DEF Fill
<1>4. pos \in [qty : Int, entry : Int]
  BY <1>1, <1>2, <1>3, TradedTyped DEF Lots
<1>5. orders' \in Seq(Lots)
  <2>1. RemoveAt(orders, i) \in Seq(Lots)
    BY <1>1, RemovedTyped
  <2>2. PICK less : less = [o EXCEPT !.lots = @ - 1]
    OBVIOUS
  <2>3. less \in Lots
    BY <2>2 DEF Lots
  <2>4. [orders EXCEPT ![i].lots = @ - 1] = [orders EXCEPT ![i] = less]
    BY <1>1, <1>2, <2>2
  <2>5. [orders EXCEPT ![i] = less] \in Seq(Lots)
    <3> HIDE DEF Lots
    <3> QED BY <1>1, <2>3, ExceptSeq
  <2>6. orders' = RemoveAt(orders, i) \/ orders' = [orders EXCEPT ![i].lots = @ - 1]
    BY DEF Fill
  <2> QED BY <2>1, <2>4, <2>5, <2>6, Zenon
<1> QED BY <1>1, <1>3, <1>4, <1>5, ReportKeeps

LEMMA ForeignKeeps == ASSUME DeskInv, NEW side \in {1, -1}, Foreign(side) PROVE DeskInv'
<1>1. /\ venue \in [qty : Int, entry : Int] /\ price \in Int /\ orders' \in Seq(Lots)
      /\ UNCHANGED <<price, tracked, intent, active, memory, monitor, quiet, astray>>
  BY DEF Foreign, strategy, DeskInv, DeskType
<1>2. PICK pos : pos = Traded(venue, side, price) /\ venue' = pos /\ stream' = Report(pos)
  BY DEF Foreign
<1>3. pos \in [qty : Int, entry : Int]
  BY <1>1, <1>2, TradedTyped
<1> QED BY <1>1, <1>2, <1>3, ReportKeeps

-----------------------------------------------------------------------------
\* What is left of the stream once its first frame is heard.
LEMMA TailFrames ==
  ASSUME NEW s \in Seq(Heards), s # <<>>
  PROVE  /\ Head(s) = s[1] /\ Head(s) \in Heards /\ Tail(s) \in Seq(Heards)
         /\ Len(s) \in Nat /\ Len(s) >= 1 /\ Len(Tail(s)) = Len(s) - 1
         /\ Len(s) >= 2 => Tail(s)[Len(s) - 1] = s[Len(s)]
         /\ Len(s) >= 3 => Tail(s)[Len(s) - 2] = s[Len(s) - 1]
         /\ Len(s) = 1 => Tail(s) = <<>>
<1> HIDE DEF Heards
<1>1. /\ Head(s) = s[1] /\ Head(s) \in Heards /\ Tail(s) \in Seq(Heards)
      /\ Len(Tail(s)) = Len(s) - 1 /\ \A i \in 1..Len(Tail(s)) : Tail(s)[i] = s[i + 1]
  BY HeadTailProperties
<1>2. PICK n \in Nat : n = Len(s) /\ n >= 1
  OBVIOUS
<1>3. \A i \in 1..(n - 1) : Tail(s)[i] = s[i + 1]
  BY <1>1, <1>2
<1>4. n >= 2 => Tail(s)[n - 1] = s[n]
  <2>1. n >= 2 => n - 1 \in 1..(n - 1) /\ (n - 1) + 1 = n
    BY <1>2
  <2> QED BY <1>3, <2>1
<1>5. n >= 3 => Tail(s)[n - 2] = s[n - 1]
  <2>1. n >= 3 => n - 2 \in 1..(n - 1) /\ (n - 2) + 1 = n - 1
    BY <1>2
  <2> QED BY <1>3, <2>1
<1>6. n = 1 => Tail(s) = <<>>
  <2>1. PICK r \in Seq(Heards) : r = Tail(s) /\ Len(r) = n - 1
    BY <1>1, <1>2
  <2>2. n = 1 => ~(Len(r) \in Nat \ {0})
    BY <2>1
  <2> QED BY <2>1, <2>2, EmptySeq
<1> QED BY <1>1, <1>2, <1>4, <1>5, <1>6, Zenon

LEMMA HearAccountKeeps == ASSUME DeskInv, HearAccount PROVE DeskInv'
<1>1. PICK s \in Seq(Heards) : /\ s = stream /\ s # <<>> /\ Head(s).kind = "account"
                               /\ stream' = Tail(s) /\ tracked' = Head(s).book
                               /\ StreamOK(s, tracked, venue)
  BY DEF HearAccount, DeskInv, DeskType
<1>2. UNCHANGED <<price, venue, orders, intent, active, memory, monitor, quiet, astray>>
  BY DEF HearAccount, atVenue, strategy
<1>3. PICK n \in Nat, r \in Seq(Heards) :
        /\ n = Len(s) /\ r = Tail(s) /\ n >= 1 /\ Len(r) = n - 1 /\ Head(s) = s[1] /\ Head(s) \in Heards
        /\ (n >= 2 => r[n - 1] = s[n]) /\ (n >= 3 => r[n - 2] = s[n - 1])
  BY <1>1, TailFrames
<1>4. Head(s).book \in Known
  BY <1>1, <1>3 DEF Heards
<1>5. s[n].kind = "trade"
  BY <1>1, <1>3 DEF StreamOK
<1>6. n # 1
  BY <1>1, <1>3, <1>5
<1>7. /\ s[n - 1].kind = "account" /\ s[n - 1].book.qty = venue.qty /\ s[n - 1].book.entry = venue.entry
  BY <1>1, <1>3, <1>6 DEF StreamOK
<1>8. StreamOK(r, Head(s).book, venue)
  <2>1. n >= 2 /\ (n - 1) - 1 = n - 2 /\ (n - 1 <= 1 => n - 1 = 1) /\ (n - 1 >= 2 => n >= 3)
    BY <1>3, <1>6
  <2>2. n - 1 = 1 => Head(s).book.qty = venue.qty /\ Head(s).book.entry = venue.entry
    BY <1>3, <1>7, Zenon
  <2>3. n - 1 >= 2 => r[(n - 1) - 1] = s[n - 1]
    BY <1>3, <2>1, Zenon
  <2>4. r[n - 1].kind = "trade"
    BY <1>3, <1>5, <2>1
  <2> QED BY <1>3, <1>7, <2>1, <2>2, <2>3, <2>4, Zenon DEF StreamOK
<1>9. r # <<>>
  BY <1>3, <1>6
<1>10. DeskType'
  BY <1>1, <1>2, <1>3, <1>4 DEF DeskInv, DeskType, MemoryShape
<1>11. StreamOK(stream, tracked, venue)'
  BY <1>1, <1>2, <1>3, <1>8, Zenon
<1>12. stream' # <<>> /\ CoolOK(monitor, quiet)'
  BY <1>1, <1>2, <1>3, <1>9 DEF DeskInv, CoolOK
<1> QED BY <1>10, <1>11, <1>12 DEF DeskInv

LEMMA FlowFilled ==
  ASSUME NEW s, FlowShape(s), NEW q \in Int
  PROVE  FlowShape(FlowFill(s, q)) /\ (q = 0 => FlowFill(s, q).since = Unset /\ FlowFill(s, q).peak = 0)
<1>1. PICK b1, b2, b3, b4, b5, b6 :
        s = [confirm |-> b1, fades |-> b2, open |-> b3, since |-> b4, peak |-> b5, cool |-> b6]
  BY DEF FlowShape
<1>2. PICK side, x, y : /\ side = SideOf(q)
                        /\ x = IF s.since = Unset THEN 0 ELSE s.since
                        /\ y = IF q # 0 /\ SideOf(q) # s.open THEN 0 ELSE s.peak
  OBVIOUS
<1>3. FlowFill(s, q) = IF q = 0 THEN [s EXCEPT !.open = side, !.since = Unset, !.peak = 0, !.fades = <<>>]
                       ELSE [s EXCEPT !.open = side, !.since = x, !.peak = y]
  BY <1>1, <1>2 DEF FlowFill
<1> QED BY <1>1, <1>3 DEF FlowShape

LEMMA HearTradeKeeps == ASSUME DeskInv, HearTrade PROVE DeskInv'
<1>1. PICK s \in Seq(Heards) : /\ s = stream /\ s # <<>> /\ Head(s).kind = "trade"
                               /\ stream' = Tail(s) /\ StreamOK(s, tracked, venue)
  BY DEF HearTrade, DeskInv, DeskType
<1>2. /\ UNCHANGED <<price, venue, orders, tracked, intent, active>>
      /\ astray' = FALSE /\ monitor' = RearmAfterFill(monitor, tracked.qty, tracked.entry)
      /\ memory' = IF active = "flow" THEN FlowFill(memory, tracked.qty) ELSE memory
      /\ quiet' = IF tracked.qty = 0 \/ Size(tracked.qty) > Size(monitor.armed)
                     \/ SideOf(tracked.qty) # SideOf(monitor.armed) THEN 0 ELSE quiet
  BY DEF HearTrade, atVenue
<1>3. PICK n \in Nat, r \in Seq(Heards) :
        /\ n = Len(s) /\ r = Tail(s) /\ n >= 1 /\ Len(r) = n - 1 /\ Head(s) = s[1]
        /\ (n >= 2 => r[n - 1] = s[n]) /\ (n >= 3 => r[n - 2] = s[n - 1])
  BY <1>1, TailFrames
<1>4. n # 2
  BY <1>1, <1>3 DEF StreamOK
<1>5. StreamOK(r, tracked, venue)
  <2>1. CASE n = 1
    <3>1. Len(r) = 0 /\ n <= 1
      BY <1>3, <2>1
    <3> QED BY <1>1, <1>3, <3>1 DEF StreamOK
  <2>2. CASE n # 1
    <3>1. /\ n >= 3 /\ (n - 1) - 1 = n - 2 /\ ~(n - 1 <= 1) /\ n >= 2 /\ n >= 1
      BY <1>3, <1>4, <2>2
    <3> QED BY <1>1, <1>3, <3>1, Zenon DEF StreamOK
  <2> QED BY <2>1, <2>2
<1>6. monitor \in Monitors /\ tracked \in Known /\ quiet \in Nat /\ MemoryShape(memory)
  BY DEF DeskInv, DeskType
<1>7. PICK q \in Int, e \in Int : q = tracked.qty /\ e = tracked.entry
  BY <1>6 DEF Known
<1>8. PICK k : k = RearmAfterFill(monitor, q, e)
  OBVIOUS
<1>9. /\ MonitorLike(monitor, k)
      /\ ~monitor.managed => /\ k.bracket = IF q = 0 THEN NoBracket ELSE Bracket(q, e)
                             /\ \/ k.cool = monitor.cool
                                \/ q = 0 \/ Size(q) > Size(monitor.armed) \/ SideOf(q) # SideOf(monitor.armed)
  BY <1>6, <1>8, RearmOf
<1>10. monitor' = k
  BY <1>2, <1>7, <1>8, Zenon
<1>11. quiet' \in Nat /\ CoolOK(k, quiet')
  <2>1. k.cool \in Nat /\ (~k.managed => ~monitor.managed)
    BY <1>9 DEF MonitorLike, Monitors
  <2>2. quiet' = 0 \/ (quiet' = quiet /\ (~monitor.managed => k.cool = monitor.cool))
    BY <1>2, <1>7, <1>9, Zenon
  <2>3. CoolOK(monitor, quiet)
    BY DEF DeskInv
  <2> QED BY <1>6, <2>1, <2>2, <2>3 DEF CoolOK
<1>12. MemoryShape(memory') /\ (active = "flow" => ForgetOK(memory', tracked))
  BY <1>2, <1>6, <1>7, FlowFilled, Zenon DEF MemoryShape, ForgetOK
<1>13. DeskType'
  BY <1>1, <1>2, <1>3, <1>9, <1>10, <1>11, <1>12 DEF DeskInv, DeskType, MonitorLike, MemoryShape
<1>14. BracketOK(monitor', tracked)
  BY <1>7, <1>9, <1>10, Zenon DEF BracketOK, MonitorLike
<1>15. StreamOK(stream, tracked, venue)' /\ BracketOK(monitor, tracked)'
       /\ (active = "flow" => ForgetOK(memory, tracked))' /\ CoolOK(monitor, quiet)'
  BY <1>1, <1>2, <1>3, <1>5, <1>10, <1>11, <1>12, <1>14, Zenon
<1> QED BY <1>13, <1>15 DEF DeskInv

-----------------------------------------------------------------------------
LEMMA InitKeeps == ASSUME InitDesk PROVE DeskInv
<1>1. /\ price \in Nat /\ active \in {"sma", "blend", "flow"} /\ active \in Names
  BY DeskSets DEF InitDesk
<1>2. Flat \in [qty : Int, entry : Int] /\ Flat.qty = 0
  BY DEF Flat
<1>3. venue = Flat /\ tracked = Seen(venue, price) /\ quiet = 0 /\ astray = FALSE
  BY DEF InitDesk
<1>4. tracked \in Known /\ tracked.qty = venue.qty /\ tracked.entry = venue.entry
  BY <1>1, <1>2, <1>3, SeenTyped
<1>5. stream \in Seq(Heards) /\ orders \in Seq(Lots) /\ intent \in Lots /\ Len(stream) = 0
  <2>1. stream = <<>> /\ orders = <<>> /\ intent = NoSignal
    BY DEF InitDesk
  <2> QED BY <2>1, EmptySeq, NoSignalTyped
<1>6. /\ monitor \in Monitors /\ monitor.bracket = NoBracket /\ monitor.cool = 0
  <2>1. PICK b \in BOOLEAN : b = OwnsRisk(active)
    BY DEF OwnsRisk
  <2>2. monitor = NewMonitor(b)
    BY <2>1 DEF InitDesk
  <2> QED BY <2>1, <2>2, NoBracketTyped DEF NewMonitor, Monitors
<1>7. MemoryShape(memory) /\ (active = "flow" => ForgetOK(memory, tracked))
  <2>1. active = "blend" => memory = NewBlend
    BY DEF InitDesk, NewMemory
  <2>2. active = "flow" => memory = NewFlow
    BY DEF InitDesk, NewMemory
  <2>3. BlendShape(NewBlend)
    BY DEF BlendShape, NewBlend
  <2>4. FlowShape(NewFlow) /\ NewFlow.since = Unset /\ NewFlow.peak = 0
    BY DEF FlowShape, NewFlow
  <2> QED BY <2>1, <2>2, <2>3, <2>4, Zenon DEF MemoryShape, ForgetOK
<1>8. DeskType
  BY <1>1, <1>2, <1>3, <1>4, <1>5, <1>6, <1>7 DEF DeskType
<1>9. StreamOK(stream, tracked, venue)
  BY <1>4, <1>5 DEF StreamOK
<1>10. CoolOK(monitor, quiet) /\ BracketOK(monitor, tracked)
  BY <1>2, <1>3, <1>4, <1>6 DEF CoolOK, BracketOK
<1> QED BY <1>7, <1>8, <1>9, <1>10 DEF DeskInv

LEMMA StepKeeps == ASSUME DeskInv, [NextDesk]_deskVars PROVE DeskInv'
<1>1. CASE NextDesk
  BY <1>1, TickKeeps, SubmitExitKeeps, HealStep, SignalsKeeps, HearAccountKeeps, HearTradeKeeps,
     ReconnectKeeps, FillKeeps, RefuseKeeps, EndKeeps, ForeignKeeps, MarketKeeps, ModeKeeps DEF NextDesk
<1>2. CASE UNCHANGED deskVars
  BY <1>2 DEF deskVars, DeskInv, DeskType, MemoryShape
<1> QED BY <1>1, <1>2

LEMMA InvHolds == SpecDesk => []DeskInv
<1>1. DeskInv /\ [NextDesk]_deskVars => DeskInv'
  BY StepKeeps
<1> QED BY InitKeeps, <1>1, PTL DEF SpecDesk

\* Once every fill has been heard, the bracket of the monitor is that of the position the book
\* holds, and none when it is flat; flow momentum forgets a position that has ended.
THEOREM MemoryFollowsHolds == SpecDesk => []MemoryFollows
<1>1. DeskInv => MemoryFollows
  <2> SUFFICES ASSUME DeskInv PROVE MemoryFollows
    OBVIOUS
  <2>1. Heard => stream = <<>>
    <3>1. PICK s \in Seq(Heards) : s = stream
      BY DEF DeskInv, DeskType
    <3>2. PICK n \in Nat : n = Len(s)
      BY <3>1
    <3>3. n >= 1 => s[n].kind = "trade" /\ n \in 1..n
      BY <3>1, <3>2 DEF DeskInv, StreamOK
    <3>4. n = 0 => s = <<>>
      BY <3>2, EmptySeq
    <3> QED BY <3>1, <3>2, <3>3, <3>4 DEF Heard
  <2> QED BY <2>1 DEF DeskInv, MemoryFollows, Guarded, FlowForgets, BracketOK, ForgetOK
<1> QED BY <1>1, InvHolds, PTL

\* The monitor asks for an exit only when its cooldown is over, or is in this very tick.
LEMMA NoSecondExit == ASSUME DeskInv, NextDesk PROVE ~SecondExit
<1>1. CASE Tick
  <2>1. PICK later : /\ later = Later(monitor) /\ MonitorLike(monitor, later)
                     /\ later.cool = CountDown(monitor.cool)
    BY LaterOf DEF DeskInv, DeskType
  <2>2. CASE phase' = "exit"
    <3>1. ~later.managed /\ later.cool = 0
      BY <1>1, <2>1, <2>2, Zenon DEF Tick, Triggered
    <3>2. monitor.cool \in Nat /\ quiet \in Nat /\ ~monitor.managed
      BY <2>1, <3>1 DEF DeskInv, DeskType, Monitors, MonitorLike
    <3>3. quiet <= monitor.cool
      BY <3>2 DEF DeskInv, CoolOK
    <3>4. monitor.cool <= 1
      BY <2>1, <3>1, <3>2 DEF CountDown
    <3> QED BY <3>2, <3>3, <3>4 DEF SecondExit
  <2> QED BY <2>2 DEF SecondExit
<1>2. CASE phase = "idle" /\ ~Tick
  <2>1. phase' = phase
    BY <1>2 DEF NextDesk, SubmitExit, Heal, Signals, HearAccount, HearTrade, Reconnect, Fill, Refuse, End,
       Foreign, MarketMoves, SetMode
  <2> QED BY <1>2, <2>1 DEF SecondExit
<1> QED BY <1>1, <1>2 DEF SecondExit

LEMMA NoEntryOnFlip == ASSUME DeskInv, NextDesk, EntryScore > 35 PROVE ~EntryOnFlip
<1>1. memory' = memory \/ Dispatch \/ active = "flow"
  BY DEF NextDesk, Tick, SubmitExit, Heal, Signals, HearAccount, HearTrade, Reconnect, Fill, Refuse, End,
     Foreign, MarketMoves, SetMode, strategy
<1>2. CASE memory' = memory
  BY <1>2 DEF EntryOnFlip
<1>3. CASE Dispatch
  BY <1>3, DispatchTyped DEF DeskInv, Remembers, EntryOnFlip
<1>4. CASE active = "flow"
  BY <1>4 DEF EntryOnFlip
<1> QED BY <1>1, <1>2, <1>3, <1>4

\* No step asks for a second exit beside a working one; and where an entry wants more than
\* what the votes of the old regime can reach under the weights of the new one, none enters
\* on the bar that turns the regime.
THEOREM NoRashOrderHolds == ASSUME EntryScore > 35 PROVE SpecDesk => NoRashOrder
<1>1. ASSUME DeskInv, [NextDesk]_deskVars PROVE [~SecondExit /\ ~EntryOnFlip]_deskVars
  <2>1. CASE NextDesk
    BY <1>1, <2>1, NoSecondExit, NoEntryOnFlip
  <2>2. CASE UNCHANGED deskVars
    BY <2>2
  <2> QED BY <1>1, <2>1, <2>2
<1>2. DeskInv /\ [NextDesk]_deskVars => [~SecondExit /\ ~EntryOnFlip]_deskVars
  BY <1>1
<1> QED BY <1>2, InvHolds, PTL DEF SpecDesk, NoRashOrder
=============================================================================
