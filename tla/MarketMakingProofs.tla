------------------------- MODULE MarketMakingProofs -------------------------
(***************************************************************************)
(* The market maker for any bounds, settings, moods of the market, lists   *)
(* of symbols and number of overlapping refreshes: the types of            *)
(* MmStrategy, HoldClock, and StreamsMatch of Universe.                    *)
(***************************************************************************)
EXTENDS MmStrategy, Universe, SequenceTheorems, TLAPS

-----------------------------------------------------------------------------
(* What the strategy's own book becomes: its types, and its clock. *)

Halts == [Side -> 0..(SideHalt + RejectHalt)]

\* The book of the strategy, field by field.
LEMMA OwnFields ==
  ASSUME NEW o
  PROVE  o \in OwnType <=>
           /\ o = [opened |-> o.opened, limit |-> o.limit, entry |-> o.entry, halt |-> o.halt,
                   vol |-> o.vol, cool |-> o.cool, last |-> o.last, adverse |-> o.adverse,
                   run |-> o.run]
           /\ o.opened \in {Unset} \union 0..MaxHold
           /\ o.limit \in {Unset} \union 0..ExitStale
           /\ o.entry \in Nat
           /\ o.halt \in Halts
           /\ o.vol \in 0..VolPause
           /\ o.cool \in 0..Cooldown
           /\ o.last \in Side \union {"none"}
           /\ o.adverse \in BOOLEAN
           /\ o.run \in [Side -> 0..SameSide]
BY DEF OwnType, Halts

LEMMA ElapseTyped ==
  ASSUME NEW o \in OwnType
  PROVE  Elapse(o) \in OwnType /\ (Elapse(o).opened = Unset <=> o.opened = Unset)
<1> USE MmAssumption
<1> SUFFICES ASSUME NEW n, n = Elapse(o)
             PROVE  n \in OwnType /\ (n.opened = Unset <=> o.opened = Unset)
  OBVIOUS
<1>0. n = [opened |-> n.opened, limit |-> n.limit, entry |-> n.entry, halt |-> n.halt,
           vol |-> n.vol, cool |-> n.cool, last |-> n.last, adverse |-> n.adverse,
           run |-> n.run]
  BY DEF Elapse, OwnType
<1>1. /\ n.opened = IF o.opened = Unset THEN Unset ELSE Least(o.opened + 1, MaxHold)
      /\ n.limit = IF o.limit = Unset THEN Unset ELSE Least(o.limit + 1, ExitStale)
      /\ n.entry = o.entry /\ n.halt = [s \in Side |-> Most(o.halt[s] - 1, 0)]
      /\ n.vol = Most(o.vol - 1, 0) /\ n.cool = Most(o.cool - 1, 0)
      /\ n.last = o.last /\ n.adverse = o.adverse /\ n.run = o.run
  BY DEF Elapse, OwnType
<1>2. n.opened \in {Unset} \union 0..MaxHold /\ (n.opened = Unset <=> o.opened = Unset)
  BY <1>1 DEF OwnType, Least, Unset
<1>3. n.limit \in {Unset} \union 0..ExitStale
  BY <1>1 DEF OwnType, Least, Unset
<1>4. n.halt \in Halts /\ n.vol \in 0..VolPause /\ n.cool \in 0..Cooldown
  BY <1>1 DEF OwnType, Most, Halts
<1>5. /\ n.entry \in Nat /\ n.last \in Side \union {"none"} /\ n.adverse \in BOOLEAN
      /\ n.run \in [Side -> 0..SameSide]
  BY <1>1 DEF OwnType
<1>6. n \in OwnType
  BY <1>0, <1>2, <1>3, <1>4, <1>5, OwnFields
<1> QED
  BY <1>2, <1>6

LEMMA UpdateHaltsTyped ==
  ASSUME NEW o \in OwnType
  PROVE  UpdateHalts(o) \in OwnType /\ UpdateHalts(o).opened = o.opened
<1> USE MmAssumption
<1>1. VolHalt(o) \in OwnType /\ VolHalt(o).opened = o.opened
  BY DEF VolHalt, OwnType
<1>2. ASSUME NEW v \in OwnType PROVE RunHalt(v) \in OwnType /\ RunHalt(v).opened = v.opened
  BY DEF RunHalt, OwnType, Most
<1> QED
  BY <1>1, <1>2 DEF UpdateHalts


\* The quotes a decision may ask for.
Quotes == [Side -> {"none", "entry", "reduce"}]

\* No decision touches the clock of the position.
LEMMA DecideTyped ==
  ASSUME NEW o \in OwnType, NEW q \in Int
  PROVE  /\ Decide(o, q).own \in OwnType /\ Decide(o, q).own.opened = o.opened
         /\ Decide(o, q).quotes \in Quotes
<1> USE MmAssumption
<1> DEFINE Fine(d, v) == d.own \in OwnType /\ d.own.opened = v.opened /\ d.quotes \in Quotes
<1>1. None \in Quotes /\ \A s \in Side : [None EXCEPT ![s] = "reduce"] \in Quotes
  BY DEF None, Quotes
<1>2. ASSUME NEW v \in OwnType PROVE Fine(Suppressed(v), v)
  BY <1>1 DEF Suppressed, Outcome
<1>3. ASSUME NEW v \in OwnType PROVE Fine(BuildQuotes(v, q), v)
  <2> DEFINE asked == [s \in Side |-> CASE s \notin QuoteSides(v, q) -> "none"
                                        [] s \in QuoteSides(v, q) /\ Sign(s) * q < 0 -> "reduce"
                                        [] OTHER -> "entry"]
  <2>1. asked \in Quotes
    BY DEF Quotes
  <2>2. BuildQuotes(v, q) = [own |-> v, quotes |-> asked, close |-> FALSE]
    BY DEF BuildQuotes, Outcome
  <2> QED
    BY <2>1, <2>2
<1>4. ASSUME NEW v \in OwnType, NEW why \in {"market", "aggressive", "inventory", "profit"}
      PROVE  Fine(BuildExit(v, q, why), v)
  <2> DEFINE timed == [v EXCEPT !.limit = IF @ = Unset THEN 0 ELSE @]
  <2>1. timed \in OwnType /\ timed.opened = v.opened
    BY DEF OwnType
  <2>2. [v EXCEPT !.limit = Unset] \in OwnType /\ [v EXCEPT !.limit = Unset].opened = v.opened
    BY DEF OwnType
  <2>3. Closing(q) \in Side
    BY DEF Closing, Side
  <2> HIDE DEF timed
  <2>4. CASE why = "market"
    <3> DEFINE w == [v EXCEPT !.limit = Unset]
    <3>1. BuildExit(v, q, why) = [own |-> w, quotes |-> None, close |-> TRUE]
      BY <2>4 DEF BuildExit, Outcome
    <3>2. w \in OwnType /\ w.opened = v.opened
      BY <2>2
    <3> HIDE DEF w
    <3> QED
      BY <3>1, <3>2, <1>1
  <2>5. CASE why \in {"aggressive", "inventory"}
    <3>1. BuildExit(v, q, why) = Suppressed(timed)
      BY <2>5 DEF BuildExit, timed
    <3> QED
      BY <3>1, <2>1, <1>2
  <2>6. CASE why = "profit"
    <3>1. BuildExit(v, q, why) = [own |-> timed, quotes |-> [None EXCEPT ![Closing(q)] = "reduce"],
                                  close |-> FALSE]
      BY <2>6 DEF BuildExit, Outcome, timed
    <3>2. [None EXCEPT ![Closing(q)] = "reduce"] \in Quotes
      BY <2>3, <1>1
    <3> QED
      BY <3>1, <3>2, <2>1
  <2> QED
    BY <2>4, <2>5, <2>6
<1>5. \A v : PlanExit(v, q) \in {"none", "market", "aggressive", "inventory", "profit"}
  BY DEF PlanExit
<1> DEFINE h == UpdateHalts(o)
           why == PlanExit(h, q)
<1>6. h \in OwnType /\ h.opened = o.opened
  BY UpdateHaltsTyped
<1>7. \/ Decide(o, q) = Suppressed(o) \/ Decide(o, q) = Suppressed(h)
      \/ why = "none" /\ Decide(o, q) = BuildQuotes(h, q)
      \/ why # "none" /\ Decide(o, q) = BuildExit(h, q, why)
  BY DEF Decide
<1> HIDE DEF h
<1> QED
  BY <1>2, <1>3, <1>4, <1>5, <1>6, <1>7

LEMMA NoteRejectTyped ==
  ASSUME NEW o \in OwnType, NEW refused
  PROVE  NoteReject(o, refused) \in OwnType /\ NoteReject(o, refused).opened = o.opened
BY MmAssumption DEF NoteReject, OwnType, Most

\* A fill sets the clock of a position that is not flat, and clears it when it makes flat.
LEMMA LevelFillTyped ==
  ASSUME NEW o \in OwnType, NEW s \in Side, NEW q \in Int, NEW hurt
  PROVE  /\ LevelFill(o, s, q, hurt) \in OwnType
         /\ LevelFill(o, s, q, hurt).opened = Unset <=> q = 0
<1> USE MmAssumption
<1>1. PICK seen :
        seen = [o EXCEPT !.last = s, !.adverse = (hurt = "scratch"),
                         !.cool = IF hurt = "none" THEN @ ELSE Cooldown,
                         !.run = [x \in Side |-> IF x = s THEN Least(@[s] + 1, SameSide) ELSE 0],
                         !.entry = Size(q)]
  OBVIOUS
<1>2. /\ seen = [opened |-> seen.opened, limit |-> seen.limit, entry |-> seen.entry,
                 halt |-> seen.halt, vol |-> seen.vol, cool |-> seen.cool, last |-> seen.last,
                 adverse |-> seen.adverse, run |-> seen.run]
      /\ seen.opened = o.opened /\ seen.limit = o.limit /\ seen.halt = o.halt /\ seen.vol = o.vol
      /\ seen.entry = Size(q) /\ seen.last = s
      /\ seen.cool = IF hurt = "none" THEN o.cool ELSE Cooldown
      /\ seen.run = [x \in Side |-> IF x = s THEN Least(o.run[s] + 1, SameSide) ELSE 0]
  BY <1>1 DEF OwnType
<1>3. seen.adverse \in BOOLEAN
  <2>1. seen.adverse = (hurt = "scratch")
    BY <1>1 DEF OwnType
  <2> QED
    BY <2>1
<1>4. seen \in OwnType
  <2>1. o.opened \in {Unset} \union 0..MaxHold /\ o.limit \in {Unset} \union 0..ExitStale
        /\ o.halt \in Halts /\ o.vol \in 0..VolPause /\ o.cool \in 0..Cooldown
        /\ o.run \in [Side -> 0..SameSide]
    BY OwnFields
  <2>2. Size(q) \in Nat
    BY DEF Size
  <2>3. seen.cool \in 0..Cooldown
    BY <1>2, <2>1
  <2>4. seen.run \in [Side -> 0..SameSide]
    BY <1>2, <2>1 DEF Least
  <2> QED
    BY <1>2, <1>3, <2>1, <2>2, <2>3, <2>4, OwnFields
<1>5. PICK flat : flat = [seen EXCEPT !.opened = Unset, !.limit = Unset,
                                      !.halt = [x \in Side |-> 0], !.run = [x \in Side |-> 0]]
  OBVIOUS
<1>6. PICK opens : opens = [seen EXCEPT !.opened = 0]
  OBVIOUS
<1>7. PICK halted : halted = [seen EXCEPT !.halt[s] = SideHalt]
  OBVIOUS
<1>8. flat \in OwnType /\ flat.opened = Unset
  <2>1. [x \in Side |-> 0] \in Halts /\ [x \in Side |-> 0] \in [Side -> 0..SameSide]
    BY DEF Halts
  <2> QED
    BY <1>4, <1>5, <2>1 DEF OwnType, Halts
<1>9. opens \in OwnType /\ opens.opened = 0
  BY <1>4, <1>6 DEF OwnType
<1>10. halted \in OwnType /\ halted.opened = seen.opened
  BY <1>4, <1>7 DEF OwnType
<1>11. \/ q = 0 /\ LevelFill(o, s, q, hurt) = flat
       \/ q # 0 /\ o.opened = Unset /\ LevelFill(o, s, q, hurt) = opens
       \/ q # 0 /\ o.opened # Unset /\ LevelFill(o, s, q, hurt) = halted
       \/ q # 0 /\ o.opened # Unset /\ LevelFill(o, s, q, hurt) = seen
  BY <1>1, <1>5, <1>6, <1>7 DEF LevelFill
<1> QED
  BY <1>2, <1>4, <1>8, <1>9, <1>10, <1>11 DEF Unset


-----------------------------------------------------------------------------
(* The inductive invariant: the types, with those of the fills on their    *)
(* way, and HoldClock itself.                                              *)

Lots == -MaxLots..MaxLots
Frames == Seq([kind : {"quote", "market"}, side : Side, qty : Lots])

MmTyped ==
  /\ market \in Moods
  /\ pos \in Lots /\ book \in Lots /\ leg \in Int
  /\ frames \in Frames /\ Len(frames) <= MaxFrames
  /\ quotes \in Quotes
  /\ own \in OwnType
  /\ foreign \in BOOLEAN

MmInv == MmTyped /\ HoldClock

\* A frame more.
LEMMA FrameTyped ==
  ASSUME NEW rest \in Frames, Len(rest) < MaxFrames,
         NEW f \in [kind : {"quote", "market"}, side : Side, qty : Lots]
  PROVE  Append(rest, f) \in Frames /\ Len(Append(rest, f)) <= MaxFrames
<1>1. /\ Append(rest, f) \in Frames /\ Len(Append(rest, f)) = Len(rest) + 1
      /\ Len(rest) \in Nat
  BY AppendProperties, LenProperties DEF Frames
<1> QED
  BY <1>1, MmAssumption

\* What the engine does with a decision on the leg q whose clock is as HoldClock says.
LEMMA ApplyKeeps ==
  ASSUME MmTyped, NEW o \in OwnType, NEW q \in Int, NEW b \in Lots,
         NEW rest \in Frames, Len(rest) <= MaxFrames,
         q # 0 => o.opened # Unset,
         q = 0 /\ o.opened # Unset => foreign,
         Apply(Decide(o, q), b, q, rest), market' = market
  PROVE  MmInv'
<1> USE MmAssumption
<1> PICK d : d = Decide(o, q)
  OBVIOUS
<1>1. d.own \in OwnType /\ d.own.opened = o.opened /\ d.quotes \in Quotes
  BY DecideTyped
<1>2. Apply(d, b, q, rest)
  OBVIOUS
<1>3. pos \in Lots /\ market \in Moods /\ quotes \in Quotes /\ foreign \in BOOLEAN
  BY DEF MmTyped
<1>4. CASE ~d.close
  <2>1. Refresh(d.own, q, d.quotes) /\ book' = b /\ pos' = pos /\ frames' = rest
    BY <1>2, <1>4 DEF Apply
  <2>2. PICK kept \in SUBSET {s \in Side : d.quotes[s] = quotes[s]} :
          LET sent == {s \in Side \ kept : d.quotes[s] # "none"}
              refused == {s \in sent : ~market.accepts}
              phantom == {s \in sent \ refused : d.quotes[s] = "reduce" /\ Sign(s) * pos >= 0}
          IN /\ quotes' = [s \in Side |-> IF s \in refused \union phantom THEN "none"
                                          ELSE d.quotes[s]]
             /\ leg' = IF phantom = {} THEN q ELSE 0
             /\ foreign' = ((foreign /\ d.own.opened # Unset) \/ (phantom # {} /\ q # 0))
             /\ own' = NoteReject(d.own, refused)
    BY <2>1 DEF Refresh
  <2>3. PICK refused, phantom :
          /\ quotes' = [s \in Side |-> IF s \in refused \union phantom THEN "none"
                                       ELSE d.quotes[s]]
          /\ leg' = IF phantom = {} THEN q ELSE 0
          /\ foreign' = ((foreign /\ d.own.opened # Unset) \/ (phantom # {} /\ q # 0))
          /\ own' = NoteReject(d.own, refused)
    BY <2>2, Zenon
  <2>4. own' \in OwnType /\ own'.opened = o.opened
    BY <2>3, <1>1, NoteRejectTyped
  <2>5. quotes' \in Quotes
    BY <2>3, <1>1 DEF Quotes
  <2>6. leg' \in Int /\ (leg' = q \/ leg' = 0)
    BY <2>3
  <2>7. foreign' \in BOOLEAN
    BY <2>3
  <2>8. MmTyped'
    BY <2>1, <2>4, <2>5, <2>6, <2>7, <1>3 DEF MmTyped
  <2>9. HoldClock'
    <3>1. leg' # 0 => own'.opened # Unset
      BY <2>4, <2>6
    <3>2. leg' = 0 /\ own'.opened # Unset => foreign'
      BY <2>3, <2>4, <1>1
    <3> QED
      BY <3>1, <3>2 DEF HoldClock
  <2> QED
    BY <2>8, <2>9 DEF MmInv
<1>5. CASE d.close /\ b # 0
  <2>1. quotes' = None /\ own' = d.own /\ CloseAtMarket(d.own, b, q, rest)
    BY <1>2, <1>5 DEF Apply
  <2>2. /\ pos' \in Lots /\ frames' \in Frames /\ Len(frames') <= MaxFrames /\ book' \in Lots
        /\ leg' \in Int /\ (leg' = q \/ leg' = 0)
    <3>1. CASE market.accepts /\ Same(b, pos)
      <4> PICK lots : lots = Least(Size(b), Size(pos))
        OBVIOUS
      <4> PICK closed : closed = pos - (IF b > 0 THEN lots ELSE -lots)
        OBVIOUS
      <4>1. closed \in Lots
        BY <3>1, <1>3 DEF Same, Least, Size, Lots
      <4>2. /\ Len(rest) < MaxFrames /\ pos' = closed /\ book' = b /\ leg' = q
            /\ frames' = Append(rest, [kind |-> "market", side |-> Closing(b), qty |-> closed])
        BY <2>1, <3>1 DEF CloseAtMarket
      <4>3. [kind |-> "market", side |-> Closing(b), qty |-> closed]
              \in [kind : {"quote", "market"}, side : Side, qty : Lots]
        BY <4>1 DEF Closing, Side
      <4> QED
        BY <4>1, <4>2, <4>3, FrameTyped
    <3>2. CASE ~(market.accepts /\ Same(b, pos))
      BY <2>1, <3>2, <1>3 DEF CloseAtMarket
    <3> QED
      BY <3>1, <3>2
  <2>3. \/ foreign' = TRUE
        \/ /\ foreign' = ((foreign /\ d.own.opened # Unset) \/ (pos = 0 /\ q # 0))
           /\ leg' = IF pos = 0 THEN 0 ELSE q
        \/ foreign' = (foreign /\ d.own.opened # Unset) /\ leg' = q
    BY <2>1, Zenon DEF CloseAtMarket
  <2>4. foreign' \in BOOLEAN
    BY <2>3
  <2>5. MmTyped'
    BY <2>1, <2>2, <2>4, <1>1, <1>3 DEF MmTyped, None, Quotes
  <2>6. HoldClock'
    <3>1. leg' # 0 => own'.opened # Unset
      BY <2>1, <2>2, <1>1
    <3>2. leg' = 0 /\ own'.opened # Unset => foreign'
      BY <2>1, <2>3, <1>1
    <3> QED
      BY <3>1, <3>2 DEF HoldClock
  <2> QED
    BY <2>5, <2>6 DEF MmInv
<1>6. CASE d.close /\ b = 0
  <2>1. /\ own' = d.own /\ book' = b /\ leg' = q /\ pos' = pos /\ frames' = rest
        /\ foreign' = (foreign /\ d.own.opened # Unset) /\ quotes' = quotes
    BY <1>2, <1>6 DEF Apply
  <2>2. foreign' \in BOOLEAN
    BY <2>1
  <2>3. MmTyped'
    BY <2>1, <2>2, <1>1, <1>3 DEF MmTyped
  <2>4. HoldClock'
    BY <2>1, <1>1 DEF HoldClock
  <2> QED
    BY <2>3, <2>4 DEF MmInv
<1> QED
  BY <1>4, <1>5, <1>6

LEMMA MmKept == MmInv /\ [Next]_vars => MmInv'
<1> SUFFICES ASSUME MmInv, [Next]_vars PROVE MmInv'
  OBVIOUS
<1> USE MmAssumption
<1>0. /\ market \in Moods /\ pos \in Lots /\ book \in Lots /\ leg \in Int
      /\ frames \in Frames /\ Len(frames) <= MaxFrames /\ quotes \in Quotes /\ own \in OwnType
      /\ foreign \in BOOLEAN /\ MmTyped
      /\ (leg # 0 => own.opened # Unset) /\ (leg = 0 /\ own.opened # Unset => foreign)
  BY DEF MmInv, MmTyped, HoldClock
<1>1. CASE Tick
  <2>1. Apply(Decide(Elapse(own), leg), book, leg, frames) /\ market' = market
    BY <1>1, Zenon DEF Tick
  <2>2. Elapse(own) \in OwnType /\ (Elapse(own).opened = Unset <=> own.opened = Unset)
    BY <1>0, ElapseTyped
  <2> QED
    BY <1>0, <2>1, <2>2, ApplyKeeps
<1>2. ASSUME NEW s \in Side, VenueFills(s) PROVE MmInv'
  <2> USE <1>2 DEF VenueFills
  <2>1. pos' \in Lots
    <3>1. PICK n \in Int : n = pos + Sign(s)
      BY <1>0 DEF Sign, Lots
    <3>2. pos' = n /\ Size(n) <= MaxLots
      BY <3>1
    <3> QED
      BY <3>1, <3>2 DEF Size, Lots
  <2>2. frames' \in Frames /\ Len(frames') <= MaxFrames
    <3>1. [kind |-> "quote", side |-> s, qty |-> pos']
            \in [kind : {"quote", "market"}, side : Side, qty : Lots]
      BY <2>1
    <3> QED
      BY <1>0, <3>1, FrameTyped
  <2>3. quotes' \in Quotes
    BY <1>0 DEF Quotes
  <2> QED
    BY <1>0, <2>1, <2>2, <2>3 DEF MmInv, MmTyped, HoldClock
<1>3. ASSUME NEW s \in Side, VenueDrops(s) PROVE MmInv'
  <2>1. quotes' \in Quotes
    BY <1>0, <1>3 DEF VenueDrops, Quotes
  <2> QED
    BY <1>0, <1>3, <2>1 DEF VenueDrops, MmInv, MmTyped, HoldClock
<1>4. CASE HearFill
  <2> PICK f : f = Head(frames)
    OBVIOUS
  <2>1. /\ f \in [kind : {"quote", "market"}, side : Side, qty : Lots]
        /\ Tail(frames) \in Frames /\ Len(Tail(frames)) <= MaxFrames
    <3>1. /\ Head(frames) \in [kind : {"quote", "market"}, side : Side, qty : Lots]
          /\ Tail(frames) \in Frames /\ Len(Tail(frames)) = Len(frames) - 1
          /\ Len(frames) \in Nat
      BY <1>0, <1>4, HeadTailProperties, LenProperties DEF HearFill, Frames
    <3> QED
      BY <3>1, <1>0
  <2>2. CASE f.kind = "market"
    <3>1. /\ book' = f.qty /\ frames' = Tail(frames) /\ market' = market
          /\ pos' = pos /\ leg' = leg /\ quotes' = quotes /\ own' = own /\ foreign' = foreign
      BY <1>4, <2>2 DEF HearFill
    <3> QED
      BY <1>0, <2>1, <3>1 DEF MmInv, MmTyped, HoldClock
  <2>3. CASE f.kind = "quote"
    <3> PICK q : q = leg + Sign(f.side)
      OBVIOUS
    <3>1. q \in Int /\ f.side \in Side /\ f.qty \in Lots
      <4>1. Sign(f.side) \in Int
        BY DEF Sign
      <4> QED
        BY <1>0, <2>1, <4>1
    <3>2. PICK hurt \in {"none", "some", "scratch"} :
            Apply(Decide(LevelFill(own, f.side, q, hurt), q), f.qty, q, Tail(frames))
      BY <1>4, <2>3, Zenon DEF HearFill
    <3>3. market' = market
      BY <1>4 DEF HearFill
    <3>4. /\ LevelFill(own, f.side, q, hurt) \in OwnType
          /\ LevelFill(own, f.side, q, hurt).opened = Unset <=> q = 0
      BY <1>0, <3>1, LevelFillTyped
    <3> QED
      BY <1>0, <2>1, <3>1, <3>2, <3>3, <3>4, ApplyKeeps
  <2> QED
    BY <2>1, <2>2, <2>3
<1>5. CASE Reconcile
  <2> USE <1>5 DEF Reconcile
  <2>1. /\ leg' \in Int /\ (leg' # 0 => leg # 0)
        /\ foreign' = (foreign \/ (leg # 0 /\ leg' = 0))
    BY <1>0 DEF HealedLeg, Same, Lots
  <2>2. foreign' \in BOOLEAN
    BY <2>1
  <2>3. MmTyped'
    BY <1>0, <2>1, <2>2 DEF MmTyped
  <2>4. HoldClock'
    BY <1>0, <2>1 DEF HoldClock
  <2> QED
    BY <2>3, <2>4 DEF MmInv
<1>6. CASE MarketMoves
  BY <1>0, <1>6 DEF MarketMoves, MmInv, MmTyped, HoldClock
<1>7. CASE UNCHANGED vars
  BY <1>0, <1>7 DEF vars, MmInv, MmTyped, HoldClock
<1> QED
  BY <1>1, <1>2, <1>3, <1>4, <1>5, <1>6, <1>7 DEF Next

LEMMA MmInit == Init => MmInv
<1> SUFFICES ASSUME Init PROVE MmInv
  OBVIOUS
<1> USE MmAssumption DEF Init
<1>1. NewOwn \in OwnType /\ NewOwn.opened = Unset
  BY DEF NewOwn, OwnType
<1>2. frames \in Frames /\ Len(frames) <= MaxFrames
  BY DEF Frames
<1>3. quotes \in Quotes
  BY DEF None, Quotes
<1>4. foreign \in BOOLEAN
  OBVIOUS
<1>5. market \in Moods /\ pos \in Lots /\ book \in Lots /\ leg \in Int
  BY DEF Lots
<1> QED
  BY <1>1, <1>2, <1>3, <1>4, <1>5 DEF MmInv, MmTyped, HoldClock

LEMMA MmAlways == Spec => []MmInv
BY MmInit, MmKept, PTL DEF Spec


\* The market maker's view of one symbol keeps its types: its book of its own fills, whatever
\* the moods of the market, and the positions of the venue and of the tracker within the bound.
THEOREM MmTypeCorrect == Spec => []TypeOK
<1>1. MmInv => TypeOK
  BY DEF MmInv, MmTyped, TypeOK, Lots, Quotes
<1> QED
  BY <1>1, MmAlways, PTL

\* The clock of a position runs as long as the strategy believes it has one: no exit by time
\* can be missed for want of a clock (_on_fill(), on_level_fill()).
THEOREM ClockHeld == Spec => []HoldClock
<1>1. MmInv => HoldClock
  BY DEF MmInv
<1> QED
  BY <1>1, MmAlways, PTL

-----------------------------------------------------------------------------
(* The streams of Universe.  Several refreshes may wait in start() at once; *)
(* the last of them is for the symbols the engine follows, and the waiters  *)
(* end in their order.  What the symbols are does not matter.               *)

\* The calls of start() that wait, as a sequence of some values.
Queued == \E S : starts \in Seq(S)

LastStart == starts # <<>> => starts[Len(starts)].symbols = followed

StreamsInv == Queued /\ LastStart /\ StreamsMatch

\* The symbols change only with a start() that is for them.
LEMMA BegunLast ==
  ASSUME Queued, NEW r, NEW symbols, BeginStart(r, symbols), followed' = symbols
  PROVE  StreamsInv'
<1>1. PICK S : starts \in Seq(S)
  BY DEF Queued
<1> PICK e : e = [by |-> r, symbols |-> symbols]
  OBVIOUS
<1>2. starts' = Append(starts, e)
  BY DEF BeginStart
<1> PICK T : T = S \union {e}
  OBVIOUS
<1>3. starts \in Seq(T) /\ e \in T
  BY <1>1, SeqMonotonic
<1>4. /\ starts' \in Seq(T) /\ starts' # <<>>
      /\ Len(starts') = Len(starts) + 1 /\ starts'[Len(starts) + 1] = e
  BY <1>2, <1>3, AppendProperties
<1>5. starts'[Len(starts')].symbols = symbols
  BY <1>4
<1> QED
  BY <1>4, <1>5 DEF StreamsInv, Queued, LastStart, StreamsMatch

LEMMA RefollowKeeps ==
  ASSUME StreamsInv, NEW r, NEW how, NEW of, Refollow(r, how, of)
  PROVE  StreamsInv'
<1>1. PICK wanted : wanted = Resolved(how, of, held)
  OBVIOUS
<1>2. CASE followed' = wanted /\ BeginStart(r, wanted)
  BY <1>2, BegunLast DEF StreamsInv
<1>3. CASE followed' = followed /\ starts' = starts /\ streams' = streams
  BY <1>3 DEF StreamsInv, Queued, LastStart, StreamsMatch
<1> QED
  BY <1>1, <1>2, <1>3 DEF Refollow

LEMMA StreamsKept == StreamsInv /\ [UniverseNext]_universeVars => StreamsInv'
<1> SUFFICES ASSUME StreamsInv, [UniverseNext]_universeVars PROVE StreamsInv'
  OBVIOUS
<1>1. CASE EndStart
  <2>1. PICK S : starts \in Seq(S)
    BY DEF StreamsInv, Queued
  <2>2. /\ starts # <<>> /\ starts' = Tail(starts) /\ followed' = followed
        /\ streams'.listed = Head(starts).symbols
    BY <1>1 DEF EndStart
  <2>3. /\ Tail(starts) \in Seq(S) /\ Len(Tail(starts)) = Len(starts) - 1 /\ Len(starts) \in Nat
        /\ \A i \in 1 .. Len(Tail(starts)) : Tail(starts)[i] = starts[i + 1]
        /\ Len(starts) > 0
    BY <2>1, <2>2, HeadTailProperties, LenProperties, EmptySeq
  <2>4. starts[Len(starts)].symbols = followed
    BY <2>2 DEF StreamsInv, LastStart
  <2>5. CASE Len(starts) = 1
    <3>1. starts' = <<>>
      BY <2>2, <2>3, <2>5, EmptySeq
    <3>2. Head(starts) = starts[Len(starts)]
      BY <2>1, <2>2, <2>5
    <3> QED
      BY <2>2, <2>3, <2>4, <3>1, <3>2 DEF StreamsInv, Queued, LastStart, StreamsMatch
  <2>6. CASE Len(starts) > 1
    <3>1. Len(starts') = Len(starts) - 1 /\ Len(starts') \in 1 .. Len(Tail(starts))
      BY <2>2, <2>3, <2>6
    <3>2. starts'[Len(starts')] = starts[Len(starts') + 1] /\ Len(starts') + 1 = Len(starts)
      BY <2>2, <2>3, <3>1
    <3>3. starts' # <<>>
      BY <2>3, <3>1, EmptySeq
    <3> QED
      BY <2>2, <2>3, <2>4, <3>2, <3>3 DEF StreamsInv, Queued, LastStart, StreamsMatch
  <2> QED
    BY <2>3, <2>5, <2>6
<1>2. ASSUME NEW r \in Refresher, EndScan(r) PROVE StreamsInv'
  <2>1. Refollow(r, mode, lists')
    BY <1>2 DEF EndScan
  <2> QED
    BY <2>1, RefollowKeeps
<1>3. ASSUME NEW how \in Mode, Swap(how) PROVE StreamsInv'
  <2>1. Refollow("operator", how, lists)
    BY <1>3 DEF Swap
  <2> QED
    BY <2>1, RefollowKeeps
<1>4. CASE EndPatch
  <2>1. CASE Refollow("operator", mode, lists')
    BY <2>1, RefollowKeeps
  <2>2. CASE followed' = followed /\ starts' = starts /\ streams' = streams
    BY <2>2 DEF StreamsInv, Queued, LastStart, StreamsMatch
  <2> QED
    BY <1>4, <2>1, <2>2 DEF EndPatch
<1>5. CASE followed' = followed /\ starts' = starts /\ streams' = streams
  BY <1>5 DEF StreamsInv, Queued, LastStart, StreamsMatch
<1>6. ASSUME NEW r \in Refresher, EndPrices(r) \/ FailScan(r) PROVE StreamsInv'
  BY <1>5, <1>6 DEF EndPrices, FailScan
<1>7. CASE LoopWakes \/ ClockChecks \/ Patch \/ PauseOrResume \/ TimePasses
  BY <1>5, <1>7 DEF LoopWakes, ClockChecks, Patch, PauseOrResume, TimePasses
<1>8. ASSUME NEW s \in SymbolsListed, PositionOpens(s) \/ PositionEnds(s) PROVE StreamsInv'
  BY <1>5, <1>8 DEF PositionOpens, PositionEnds
<1>9. CASE UNCHANGED universeVars
  BY <1>5, <1>9 DEF universeVars
<1> QED
  BY <1>1, <1>2, <1>3, <1>4, <1>6, <1>7, <1>8, <1>9 DEF UniverseNext

\* Once no start() is under way, the listed shards carry exactly the symbols the engine
\* follows, for any lists, any markets and any number of refreshes that overlap
\* (refresh_market_universe(), MarketConnection.start()).
THEOREM StreamsFollow == UniverseSpec => []StreamsMatch
<1>1. UniverseInit => StreamsInv
  <2> SUFFICES ASSUME UniverseInit PROVE StreamsInv
    OBVIOUS
  <2>1. starts = <<>> /\ streams.listed = followed
    BY DEF UniverseInit
  <2>2. starts \in Seq({})
    BY <2>1, EmptySeq
  <2> QED
    BY <2>1, <2>2 DEF StreamsInv, Queued, LastStart, StreamsMatch
<1>2. StreamsInv /\ [UniverseNext]_universeVars => StreamsInv'
  BY StreamsKept
<1>3. StreamsInv => StreamsMatch
  BY DEF StreamsInv
<1> QED
  BY <1>1, <1>2, <1>3, PTL DEF UniverseSpec

=============================================================================
