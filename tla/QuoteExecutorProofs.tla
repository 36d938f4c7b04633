------------------------ MODULE QuoteExecutorProofs ------------------------
(***************************************************************************)
(* Theorems about the market maker's quotes.                               *)
(***************************************************************************)
EXTENDS QuoteExecutor, SequenceTheorems, FiniteSetTheorems, WellFoundedInduction, TLAPS

-----------------------------------------------------------------------------
(* Sequences. *)

LEMMA Least ==
  ASSUME NEW T, T \subseteq Nat, T # {}
  PROVE  \E m \in T : \A n \in T : m <= n
<1> DEFINE Below == {1..n : n \in T}
<1>1. Below \subseteq FiniteSubsetsOf(Nat) /\ Below # {}
  <2>1. \A n \in Nat : IsFiniteSet(1..n) /\ 1..n \in SUBSET Nat
    BY FS_Interval
  <2> QED BY <2>1 DEF FiniteSubsetsOf
<1>2. \E x \in Below : \A y \in Below : <<y, x>> \notin StrictSubsetOrdering(Nat)
  <2> HIDE DEF Below
  <2> QED BY <1>1, FS_StrictSubsetOrderingWellFounded, WFMin
<1>3. PICK m \in T : \A n \in T : <<1..n, 1..m>> \notin StrictSubsetOrdering(Nat)
  BY <1>2
<1>4. ASSUME NEW n \in T, n < m
      PROVE  <<1..n, 1..m>> \in StrictSubsetOrdering(Nat)
  <2>1. n \in Nat /\ m \in Nat
    OBVIOUS
  <2>2. m \in 1..m /\ m \notin 1..n
    BY <1>4, <2>1
  <2>3. 1..n \subseteq 1..m /\ 1..m \subseteq Nat /\ 1..n # 1..m
    BY <1>4, <2>1, <2>2
  <2> QED BY <2>3 DEF StrictSubsetOrdering
<1>5. \A n \in T : m <= n
  <2>1. \A n \in T : ~(n < m)
    BY <1>3, <1>4
  <2> QED BY <2>1
<1> QED
  BY <1>5

\* What Only builds, up to n elements of L, from what it built before.
Upto(L, S, n, f) ==
  [k \in 0..n |-> IF k = 0 THEN <<>>
                  ELSE IF L[k] \in S THEN Append(f[k - 1], L[k]) ELSE f[k - 1]]

LEMMA UptoExists ==
  ASSUME NEW L, NEW S, NEW N \in Nat
  PROVE  \E f : f = Upto(L, S, N, f)
<1> DEFINE Bad == {n \in Nat : ~\E f : f = Upto(L, S, n, f)}
<1>1. SUFFICES ASSUME Bad # {} PROVE FALSE
  OBVIOUS
<1>2. PICK m \in Bad : \A n \in Bad : m <= n
  <2>1. Bad \subseteq Nat
    OBVIOUS
  <2> HIDE DEF Bad
  <2> QED BY <1>1, <2>1, Least
<1>3. m # 0
  <2>1. [j \in 0..0 |-> <<>>] = Upto(L, S, 0, [j \in 0..0 |-> <<>>])
    BY DEF Upto
  <2> QED BY <2>1
<1>4. PICK f : f = Upto(L, S, m - 1, f)
  <2>1. m - 1 \in Nat /\ m - 1 \notin Bad
    <3> HIDE DEF Bad
    <3>1. m \in Nat
      BY <1>2 DEF Bad
    <3> QED BY <1>2, <1>3, <3>1
  <2> QED BY <2>1
<1>5. PICK g : g = [k \in 0..m |-> IF k # m THEN f[k]
                     ELSE IF L[m] \in S THEN Append(f[m - 1], L[m]) ELSE f[m - 1]]
  OBVIOUS
<1>6. g = Upto(L, S, m, g)
  <2>1. ASSUME NEW k \in 0..m
        PROVE  g[k] = IF k = 0 THEN <<>>
                      ELSE IF L[k] \in S THEN Append(g[k - 1], L[k]) ELSE g[k - 1]
    <3>1. CASE k = m
      BY <1>3, <1>5, <3>1
    <3>2. CASE k # m
      <4>1. g[k] = f[k] /\ k \in 0..m - 1 /\ (k # 0 => g[k - 1] = f[k - 1])
        BY <1>5, <3>2
      <4> QED BY <4>1, <1>4 DEF Upto
    <3> QED BY <3>1, <3>2
  <2> QED BY <1>5, <2>1 DEF Upto
<1> QED
  BY <1>6

LEMMA OnlyUpto ==
  ASSUME NEW E, NEW L \in Seq(E), NEW S
  PROVE  \E f : /\ Only(L, S) = f[Len(L)]
                /\ f[0] = <<>>
                /\ \A k \in 1..Len(L) :
                     f[k] = IF L[k] \in S THEN Append(f[k - 1], L[k]) ELSE f[k - 1]
<1>1. Only(L, S) = (CHOOSE f : f = Upto(L, S, Len(L), f))[Len(L)]
  BY DEF Only, Upto
<1>2. PICK f : f = Upto(L, S, Len(L), f) /\ Only(L, S) = f[Len(L)]
  <2> DEFINE P(f) == f = Upto(L, S, Len(L), f)
  <2>1. Len(L) \in Nat
    OBVIOUS
  <2>2. \E f : P(f)
    BY <2>1, UptoExists
  <2>3. Only(L, S) = (CHOOSE f : P(f))[Len(L)]
    BY <1>1
  <2>4. \E f : P(f) /\ Only(L, S) = f[Len(L)]
    <3> HIDE DEF P
    <3> QED BY <2>2, <2>3
  <2> QED BY <2>4
<1>3. f = [k \in 0..Len(L) |-> IF k = 0 THEN <<>>
             ELSE IF L[k] \in S THEN Append(f[k - 1], L[k]) ELSE f[k - 1]]
  BY <1>2 DEF Upto
<1>4. Len(L) \in Nat
  OBVIOUS
<1>5. f[0] = <<>>
  BY <1>3, <1>4
<1>6. \A k \in 1..Len(L) : f[k] = IF L[k] \in S THEN Append(f[k - 1], L[k]) ELSE f[k - 1]
  <2>1. PICK h : h = f
    OBVIOUS
  <2>2. f = [k \in 0..Len(L) |-> IF k = 0 THEN <<>>
               ELSE IF L[k] \in S THEN Append(h[k - 1], L[k]) ELSE h[k - 1]]
    BY <1>3, <2>1
  <2>3. \A k \in 1..Len(L) : f[k] = IF L[k] \in S THEN Append(h[k - 1], L[k]) ELSE h[k - 1]
    BY <1>4, <2>2
  <2> QED BY <2>1, <2>3
<1>7. Only(L, S) = f[Len(L)]
  BY <1>2
<1> QED
  BY <1>5, <1>6, <1>7, Zenon

LEMMA ToSetAppend ==
  ASSUME NEW E, NEW L \in Seq(E), NEW e \in E
  PROVE  ToSet(Append(L, e)) = ToSet(L) \cup {e}
<1>1. DOMAIN L = 1..Len(L) /\ DOMAIN Append(L, e) = 1..Len(L) + 1 /\ Len(L) \in Nat
  OBVIOUS
<1>2. Append(L, e)[Len(L) + 1] = e /\ \A i \in 1..Len(L) : Append(L, e)[i] = L[i]
  OBVIOUS
<1> QED
  BY <1>1, <1>2 DEF ToSet

\* Only keeps the elements of L that are in S.
LEMMA OnlyKeeps ==
  ASSUME NEW E, NEW L \in Seq(E), NEW S
  PROVE  /\ Only(L, S) \in Seq(E)
         /\ ToSet(Only(L, S)) = ToSet(L) \cap S
         /\ Len(Only(L, S)) <= Len(L)
<1>1. Len(L) \in Nat
  OBVIOUS
<1>2. PICK f : /\ Only(L, S) = f[Len(L)]
               /\ f[0] = <<>>
               /\ \A k \in 1..Len(L) :
                    f[k] = IF L[k] \in S THEN Append(f[k - 1], L[k]) ELSE f[k - 1]
  BY OnlyUpto
<1> DEFINE Right(n) == /\ f[n] \in Seq(E) /\ Len(f[n]) <= n
                       /\ ToSet(f[n]) = {L[j] : j \in 1..n} \cap S
<1> DEFINE Bad == {n \in 0..Len(L) : ~Right(n)}
<1>3. Bad = {}
  <2>1. SUFFICES ASSUME Bad # {} PROVE FALSE
    OBVIOUS
  <2>2. PICK m \in Bad : \A n \in Bad : m <= n
    <3>1. Bad \subseteq Nat
      BY <1>1
    <3> HIDE DEF Bad
    <3> QED BY <2>1, <3>1, Least
  <2>3. m # 0
    <3>1. ToSet(<<>>) = {} /\ {L[j] : j \in 1..0} = {} /\ <<>> \in Seq(E) /\ Len(<<>>) = 0
      BY DEF ToSet
    <3>2. Right(0)
      BY <1>2, <3>1
    <3> HIDE DEF Right
    <3> QED BY <3>2
  <2>4. Right(m - 1) /\ m - 1 \in Nat /\ m \in 1..Len(L)
    <3> HIDE DEF Right
    <3>1. m \in 0..Len(L) /\ m - 1 \notin Bad
      BY <2>2, <1>1
    <3> QED BY <3>1, <2>3, <1>1
  <2>5. L[m] \in E
    BY <2>4, ElementOfSeq
  <2>6. f[m] = IF L[m] \in S THEN Append(f[m - 1], L[m]) ELSE f[m - 1]
    <3> HIDE DEF Right
    <3> QED BY <1>2, <2>4
  <2>7. {L[j] : j \in 1..m} = {L[j] : j \in 1..m - 1} \cup {L[m]}
    BY <2>4
  <2>8. Right(m)
    <3>1. CASE L[m] \in S
      <4>1. f[m] = Append(f[m - 1], L[m])
        BY <2>6, <3>1
      <4>2. ToSet(f[m]) = ToSet(f[m - 1]) \cup {L[m]}
        BY <2>4, <2>5, <4>1, ToSetAppend
      <4>3. ToSet(f[m]) = {L[j] : j \in 1..m} \cap S
        BY <4>2, <2>4, <2>7, <3>1
      <4>4. f[m] \in Seq(E) /\ Len(f[m]) <= m
        BY <4>1, <2>4, <2>5, AppendProperties
      <4> QED BY <4>3, <4>4
    <3>2. CASE L[m] \notin S
      <4>1. f[m] = f[m - 1]
        BY <2>6, <3>2
      <4>2. {L[j] : j \in 1..m} \cap S = {L[j] : j \in 1..m - 1} \cap S
        BY <2>7, <3>2
      <4>3. Len(f[m - 1]) <= m
        BY <2>4
      <4> QED BY <4>1, <4>2, <4>3, <2>4
    <3> QED BY <3>1, <3>2
  <2> HIDE DEF Right
  <2> QED BY <2>8
<1>4. Right(Len(L))
  <2> HIDE DEF Right
  <2> QED BY <1>1, <1>3
<1>5. ToSet(L) = {L[j] : j \in 1..Len(L)}
  BY DEF ToSet
<1> QED
  BY <1>2, <1>4, <1>5

LEMMA MinIn ==
  ASSUME NEW T, T \subseteq Nat, T # {}
  PROVE  Min(T) \in T
BY Least DEF Min

-----------------------------------------------------------------------------
(* Types.  A task is right when what its next step reads is there. *)

Refreshing == {"sync", "sweep", "trim", "decide", "clear", "extras", "shed", "level",
               "remove", "drop", "place", "post"}
Single == {"trim", "decide", "clear"}
Laddering == {"extras", "shed", "level", "remove", "drop"}
Moment == {"idle", "filled", "evict", "cancel", "mass", "massed"} \cup Refreshing

OrderType == [at : {"none", "sent", "refused", "open", "filled", "over"},
              om : {"unknown", "working", "done"}, side : Side, px : 0..MaxPrice, news : BOOLEAN]
TaskType ==
  [pc : Moment, on : Session \cup {0}, side : Side, want : Wishes, take : BOOLEAN,
   own : Seq(Level), mine : BOOLEAN, i : Nat \ {0}, todo : Seq(Level),
   plan : Seq([id : Quotes \cup {0}, idx : 0..LadderLevels - 1]), px : 0..MaxPrice,
   then : {"", "evict"} \cup (Refreshing \ {"post"}), id : Quotes \cup {0}]

\* Where a task is, or will be once its cancel has returned.
Spot(k) == IF k.pc = "cancel" THEN k.then ELSE k.pc

OnLadder(mode, k) == Spot(k) \in {"place", "post"} /\ mode \in Layered /\ ~k.take

TaskRight(mode, k) ==
  /\ k \in TaskType
  /\ (k.pc = "cancel") = (k.then # "")
  /\ k.pc \in {"cancel", "post"} => k.id \in Quotes
  /\ Spot(k) \in Refreshing => k.on # 0
  /\ Spot(k) = "sweep" => k.want[k.side] = 0 \/ k.take
  /\ Spot(k) = "shed" => k.todo # <<>>
  /\ Spot(k) \in Single => mode \notin Layered
  /\ Spot(k) \in Laddering => ~k.take
  /\ Spot(k) \in Laddering \/ OnLadder(mode, k) => Len(k.plan) = LadderLevels
  /\ Spot(k) \in {"remove", "drop"} \/ OnLadder(mode, k) => k.i <= LadderLevels

SessionsType == sessions \in [Session -> [Side -> Seq(Level)]]
TasksRight(mode) ==
  /\ DOMAIN task = Task
  /\ \A t \in Task : TaskRight(mode, task[t])
  /\ task["operator"].on = 0

Typed ==
  /\ status \in {"running", "paused"}
  /\ setup \in Setups
  /\ order \in [Quotes -> OrderType]
  /\ cur \in Session \cup {0}
  /\ SessionsType
  /\ TasksRight(setup.mode)
  /\ withdrawn \in BOOLEAN
  /\ races \subseteq {"refresh", "control", "frame", "fault"}

LEMMA Prices == MaxPrice \in Nat /\ 0 \in 0..MaxPrice
<1>1. MaxPrice \in Nat
  BY QuotesAssumption
<1> QED
  BY <1>1

LEMMA IdleRight == \A mode : TaskRight(mode, IdleTask) /\ IdleTask.on = 0
<1>1. IdleTask \in TaskType
  <2>1. <<>> \in Seq(Level) /\ <<>> \in Seq([id : Quotes \cup {0}, idx : 0..LadderLevels - 1])
    OBVIOUS
  <2>2. [s \in Side |-> 0] \in Wishes
    BY QuotesAssumption DEF Wishes
  <2>3. 0 \in 0..MaxPrice /\ "bid" \in Side
    BY QuotesAssumption DEF Side
  <2> QED BY <2>1, <2>2, <2>3 DEF IdleTask, TaskType, Moment
<1> QED
  BY <1>1 DEF TaskRight, IdleTask, Spot, Refreshing, Single, Laddering, OnLadder

LEMMA InitTyped == Init => Typed
<1> SUFFICES ASSUME Init PROVE Typed
  OBVIOUS
<1>1. NoOrder \in OrderType
  BY QuotesAssumption DEF NoOrder, OrderType, Side
<1>2. SessionsType
  BY DEF Init, SessionsType, Empty
<1>3. TasksRight(setup.mode)
  BY IdleRight DEF Init, TasksRight, Task
<1> QED
  BY <1>1, <1>2, <1>3 DEF Init, Typed, Session

LEMMA LevelsType ==
  ASSUME Typed, NEW t \in Task, task[t].on # 0
  PROVE  Levels(t) \in Seq(Level)
<1>1. task[t] \in TaskType
  BY DEF Typed, TasksRight, TaskRight
<1>2. task[t].on \in Session /\ task[t].side \in Side /\ task[t].own \in Seq(Level)
  BY <1>1 DEF TaskType
<1> QED
  BY <1>2 DEF Levels, Typed, SessionsType

\* A task may cancel an order and go on as r says.
LEMMA CancelThenRight ==
  ASSUME NEW mode, NEW t, NEW r, TaskRight(mode, r), NEW o \in Quotes,
         r.pc \in {"evict"} \cup (Refreshing \ {"post"})
  PROVE  TaskRight(mode, CancelThen(t, o, r)) /\ CancelThen(t, o, r).on = r.on
<1>1. CASE order[o].om # "working"
  BY <1>1 DEF CancelThen
<1>2. CASE order[o].om = "working"
  <2>1. CancelThen(t, o, r) = [r EXCEPT !.pc = "cancel", !.id = o, !.then = r.pc]
    BY <1>2 DEF CancelThen
  <2>2. r \in TaskType
    BY DEF TaskRight
  <2>3. PICK k : k = [r EXCEPT !.pc = "cancel", !.id = o, !.then = r.pc]
    OBVIOUS
  <2>4. k \in TaskType /\ k.pc = "cancel" /\ k.then = r.pc /\ k.id = o
    BY <2>2, <2>3 DEF TaskType, Moment
  <2>5. k.on = r.on /\ k.want = r.want /\ k.side = r.side /\ k.take = r.take
        /\ k.todo = r.todo /\ k.plan = r.plan /\ k.i = r.i
    BY <2>2, <2>3 DEF TaskType
  <2>6. Spot(k) = r.pc /\ Spot(r) = r.pc
    BY <2>4 DEF Spot, Refreshing
  <2>7. TaskRight(mode, k)
    BY <2>4, <2>5, <2>6 DEF TaskRight, OnLadder, Refreshing
  <2> QED BY <2>1, <2>3, <2>5, <2>7
<1> QED
  BY <1>1, <1>2

LEMMA BecomesRight ==
  ASSUME NEW mode, TasksRight(mode), NEW t \in Task, NEW r, TaskRight(mode, r),
         t = "operator" => r.on = 0, Becomes(t, r)
  PROVE  TasksRight(mode)'
BY DEF TasksRight, Becomes

LEMMA RewriteRight ==
  ASSUME NEW mode, TasksRight(mode), SessionsType, NEW t \in Task, task[t].on # 0,
         NEW r, TaskRight(mode, r), t = "operator" => r.on = 0,
         NEW L \in Seq(Level), Rewrite(t, L, r)
  PROVE  TasksRight(mode)' /\ SessionsType'
<1>1. task[t] \in TaskType /\ r \in TaskType
  BY DEF TasksRight, TaskRight
<1>2. CASE task[t].mine
  <2>1. PICK own, k : own \in Seq(Level) /\ k = [r EXCEPT !.own = own] /\ Becomes(t, k) /\ UNCHANGED sessions
    <3>1. (IF r.pc \in {"idle", "sync"} THEN <<>> ELSE L) \in Seq(Level)
      OBVIOUS
    <3> QED BY <1>2, <3>1 DEF Rewrite
  <2>2. k \in TaskType
    BY <1>1, <2>1 DEF TaskType
  <2>3. k.pc = r.pc /\ k.then = r.then /\ k.id = r.id /\ k.on = r.on /\ k.want = r.want /\ k.side = r.side
        /\ k.take = r.take /\ k.todo = r.todo /\ k.plan = r.plan /\ k.i = r.i
    BY <1>1, <2>1 DEF TaskType
  <2>4. TaskRight(mode, k)
    BY <2>2, <2>3 DEF TaskRight, OnLadder, Spot
  <2> QED BY <2>1, <2>3, <2>4, BecomesRight DEF SessionsType
<1>3. CASE ~task[t].mine
  <2>1. Becomes(t, r) /\ sessions' = [sessions EXCEPT ![task[t].on][task[t].side] = L]
    BY <1>3 DEF Rewrite
  <2>2. task[t].on \in Session /\ task[t].side \in Side
    BY <1>1 DEF TaskType
  <2>3. SessionsType'
    BY <2>1, <2>2 DEF SessionsType
  <2> QED BY <2>1, <2>3, BecomesRight
<1> QED
  BY <1>2, <1>3

LEMMA RebindRight ==
  ASSUME NEW mode, TasksRight(mode), SessionsType, NEW t \in Task, task[t].on # 0,
         NEW r, TaskRight(mode, r), t = "operator" => r.on = 0,
         NEW L \in Seq(Level), Rebind(t, L, r)
  PROVE  TasksRight(mode)' /\ SessionsType'
<1>1. task[t] \in TaskType
  BY DEF TasksRight, TaskRight
<1>2. PICK n, s : n = task[t].on /\ s = task[t].side
  OBVIOUS
<1>3. n \in Session /\ s \in Side
  BY <1>1, <1>2 DEF TaskType
<1>4. sessions' = [sessions EXCEPT ![n][s] = L]
  BY <1>2 DEF Rebind
<1>5. SessionsType'
  BY <1>3, <1>4 DEF SessionsType
<1>6. DOMAIN task' = Task
  BY DEF Rebind
<1>7. ASSUME NEW u \in Task
      PROVE  TaskRight(mode, task'[u]) /\ (u = "operator" => task'[u].on = 0)
  <2>1. task'[u] \in {r, task[u], [task[u] EXCEPT !.mine = TRUE, !.own = sessions[n][s]]}
        /\ (u = t => task'[u] = r) /\ (u # t => task'[u] # r \/ task'[u] \in {task[u], [task[u] EXCEPT !.mine = TRUE, !.own = sessions[n][s]]})
    BY <1>2 DEF Rebind
  <2>2. TaskRight(mode, task[u]) /\ task[u] \in TaskType
    BY DEF TasksRight, TaskRight
  <2>3. PICK k : k = [task[u] EXCEPT !.mine = TRUE, !.own = sessions[n][s]]
    OBVIOUS
  <2>4. sessions[n][s] \in Seq(Level)
    BY <1>3 DEF SessionsType
  <2>5. k \in TaskType
    BY <2>2, <2>3, <2>4 DEF TaskType
  <2>6. k.pc = task[u].pc /\ k.then = task[u].then /\ k.id = task[u].id /\ k.on = task[u].on
        /\ k.want = task[u].want /\ k.side = task[u].side /\ k.take = task[u].take
        /\ k.todo = task[u].todo /\ k.plan = task[u].plan /\ k.i = task[u].i
    BY <2>2, <2>3 DEF TaskType
  <2>7. TaskRight(mode, k)
    BY <2>2, <2>5, <2>6 DEF TaskRight, OnLadder, Spot
  <2> QED BY <2>1, <2>2, <2>3, <2>6, <2>7 DEF TasksRight
<1>8. \A u \in Task : TaskRight(mode, task'[u]) /\ (u = "operator" => task'[u].on = 0)
  BY <1>7
<1>9. TasksRight(mode)'
  BY <1>6, <1>8 DEF TasksRight, Task
<1> QED
  BY <1>5, <1>9

-----------------------------------------------------------------------------
(* The steps of a refresh keep the types. *)

LEMMA RunsRefresh ==
  ASSUME Typed, NEW t \in Task, task[t].pc \in Refreshing
  PROVE  /\ TaskRight(setup.mode, task[t]) /\ task[t] \in TaskType
         /\ task[t].then = "" /\ Spot(task[t]) = task[t].pc
         /\ task[t].on # 0 /\ t # "operator"
         /\ Levels(t) \in Seq(Level)
         /\ task[t].want[task[t].side] \in 0..MaxPrice
<1>1. TaskRight(setup.mode, task[t]) /\ task[t] \in TaskType /\ (t = "operator" => task[t].on = 0)
  BY DEF Typed, TasksRight, TaskRight
<1>2. task[t].pc # "cancel"
  BY DEF Refreshing
<1>3. Spot(task[t]) = task[t].pc /\ task[t].then = ""
  BY <1>1, <1>2 DEF Spot, TaskRight
<1>4. task[t].on # 0
  BY <1>1, <1>3 DEF TaskRight
<1>5. task[t].want[task[t].side] \in 0..MaxPrice
  BY <1>1 DEF TaskType, Wishes
<1> QED
  BY <1>1, <1>3, <1>4, <1>5, LevelsType

LEMMA LeaveRight ==
  ASSUME NEW mode, NEW t \in Task, TaskRight(mode, task[t]), task[t].on # 0
  PROVE  TaskRight(mode, Leave(t)) /\ Leave(t).then = ""
<1>1. task[t] \in TaskType
  BY DEF TaskRight
<1>2. CASE task[t].side # "bid"
  BY <1>2, IdleRight DEF Leave, IdleTask
<1>3. CASE task[t].side = "bid"
  <2>1. PICK r : r = Leave(t)
    OBVIOUS
  <2>2. PICK k : k = IdleTask
    OBVIOUS
  <2>3. k \in TaskType /\ k.then = ""
    BY <2>2, IdleRight DEF TaskRight, IdleTask
  <2>4. r = [k EXCEPT !.pc = "sync", !.on = task[t].on, !.side = "ask",
                      !.want = task[t].want, !.take = task[t].take]
    BY <1>3, <2>1, <2>2 DEF Leave
  <2>6. r \in TaskType /\ r.pc = "sync" /\ r.then = "" /\ r.on = task[t].on
    BY <1>1, <2>3, <2>4 DEF TaskType, Moment, Refreshing, Side
  <2>5. TaskRight(mode, r)
    BY <2>6 DEF TaskRight, Spot, Refreshing, Single, Laddering, OnLadder
  <2> QED BY <2>1, <2>5, <2>6
<1> QED
  BY <1>2, <1>3

LEMMA PruneKeeps ==
  ASSUME NEW L \in Seq(Level)
  PROVE  Prune(L) \in Seq(Level)
BY OnlyKeeps DEF Prune

LEMMA ByIndexType ==
  ASSUME NEW L \in Seq(Level)
  PROVE  /\ ByIndex(L) \in Seq([id : Quotes \cup {0}, idx : 0..LadderLevels - 1])
         /\ Len(ByIndex(L)) = LadderLevels
<1>1. ASSUME NEW k \in 1..LadderLevels
      PROVE  ByIndex(L)[k] \in [id : Quotes \cup {0}, idx : 0..LadderLevels - 1]
  <2>1. CASE ~\E q \in Ids(L) : [id |-> q, idx |-> k - 1] \in ToSet(L)
    BY <2>1 DEF ByIndex, LadderLevels
  <2>2. CASE \E q \in Ids(L) : [id |-> q, idx |-> k - 1] \in ToSet(L)
    <3>1. PICK q : [id |-> q, idx |-> k - 1] \in ToSet(L)
      BY <2>2
    <3>2. [id |-> q, idx |-> k - 1] \in Level
      <4>1. \A i \in DOMAIN L : L[i] \in Level
        BY ElementOfSeq
      <4> QED BY <3>1, <4>1 DEF ToSet
    <3>3. [id |-> q, idx |-> k - 1] \in ToSet(OfIndex(L, k - 1))
      BY <3>1, <3>2, OnlyKeeps DEF OfIndex
    <3>4. OfIndex(L, k - 1) \in Seq(Level) /\ OfIndex(L, k - 1) # <<>>
      <4>1. ToSet(<<>>) = {}
        BY DEF ToSet
      <4> QED BY <3>3, <4>1, OnlyKeeps DEF OfIndex
    <3>5. Last(OfIndex(L, k - 1)) \in Level
      <4> HIDE DEF OfIndex
      <4> QED BY <3>4, ElementOfSeq, LenProperties, EmptySeq DEF Last
    <3>6. ByIndex(L)[k] = Last(OfIndex(L, k - 1))
      BY <2>2 DEF ByIndex
    <3> QED BY <3>5, <3>6 DEF Level
  <2> QED BY <2>1, <2>2
<1>2. ByIndex(L) \in [1..LadderLevels -> [id : Quotes \cup {0}, idx : 0..LadderLevels - 1]]
  BY <1>1 DEF ByIndex
<1>3. ASSUME NEW E, NEW f \in [1..2 -> E]
      PROVE  f \in Seq(E) /\ Len(f) = 2
  <2>1. f \in Seq(E)
    BY SeqDef
  <2> QED BY <2>1, LenProperties
<1> QED
  BY <1>2, <1>3 DEF LadderLevels

LEMMA SyncTyped ==
  ASSUME Typed, NEW mode, mode = setup.mode, NEW t \in Task, Sync(t)
  PROVE  TasksRight(mode)' /\ SessionsType'
<1> DEFINE me == task[t]  L == Levels(t)  target == task[t].want[task[t].side]
<1>2. me.pc = "sync" /\ t \in Task
  BY DEF Sync, Runs
<1>3. /\ TaskRight(mode, me) /\ me \in TaskType /\ me.then = "" /\ me.on # 0 /\ t # "operator"
      /\ L \in Seq(Level) /\ target \in 0..MaxPrice /\ Spot(me) = me.pc
  BY <1>2, RunsRefresh DEF Refreshing
<1>4. TasksRight(mode) /\ SessionsType
  BY DEF Typed
<1>5. TaskRight(mode, Leave(t))
  BY <1>3, LeaveRight
<1>6. CASE Becomes(t, Leave(t)) /\ UNCHANGED sessions
  BY <1>3, <1>4, <1>5, <1>6, BecomesRight DEF SessionsType
<1>7. CASE (target = 0 \/ me.take) /\ Becomes(t, [me EXCEPT !.pc = "sweep"]) /\ UNCHANGED sessions
  <2>1. PICK r : r = [me EXCEPT !.pc = "sweep"]
    OBVIOUS
  <2>2. r \in TaskType /\ r.pc = "sweep" /\ r.then = "" /\ r.on = me.on /\ r.want = me.want
        /\ r.side = me.side /\ r.take = me.take
    BY <1>3, <2>1 DEF TaskType, Moment, Refreshing
  <2>3. TaskRight(mode, r)
    BY <1>3, <1>7, <2>2 DEF TaskRight, Spot, Refreshing, Single, Laddering, OnLadder
  <2> QED BY <1>3, <1>4, <1>7, <2>1, <2>3, BecomesRight DEF SessionsType
<1>8. CASE /\ ~me.take /\ mode \in Layered
           /\ Rewrite(t, Prune(L), [me EXCEPT !.pc = "extras", !.plan = ByIndex(Prune(L)),
                        !.todo = Only(Prune(L), {q \in Level : q.idx \notin LadderTargets(target)})])
  <2>1. Prune(L) \in Seq(Level)
    BY <1>3, PruneKeeps
  <2>2. PICK todo : todo = Only(Prune(L), {q \in Level : q.idx \notin LadderTargets(target)})
    OBVIOUS
  <2>3. todo \in Seq(Level)
    BY <2>1, <2>2, OnlyKeeps
  <2>4. PICK plan : plan = ByIndex(Prune(L))
    OBVIOUS
  <2>5. plan \in Seq([id : Quotes \cup {0}, idx : 0..LadderLevels - 1]) /\ Len(plan) = LadderLevels
    BY <2>1, <2>4, ByIndexType
  <2>6. PICK r : r = [me EXCEPT !.pc = "extras", !.plan = plan, !.todo = todo]
    OBVIOUS
  <2>7. r \in TaskType /\ r.pc = "extras" /\ r.then = "" /\ r.on = me.on /\ r.take = me.take /\ r.plan = plan
    BY <1>3, <2>3, <2>5, <2>6 DEF TaskType, Moment, Refreshing
  <2>8. TaskRight(mode, r)
    BY <1>3, <1>8, <2>5, <2>7 DEF TaskRight, Spot, Refreshing, Single, Laddering, OnLadder
  <2>9. Rewrite(t, Prune(L), r)
    BY <1>8, <2>2, <2>4, <2>6
  <2> QED BY <1>3, <1>4, <2>1, <2>8, <2>9, RewriteRight
<1>9. CASE /\ mode \notin Layered
           /\ Rewrite(t, Prune(L), [me EXCEPT !.pc = "trim",
                        !.todo = IF setup.mode = "climb" /\ Prune(L) # <<>> THEN Tail(Prune(L)) ELSE <<>>])
  <2>1. Prune(L) \in Seq(Level)
    BY <1>3, PruneKeeps
  <2>2. PICK todo : todo = IF setup.mode = "climb" /\ Prune(L) # <<>> THEN Tail(Prune(L)) ELSE <<>>
    OBVIOUS
  <2>3. todo \in Seq(Level)
    BY <2>1, <2>2, HeadTailProperties
  <2>4. PICK r : r = [me EXCEPT !.pc = "trim", !.todo = todo]
    OBVIOUS
  <2>5. r \in TaskType /\ r.pc = "trim" /\ r.then = "" /\ r.on = me.on
    BY <1>3, <2>3, <2>4 DEF TaskType, Moment, Refreshing
  <2>6. TaskRight(mode, r)
    BY <1>3, <1>9, <2>5 DEF TaskRight, Spot, Refreshing, Single, Laddering, OnLadder
  <2>7. Rewrite(t, Prune(L), r)
    BY <1>9, <2>2, <2>4
  <2> QED BY <1>3, <1>4, <2>1, <2>6, <2>7, RewriteRight
<1> QED
  BY <1>3, <1>6, <1>7, <1>8, <1>9 DEF Sync

LEMMA HeadType ==
  ASSUME NEW E, NEW L \in Seq(E), L # <<>>
  PROVE  /\ Head(L) \in E /\ Tail(L) \in Seq(E) /\ Last(L) \in E /\ Front(L) \in Seq(E)
         /\ <<Head(L)>> \in Seq(E) /\ Len(L) \in 1..Len(L)
<1>1. Len(L) \in 1..Len(L)
  BY EmptySeq, LenProperties
<1>2. Last(L) \in E
  BY <1>1, ElementOfSeq DEF Last
<1>3. Front(L) \in Seq(E)
  BY <1>1 DEF Front
<1> QED
  BY <1>1, <1>2, <1>3, HeadTailProperties

LEMMA LevelIds ==
  ASSUME NEW L \in Seq(Level)
  PROVE  /\ \A k \in 1..Len(L) : L[k] \in Level /\ L[k].id \in Quotes
         /\ L # <<>> => Head(L).id \in Quotes /\ Last(L).id \in Quotes /\ Tail(L) \in Seq(Level)
<1>1. \A k \in 1..Len(L) : L[k] \in Level
  BY ElementOfSeq
<1>2. L # <<>> => Head(L) \in Level /\ Last(L) \in Level /\ Tail(L) \in Seq(Level)
  BY HeadType
<1> QED
  BY <1>1, <1>2 DEF Level

\* What changes of a task on its way, and what does not.
Steady(r, k) ==
  r.then = k.then /\ r.on = k.on /\ r.side = k.side /\ r.want = k.want /\ r.take = k.take /\ r.mine = k.mine

LEMMA Fields ==
  ASSUME NEW k \in TaskType
  PROVE  /\ k.i \in Nat /\ k.i # 0 /\ k.i + 1 \in Nat \ {0}
         /\ k.px \in 0..MaxPrice /\ k.todo \in Seq(Level) /\ k.side \in Side
         /\ k.plan \in Seq([id : Quotes \cup {0}, idx : 0..LadderLevels - 1])
<1>1. k.i \in Nat \ {0}
  BY DEF TaskType
<1>2. k.px \in 0..MaxPrice
  BY DEF TaskType
<1>3. k.todo \in Seq(Level) /\ k.side \in Side
  BY DEF TaskType
<1>4. k.plan \in Seq([id : Quotes \cup {0}, idx : 0..LadderLevels - 1])
  BY DEF TaskType
<1> QED
  BY <1>1, <1>2, <1>3, <1>4

WithPc(k, x) == [k EXCEPT !.pc = x]
WithI(k, x) == [k EXCEPT !.i = x]
WithPx(k, x) == [k EXCEPT !.px = x]
WithTodo(k, x) == [k EXCEPT !.todo = x]
WithId(k, x) == [k EXCEPT !.id = x]
WithPlan(k, x) == [k EXCEPT !.plan = x]

LEMMA SetPc ==
  ASSUME NEW k \in TaskType, NEW x \in Moment
  PROVE  /\ WithPc(k, x) \in TaskType /\ Steady(WithPc(k, x), k) /\ WithPc(k, x).pc = x
         /\ WithPc(k, x).i = k.i /\ WithPc(k, x).px = k.px /\ WithPc(k, x).todo = k.todo /\ WithPc(k, x).id = k.id /\ WithPc(k, x).plan = k.plan
BY DEF TaskType, Steady, WithPc

LEMMA SetI ==
  ASSUME NEW k \in TaskType, NEW x \in Nat \ {0}
  PROVE  /\ WithI(k, x) \in TaskType /\ Steady(WithI(k, x), k) /\ WithI(k, x).i = x
         /\ WithI(k, x).pc = k.pc /\ WithI(k, x).px = k.px /\ WithI(k, x).todo = k.todo /\ WithI(k, x).id = k.id /\ WithI(k, x).plan = k.plan
BY DEF TaskType, Steady, WithI

LEMMA SetPx ==
  ASSUME NEW k \in TaskType, NEW x \in 0..MaxPrice
  PROVE  /\ WithPx(k, x) \in TaskType /\ Steady(WithPx(k, x), k) /\ WithPx(k, x).px = x
         /\ WithPx(k, x).pc = k.pc /\ WithPx(k, x).i = k.i /\ WithPx(k, x).todo = k.todo /\ WithPx(k, x).id = k.id /\ WithPx(k, x).plan = k.plan
BY DEF TaskType, Steady, WithPx

LEMMA SetTodo ==
  ASSUME NEW k \in TaskType, NEW x \in Seq(Level)
  PROVE  /\ WithTodo(k, x) \in TaskType /\ Steady(WithTodo(k, x), k) /\ WithTodo(k, x).todo = x
         /\ WithTodo(k, x).pc = k.pc /\ WithTodo(k, x).i = k.i /\ WithTodo(k, x).px = k.px /\ WithTodo(k, x).id = k.id /\ WithTodo(k, x).plan = k.plan
BY DEF TaskType, Steady, WithTodo

LEMMA SetId ==
  ASSUME NEW k \in TaskType, NEW x \in Quotes \cup {0}
  PROVE  /\ WithId(k, x) \in TaskType /\ Steady(WithId(k, x), k) /\ WithId(k, x).id = x
         /\ WithId(k, x).pc = k.pc /\ WithId(k, x).i = k.i /\ WithId(k, x).px = k.px /\ WithId(k, x).todo = k.todo /\ WithId(k, x).plan = k.plan
BY DEF TaskType, Steady, WithId

LEMMA SetPlan ==
  ASSUME NEW k \in TaskType, NEW x \in Seq([id : Quotes \cup {0}, idx : 0..LadderLevels - 1])
  PROVE  /\ WithPlan(k, x) \in TaskType /\ Steady(WithPlan(k, x), k) /\ WithPlan(k, x).plan = x
         /\ WithPlan(k, x).pc = k.pc /\ WithPlan(k, x).i = k.i /\ WithPlan(k, x).px = k.px /\ WithPlan(k, x).todo = k.todo /\ WithPlan(k, x).id = k.id
BY DEF TaskType, Steady, WithPlan

\* A task that only refreshes on, with nothing of a ladder.
LEMMA PlainRight ==
  ASSUME NEW mode, NEW r \in TaskType, r.then = "", r.on # 0,
         r.pc \in {"sync", "extras", "level", "place"} \cup Single,
         r.pc \in Single => mode \notin Layered,
         r.pc \in Laddering => ~r.take /\ Len(r.plan) = LadderLevels,
         r.pc = "place" => mode \notin Layered \/ r.take
  PROVE  TaskRight(mode, r)
BY DEF TaskRight, Spot, Refreshing, Single, Laddering, OnLadder

LEMMA SweepTyped ==
  ASSUME Typed, NEW mode, mode = setup.mode, NEW t \in Task, Sweep(t)
  PROVE  TasksRight(mode)' /\ SessionsType'
<1> DEFINE me == task[t]  L == Levels(t)  target == task[t].want[task[t].side]
<1>1. me.pc = "sweep"
  BY DEF Sweep, Runs
<1>2. /\ TaskRight(mode, me) /\ me \in TaskType /\ me.then = "" /\ me.on # 0 /\ t # "operator"
      /\ L \in Seq(Level) /\ target \in 0..MaxPrice /\ Spot(me) = me.pc
  BY <1>1, RunsRefresh DEF Refreshing
<1>3. TasksRight(mode) /\ SessionsType /\ TaskRight(mode, Leave(t))
  BY <1>2, LeaveRight DEF Typed
<1>4. CASE me.i <= Len(L) /\ Becomes(t, CancelThen(t, L[me.i].id, [me EXCEPT !.i = @ + 1]))
           /\ UNCHANGED sessions
  <2>1. PICK o, r : o = L[me.i].id /\ r = [me EXCEPT !.i = @ + 1]
    OBVIOUS
  <2>2. o \in Quotes
    <3>1. me.i \in 1..Len(L)
      <4>1. Len(L) \in Nat
        BY <1>2, LenProperties
      <4>2. me.i \in Nat /\ me.i # 0
        BY <1>2, Fields
      <4> QED BY <1>4, <4>1, <4>2
    <3> QED BY <1>2, <2>1, <3>1, LevelIds
  <2>3. r \in TaskType /\ r.pc = "sweep" /\ r.then = "" /\ r.on = me.on /\ r.want = me.want
        /\ r.side = me.side /\ r.take = me.take
    <3>1. me.i + 1 \in Nat \ {0}
      BY <1>2, Fields
    <3>2. r = WithI(me, me.i + 1)
      BY <2>1 DEF WithI
    <3> QED BY <1>1, <1>2, <3>1, <3>2, SetI DEF Steady
  <2>4. TaskRight(mode, r)
    BY <1>1, <1>2, <2>3 DEF TaskRight, Spot, Refreshing, Single, Laddering, OnLadder
  <2>5. TaskRight(mode, CancelThen(t, o, r))
    BY <2>2, <2>3, <2>4, CancelThenRight DEF Refreshing
  <2> QED BY <1>2, <1>3, <1>4, <2>1, <2>5, BecomesRight DEF SessionsType
<1>5. CASE Rewrite(t, <<>>, IF target = 0 THEN Leave(t)
                            ELSE [me EXCEPT !.pc = "place", !.px = target, !.i = 1])
  <2>1. PICK r : r = [me EXCEPT !.pc = "place", !.px = target, !.i = 1]
    OBVIOUS
  <2>2. r \in TaskType /\ r.pc = "place" /\ r.then = "" /\ r.on = me.on /\ r.take = me.take
    <3>1. PICK a, b : a = WithPc(me, "place") /\ b = WithPx(a, target) /\ r = WithI(b, 1)
      BY <2>1 DEF WithPc, WithPx, WithI
    <3>2. a \in TaskType /\ a.pc = "place" /\ Steady(a, me)
      <4>1. "place" \in Moment
        BY DEF Moment, Refreshing
      <4> QED BY <1>2, <3>1, <4>1, SetPc
    <3>3. b \in TaskType /\ b.pc = "place" /\ Steady(b, me)
      BY <1>2, <3>1, <3>2, SetPx DEF Steady
    <3>4. r \in TaskType /\ r.pc = "place" /\ Steady(r, me)
      BY <3>1, <3>3, SetI DEF Steady
    <3> QED BY <1>2, <3>4 DEF Steady
  <2>3. target # 0 => TaskRight(mode, r)
    <3>1. target # 0 => me.take
      BY <1>1, <1>2 DEF TaskRight
    <3> QED BY <1>2, <2>2, <3>1, PlainRight DEF Single, Laddering
  <2>4. PICK k : k = IF target = 0 THEN Leave(t) ELSE r
    OBVIOUS
  <2>5. TaskRight(mode, k)
    BY <1>3, <2>3, <2>4
  <2>6. Rewrite(t, <<>>, k)
    BY <1>5, <2>1, <2>4
  <2>7. <<>> \in Seq(Level)
    OBVIOUS
  <2> QED BY <1>2, <1>3, <2>5, <2>6, <2>7, RewriteRight
<1> QED
  BY <1>4, <1>5 DEF Sweep

LEMMA TrimTyped ==
  ASSUME Typed, NEW mode, mode = setup.mode, NEW t \in Task, Trim(t)
  PROVE  TasksRight(mode)' /\ SessionsType'
<1> DEFINE me == task[t]  L == Levels(t)
<1>1. me.pc = "trim"
  BY DEF Trim, Runs
<1>2. /\ TaskRight(mode, me) /\ me \in TaskType /\ me.then = "" /\ me.on # 0 /\ t # "operator"
      /\ L \in Seq(Level) /\ Spot(me) = me.pc
  BY <1>1, RunsRefresh DEF Refreshing
<1>3. TasksRight(mode) /\ SessionsType /\ mode \notin Layered
  BY <1>1, <1>2 DEF Typed, TaskRight, Single
<1>4. PICK decide : decide = [me EXCEPT !.pc = "decide"]
  OBVIOUS
<1>5. TaskRight(mode, decide)
  <2>1. decide \in TaskType /\ decide.pc = "decide" /\ decide.then = "" /\ decide.on = me.on
    BY <1>2, <1>4 DEF TaskType, Moment, Refreshing
  <2> QED BY <1>2, <1>3, <2>1 DEF TaskRight, Spot, Refreshing, Single, Laddering, OnLadder
<1>6. CASE me.todo # <<>> /\ Becomes(t, CancelThen(t, Head(me.todo).id, [me EXCEPT !.todo = Tail(@)]))
           /\ UNCHANGED sessions
  <2>1. PICK o, r, todo : o = Head(me.todo).id /\ todo = Tail(me.todo) /\ r = [me EXCEPT !.todo = todo]
    OBVIOUS
  <2>2. o \in Quotes /\ todo \in Seq(Level)
    <3>1. me.todo \in Seq(Level)
      BY <1>2, Fields
    <3> QED BY <1>6, <2>1, <3>1, LevelIds
  <2>3. r \in TaskType /\ r.pc = "trim" /\ r.then = "" /\ r.on = me.on
    <3>1. r = WithTodo(me, todo)
      BY <2>1 DEF WithTodo
    <3> QED BY <1>1, <1>2, <2>2, <3>1, SetTodo DEF Steady
  <2>4. TaskRight(mode, r)
    BY <1>1, <1>2, <1>3, <2>3 DEF TaskRight, Spot, Refreshing, Single, Laddering, OnLadder
  <2>5. TaskRight(mode, CancelThen(t, o, r))
    BY <2>2, <2>3, <2>4, CancelThenRight DEF Refreshing
  <2> QED BY <1>2, <1>3, <1>6, <2>1, <2>5, BecomesRight DEF SessionsType
<1>7. CASE Rewrite(t, IF L = <<>> THEN L ELSE <<Head(L)>>, decide)
  <2>1. (IF L = <<>> THEN L ELSE <<Head(L)>>) \in Seq(Level)
    BY <1>2, HeadType
  <2> QED BY <1>2, <1>3, <1>5, <1>7, <2>1, RewriteRight
<1>8. CASE Len(L) > 1 /\ Rewrite(t, Front(L), CancelThen(t, Last(L).id, me))
  <2>1. L # <<>>
    BY <1>8
  <2>2. Front(L) \in Seq(Level) /\ Last(L).id \in Quotes
    BY <1>2, <2>1, HeadType, LevelIds
  <2>3. TaskRight(mode, CancelThen(t, Last(L).id, me))
    BY <1>1, <1>2, <2>2, CancelThenRight DEF Refreshing
  <2> QED BY <1>2, <1>3, <1>8, <2>2, <2>3, RewriteRight
<1>9. CASE Becomes(t, decide) /\ UNCHANGED sessions
  BY <1>2, <1>3, <1>5, <1>9, BecomesRight DEF SessionsType
<1> QED
  BY <1>4, <1>6, <1>7, <1>8, <1>9 DEF Trim

LEMMA RemoveFirstKeeps ==
  ASSUME NEW E, NEW L \in Seq(E), NEW q, q \in ToSet(L)
  PROVE  RemoveFirst(L, q) \in Seq(E) /\ ToSet(L) \ {q} \subseteq ToSet(RemoveFirst(L, q))
         /\ ToSet(RemoveFirst(L, q)) \subseteq ToSet(L)
<1> DEFINE I == {i \in 1..Len(L) : L[i] = q}
<1>1. Len(L) \in Nat /\ DOMAIN L = 1..Len(L)
  BY LenProperties
<1>2. I # {} /\ I \subseteq Nat
  BY <1>1 DEF ToSet
<1>3. PICK n : n = Min(I)
  OBVIOUS
<1>4. n \in 1..Len(L) /\ L[n] = q
  <2>1. Min(I) \in I
    <3> HIDE DEF I
    <3> QED BY <1>2, MinIn
  <2> QED BY <1>3, <2>1
<1>5. RemoveFirst(L, q) = SubSeq(L, 1, n - 1) \o SubSeq(L, n + 1, Len(L))
  <2>1. \E i \in 1..Len(L) : L[i] = q
    BY <1>4
  <2>2. SelectInSeq(L, LAMBDA v : v = q) = IF I # {} THEN Min(I) ELSE 0
    BY DEF SelectInSeq
  <2> QED BY <1>2, <1>3, <2>1, <2>2 DEF RemoveFirst, RemoveAt
<1>6. PICK a, b : a = SubSeq(L, 1, n - 1) /\ b = SubSeq(L, n + 1, Len(L))
  OBVIOUS
<1>7. /\ a \in Seq(E) /\ Len(a) = n - 1 /\ \A i \in 1..n - 1 : a[i] = L[i]
      /\ b \in Seq(E) /\ Len(b) = Len(L) - n /\ \A i \in 1..Len(L) - n : b[i] = L[n + i]
  <2>1. \A i \in 1..Len(L) : L[i] \in E
    BY ElementOfSeq
  <2>2. n - 1 \in Nat /\ Len(L) - n \in Nat
    BY <1>1, <1>4
  <2>3. a = [i \in 1..n - 1 |-> L[i]] /\ b = [i \in 1..Len(L) - n |-> L[n + i]]
    BY <1>1, <1>4, <1>6, <2>1, <2>2
  <2>4. a \in Seq(E) /\ Len(a) = n - 1
    <3>1. a \in [1..n - 1 -> E]
      BY <1>1, <1>4, <2>1, <2>3
    <3> QED BY <2>2, <3>1, SeqDef
  <2>5. b \in Seq(E) /\ Len(b) = Len(L) - n
    <3>1. b \in [1..Len(L) - n -> E]
      BY <1>1, <1>4, <2>1, <2>3
    <3> QED BY <2>2, <3>1, SeqDef
  <2> QED BY <2>3, <2>4, <2>5
<1>8. RemoveFirst(L, q) \in Seq(E)
  BY <1>5, <1>6, <1>7, ConcatProperties
<1>9. PICK c : c = a \o b
  OBVIOUS
<1>10. /\ DOMAIN c = 1..Len(L) - 1
       /\ \A i \in 1..n - 1 : c[i] = L[i]
       /\ \A i \in n..Len(L) - 1 : c[i] = L[i + 1]
  <2>1. c \in Seq(E) /\ Len(c) = Len(a) + Len(b)
        /\ \A i \in 1..Len(a) + Len(b) : c[i] = IF i <= Len(a) THEN a[i] ELSE b[i - Len(a)]
    BY <1>7, <1>9, ConcatProperties
  <2>2. Len(a) + Len(b) = Len(L) - 1
    BY <1>1, <1>4, <1>7
  <2>3. DOMAIN c = 1..Len(L) - 1
    BY <2>1, <2>2, LenProperties
  <2>4. ASSUME NEW i \in 1..n - 1 PROVE c[i] = L[i]
    <3>1. i \in 1..Len(a) + Len(b) /\ i <= Len(a)
      BY <1>1, <1>4, <1>7
    <3> QED BY <1>7, <2>1, <3>1
  <2>5. ASSUME NEW i \in n..Len(L) - 1 PROVE c[i] = L[i + 1]
    <3>1. i \in 1..Len(a) + Len(b) /\ ~(i <= Len(a)) /\ i - Len(a) \in 1..Len(L) - n /\ n + (i - Len(a)) = i + 1
      BY <1>1, <1>4, <1>7
    <3>2. c[i] = b[i - Len(a)]
      BY <2>1, <3>1
    <3> QED BY <1>7, <3>1, <3>2
  <2> QED BY <2>3, <2>4, <2>5
<1>11. ASSUME NEW x \in ToSet(L), x # q
       PROVE  x \in ToSet(c)
  <2>1. PICK j \in 1..Len(L) : L[j] = x
    BY <1>1 DEF ToSet
  <2>2. CASE j < n
    <3>1. j \in 1..n - 1 /\ j \in 1..Len(L) - 1
      BY <1>1, <1>4, <2>1, <2>2
    <3>2. c[j] = x /\ j \in DOMAIN c
      BY <1>10, <2>1, <3>1
    <3> QED BY <3>2 DEF ToSet
  <2>3. CASE j > n
    <3>1. j - 1 \in n..Len(L) - 1 /\ j - 1 \in 1..Len(L) - 1 /\ (j - 1) + 1 = j
      BY <1>1, <1>4, <2>1, <2>3
    <3>2. c[j - 1] = x /\ j - 1 \in DOMAIN c
      BY <1>10, <2>1, <3>1
    <3> QED BY <3>2 DEF ToSet
  <2>4. j # n
    BY <1>4, <1>11, <2>1
  <2> QED BY <1>1, <1>4, <2>1, <2>2, <2>3, <2>4
<1>12. ASSUME NEW i \in DOMAIN c PROVE c[i] \in ToSet(L)
  <2>1. i \in 1..Len(L) - 1
    BY <1>10
  <2>2. CASE i < n
    <3>1. i \in 1..n - 1 /\ i \in DOMAIN L
      BY <1>1, <1>4, <2>1, <2>2
    <3> QED BY <1>10, <3>1 DEF ToSet
  <2>3. CASE ~(i < n)
    <3>1. i \in n..Len(L) - 1 /\ i + 1 \in DOMAIN L
      BY <1>1, <1>4, <2>1, <2>3
    <3> QED BY <1>10, <3>1 DEF ToSet
  <2> QED BY <2>2, <2>3
<1>13. ToSet(c) \subseteq ToSet(L)
  <2>1. \A x \in ToSet(c) : \E i \in DOMAIN c : x = c[i]
    BY DEF ToSet
  <2> QED BY <1>12, <2>1
<1>14. RemoveFirst(L, q) = c
  BY <1>5, <1>6, <1>9
<1> QED
  BY <1>8, <1>11, <1>13, <1>14

LEMMA TakeOffTyped ==
  ASSUME Typed, NEW mode, mode = setup.mode, NEW t \in Task, t # "operator", task[t].on # 0,
         NEW q, NEW r, TaskRight(mode, r), TakeOff(t, q, r)
  PROVE  TasksRight(mode)' /\ SessionsType'
<1>1. TasksRight(mode) /\ SessionsType /\ Levels(t) \in Seq(Level)
  BY LevelsType DEF Typed
<1>2. CASE q \in ToSet(Levels(t)) /\ Rewrite(t, RemoveFirst(Levels(t), q), r)
  <2>1. RemoveFirst(Levels(t), q) \in Seq(Level)
    BY <1>1, <1>2, RemoveFirstKeeps
  <2> QED BY <1>1, <1>2, <2>1, RewriteRight
<1>3. CASE Becomes(t, IdleTask) /\ UNCHANGED sessions
  BY <1>1, <1>3, IdleRight, BecomesRight DEF SessionsType
<1> QED
  BY <1>2, <1>3 DEF TakeOff

LEMMA DecideTyped ==
  ASSUME Typed, NEW mode, mode = setup.mode, NEW t \in Task, Decide(t)
  PROVE  TasksRight(mode)' /\ SessionsType'
<1> DEFINE me == task[t]  L == Levels(t)  target == task[t].want[task[t].side]
           p == order[Head(Levels(t)).id].px
<1>1. me.pc = "decide"
  BY DEF Decide, Runs
<1>2. /\ TaskRight(mode, me) /\ me \in TaskType /\ me.then = "" /\ me.on # 0 /\ t # "operator"
      /\ L \in Seq(Level) /\ target \in 0..MaxPrice /\ Spot(me) = me.pc
  BY <1>1, RunsRefresh DEF Refreshing
<1>3. TasksRight(mode) /\ SessionsType /\ mode \notin Layered /\ TaskRight(mode, Leave(t))
  BY <1>1, <1>2, LeaveRight DEF Typed, TaskRight, Single
<1>4. UNCHANGED sessions
  BY DEF Decide
<1>5. ASSUME NEW pc \in {"place", "clear"}, NEW x \in 0..MaxPrice
      PROVE  TaskRight(mode, [me EXCEPT !.pc = pc, !.px = x]) /\ [me EXCEPT !.pc = pc, !.px = x].pc = pc
  <2>1. PICK a, r : a = WithPc(me, pc) /\ r = WithPx(a, x)
    OBVIOUS
  <2>2. r = [me EXCEPT !.pc = pc, !.px = x]
    BY <2>1 DEF WithPc, WithPx
  <2>3. pc \in Moment
    BY DEF Moment, Refreshing
  <2>4. a \in TaskType /\ a.pc = pc /\ Steady(a, me)
    BY <1>2, <2>1, <2>3, SetPc
  <2>5. r \in TaskType /\ r.pc = pc /\ Steady(r, me)
    BY <2>1, <2>4, SetPx DEF Steady
  <2>6. TaskRight(mode, r)
    BY <1>2, <1>3, <2>5, PlainRight DEF Steady, Single, Laddering
  <2> QED BY <2>2, <2>5, <2>6
<1>6. CASE Becomes(t, [me EXCEPT !.pc = "place", !.px = target])
  BY <1>2, <1>3, <1>4, <1>5, <1>6, BecomesRight DEF SessionsType
<1>7. CASE Becomes(t, Leave(t))
  BY <1>2, <1>3, <1>4, <1>7, BecomesRight DEF SessionsType
<1>8. CASE /\ L # <<>>
           /\ \E x \in Replacements(p, target) :
                Becomes(t, CancelThen(t, Head(L).id, [me EXCEPT !.pc = "clear", !.px = x]))
  <2>1. PICK x \in Replacements(p, target) :
                Becomes(t, CancelThen(t, Head(L).id, [me EXCEPT !.pc = "clear", !.px = x]))
    BY <1>8
  <2>2. Head(L).id \in Quotes
    BY <1>2, <1>8, LevelIds
  <2>3. p \in 0..MaxPrice
    BY <2>2 DEF Typed, OrderType
  <2>4. x \in 0..MaxPrice
    <3>1. MaxPrice \in Nat
      BY QuotesAssumption
    <3>2. \A y, z \in 0..MaxPrice : \A w \in Replacements(y, z) : w \in 0..MaxPrice
      BY <3>1 DEF Replacements
    <3> HIDE DEF p, target
    <3> QED BY <1>2, <2>1, <2>3, <3>2
  <2>5. PICK r : r = [me EXCEPT !.pc = "clear", !.px = x]
    OBVIOUS
  <2>6. TaskRight(mode, r) /\ r.pc = "clear"
    BY <1>5, <2>4, <2>5
  <2>7. TaskRight(mode, CancelThen(t, Head(L).id, r))
    BY <2>2, <2>6, CancelThenRight DEF Refreshing
  <2> QED BY <1>2, <1>3, <1>4, <2>1, <2>5, <2>7, BecomesRight DEF SessionsType
<1> QED
  BY <1>6, <1>7, <1>8 DEF Decide

LEMMA ClearTyped ==
  ASSUME Typed, NEW mode, mode = setup.mode, NEW t \in Task, Clear(t)
  PROVE  TasksRight(mode)' /\ SessionsType'
<1> DEFINE me == task[t]
<1>1. me.pc = "clear"
  BY DEF Clear, Runs
<1>2. /\ TaskRight(mode, me) /\ me \in TaskType /\ me.then = "" /\ me.on # 0 /\ t # "operator"
      /\ Spot(me) = me.pc
  BY <1>1, RunsRefresh DEF Refreshing
<1>3. TasksRight(mode) /\ SessionsType /\ mode \notin Layered
  BY <1>1, <1>2 DEF Typed, TaskRight, Single
<1>4. PICK r : r = WithPc(me, "place")
  OBVIOUS
<1>5. r \in TaskType /\ r.pc = "place" /\ Steady(r, me)
  <2>1. "place" \in Moment
    BY DEF Moment, Refreshing
  <2> QED BY <1>2, <1>4, <2>1, SetPc
<1>6. TaskRight(mode, r)
  BY <1>2, <1>3, <1>5, PlainRight DEF Steady, Single, Laddering
<1>7. <<>> \in Seq(Level) /\ Rewrite(t, <<>>, r)
  BY <1>4 DEF Clear, WithPc
<1> QED
  BY <1>2, <1>3, <1>6, <1>7, RewriteRight

\* A task in the middle of a ladder.
LEMMA LadderRight ==
  ASSUME NEW mode, NEW r \in TaskType, r.then = "", r.on # 0, r.pc \in Laddering \cup {"place"},
         ~r.take, Len(r.plan) = LadderLevels,
         r.pc \in {"remove", "drop", "place"} => r.i <= LadderLevels,
         r.pc = "shed" => r.todo # <<>>
  PROVE  TaskRight(mode, r)
BY DEF TaskRight, Spot, Refreshing, Single, Laddering, OnLadder

LEMMA ExtrasTyped ==
  ASSUME Typed, NEW mode, mode = setup.mode, NEW t \in Task, Extras(t)
  PROVE  TasksRight(mode)' /\ SessionsType'
<1> DEFINE me == task[t]
<1>1. me.pc = "extras"
  BY DEF Extras, Runs
<1>2. /\ TaskRight(mode, me) /\ me \in TaskType /\ me.then = "" /\ me.on # 0 /\ t # "operator"
      /\ Spot(me) = me.pc
  BY <1>1, RunsRefresh DEF Refreshing
<1>3. TasksRight(mode) /\ SessionsType /\ ~me.take /\ Len(me.plan) = LadderLevels
  BY <1>1, <1>2 DEF Typed, TaskRight, Laddering
<1>4. PICK next : next = IF me.todo = <<>> THEN [me EXCEPT !.pc = "level", !.i = 1]
                         ELSE CancelThen(t, Head(me.todo).id, [me EXCEPT !.pc = "shed"])
  OBVIOUS
<1>5. TaskRight(mode, next)
  <2>1. CASE me.todo = <<>>
    <3>1. PICK a, r : a = WithPc(me, "level") /\ r = WithI(a, 1)
      OBVIOUS
    <3>2. "level" \in Moment
      BY DEF Moment, Refreshing
    <3>3. a \in TaskType /\ a.pc = "level" /\ Steady(a, me) /\ a.plan = me.plan
      BY <1>2, <3>1, <3>2, SetPc
    <3>4. r \in TaskType /\ r.pc = "level" /\ Steady(r, me) /\ r.plan = me.plan
      BY <3>1, <3>3, SetI DEF Steady
    <3>5. TaskRight(mode, r)
      BY <1>2, <1>3, <3>4, LadderRight DEF Steady, Laddering
    <3> QED BY <1>4, <2>1, <3>1, <3>5 DEF WithPc, WithI
  <2>2. CASE me.todo # <<>>
    <3>1. PICK r : r = WithPc(me, "shed")
      OBVIOUS
    <3>2. "shed" \in Moment
      BY DEF Moment, Refreshing
    <3>3. r \in TaskType /\ r.pc = "shed" /\ Steady(r, me) /\ r.plan = me.plan /\ r.todo = me.todo
      BY <1>2, <3>1, <3>2, SetPc
    <3>4. TaskRight(mode, r)
      BY <1>2, <1>3, <2>2, <3>3, LadderRight DEF Steady, Laddering
    <3>5. Head(me.todo).id \in Quotes
      <4>1. me.todo \in Seq(Level)
        BY <1>2, Fields
      <4> QED BY <2>2, <4>1, LevelIds
    <3>6. TaskRight(mode, CancelThen(t, Head(me.todo).id, r))
      BY <3>3, <3>4, <3>5, CancelThenRight DEF Refreshing
    <3> QED BY <1>4, <2>2, <3>1, <3>6 DEF WithPc
  <2> QED BY <2>1, <2>2
<1>6. Becomes(t, next) /\ UNCHANGED sessions
  BY <1>4 DEF Extras
<1> QED
  BY <1>2, <1>3, <1>5, <1>6, BecomesRight DEF SessionsType

LEMMA ShedTyped ==
  ASSUME Typed, NEW mode, mode = setup.mode, NEW t \in Task, Shed(t)
  PROVE  TasksRight(mode)' /\ SessionsType'
<1> DEFINE me == task[t]
<1>1. me.pc = "shed"
  BY DEF Shed, Runs
<1>2. /\ TaskRight(mode, me) /\ me \in TaskType /\ me.then = "" /\ me.on # 0 /\ t # "operator"
      /\ Spot(me) = me.pc
  BY <1>1, RunsRefresh DEF Refreshing
<1>3. ~me.take /\ Len(me.plan) = LadderLevels /\ me.todo # <<>> /\ me.todo \in Seq(Level)
  BY <1>1, <1>2, Fields DEF TaskRight, Laddering
<1>4. PICK a, r : a = WithPc(me, "extras") /\ r = WithTodo(a, Tail(me.todo))
  OBVIOUS
<1>5. Tail(me.todo) \in Seq(Level)
  BY <1>3, LevelIds
<1>6. "extras" \in Moment
  BY DEF Moment, Refreshing
<1>7. a \in TaskType /\ a.pc = "extras" /\ Steady(a, me) /\ a.plan = me.plan /\ a.todo = me.todo
  BY <1>2, <1>4, <1>6, SetPc
<1>8. r \in TaskType /\ r.pc = "extras" /\ Steady(r, me) /\ r.plan = me.plan
  BY <1>4, <1>5, <1>7, SetTodo DEF Steady
<1>9. TaskRight(mode, r)
  BY <1>2, <1>3, <1>8, LadderRight DEF Steady, Laddering
<1>10. TakeOff(t, Head(me.todo), r)
  BY <1>4, <1>7 DEF Shed, WithPc, WithTodo
<1> QED
  BY <1>2, <1>9, <1>10, TakeOffTyped

LEMMA DropsTyped ==
  ASSUME Typed, NEW mode, mode = setup.mode, NEW t \in Task, RemoveLevel(t) \/ DropLevel(t)
  PROVE  TasksRight(mode)' /\ SessionsType'
<1> DEFINE me == task[t]
<1>1. me.pc \in {"remove", "drop"}
  BY DEF RemoveLevel, DropLevel, Runs
<1>2. /\ TaskRight(mode, me) /\ me \in TaskType /\ me.then = "" /\ me.on # 0 /\ t # "operator"
      /\ Spot(me) = me.pc
  BY <1>1, RunsRefresh DEF Refreshing
<1>3. ~me.take /\ Len(me.plan) = LadderLevels /\ me.i <= LadderLevels /\ TasksRight(mode) /\ SessionsType
  BY <1>1, <1>2 DEF Typed, TaskRight, Laddering
<1>4. PICK r : r = WithPc(me, "place")
  OBVIOUS
<1>5. "place" \in Moment
  BY DEF Moment, Refreshing
<1>6. r \in TaskType /\ r.pc = "place" /\ Steady(r, me) /\ r.plan = me.plan /\ r.i = me.i
  BY <1>2, <1>4, <1>5, SetPc
<1>7. TaskRight(mode, r)
  BY <1>2, <1>3, <1>6, LadderRight DEF Steady, Laddering
<1>8. CASE TakeOff(t, me.plan[me.i], r)
  BY <1>2, <1>7, <1>8, TakeOffTyped
<1>9. CASE Becomes(t, r) /\ UNCHANGED sessions
  BY <1>2, <1>3, <1>7, <1>9, BecomesRight DEF SessionsType
<1> QED
  BY <1>4, <1>8, <1>9 DEF RemoveLevel, DropLevel, WithPc

\* The level after this one, of a task that is on a ladder.
LEMMA NextLevelRight ==
  ASSUME NEW mode, NEW t, TaskRight(mode, task[t]), task[t].on # 0, ~task[t].take,
         task[t].then = "", Len(task[t].plan) = LadderLevels
  PROVE  TaskRight(mode, NextLevel(t)) /\ NextLevel(t).then = "" /\ NextLevel(t).on = task[t].on
         /\ NextLevel(t).pc = "level"
<1> DEFINE me == task[t]
<1>1. me \in TaskType /\ me.i + 1 \in Nat \ {0} /\ 0 \in 0..MaxPrice /\ "level" \in Moment
  <2>1. me \in TaskType
    BY DEF TaskRight
  <2>2. me.i + 1 \in Nat \ {0}
    BY <2>1, Fields
  <2>3. 0 \in 0..MaxPrice
    BY Prices
  <2>4. "level" \in Moment
    BY DEF Moment, Refreshing
  <2> QED BY <2>1, <2>2, <2>3, <2>4
<1>2. PICK a, b, r : a = WithPc(me, "level") /\ b = WithI(a, me.i + 1) /\ r = WithPx(b, 0)
  OBVIOUS
<1>3. a \in TaskType /\ a.pc = "level" /\ Steady(a, me) /\ a.plan = me.plan /\ a.i = me.i
  BY <1>1, <1>2, SetPc
<1>4. b \in TaskType /\ b.pc = "level" /\ Steady(b, me) /\ b.plan = me.plan
  BY <1>1, <1>2, <1>3, SetI DEF Steady
<1>5. r \in TaskType /\ r.pc = "level" /\ Steady(r, me) /\ r.plan = me.plan
  BY <1>1, <1>2, <1>4, SetPx DEF Steady
<1>6. NextLevel(t) = r
  BY <1>1, <1>2, <1>3 DEF NextLevel, WithPc, WithI, WithPx
<1> QED
  BY <1>5, <1>6, LadderRight DEF Steady, Laddering

LEMMA LadderLevelTyped ==
  ASSUME Typed, NEW mode, mode = setup.mode, NEW t \in Task, LadderLevel(t)
  PROVE  TasksRight(mode)' /\ SessionsType'
<1> DEFINE me == task[t]
           want == task[t].want[task[t].side]
           target == task[t].want[task[t].side] - (task[t].i - 1)
           q == task[t].plan[task[t].i]
           p == order[task[t].plan[task[t].i].id].px
           replace(pc, x) == Becomes(t, CancelThen(t, q.id, [me EXCEPT !.pc = pc, !.px = x]))
<1>1. me.pc = "level"
  BY DEF LadderLevel, Runs
<1>2. /\ TaskRight(mode, me) /\ me \in TaskType /\ me.then = "" /\ me.on # 0 /\ t # "operator"
      /\ Spot(me) = me.pc /\ want \in 0..MaxPrice /\ Levels(t) \in Seq(Level)
  BY <1>1, RunsRefresh DEF Refreshing
<1>3. ~me.take /\ Len(me.plan) = LadderLevels /\ TasksRight(mode) /\ SessionsType
  BY <1>1, <1>2 DEF Typed, TaskRight, Laddering
<1>4. CASE Rebind(t, OfIndex(Levels(t), 0) \o OfIndex(Levels(t), 1), Leave(t))
  <2>1. OfIndex(Levels(t), 0) \in Seq(Level) /\ OfIndex(Levels(t), 1) \in Seq(Level)
    BY <1>2, OnlyKeeps DEF OfIndex
  <2>2. OfIndex(Levels(t), 0) \o OfIndex(Levels(t), 1) \in Seq(Level)
    BY <2>1, ConcatProperties
  <2>3. TaskRight(mode, Leave(t))
    BY <1>2, LeaveRight
  <2> QED BY <1>2, <1>3, <1>4, <2>2, <2>3, RebindRight
<1>5. CASE /\ me.i - 1 \in LadderTargets(want)
           /\ UNCHANGED sessions
           /\ \/ q.id = 0 /\ Becomes(t, [me EXCEPT !.pc = "place", !.px = target])
              \/ q.id # 0 /\ replace("remove", IF setup.mode = "climb_multi" THEN ClimbNext(p, target) ELSE target)
              \/ q.id # 0 /\ p < target /\ replace("remove", p + 1)
              \/ q.id # 0 /\ replace("drop", target)
              \/ q.id # 0 /\ Becomes(t, NextLevel(t))
  <2>1. me.i \in 1..LadderLevels /\ target \in 0..MaxPrice
    <3>1. me.i \in Nat /\ me.i # 0
      BY <1>2, Fields
    <3>2. MaxPrice \in Nat
      BY QuotesAssumption
    <3>3. me.i - 1 \in 0..LadderLevels - 1 /\ want > me.i - 1
      BY <1>5 DEF LadderTargets
    <3>4. ASSUME NEW w \in 0..MaxPrice, NEW j \in Nat, j # 0, j - 1 \in 0..LadderLevels - 1, w > j - 1
          PROVE  j \in 1..LadderLevels /\ w - (j - 1) \in 0..MaxPrice
      BY <3>2, <3>4 DEF LadderLevels
    <3> QED BY <1>2, <3>1, <3>3, <3>4
  <2>2. q.id \in Quotes \cup {0}
    <3>1. me.plan \in Seq([id : Quotes \cup {0}, idx : 0..LadderLevels - 1])
      BY <1>2, Fields
    <3>2. q \in [id : Quotes \cup {0}, idx : 0..LadderLevels - 1]
      BY <1>3, <2>1, <3>1, ElementOfSeq
    <3> QED BY <3>2
  <2>3. q.id # 0 => p \in 0..MaxPrice
    BY <2>2 DEF Typed, OrderType
  <2>4. ASSUME NEW pc \in {"place", "remove", "drop"}, NEW x \in 0..MaxPrice
        PROVE  TaskRight(mode, [me EXCEPT !.pc = pc, !.px = x]) /\ [me EXCEPT !.pc = pc, !.px = x].pc = pc
    <3>1. PICK a, r : a = WithPc(me, pc) /\ r = WithPx(a, x)
      OBVIOUS
    <3>2. pc \in Moment
      BY DEF Moment, Refreshing
    <3>3. a \in TaskType /\ a.pc = pc /\ Steady(a, me) /\ a.plan = me.plan /\ a.i = me.i
      BY <1>2, <3>1, <3>2, SetPc
    <3>4. r \in TaskType /\ r.pc = pc /\ Steady(r, me) /\ r.plan = me.plan /\ r.i = me.i
      BY <3>1, <3>3, SetPx DEF Steady
    <3>5. r.i <= LadderLevels
      BY <2>1, <3>4
    <3>6. TaskRight(mode, r)
      BY <1>2, <1>3, <3>4, <3>5, LadderRight DEF Steady, Laddering
    <3> QED BY <3>1, <3>4, <3>6 DEF WithPc, WithPx
  <2>5. ASSUME NEW pc \in {"remove", "drop"}, NEW x \in 0..MaxPrice, q.id # 0, replace(pc, x)
        PROVE  TasksRight(mode)' /\ SessionsType'
    <3>1. PICK r : r = [me EXCEPT !.pc = pc, !.px = x]
      OBVIOUS
    <3>2. TaskRight(mode, r) /\ r.pc = pc
      BY <2>4, <3>1
    <3>3. TaskRight(mode, CancelThen(t, q.id, r))
      <4>1. q.id \in Quotes
        BY <2>2, <2>5
      <4> HIDE DEF q
      <4> QED BY <3>2, <4>1, CancelThenRight DEF Refreshing
    <3>4. Becomes(t, CancelThen(t, q.id, r))
      BY <2>5, <3>1
    <3>5. UNCHANGED sessions
      BY <1>5
    <3> HIDE DEF q
    <3> QED BY <1>2, <1>3, <3>3, <3>4, <3>5, BecomesRight DEF SessionsType
  <2>6. \A x, y \in 0..MaxPrice : ClimbNext(x, y) \in 0..MaxPrice /\ (x < y => x + 1 \in 0..MaxPrice)
    BY QuotesAssumption DEF ClimbNext
  <2>7. CASE q.id = 0 /\ Becomes(t, [me EXCEPT !.pc = "place", !.px = target])
    <3>1. TaskRight(mode, [me EXCEPT !.pc = "place", !.px = target])
      BY <2>1, <2>4
    <3>2. UNCHANGED sessions
      BY <1>5
    <3> QED BY <1>2, <1>3, <2>7, <3>1, <3>2, BecomesRight DEF SessionsType
  <2>8. CASE q.id # 0 /\ Becomes(t, NextLevel(t))
    <3>1. TaskRight(mode, NextLevel(t))
      BY <1>2, <1>3, NextLevelRight
    <3>2. UNCHANGED sessions
      BY <1>5
    <3> QED BY <1>2, <1>3, <2>8, <3>1, <3>2, BecomesRight DEF SessionsType
  <2> HIDE DEF q, p, target, replace
  <2>9. CASE q.id # 0 /\ replace("remove", IF setup.mode = "climb_multi" THEN ClimbNext(p, target) ELSE target)
    <3>1. PICK x : x = IF setup.mode = "climb_multi" THEN ClimbNext(p, target) ELSE target
      OBVIOUS
    <3>2. x \in 0..MaxPrice
      BY <2>1, <2>3, <2>6, <2>9, <3>1
    <3> QED BY <2>5, <2>9, <3>1, <3>2
  <2>10. CASE q.id # 0 /\ p < target /\ replace("remove", p + 1)
    <3>1. p + 1 \in 0..MaxPrice
      BY <2>1, <2>3, <2>6, <2>10
    <3> QED BY <2>5, <2>10, <3>1
  <2>11. CASE q.id # 0 /\ replace("drop", target)
    BY <2>1, <2>5, <2>11
  <2> QED BY <1>5, <2>7, <2>8, <2>9, <2>10, <2>11
<1> QED
  BY <1>4, <1>5 DEF LadderLevel

LEMMA SkipRight ==
  ASSUME NEW t, TaskRight(setup.mode, task[t]), task[t].on # 0, task[t].pc \in {"place", "post"}, t \in Task
  PROVE  TaskRight(setup.mode, Skip(t)) /\ Skip(t).then = ""
<1>1. Spot(task[t]) = task[t].pc /\ task[t].then = ""
  BY DEF TaskRight, Spot
<1>2. CASE setup.mode \in Layered /\ ~task[t].take
  <2>1. Len(task[t].plan) = LadderLevels
    BY <1>1, <1>2 DEF TaskRight, OnLadder
  <2> QED BY <1>1, <1>2, <2>1, NextLevelRight DEF Skip
<1>3. CASE ~(setup.mode \in Layered /\ ~task[t].take)
  BY <1>3, LeaveRight DEF Skip
<1> QED
  BY <1>2, <1>3

LEMMA PlaceTyped ==
  ASSUME Typed, NEW mode, mode = setup.mode, NEW t \in Task, Place(t)
  PROVE  TasksRight(mode)' /\ SessionsType' /\ order' \in [Quotes -> OrderType]
<1> DEFINE me == task[t]
<1>1. me.pc = "place" /\ UNCHANGED sessions
  BY DEF Place, Runs
<1>2. /\ TaskRight(mode, me) /\ me \in TaskType /\ me.then = "" /\ me.on # 0 /\ t # "operator"
      /\ Spot(me) = me.pc
  BY <1>1, RunsRefresh DEF Refreshing
<1>3. TasksRight(mode) /\ SessionsType /\ order \in [Quotes -> OrderType]
  BY DEF Typed
<1>4. CASE Becomes(t, Skip(t)) /\ UNCHANGED order
  <2>1. TaskRight(mode, Skip(t))
    BY <1>1, <1>2, SkipRight
  <2> QED BY <1>1, <1>2, <1>3, <1>4, <2>1, BecomesRight DEF SessionsType
<1>5. CASE Becomes(t, IdleTask) /\ UNCHANGED order
  BY <1>1, <1>2, <1>3, <1>5, IdleRight, BecomesRight DEF SessionsType
<1>6. CASE /\ Cardinality(Quotes \ Unused) < setup.live
           /\ LET o == Min(Unused) IN
              /\ order' = [order EXCEPT ![o] = [at |-> "sent", om |-> "working", side |-> me.side,
                                                px |-> me.px, news |-> FALSE]]
              /\ Becomes(t, [me EXCEPT !.pc = "post", !.id = o])
  <2>1. PICK o : o = Min(Unused)
    OBVIOUS
  <2>2. o \in Quotes
    <3>1. Unused \subseteq Nat /\ Unused \subseteq Quotes
      BY QuotesAssumption DEF Unused
    <3>2. Unused # {}
      <4>1. SUFFICES ASSUME Unused = {} PROVE FALSE
        OBVIOUS
      <4>2. Cardinality(Quotes) < setup.live
        BY <1>6, <4>1
      <4>3. setup.live \in 0..Cardinality(Quotes) /\ Cardinality(Quotes) \in Nat
        BY QuotesAssumption, FS_CardinalityType DEF Typed
      <4> QED BY <4>2, <4>3
    <3> QED BY <2>1, <3>1, <3>2, MinIn
  <2>3. order' = [order EXCEPT ![o] = [at |-> "sent", om |-> "working", side |-> me.side,
                                       px |-> me.px, news |-> FALSE]]
        /\ Becomes(t, [me EXCEPT !.pc = "post", !.id = o])
    BY <1>6, <2>1
  <2>4. order' \in [Quotes -> OrderType]
    <3>1. me.side \in Side /\ me.px \in 0..MaxPrice
      BY <1>2, Fields
    <3> QED BY <1>3, <2>3, <3>1 DEF OrderType
  <2>5. PICK a, r : a = WithPc(me, "post") /\ r = WithId(a, o)
    OBVIOUS
  <2>6. "post" \in Moment
    BY DEF Moment, Refreshing
  <2>7. a \in TaskType /\ a.pc = "post" /\ Steady(a, me) /\ a.plan = me.plan /\ a.i = me.i
    BY <1>2, <2>5, <2>6, SetPc
  <2>8. r \in TaskType /\ r.pc = "post" /\ Steady(r, me) /\ r.plan = me.plan /\ r.i = me.i /\ r.id = o
    BY <2>2, <2>5, <2>7, SetId DEF Steady
  <2>9. TaskRight(mode, r)
    BY <1>1, <1>2, <2>2, <2>8 DEF TaskRight, Steady, Spot, Refreshing, Single, Laddering, OnLadder
  <2>10. Becomes(t, r)
    BY <2>3, <2>5 DEF WithPc, WithId
  <2> QED BY <1>1, <1>2, <1>3, <2>4, <2>9, <2>10, BecomesRight DEF SessionsType
<1> QED
  BY <1>4, <1>5, <1>6 DEF Place

LEMMA EvictTyped ==
  ASSUME Typed, NEW mode, mode = setup.mode, NEW t \in Task, Evict(t)
  PROVE  TasksRight(mode)'
<1> DEFINE me == task[t]
<1>1. me.pc = "evict"
  BY DEF Evict, Runs
<1>2. TaskRight(mode, me) /\ me \in TaskType /\ TasksRight(mode) /\ (t = "operator" => me.on = 0)
  BY DEF Typed, TasksRight, TaskRight
<1>3. CASE Becomes(t, IdleTask)
  BY <1>2, <1>3, IdleRight, BecomesRight
<1>4. CASE me.todo # <<>> /\ Becomes(t, CancelThen(t, Head(me.todo).id, [me EXCEPT !.todo = Tail(@)]))
  <2>1. PICK o, todo, r : o = Head(me.todo).id /\ todo = Tail(me.todo) /\ r = WithTodo(me, todo)
    OBVIOUS
  <2>2. o \in Quotes /\ todo \in Seq(Level)
    <3>1. me.todo \in Seq(Level)
      BY <1>2, Fields
    <3> QED BY <1>4, <2>1, <3>1, LevelIds
  <2>3. r \in TaskType /\ r.pc = "evict" /\ Steady(r, me)
    BY <1>1, <1>2, <2>1, <2>2, SetTodo
  <2>4. TaskRight(mode, r)
    BY <1>1, <1>2, <2>3 DEF TaskRight, Steady, Spot, Refreshing, Single, Laddering, OnLadder
  <2>5. PICK k : k = CancelThen(t, o, r)
    OBVIOUS
  <2>6. TaskRight(mode, k) /\ k.on = r.on
    BY <2>2, <2>3, <2>4, <2>5, CancelThenRight DEF Refreshing
  <2>7. Becomes(t, k)
    BY <1>4, <2>1, <2>5 DEF WithTodo
  <2> QED BY <1>2, <2>3, <2>6, <2>7, BecomesRight DEF Steady
<1> QED
  BY <1>3, <1>4 DEF Evict

\* An order keeps its type when a field of it changes.
LEMMA OrderKept ==
  ASSUME order \in [Quotes -> OrderType], NEW o \in Quotes,
         NEW at \in {"none", "sent", "refused", "open", "filled", "over"},
         NEW om \in {"unknown", "working", "done"}
  PROVE  /\ [order EXCEPT ![o].om = om] \in [Quotes -> OrderType]
         /\ [order EXCEPT ![o].at = at] \in [Quotes -> OrderType]
         /\ Ends(o, at) \in [Quotes -> OrderType]
         /\ [order EXCEPT ![o].news = FALSE, ![o].om = om] \in [Quotes -> OrderType]
<1>1. PICK r : r = order[o]
  OBVIOUS
<1>2. r \in OrderType
  BY <1>1
<1>3. [r EXCEPT !.om = om] \in OrderType /\ [r EXCEPT !.at = at] \in OrderType
      /\ [r EXCEPT !.at = at, !.news = TRUE] \in OrderType
      /\ [r EXCEPT !.news = FALSE, !.om = om] \in OrderType
  BY <1>2 DEF OrderType
<1>4. [order EXCEPT ![o].om = om] = [order EXCEPT ![o] = [r EXCEPT !.om = om]]
  BY <1>1
<1>5. [order EXCEPT ![o].at = at] = [order EXCEPT ![o] = [r EXCEPT !.at = at]]
  BY <1>1
<1>6. Ends(o, at) = [order EXCEPT ![o] = [r EXCEPT !.at = at, !.news = TRUE]]
  BY <1>1 DEF Ends
<1>7. [order EXCEPT ![o].news = FALSE, ![o].om = om] = [order EXCEPT ![o] = [r EXCEPT !.news = FALSE, !.om = om]]
  BY <1>1
<1>8. ASSUME NEW e \in OrderType
      PROVE  [order EXCEPT ![o] = e] \in [Quotes -> OrderType]
  OBVIOUS
<1> QED
  BY <1>3, <1>4, <1>5, <1>6, <1>7, <1>8, Zenon

-----------------------------------------------------------------------------
(* Replies keep the types. *)

LEMMA ForgetIdRight ==
  ASSUME NEW mode, NEW k, TaskRight(mode, k), k.pc \notin {"cancel", "post"}
  PROVE  TaskRight(mode, WithId(k, 0))
<1>1. k \in TaskType
  BY DEF TaskRight
<1>2. PICK r : r = WithId(k, 0)
  OBVIOUS
<1>3. r \in TaskType /\ Steady(r, k) /\ r.pc = k.pc /\ r.i = k.i /\ r.todo = k.todo /\ r.plan = k.plan
  BY <1>1, <1>2, SetId
<1>4. TaskRight(mode, r)
  BY <1>3 DEF TaskRight, Steady, Spot, OnLadder
<1> QED
  BY <1>2, <1>4

LEMMA CancelDoneRight ==
  ASSUME NEW mode, NEW k, TaskRight(mode, k), k.pc = "cancel"
  PROVE  LET r == [k EXCEPT !.pc = k.then, !.then = "", !.id = 0]
         IN TaskRight(mode, r) /\ r.on = k.on
<1>1. k \in TaskType /\ k.then # ""
  BY DEF TaskRight
<1>2. PICK r : r = [k EXCEPT !.pc = k.then, !.then = "", !.id = 0]
  OBVIOUS
<1>3. k.then \in {"evict"} \cup (Refreshing \ {"post"}) /\ k.then \in Moment
  BY <1>1 DEF TaskType, Moment
<1>4. /\ r \in TaskType /\ r.pc = k.then /\ r.then = "" /\ r.on = k.on /\ r.want = k.want
      /\ r.side = k.side /\ r.take = k.take /\ r.i = k.i /\ r.todo = k.todo /\ r.plan = k.plan
  BY <1>1, <1>2, <1>3 DEF TaskType
<1>5. Spot(r) = Spot(k)
  BY <1>3, <1>4 DEF Spot, Refreshing
<1>6. r.pc \notin {"cancel", "post"}
  BY <1>3, <1>4 DEF Refreshing
<1>7. TaskRight(mode, r)
  BY <1>4, <1>5, <1>6 DEF TaskRight, OnLadder
<1> QED
  BY <1>2, <1>4, <1>7

LEMMA BindTyped ==
  ASSUME Typed, NEW mode, mode = setup.mode, NEW t \in Task, task[t].pc = "post", Bind(t)
  PROVE  TasksRight(mode)' /\ SessionsType'
<1> DEFINE me == task[t]  L == Levels(t)
<1>1. /\ TaskRight(mode, me) /\ me \in TaskType /\ me.then = "" /\ me.on # 0 /\ t # "operator"
      /\ Spot(me) = me.pc /\ L \in Seq(Level)
  BY RunsRefresh DEF Refreshing
<1>2. TasksRight(mode) /\ SessionsType /\ me.id \in Quotes
  BY <1>1 DEF Typed, TaskRight
<1>3. TaskRight(mode, Leave(t))
  BY <1>1, LeaveRight
<1>4. ASSUME NEW k \in 0..LadderLevels - 1
      PROVE  [id |-> me.id, idx |-> k] \in Level /\ Append(L, [id |-> me.id, idx |-> k]) \in Seq(Level)
             /\ <<[id |-> me.id, idx |-> k]>> \in Seq(Level)
  <2>1. PICK q : q = [id |-> me.id, idx |-> k]
    OBVIOUS
  <2>2. q \in Level
    BY <1>2, <2>1 DEF Level
  <2>3. Append(L, q) \in Seq(Level)
    BY <1>1, <2>2, AppendProperties
  <2>4. <<q>> \in Seq(Level)
    BY <2>2
  <2> QED BY <2>1, <2>2, <2>3, <2>4
<1>5. 0 \in 0..LadderLevels - 1
  BY DEF LadderLevels
<1>6. CASE me.take
  <2>1. Rewrite(t, Append(L, [id |-> me.id, idx |-> 0]), Leave(t))
    BY <1>6 DEF Bind
  <2> QED BY <1>1, <1>2, <1>3, <1>4, <1>5, <2>1, RewriteRight
<1>7. CASE ~me.take /\ mode \in Layered
  <2>1. Len(me.plan) = LadderLevels /\ me.i <= LadderLevels
    BY <1>1, <1>7 DEF TaskRight, OnLadder
  <2>2. me.i - 1 \in 0..LadderLevels - 1
    <3>1. me.i \in Nat /\ me.i # 0
      BY <1>1, Fields
    <3> QED BY <2>1, <3>1 DEF LadderLevels
  <2>3. TaskRight(mode, WithId(NextLevel(t), 0))
    BY <1>1, <1>7, <2>1, NextLevelRight, ForgetIdRight
  <2>4. Rewrite(t, Append(L, [id |-> me.id, idx |-> me.i - 1]), WithId(NextLevel(t), 0))
    BY <1>7 DEF Bind, WithId
  <2> QED BY <1>1, <1>2, <1>4, <2>2, <2>3, <2>4, RewriteRight
<1>8. CASE ~me.take /\ mode \notin Layered
  <2>1. Rebind(t, <<[id |-> me.id, idx |-> 0]>>, Leave(t))
    BY <1>8 DEF Bind
  <2> QED BY <1>1, <1>2, <1>3, <1>4, <1>5, <2>1, RebindRight
<1> QED
  BY <1>6, <1>7, <1>8

LEMMA AnsweredTyped ==
  ASSUME Typed, NEW mode, mode = setup.mode, NEW t \in Task, Answered(t)
  PROVE  TasksRight(mode)' /\ SessionsType' /\ order' \in [Quotes -> OrderType]
         /\ races' \subseteq {"refresh", "control", "frame", "fault"}
<1> DEFINE me == task[t]
<1>1. /\ TasksRight(mode) /\ SessionsType /\ order \in [Quotes -> OrderType]
      /\ races \subseteq {"refresh", "control", "frame", "fault"}
      /\ TaskRight(mode, me) /\ (t = "operator" => me.on = 0)
  BY DEF Typed, TasksRight
<1>2. races' \subseteq {"refresh", "control", "frame", "fault"}
  BY <1>1 DEF Answered, Placed, PlaceRefused, PlaceLost, Cancelled, CancelFails, Notes
<1>3. me.pc \in {"post", "cancel"} => me.id \in Quotes
  BY <1>1 DEF TaskRight
<1>4. ASSUME me.pc = "post"
      PROVE  me.on # 0 /\ t # "operator" /\ TaskRight(mode, Skip(t)) /\ TaskRight(mode, WithId(Skip(t), 0))
  <2>1. me.on # 0 /\ t # "operator" /\ me.then = ""
    BY <1>4, RunsRefresh DEF Refreshing
  <2>2. TaskRight(mode, Skip(t)) /\ Skip(t).then = ""
    BY <1>1, <1>4, <2>1, SkipRight
  <2>3. Skip(t).pc \notin {"cancel", "post"}
    <3>1. NextLevel(t).pc = "level"
      <4>1. me \in TaskType
        BY <1>1 DEF TaskRight
      <4>2. PICK a, b : a = WithPc(me, "level") /\ b = WithI(a, me.i + 1)
        OBVIOUS
      <4>3. "level" \in Moment
        BY DEF Moment, Refreshing
      <4>4. a \in TaskType /\ a.pc = "level" /\ a.i = me.i
        BY <4>1, <4>2, <4>3, SetPc
      <4>5. b \in TaskType /\ b.pc = "level"
        BY <4>1, <4>2, <4>4, SetI, Fields
      <4>6. WithPx(b, 0).pc = "level"
        BY <4>5, SetPx, Prices
      <4> QED BY <4>2, <4>4, <4>6 DEF NextLevel, WithPc, WithI, WithPx
    <3>2. Leave(t).pc \in {"sync", "idle"}
      BY DEF Leave, IdleTask
    <3> QED BY <3>1, <3>2 DEF Skip
  <2> QED BY <2>1, <2>2, <2>3, ForgetIdRight
<1>5. CASE Placed(t)
  <2>1. me.pc = "post" /\ Bind(t) /\ order' = [order EXCEPT ![me.id].om = "working"]
    BY <1>5 DEF Placed
  <2>2. order' \in [Quotes -> OrderType]
    BY <1>1, <1>3, <2>1, OrderKept
  <2> QED BY <1>2, <2>1, <2>2, BindTyped
<1>6. CASE PlaceRefused(t) \/ PlaceLost(t)
  <2>1. /\ me.pc = "post" /\ order' = [order EXCEPT ![me.id].om = "done"] /\ UNCHANGED sessions
        /\ Becomes(t, WithId(Skip(t), 0)) \/ Becomes(t, IdleTask)
    BY <1>6 DEF PlaceRefused, PlaceLost, WithId
  <2>2. order' \in [Quotes -> OrderType]
    BY <1>1, <1>3, <2>1, OrderKept
  <2>3. TasksRight(mode)'
    BY <1>1, <1>4, <2>1, IdleRight, BecomesRight
  <2> QED BY <1>1, <1>2, <2>1, <2>2, <2>3 DEF SessionsType
<1>7. CASE Cancelled(t) \/ CancelFails(t)
  <2>1. PICK r : r = [me EXCEPT !.pc = me.then, !.then = "", !.id = 0]
    OBVIOUS
  <2>2. me.pc = "cancel" /\ UNCHANGED <<order, sessions>> /\ Becomes(t, r)
    BY <1>7, <2>1 DEF Cancelled, CancelFails
  <2>3. TaskRight(mode, r) /\ r.on = me.on
    BY <1>1, <2>1, <2>2, CancelDoneRight
  <2>4. TasksRight(mode)'
    BY <1>1, <2>2, <2>3, BecomesRight
  <2> QED BY <1>1, <1>2, <2>2, <2>4 DEF SessionsType
<1> QED
  BY <1>5, <1>6, <1>7 DEF Answered

-----------------------------------------------------------------------------
(* What begins a refresh, a pause, a mass cancel, and what the venue does. *)

LEMMA FreeSessionType ==
  ASSUME Typed, cur = 0
  PROVE  FreeSession \in Session /\ \A t \in Task : task[t].on # FreeSession
<1>1. task["operator"].on = 0
  BY DEF Typed, TasksRight
<1>2. \E n \in Session : n # cur /\ \A t \in Task : task[t].on # n
  <2>1. PICK a, b : a = task["clock"].on /\ b = task["user"].on
    OBVIOUS
  <2>2. \E n \in 1..3 : n # a /\ n # b
    <3>1. 1 \in 1..3 /\ 2 \in 1..3 /\ 3 \in 1..3 /\ 1 # 2 /\ 1 # 3 /\ 2 # 3
      OBVIOUS
    <3> QED BY <3>1
  <2>3. PICK n \in 1..3 : n # a /\ n # b
    BY <2>2
  <2>4. \A t \in Task : task[t].on # n
    BY <1>1, <2>1, <2>3 DEF Task
  <2> QED BY <2>3, <2>4 DEF Session
<1> QED
  BY <1>2 DEF FreeSession

LEMMA PruneBookType ==
  ASSUME SessionsType, NEW n \in Session
  PROVE  PruneBook(n) \in [Session -> [Side -> Seq(Level)]]
<1>1. [s \in Side |-> Prune(sessions[n][s])] \in [Side -> Seq(Level)]
  <2>1. ASSUME NEW s \in Side PROVE Prune(sessions[n][s]) \in Seq(Level)
    <3>1. sessions[n][s] \in Seq(Level)
      BY DEF SessionsType
    <3> QED BY <3>1, PruneKeeps
  <2> QED BY <2>1
<1>2. PruneBook(n) = [sessions EXCEPT ![n] = [s \in Side |-> Prune(sessions[n][s])]]
  BY DEF PruneBook
<1> QED
  BY <1>1, <1>2 DEF SessionsType

LEMMA StartRefreshTyped ==
  ASSUME Typed, NEW mode, mode = setup.mode, NEW t \in Task, StartRefresh(t)
  PROVE  TasksRight(mode)' /\ SessionsType' /\ cur' \in Session
<1>1. TasksRight(mode) /\ SessionsType /\ cur \in Session \cup {0} /\ t # "operator"
  BY DEF Typed, StartRefresh, MayRefresh
<1>2. PICK n : n = IF cur # 0 THEN cur ELSE FreeSession
  OBVIOUS
<1>3. n \in Session /\ cur' = n /\ sessions' = PruneBook(n)
  BY <1>1, <1>2, FreeSessionType DEF StartRefresh
<1>4. PICK w \in Wishes, k \in {FALSE, setup.take} :
        Becomes(t, [IdleTask EXCEPT !.pc = "sync", !.on = n, !.want = w, !.take = k])
  BY <1>2 DEF StartRefresh
<1>5. k \in BOOLEAN
  BY QuotesAssumption DEF Typed
<1>6. PICK idle, r : idle = IdleTask /\ r = [idle EXCEPT !.pc = "sync", !.on = n, !.want = w, !.take = k]
  OBVIOUS
<1>7. idle \in TaskType /\ idle.then = ""
  BY <1>6, IdleRight DEF TaskRight, IdleTask
<1>8. r \in TaskType /\ r.pc = "sync" /\ r.then = "" /\ r.on = n
  BY <1>3, <1>5, <1>6, <1>7 DEF TaskType, Moment, Refreshing
<1>9. n # 0
  BY <1>3 DEF Session
<1>10. TaskRight(mode, r)
  BY <1>8, <1>9, PlainRight DEF Single, Laddering
<1>11. TasksRight(mode)'
  BY <1>1, <1>4, <1>6, <1>10, BecomesRight
<1> QED
  BY <1>1, <1>3, <1>11, PruneBookType DEF SessionsType

LEMMA StartEvictTyped ==
  ASSUME Typed, NEW mode, mode = setup.mode, NEW t \in Task, StartEvict(t)
  PROVE  TasksRight(mode)'
<1>1. TasksRight(mode) /\ SessionsType /\ cur \in Session \cup {0}
  BY DEF Typed
<1>2. PICK todo : todo = IF cur = 0 THEN <<>> ELSE sessions[cur]["bid"] \o sessions[cur]["ask"]
  OBVIOUS
<1>3. todo \in Seq(Level)
  <2>1. CASE cur = 0
    BY <1>2, <2>1
  <2>2. CASE cur # 0
    <3>1. sessions[cur]["bid"] \in Seq(Level) /\ sessions[cur]["ask"] \in Seq(Level)
      BY <1>1, <2>2 DEF SessionsType, Side
    <3>2. sessions[cur]["bid"] \o sessions[cur]["ask"] \in Seq(Level)
      BY <3>1, ConcatProperties
    <3> QED BY <1>2, <2>2, <3>2
  <2> QED BY <2>1, <2>2
<1>4. PICK idle, a, r : idle = IdleTask /\ a = WithPc(idle, "evict") /\ r = WithTodo(a, todo)
  OBVIOUS
<1>5. idle \in TaskType /\ idle.then = "" /\ idle.on = 0
  BY <1>4, IdleRight DEF TaskRight, IdleTask
<1>6. a \in TaskType /\ a.pc = "evict" /\ Steady(a, idle)
  <2>1. "evict" \in Moment
    BY DEF Moment
  <2> QED BY <1>4, <1>5, <2>1, SetPc
<1>7. r \in TaskType /\ r.pc = "evict" /\ r.then = "" /\ r.on = 0
  BY <1>3, <1>4, <1>5, <1>6, SetTodo DEF Steady
<1>8. TaskRight(mode, r)
  BY <1>7 DEF TaskRight, Spot, Refreshing, Single, Laddering, OnLadder
<1>9. Becomes(t, r)
  BY <1>2, <1>4 DEF StartEvict, WithPc, WithTodo
<1> QED
  BY <1>1, <1>7, <1>8, <1>9, BecomesRight

\* A task that only waits for something of its own.
LEMMA WaitRight ==
  ASSUME NEW mode, NEW pc \in {"filled", "mass", "massed"}
  PROVE  TaskRight(mode, [IdleTask EXCEPT !.pc = pc]) /\ [IdleTask EXCEPT !.pc = pc].on = 0
<1>1. PICK idle, r : idle = IdleTask /\ r = WithPc(idle, pc)
  OBVIOUS
<1>2. idle \in TaskType /\ idle.then = "" /\ idle.on = 0
  BY <1>1, IdleRight DEF TaskRight, IdleTask
<1>3. pc \in Moment
  BY DEF Moment
<1>4. r \in TaskType /\ r.pc = pc /\ r.then = "" /\ r.on = 0
  BY <1>1, <1>2, <1>3, SetPc DEF Steady
<1>5. TaskRight(mode, r)
  BY <1>4 DEF TaskRight, Spot, Refreshing, Single, Laddering, OnLadder
<1> QED
  BY <1>1, <1>4, <1>5 DEF WithPc

LEMMA HearEndTyped ==
  ASSUME Typed, NEW mode, mode = setup.mode, NEW o \in Quotes, HearEnd(o)
  PROVE  TasksRight(mode)' /\ SessionsType' /\ order' \in [Quotes -> OrderType]
         /\ races' \subseteq {"refresh", "control", "frame", "fault"}
<1>1. TasksRight(mode) /\ SessionsType /\ cur \in Session \cup {0} /\ order \in [Quotes -> OrderType]
      /\ races \subseteq {"refresh", "control", "frame", "fault"} /\ "user" \in Task
  BY DEF Typed, Task
<1>2. order' \in [Quotes -> OrderType]
  <2>1. order' = [order EXCEPT ![o].news = FALSE, ![o].om = "done"]
    BY DEF HearEnd
  <2> QED BY <1>1, <2>1, OrderKept
<1>3. SessionsType'
  <2>1. CASE cur = 0
    BY <1>1, <2>1 DEF HearEnd, SessionsType
  <2>2. CASE cur # 0
    <3>1. PICK S : S = {q \in Level : q.id # o /\ order[q.id].om = "working"}
      OBVIOUS
    <3>2. sessions' = [sessions EXCEPT ![cur] = [s \in Side |-> Only(sessions[cur][s], S)]]
      BY <2>2, <3>1 DEF HearEnd
    <3>3. ASSUME NEW s \in Side PROVE Only(sessions[cur][s], S) \in Seq(Level)
      <4>1. sessions[cur][s] \in Seq(Level)
        BY <1>1, <2>2 DEF SessionsType
      <4> QED BY <4>1, OnlyKeeps
    <3>4. [s \in Side |-> Only(sessions[cur][s], S)] \in [Side -> Seq(Level)]
      BY <3>3
    <3> QED BY <1>1, <3>2, <3>4 DEF SessionsType
  <2> QED BY <2>1, <2>2
<1>4. TasksRight(mode)'
  <2>1. CASE Becomes("user", [IdleTask EXCEPT !.pc = "filled"])
    BY <1>1, <2>1, WaitRight, BecomesRight
  <2>2. CASE UNCHANGED task
    BY <1>1, <2>2 DEF TasksRight
  <2> QED BY <2>1, <2>2 DEF HearEnd
<1>5. races' \subseteq {"refresh", "control", "frame", "fault"}
  BY <1>1 DEF HearEnd, Notes
<1> QED
  BY <1>2, <1>3, <1>4, <1>5

LEMMA AdoptedType ==
  ASSUME NEW s, NEW L \in Adopted(s)
  PROVE  L \in Seq(Level)
<1> DEFINE S == {o \in Quotes : order[o].om = "working" /\ order[o].side = s}
<1>1. PICK ids \in SetToSeqs(S) : L = [k \in DOMAIN ids |-> [id |-> ids[k], idx |-> 0]]
  BY DEF Adopted
<1>2. IsFiniteSet(S) /\ Cardinality(S) \in Nat
  <2>1. IsFiniteSet(S)
    BY QuotesAssumption, FS_Subset
  <2> QED BY <2>1, FS_CardinalityType
<1>3. PICK n \in Nat : n = Cardinality(S)
  BY <1>2
<1>4. ids \in [1..n -> S]
  <2> HIDE DEF S
  <2> QED BY <1>1, <1>3 DEF SetToSeqs
<1>5. L = [k \in 1..n |-> [id |-> ids[k], idx |-> 0]]
  BY <1>1, <1>4
<1>6. \A k \in 1..n : [id |-> ids[k], idx |-> 0] \in Level
  BY <1>4 DEF Level, LadderLevels
<1>7. L \in [1..n -> Level]
  BY <1>5, <1>6
<1> QED
  BY <1>3, <1>7, SeqDef

LEMMA ResumeTyped ==
  ASSUME Typed, Resume
  PROVE  SessionsType' /\ cur' \in Session \cup {0}
<1>1. SessionsType /\ cur \in Session \cup {0}
  BY DEF Typed
<1>2. CASE UNCHANGED <<cur, sessions>>
  BY <1>1, <1>2 DEF SessionsType
<1>3. CASE Seeded
  <2>1. PICK n, pruned : /\ n = IF cur # 0 THEN cur ELSE FreeSession
                         /\ pruned = [s \in Side |-> Prune(sessions[n][s])]
    OBVIOUS
  <2>2. n \in Session
    BY <1>1, <2>1, FreeSessionType
  <2>3. pruned \in [Side -> Seq(Level)]
    <3>1. ASSUME NEW s \in Side PROVE Prune(sessions[n][s]) \in Seq(Level)
      <4>1. sessions[n][s] \in Seq(Level)
        BY <1>1, <2>2 DEF SessionsType
      <4> QED BY <4>1, PruneKeeps
    <3> QED BY <2>1, <3>1
  <2>4. PICK bids \in Adopted("bid"), asks \in Adopted("ask") :
          \/ sessions' = [sessions EXCEPT ![n] = pruned] /\ UNCHANGED cur
          \/ sessions' = [sessions EXCEPT ![n] = [s \in Side |-> IF s = "bid" THEN bids ELSE asks]] /\ cur' = n
    BY <1>3, <2>1 DEF Seeded
  <2>5. bids \in Seq(Level) /\ asks \in Seq(Level)
    BY AdoptedType
  <2>6. [s \in Side |-> IF s = "bid" THEN bids ELSE asks] \in [Side -> Seq(Level)]
    BY <2>5
  <2> QED BY <1>1, <2>2, <2>3, <2>4, <2>6 DEF SessionsType
<1> QED
  BY <1>2, <1>3 DEF Resume

LEMMA EndsType ==
  ASSUME order \in [Quotes -> OrderType], NEW o \in Quotes
  PROVE  /\ \A at \in {"refused", "open", "filled", "over"} :
              Ends(o, at) \in [Quotes -> OrderType] /\ [order EXCEPT ![o].at = at] \in [Quotes -> OrderType]
         /\ [order EXCEPT ![o].om = "done"] \in [Quotes -> OrderType]
<1>1. ASSUME NEW at \in {"refused", "open", "filled", "over"}
      PROVE  Ends(o, at) \in [Quotes -> OrderType] /\ [order EXCEPT ![o].at = at] \in [Quotes -> OrderType]
  <2>1. at \in {"none", "sent", "refused", "open", "filled", "over"} /\ "done" \in {"unknown", "working", "done"}
    OBVIOUS
  <2> QED BY <2>1, OrderKept
<1>2. [order EXCEPT ![o].om = "done"] \in [Quotes -> OrderType]
  <2>1. "none" \in {"none", "sent", "refused", "open", "filled", "over"} /\ "done" \in {"unknown", "working", "done"}
    OBVIOUS
  <2> QED BY <2>1, OrderKept
<1> QED
  BY <1>1, <1>2

LEMMA AwayTyped ==
  ASSUME Typed, NEW mode, mode = setup.mode
  PROVE  /\ \A t \in Task : Answers(t) => order' \in [Quotes -> OrderType]
         /\ \A o \in Quotes : VenueFills(o) \/ Poll(o) => order' \in [Quotes -> OrderType]
         /\ \A o \in Quotes : HearPartial(o) => TasksRight(mode)'
<1>1. TasksRight(mode) /\ order \in [Quotes -> OrderType] /\ \A t \in Task : TaskRight(mode, task[t])
  BY DEF Typed, TasksRight
<1>2. ASSUME NEW t \in Task, Answers(t) PROVE order' \in [Quotes -> OrderType]
  <2>1. PICK o : o = task[t].id
    OBVIOUS
  <2>2. o \in Quotes
    BY <1>1, <1>2, <2>1 DEF Answers, VenueTakes, VenueCancels, TaskRight
  <2>3. PICK at \in {"refused", "open", "filled", "over"} :
          order' = [order EXCEPT ![o].at = at] \/ order' = Ends(o, at)
    BY <1>2, <2>1 DEF Answers, VenueTakes, VenueCancels
  <2>4. Ends(o, at) \in [Quotes -> OrderType] /\ [order EXCEPT ![o].at = at] \in [Quotes -> OrderType]
    BY <1>1, <2>2, EndsType
  <2> QED BY <2>3, <2>4
<1>3. ASSUME NEW o \in Quotes, VenueFills(o) \/ Poll(o) PROVE order' \in [Quotes -> OrderType]
  <2>1. \/ \E at \in {"refused", "open", "filled", "over"} : order' = Ends(o, at)
        \/ order' = [order EXCEPT ![o].om = "done"]
    BY <1>3 DEF VenueFills, Poll
  <2>2. \A at \in {"refused", "open", "filled", "over"} : Ends(o, at) \in [Quotes -> OrderType]
    BY <1>1, EndsType
  <2>3. [order EXCEPT ![o].om = "done"] \in [Quotes -> OrderType]
    BY <1>1, EndsType
  <2> HIDE DEF Ends
  <2> QED BY <2>1, <2>2, <2>3
<1>4. ASSUME NEW o \in Quotes, HearPartial(o) PROVE TasksRight(mode)'
  <2>1. Becomes("user", [IdleTask EXCEPT !.pc = "filled"]) /\ "user" \in Task
    BY <1>4 DEF HearPartial, Task
  <2> QED BY <1>1, <2>1, WaitRight, BecomesRight
<1> QED
  BY <1>2, <1>3, <1>4

LEMMA MassTyped ==
  ASSUME Typed, NEW mode, mode = setup.mode, MassCancel \/ MassLands \/ MassReturns
  PROVE  TasksRight(mode)' /\ order' \in [Quotes -> OrderType]
<1>1. TasksRight(mode) /\ order \in [Quotes -> OrderType] /\ "operator" \in Task
  BY DEF Typed, Task
<1>2. PICK me : me = task["operator"]
  OBVIOUS
<1>3. TaskRight(mode, me) /\ me.on = 0 /\ me \in TaskType
  BY <1>1, <1>2 DEF TasksRight, TaskRight
<1>4. CASE MassCancel
  <2>1. Becomes("operator", [IdleTask EXCEPT !.pc = "mass"]) /\ UNCHANGED order
    BY <1>4 DEF MassCancel
  <2> QED BY <1>1, <2>1, WaitRight, BecomesRight
<1>5. CASE MassLands
  <2>1. PICK r : r = WithPc(me, "massed")
    OBVIOUS
  <2>2. "massed" \in Moment /\ "mass" \notin Refreshing
    BY DEF Moment, Refreshing
  <2>3. me.pc = "mass"
    BY <1>2, <1>5 DEF MassLands
  <2>4. r \in TaskType /\ r.pc = "massed" /\ Steady(r, me)
    BY <1>3, <2>1, <2>2, SetPc
  <2>5. TaskRight(mode, r) /\ r.on = 0
    BY <1>3, <2>3, <2>4 DEF TaskRight, Steady, Spot, Refreshing, Single, Laddering, OnLadder
  <2>6. Becomes("operator", r)
    BY <1>2, <1>5, <2>1 DEF MassLands, WithPc
  <2>7. order' \in [Quotes -> OrderType]
    <3>1. order' = [o \in Quotes |-> IF order[o].at = "open"
                                     THEN [order[o] EXCEPT !.at = "over", !.news = TRUE] ELSE order[o]]
      BY <1>5 DEF MassLands
    <3>2. \A r1 \in OrderType : [r1 EXCEPT !.at = "over", !.news = TRUE] \in OrderType
      BY DEF OrderType
    <3> QED BY <1>1, <3>1, <3>2
  <2> QED BY <1>1, <2>5, <2>6, <2>7, BecomesRight
<1>6. CASE MassReturns
  <2>1. Becomes("operator", IdleTask)
    BY <1>6 DEF MassReturns
  <2>2. order' \in [Quotes -> OrderType]
    <3>1. order' = [o \in Quotes |-> IF order[o].om = "working"
                                     THEN [order[o] EXCEPT !.om = "done"] ELSE order[o]]
      BY <1>6 DEF MassReturns
    <3>2. \A r1 \in OrderType : [r1 EXCEPT !.om = "done"] \in OrderType
      BY DEF OrderType
    <3> QED BY <1>1, <3>1, <3>2
  <2> QED BY <1>1, <2>1, <2>2, IdleRight, BecomesRight
<1> QED
  BY <1>4, <1>5, <1>6

LEMMA CollectTyped ==
  ASSUME Typed, Collect
  PROVE  SessionsType' /\ order' \in [Quotes -> OrderType]
<1>1. Empty \in [Side -> Seq(Level)] /\ NoOrder \in OrderType
  BY Prices DEF Empty, NoOrder, OrderType, Side
<1> QED
  BY <1>1 DEF Typed, Collect, SessionsType

LEMMA TypedStep == Typed /\ [Next]_vars => Typed'
<1> SUFFICES ASSUME Typed, [Next]_vars PROVE Typed'
  OBVIOUS
<1>1. PICK mode : mode = setup.mode
  OBVIOUS
<1>2. /\ status \in {"running", "paused"} /\ setup \in Setups /\ order \in [Quotes -> OrderType]
      /\ cur \in Session \cup {0} /\ SessionsType /\ TasksRight(mode) /\ withdrawn \in BOOLEAN
      /\ races \subseteq {"refresh", "control", "frame", "fault"}
  BY <1>1 DEF Typed
<1>3. UNCHANGED setup
  <2>1. ASSUME NEW t \in Task, StartRefresh(t) \/ StartEvict(t) \/ Answered(t) \/ Answers(t)
        PROVE  UNCHANGED setup
    BY <2>1 DEF StartRefresh, StartEvict, Answered, Placed, PlaceRefused, PlaceLost, Cancelled, CancelFails,
                Answers, VenueTakes, VenueCancels, VenueOnly
  <2>2. ASSUME NEW t \in Task, Run(t) PROVE UNCHANGED setup
    BY <2>2 DEF Run, Evict, Sync, Sweep, Trim, Decide, Clear, Extras, Shed, LadderLevel, RemoveLevel,
                DropLevel, Place, Keeps
  <2>3. ASSUME NEW o \in Quotes, VenueFills(o) \/ HearEnd(o) \/ HearPartial(o) \/ Poll(o)
        PROVE  UNCHANGED setup
    BY <2>3 DEF VenueFills, HearEnd, HearPartial, Poll, VenueOnly
  <2>4. CASE Collect \/ MassCancel \/ MassLands \/ MassReturns \/ Resume \/ Withdraw \/ UNCHANGED vars
    BY <2>4 DEF Collect, MassCancel, MassLands, MassReturns, Resume, Withdraw, vars
  <2> QED BY <2>1, <2>2, <2>3, <2>4 DEF Next
<1>4. SUFFICES /\ status' \in {"running", "paused"} /\ order' \in [Quotes -> OrderType]
               /\ cur' \in Session \cup {0} /\ SessionsType' /\ TasksRight(mode)' /\ withdrawn' \in BOOLEAN
               /\ races' \subseteq {"refresh", "control", "frame", "fault"}
  BY <1>1, <1>2, <1>3 DEF Typed
<1>5. CASE Collect
  BY <1>2, <1>5, CollectTyped DEF Collect, TasksRight
<1>6. ASSUME NEW t \in Task, StartRefresh(t) PROVE <1>4!1
  BY <1>1, <1>2, <1>6, StartRefreshTyped DEF StartRefresh, Notes, Crossing
<1>7. ASSUME NEW t \in Task, StartEvict(t) PROVE <1>4!1
  BY <1>1, <1>2, <1>7, StartEvictTyped DEF StartEvict, Notes, Crossing, SessionsType
<1>8. ASSUME NEW t \in Task, Run(t) PROVE <1>4!1
  <2>1. CASE Evict(t)
    BY <1>1, <1>2, <2>1, EvictTyped DEF Evict, SessionsType
  <2>2. CASE Sync(t) \/ Sweep(t) \/ Trim(t) \/ Decide(t) \/ Clear(t) \/ Extras(t) \/ Shed(t)
             \/ LadderLevel(t) \/ RemoveLevel(t) \/ DropLevel(t)
    <3>1. Keeps
      BY <2>2 DEF Sync, Sweep, Trim, Decide, Clear, Extras, Shed, LadderLevel, RemoveLevel, DropLevel
    <3>2. TasksRight(mode)' /\ SessionsType'
      BY <1>1, <2>2, SyncTyped, SweepTyped, TrimTyped, DecideTyped, ClearTyped, ExtrasTyped, ShedTyped,
         LadderLevelTyped, DropsTyped
    <3> QED BY <1>2, <3>1, <3>2 DEF Keeps
  <2>3. CASE Place(t)
    BY <1>1, <1>2, <2>3, PlaceTyped DEF Place
  <2> QED BY <1>8, <2>1, <2>2, <2>3 DEF Run
<1>9. ASSUME NEW t \in Task, Answered(t) PROVE <1>4!1
  <2>1. UNCHANGED <<status, cur, withdrawn>>
    BY <1>9 DEF Answered, Placed, PlaceRefused, PlaceLost, Cancelled, CancelFails
  <2> QED BY <1>1, <1>2, <1>9, <2>1, AnsweredTyped
<1>10. CASE (\E t \in Task : Answers(t)) \/ \E o \in Quotes : VenueFills(o) \/ Poll(o)
  <2>1. VenueOnly
    BY <1>10 DEF Answers, VenueTakes, VenueCancels, VenueFills, Poll
  <2>2. order' \in [Quotes -> OrderType]
    BY <1>1, <1>10, AwayTyped
  <2> QED BY <1>2, <2>1, <2>2 DEF VenueOnly, SessionsType, TasksRight
<1>11. ASSUME NEW o \in Quotes, HearEnd(o) PROVE <1>4!1
  <2>1. UNCHANGED <<status, cur, withdrawn>>
    BY <1>11 DEF HearEnd
  <2> QED BY <1>1, <1>2, <1>11, <2>1, HearEndTyped
<1>12. ASSUME NEW o \in Quotes, HearPartial(o) PROVE <1>4!1
  <2>1. UNCHANGED <<status, order, cur, sessions, withdrawn, races>>
    BY <1>12 DEF HearPartial
  <2> QED BY <1>1, <1>2, <1>12, <2>1, AwayTyped DEF SessionsType
<1>13. CASE MassCancel \/ MassLands \/ MassReturns
  <2>1. /\ UNCHANGED <<status, sessions, withdrawn>> /\ cur' \in {cur, 0}
        /\ races' \subseteq {"refresh", "control", "frame", "fault"}
    BY <1>2, <1>13 DEF MassCancel, MassLands, MassReturns, Notes, Crossing
  <2> QED BY <1>1, <1>2, <1>13, <2>1, MassTyped DEF SessionsType
<1>14. CASE Resume
  BY <1>2, <1>14, ResumeTyped DEF Resume, TasksRight
<1>15. CASE Withdraw
  BY <1>2, <1>15 DEF Withdraw, SessionsType, TasksRight
<1>16. CASE UNCHANGED vars
  BY <1>2, <1>16 DEF vars, SessionsType, TasksRight
<1> QED
  BY <1>5, <1>6, <1>7, <1>8, <1>9, <1>10, <1>11, <1>12, <1>13, <1>14, <1>15, <1>16 DEF Next

LEMMA TypedTypeOK == Typed => TypeOK
<1> SUFFICES ASSUME Typed PROVE TypeOK
  OBVIOUS
<1>1. ASSUME NEW t \in Task
      PROVE  /\ task[t].on \in Session \cup {0} /\ task[t].side \in Side
             /\ task[t].id \in Quotes \cup {0} /\ task[t].px \in 0..MaxPrice
  <2>1. task[t] \in TaskType
    BY DEF Typed, TasksRight, TaskRight
  <2> QED BY <2>1 DEF TaskType
<1>2. ASSUME NEW n \in Session, NEW s \in Side, NEW k \in DOMAIN sessions[n][s]
      PROVE  sessions[n][s][k] \in Level
  <2>1. sessions[n][s] \in Seq(Level)
    BY DEF Typed, SessionsType
  <2> QED BY <1>2, <2>1, ElementOfSeq, LenProperties
<1> QED
  BY <1>1, <1>2 DEF Typed, TypeOK, OrderType

\* What a step of the quote executor reads is always there: the list of the session a refresh
\* works on, the levels of a ladder's plan, an id that is free when an order goes out
\* (quote_executor.py: _sync_side, _sync_ladder, _place_level).
THEOREM TypeCorrect == Spec => []TypeOK
<1>1. Init => Typed
  BY InitTyped
<1>2. Typed /\ [Next]_vars => Typed'
  BY TypedStep
<1>3. Typed => TypeOK
  BY TypedTypeOK
<1> QED
  BY <1>1, <1>2, <1>3, PTL DEF Spec

-----------------------------------------------------------------------------
(* Open orders are working. *)

Posted(o) == \E t \in Task : task[t].pc = "post" /\ task[t].id = o
NewsOfEnds == \A o \in Quotes : order[o].news => order[o].at \in {"filled", "over"}
Unspoilt == races \cap {"control", "fault"} = {}

\* While a mass cancel is on its way nothing else is, and after it nothing is open.
Massing == task["operator"].pc \in {"mass", "massed"}
MassAlone == Massing => \A t \in Task \ {"operator"} : ~Busy(t)
MassedIsClear == task["operator"].pc = "massed" => \A o \in Quotes : order[o].at # "open"
Working == \A o \in Quotes : order[o].at = "open" => order[o].om = "working" \/ Posted(o)
OpenInv == NewsOfEnds /\ (Unspoilt => MassAlone /\ MassedIsClear /\ Working)

\* Only t moves.
Others(t) == \A u \in Task \ {t} : task'[u].pc = task[u].pc /\ task'[u].id = task[u].id

LEMMA BecomesOthers ==
  ASSUME Typed, NEW t \in Task, NEW r, Becomes(t, r)
  PROVE  Others(t) /\ task'[t] = r
BY DEF Typed, TasksRight, Becomes, Others

LEMMA RewriteOthers ==
  ASSUME Typed, NEW t \in Task, NEW L, NEW r, Rewrite(t, L, r)
  PROVE  Others(t)
BY BecomesOthers DEF Rewrite

LEMMA RebindOthers ==
  ASSUME Typed, NEW t \in Task, NEW L, NEW r, Rebind(t, L, r)
  PROVE  Others(t) /\ task'[t] = r
<1>1. \A u \in Task : task[u] \in TaskType
  BY DEF Typed, TasksRight, TaskRight
<1>2. task'[t] = r
  BY DEF Rebind
<1>3. ASSUME NEW u \in Task, u # t
      PROVE  task'[u].pc = task[u].pc /\ task'[u].id = task[u].id
  <2>1. PICK own : task'[u] \in {task[u], [task[u] EXCEPT !.mine = TRUE, !.own = own]}
    BY <1>3 DEF Rebind
  <2>2. [task[u] EXCEPT !.mine = TRUE, !.own = own].pc = task[u].pc
        /\ [task[u] EXCEPT !.mine = TRUE, !.own = own].id = task[u].id
    BY <1>1 DEF TaskType
  <2> QED BY <2>1, <2>2
<1> QED
  BY <1>2, <1>3 DEF Others

\* A step of a refresh, or of a withdrawal, up to its next await.
LEMMA RunOthers ==
  ASSUME Typed, NEW t \in Task, Run(t)
  PROVE  /\ Others(t) /\ Busy(t) /\ task[t].pc # "post"
         /\ t = "operator" => task'[t].pc \notin {"mass", "massed"}
<1>1. CASE Evict(t)
  <2>1. task[t].pc = "evict"
    BY <1>1 DEF Evict, Runs
  <2>2. task[t] \in TaskType
    BY DEF Typed, TasksRight, TaskRight
  <2>3. PICK r : Becomes(t, r) /\ r.pc \in {"idle", "evict", "cancel"}
    <3>1. CASE task[t].todo = <<>>
      <4>1. Becomes(t, IdleTask)
        BY <1>1, <3>1 DEF Evict
      <4>2. IdleTask.pc = "idle"
        BY DEF IdleTask
      <4> QED BY <4>1, <4>2
    <3>2. CASE task[t].todo # <<>>
      <4>1. PICK k, o : k = [task[t] EXCEPT !.todo = Tail(@)] /\ Becomes(t, CancelThen(t, o, k))
        BY <1>1, <3>2 DEF Evict
      <4>2. k.pc = "evict" /\ [k EXCEPT !.pc = "cancel", !.id = o, !.then = k.pc].pc = "cancel"
        BY <2>1, <2>2, <4>1 DEF TaskType
      <4> QED BY <4>1, <4>2 DEF CancelThen
    <3> QED BY <3>1, <3>2
  <2> QED BY <2>1, <2>3, BecomesOthers DEF Busy
<1>2. CASE ~Evict(t)
  <2>1. task[t].pc \in Refreshing /\ task[t].pc # "post"
    BY <1>2 DEF Run, Sync, Sweep, Trim, Decide, Clear, Extras, Shed, LadderLevel, RemoveLevel, DropLevel,
                Place, Runs, Refreshing
  <2>2. t # "operator" /\ Busy(t)
    BY <2>1, RunsRefresh DEF Busy, Refreshing
  <2>3. \/ \E r : Becomes(t, r)
        \/ \E L, r : Rewrite(t, L, r)
        \/ \E L, r : Rebind(t, L, r)
    <3>1. CASE Sync(t)
      BY <3>1, Zenon DEF Sync
    <3>2. CASE Sweep(t)
      BY <3>2, Zenon DEF Sweep
    <3>3. CASE Trim(t)
      BY <3>3, Zenon DEF Trim
    <3>4. CASE Decide(t)
      BY <3>4, Zenon DEF Decide
    <3>5. CASE Clear(t)
      BY <3>5, Zenon DEF Clear
    <3>6. CASE Extras(t)
      BY <3>6, Zenon DEF Extras
    <3>7. CASE Shed(t)
      BY <3>7, Zenon DEF Shed, TakeOff
    <3>8. CASE LadderLevel(t)
      BY <3>8, Zenon DEF LadderLevel
    <3>9. CASE RemoveLevel(t)
      BY <3>9, Zenon DEF RemoveLevel, TakeOff
    <3>10. CASE DropLevel(t)
      BY <3>10, Zenon DEF DropLevel, TakeOff
    <3>11. CASE Place(t)
      BY <3>11, Zenon DEF Place
    <3> QED BY <1>2, <3>1, <3>2, <3>3, <3>4, <3>5, <3>6, <3>7, <3>8, <3>9, <3>10, <3>11 DEF Run
  <2> QED BY <2>1, <2>2, <2>3, BecomesOthers, RewriteOthers, RebindOthers
<1> QED
  BY <1>1, <1>2

\* No order becomes open, or forgotten while it is.
OrdersCalm ==
  \A o \in Quotes :
    /\ order'[o].at = "open" => order[o].at = "open" /\ order'[o].om = order[o].om
    /\ order'[o].news => order[o].news /\ order'[o].at = order[o].at

LEMMA MoveKeepsOpen ==
  ASSUME Typed, OpenInv, NEW t \in Task, Others(t), task[t].pc # "post", OrdersCalm, races \subseteq races',
         t # "operator" /\ Unspoilt' => ~Massing \/ ~Busy(t)',
         t = "operator" => ~Massing'
  PROVE  OpenInv'
<1>1. NewsOfEnds'
  BY DEF OpenInv, NewsOfEnds, OrdersCalm
<1>2. ASSUME Unspoilt' PROVE MassAlone' /\ MassedIsClear' /\ Working'
  <2>1. MassAlone /\ MassedIsClear /\ Working
    BY <1>2 DEF OpenInv, Unspoilt
  <2>2. \A u \in Task : u # t => task'[u].pc = task[u].pc /\ task'[u].id = task[u].id
    BY DEF Others
  <2>3. Working'
    <3>1. \A o \in Quotes : Posted(o) => Posted(o)'
      BY <2>2 DEF Posted
    <3> QED BY <2>1, <3>1 DEF Working, OrdersCalm
  <2>4. CASE t = "operator"
    BY <2>3, <2>4 DEF MassAlone, MassedIsClear, Massing
  <2>5. CASE t # "operator"
    <3>1. task'["operator"].pc = task["operator"].pc
      BY <2>2, <2>5 DEF Task
    <3>2. MassAlone'
      BY <1>2, <2>1, <2>2, <2>5, <3>1 DEF MassAlone, Massing, Busy
    <3>3. MassedIsClear'
      BY <2>1, <3>1 DEF MassedIsClear, OrdersCalm
    <3> QED BY <2>3, <3>2, <3>3
  <2> QED BY <2>4, <2>5
<1> QED
  BY <1>1, <1>2 DEF OpenInv

LEMMA PlaceCalm ==
  ASSUME Typed, NEW t \in Task, Place(t)
  PROVE  OrdersCalm
<1>1. order \in [Quotes -> OrderType]
  BY DEF Typed
<1>2. CASE UNCHANGED order
  BY <1>2 DEF OrdersCalm
<1>3. CASE ~UNCHANGED order
  <2>1. PICK o, px : order' = [order EXCEPT ![o] = [at |-> "sent", om |-> "working", side |-> task[t].side,
                                                    px |-> px, news |-> FALSE]]
    BY <1>3, Zenon DEF Place
  <2> QED BY <1>1, <2>1 DEF OrdersCalm
<1> QED
  BY <1>2, <1>3

\* A control operation that crosses another task, or is crossed by it, is noted.
LEMMA CrossingControls ==
  ASSUME NEW t \in Task, NEW kind, NEW u \in Task, u # t, Busy(u), Notes(Crossing(t, kind)),
         kind = "control" \/ task[u].pc \in {"mass", "massed"}
  PROVE  ~Unspoilt'
<1>1. "control" \in Crossing(t, kind)
  BY DEF Crossing
<1> QED
  BY <1>1 DEF Notes, Unspoilt

LEMMA StartKeepsOpen ==
  ASSUME Typed, OpenInv, NEW t \in Task, StartRefresh(t) \/ StartEvict(t)
  PROVE  OpenInv'
<1>1. PICK r, kind : Becomes(t, r) /\ r.pc \in {"sync", "evict"} /\ Notes(Crossing(t, kind)) /\ UNCHANGED order
  <2>1. CASE StartRefresh(t)
    <3>1. PICK n, w, k : Becomes(t, [IdleTask EXCEPT !.pc = "sync", !.on = n, !.want = w, !.take = k])
      BY <2>1, Zenon DEF StartRefresh
    <3>2. [IdleTask EXCEPT !.pc = "sync", !.on = n, !.want = w, !.take = k].pc = "sync"
      BY DEF IdleTask
    <3> QED BY <2>1, <3>1, <3>2 DEF StartRefresh
  <2>2. CASE StartEvict(t)
    <3>1. PICK k : Becomes(t, [IdleTask EXCEPT !.pc = "evict", !.todo = k])
      BY <2>2, Zenon DEF StartEvict
    <3>2. [IdleTask EXCEPT !.pc = "evict", !.todo = k].pc = "evict"
      BY DEF IdleTask
    <3> QED BY <2>2, <3>1, <3>2 DEF StartEvict
  <2> QED BY <2>1, <2>2
<1>2. Others(t) /\ task'[t] = r
  BY <1>1, BecomesOthers
<1>3. task[t].pc \in {"idle", "filled"}
  BY DEF StartRefresh, StartEvict, MayRefresh
<1>4. OrdersCalm /\ races \subseteq races'
  BY <1>1 DEF OrdersCalm, Notes
<1>5. t # "operator" /\ Unspoilt' => ~Massing
  <2>1. SUFFICES ASSUME t # "operator", Massing PROVE ~Unspoilt'
    OBVIOUS
  <2>2. Busy("operator") /\ "operator" \in Task
    BY <2>1 DEF Massing, Busy, Task
  <2> QED BY <1>1, <2>1, <2>2, CrossingControls DEF Massing
<1>6. t = "operator" => ~Massing'
  BY <1>1, <1>2 DEF Massing
<1> QED
  BY <1>2, <1>3, <1>4, <1>5, <1>6, MoveKeepsOpen

LEMMA RunKeepsOpen ==
  ASSUME Typed, OpenInv, NEW t \in Task, Run(t)
  PROVE  OpenInv'
<1>1. Others(t) /\ Busy(t) /\ task[t].pc # "post" /\ (t = "operator" => task'[t].pc \notin {"mass", "massed"})
  BY RunOthers
<1>2. UNCHANGED races /\ OrdersCalm
  <2>1. CASE Place(t)
    BY <2>1, PlaceCalm DEF Place
  <2>2. CASE ~Place(t)
    <3>1. UNCHANGED <<races, order>>
      BY <2>2 DEF Run, Evict, Sync, Sweep, Trim, Decide, Clear, Extras, Shed, LadderLevel, RemoveLevel,
                  DropLevel, Keeps
    <3> QED BY <3>1 DEF OrdersCalm
  <2> QED BY <2>1, <2>2
<1>3. t # "operator" /\ Unspoilt' => ~Massing
  BY <1>1, <1>2 DEF OpenInv, Unspoilt, MassAlone
<1> QED
  BY <1>1, <1>2, <1>3, MoveKeepsOpen DEF Massing

LEMMA AnsweredKeepsOpen ==
  ASSUME Typed, OpenInv, NEW t \in Task, Answered(t)
  PROVE  OpenInv'
<1> DEFINE me == task[t]
<1>1. /\ order \in [Quotes -> OrderType] /\ TaskRight(setup.mode, me) /\ me \in TaskType
      /\ (t = "operator" => me.on = 0)
  BY DEF Typed, TasksRight, TaskRight
<1>2. CASE Cancelled(t) \/ CancelFails(t)
  <2>1. PICK r : r = [me EXCEPT !.pc = me.then, !.then = "", !.id = 0]
    OBVIOUS
  <2>2. me.pc = "cancel" /\ UNCHANGED order /\ Becomes(t, r) /\ races \subseteq races'
    BY <1>2, <2>1 DEF Cancelled, CancelFails, Notes
  <2>3. r.pc = me.then
    BY <1>1, <2>1 DEF TaskType
  <2>4. Others(t) /\ task'[t] = r
    BY <2>2, BecomesOthers
  <2>5. me.then \notin {"mass", "massed"} /\ Busy(t)
    BY <1>1, <2>2 DEF TaskType, Refreshing, Busy
  <2>6. t # "operator" /\ Unspoilt' => ~Massing
    BY <2>2, <2>5 DEF OpenInv, Unspoilt, MassAlone
  <2>7. t = "operator" => ~Massing'
    BY <2>3, <2>4, <2>5 DEF Massing
  <2> QED BY <2>2, <2>4, <2>6, <2>7, MoveKeepsOpen DEF OrdersCalm
<1>3. CASE Placed(t) \/ PlaceRefused(t) \/ PlaceLost(t)
  <2>1. me.pc = "post" /\ me.id \in Quotes /\ t # "operator" /\ Busy(t)
    <3>1. me.pc = "post"
      BY <1>3 DEF Placed, PlaceRefused, PlaceLost
    <3> QED BY <1>1, <3>1, RunsRefresh DEF TaskRight, Refreshing, Busy
  <2>2. Others(t)
    BY <1>3, BecomesOthers, RewriteOthers, RebindOthers
    DEF Placed, PlaceRefused, PlaceLost, Bind
  <2>3. PICK om \in {"working", "done"} :
          /\ order' = [order EXCEPT ![me.id].om = om]
          /\ om = "done" /\ Unspoilt' => order[me.id].at = "refused"
    <3>1. CASE Placed(t)
      BY <3>1 DEF Placed
    <3>2. CASE PlaceRefused(t)
      BY <3>2 DEF PlaceRefused
    <3>3. CASE PlaceLost(t)
      BY <3>3 DEF PlaceLost, Notes, Unspoilt
    <3> QED BY <1>3, <3>1, <3>2, <3>3
  <2>4. races \subseteq races'
    BY <1>3 DEF Placed, PlaceRefused, PlaceLost, Notes
  <2>5. \A o \in Quotes : /\ order'[o].at = order[o].at /\ order'[o].news = order[o].news
                          /\ o # me.id => order'[o].om = order[o].om
                          /\ o = me.id => order'[o].om = om
    BY <1>1, <2>1, <2>3 DEF OrderType
  <2>6. NewsOfEnds'
    BY <2>5 DEF OpenInv, NewsOfEnds
  <2>7. ASSUME Unspoilt' PROVE MassAlone' /\ MassedIsClear' /\ Working'
    <3>1. MassAlone /\ MassedIsClear /\ Working
      BY <2>4, <2>7 DEF OpenInv, Unspoilt
    <3>2. ~Massing
      BY <2>1, <3>1 DEF MassAlone
    <3>3. task'["operator"].pc = task["operator"].pc
      BY <2>1, <2>2 DEF Others, Task
    <3>4. MassAlone' /\ MassedIsClear'
      BY <3>2, <3>3 DEF MassAlone, MassedIsClear, Massing
    <3>5. ASSUME NEW o \in Quotes, order'[o].at = "open"
          PROVE  order'[o].om = "working" \/ Posted(o)'
      <4>1. CASE o = me.id
        BY <2>3, <2>5, <2>7, <3>5, <4>1
      <4>2. CASE o # me.id
        <5>1. order[o].om = "working" \/ Posted(o)
          BY <2>5, <3>1, <3>5 DEF Working
        <5>2. Posted(o) => Posted(o)'
          BY <2>2, <4>2 DEF Posted, Others
        <5> QED BY <2>5, <4>2, <5>1, <5>2
      <4> QED BY <4>1, <4>2
    <3> QED BY <3>4, <3>5 DEF Working
  <2> QED BY <2>6, <2>7 DEF OpenInv
<1> QED
  BY <1>2, <1>3 DEF Answered

LEMMA VenueKeepsOpen ==
  ASSUME Typed, OpenInv,
         \/ \E t \in Task : Answers(t)
         \/ \E o \in Quotes : VenueFills(o) \/ Poll(o)
  PROVE  OpenInv'
<1>1. order \in [Quotes -> OrderType] /\ \A t \in Task : TaskRight(setup.mode, task[t])
  BY DEF Typed, TasksRight
<1>2. UNCHANGED <<task, races>>
  BY DEF Answers, VenueTakes, VenueCancels, VenueFills, Poll, VenueOnly
<1>3. CASE \E t \in Task : VenueTakes(t)
  <2>1. PICK t \in Task : VenueTakes(t)
    BY <1>3
  <2>2. PICK o : o = task[t].id
    OBVIOUS
  <2>3. task[t].pc = "post" /\ o \in Quotes /\ order[o].at = "sent" /\ ~order[o].news
    BY <1>1, <2>1, <2>2 DEF VenueTakes, TaskRight, OpenInv, NewsOfEnds
  <2>4. \A p \in Quotes : p # o => order'[p] = order[p]
    BY <1>1, <2>1, <2>2, <2>3 DEF VenueTakes, Ends
  <2>5. order'[o].news => order'[o].at \in {"filled", "over"}
    <3>1. CASE order' = [order EXCEPT ![o].at = "refused"] \/ order' = [order EXCEPT ![o].at = "open"]
      BY <1>1, <2>3, <3>1 DEF OrderType
    <3>2. CASE \E at \in {"filled", "over"} : order' = Ends(o, at)
      BY <1>1, <2>3, <3>2 DEF OrderType, Ends
    <3> QED BY <2>1, <2>2, <3>1, <3>2 DEF VenueTakes
  <2>6. NewsOfEnds'
    BY <2>4, <2>5 DEF OpenInv, NewsOfEnds
  <2>7. ASSUME Unspoilt' PROVE MassAlone' /\ MassedIsClear' /\ Working'
    <3>1. MassAlone /\ MassedIsClear /\ Working
      BY <1>2, <2>7 DEF OpenInv, Unspoilt
    <3>2. t # "operator" /\ Busy(t)
      <4>1. t # "operator"
        BY <2>3, RunsRefresh DEF Refreshing
      <4> QED BY <2>3, <4>1 DEF Busy
    <3>3. ~Massing
      BY <3>1, <3>2 DEF MassAlone
    <3>4. MassAlone' /\ MassedIsClear'
      BY <1>2, <3>3 DEF MassAlone, MassedIsClear, Massing
    <3>5. Working'
      BY <1>2, <2>2, <2>3, <2>4, <3>1 DEF Working, Posted
    <3> QED BY <3>4, <3>5
  <2> QED BY <2>6, <2>7 DEF OpenInv
<1>4. CASE ~\E t \in Task : VenueTakes(t)
  <2>1. PICK o \in Quotes : \/ /\ order[o].at = "open"
                               /\ \E at \in {"filled", "over"} : order' = Ends(o, at)
                            \/ /\ order[o].at \in {"filled", "over"}
                               /\ order' = [order EXCEPT ![o].om = "done"]
    BY <1>1, <1>4 DEF Answers, VenueCancels, VenueFills, Poll, TaskRight
  <2>2. \A p \in Quotes : p # o => order'[p] = order[p]
    BY <1>1, <2>1 DEF Ends
  <2>3. order'[o].at \in {"filled", "over"}
    BY <1>1, <2>1 DEF OrderType, Ends
  <2>4. NewsOfEnds'
    BY <2>2, <2>3 DEF OpenInv, NewsOfEnds
  <2>5. ASSUME Unspoilt' PROVE MassAlone' /\ MassedIsClear' /\ Working'
    <3>1. MassAlone /\ MassedIsClear /\ Working
      BY <1>2, <2>5 DEF OpenInv, Unspoilt
    <3>2. MassAlone' /\ MassedIsClear'
      BY <1>2, <2>2, <2>3, <3>1 DEF MassAlone, MassedIsClear, Massing, Busy
    <3>3. Working'
      BY <1>2, <2>2, <2>3, <3>1 DEF Working, Posted
    <3> QED BY <3>2, <3>3
  <2> QED BY <2>4, <2>5 DEF OpenInv
<1> QED
  BY <1>3, <1>4

LEMMA HearKeepsOpen ==
  ASSUME Typed, OpenInv, NEW o \in Quotes, HearEnd(o) \/ HearPartial(o)
  PROVE  OpenInv'
<1>1. order \in [Quotes -> OrderType] /\ "user" \in Task /\ task["user"].pc = "idle"
  BY DEF Typed, Task, HearEnd, HearPartial
<1>2. Others("user") /\ task'["user"].pc \in {"idle", "filled"}
  <2>1. CASE UNCHANGED task
    BY <1>1, <2>1 DEF Others
  <2>2. CASE Becomes("user", [IdleTask EXCEPT !.pc = "filled"])
    <3>1. [IdleTask EXCEPT !.pc = "filled"].pc = "filled"
      BY DEF IdleTask
    <3> QED BY <1>1, <2>2, <3>1, BecomesOthers
  <2> QED BY <2>1, <2>2 DEF HearEnd, HearPartial
<1>3. OrdersCalm
  <2>1. CASE HearPartial(o)
    BY <2>1 DEF HearPartial, OrdersCalm
  <2>2. CASE HearEnd(o)
    <3>1. order' = [order EXCEPT ![o].news = FALSE, ![o].om = "done"] /\ order[o].news
      BY <2>2 DEF HearEnd
    <3>2. order[o].at # "open"
      BY <3>1 DEF OpenInv, NewsOfEnds
    <3>3. /\ \A p \in Quotes : p # o => order'[p] = order[p]
          /\ order'[o].at = order[o].at /\ order'[o].news = FALSE
      BY <1>1, <3>1 DEF OrderType
    <3> QED BY <3>2, <3>3 DEF OrdersCalm
  <2> QED BY <2>1, <2>2
<1>4. races \subseteq races'
  BY DEF HearEnd, HearPartial, Notes
<1>5. ~Busy("user")'
  BY <1>2 DEF Busy
<1> QED
  BY <1>1, <1>2, <1>3, <1>4, <1>5, MoveKeepsOpen

LEMMA MassKeepsOpen ==
  ASSUME Typed, OpenInv, MassCancel \/ MassLands \/ MassReturns
  PROVE  OpenInv'
<1>1. order \in [Quotes -> OrderType] /\ "operator" \in Task
  BY DEF Typed, Task
<1>2. PICK me : me = task["operator"]
  OBVIOUS
<1>3. me \in TaskType
  BY <1>1, <1>2 DEF Typed, TasksRight, TaskRight
<1>4. CASE MassCancel
  <2>1. me.pc = "idle" /\ UNCHANGED order /\ Notes(Crossing("operator", "control"))
        /\ Becomes("operator", [IdleTask EXCEPT !.pc = "mass"])
    BY <1>2, <1>4 DEF MassCancel
  <2>2. Others("operator") /\ task'["operator"].pc = "mass"
    <3>1. [IdleTask EXCEPT !.pc = "mass"].pc = "mass"
      BY DEF IdleTask
    <3> QED BY <1>1, <2>1, <3>1, BecomesOthers
  <2>3. NewsOfEnds'
    BY <2>1 DEF OpenInv, NewsOfEnds
  <2>4. ASSUME Unspoilt' PROVE MassAlone' /\ MassedIsClear' /\ Working'
    <3>1. Unspoilt
      BY <2>1, <2>4 DEF Unspoilt, Notes
    <3>2. MassAlone'
      <4>1. \A u \in Task \ {"operator"} : ~Busy(u)
        BY <1>1, <2>1, <2>4, CrossingControls
      <4> QED BY <2>2, <4>1 DEF MassAlone, Others, Busy
    <3>3. Working'
      <4>1. \A p \in Quotes : Posted(p) => Posted(p)'
        BY <1>2, <2>1, <2>2 DEF Posted, Others
      <4> QED BY <2>1, <3>1, <4>1 DEF OpenInv, Working
    <3> QED BY <2>2, <3>2, <3>3 DEF MassedIsClear
  <2> QED BY <2>3, <2>4 DEF OpenInv
<1>5. CASE MassLands
  <2>1. me.pc = "mass" /\ UNCHANGED races /\ Becomes("operator", [me EXCEPT !.pc = "massed"])
        /\ order' = [o \in Quotes |-> IF order[o].at = "open"
                                      THEN [order[o] EXCEPT !.at = "over", !.news = TRUE] ELSE order[o]]
    BY <1>2, <1>5 DEF MassLands
  <2>2. Others("operator") /\ task'["operator"].pc = "massed"
    <3>1. [me EXCEPT !.pc = "massed"].pc = "massed"
      BY <1>3 DEF TaskType
    <3> QED BY <1>1, <2>1, <3>1, BecomesOthers
  <2>3. \A o \in Quotes : order'[o].at # "open" /\ (order'[o] = order[o] \/ order'[o].at = "over")
    <3>1. \A e \in OrderType : [e EXCEPT !.at = "over", !.news = TRUE].at = "over"
      BY DEF OrderType
    <3> QED BY <1>1, <2>1, <3>1
  <2>4. NewsOfEnds'
    BY <2>3 DEF OpenInv, NewsOfEnds
  <2>5. Unspoilt' => MassAlone'
    BY <1>2, <2>1, <2>2 DEF OpenInv, Unspoilt, MassAlone, Massing, Others, Busy
  <2> QED BY <2>3, <2>4, <2>5 DEF OpenInv, MassedIsClear, Working
<1>6. CASE MassReturns
  <2>1. /\ me.pc \in {"mass", "massed"} /\ Becomes("operator", IdleTask)
        /\ order' = [o \in Quotes |-> IF order[o].om = "working" THEN [order[o] EXCEPT !.om = "done"] ELSE order[o]]
        /\ races \subseteq races' /\ (me.pc = "mass" => ~Unspoilt')
    BY <1>2, <1>6 DEF MassReturns, Notes, Unspoilt
  <2>2. Others("operator") /\ task'["operator"].pc = "idle"
    <3>1. IdleTask.pc = "idle"
      BY DEF IdleTask
    <3> QED BY <1>1, <2>1, <3>1, BecomesOthers
  <2>3. \A o \in Quotes : order'[o].at = order[o].at /\ order'[o].news = order[o].news
    <3>1. \A e \in OrderType : [e EXCEPT !.om = "done"].at = e.at /\ [e EXCEPT !.om = "done"].news = e.news
      BY DEF OrderType
    <3> QED BY <1>1, <2>1, <3>1
  <2>4. NewsOfEnds'
    BY <2>3 DEF OpenInv, NewsOfEnds
  <2>5. ASSUME Unspoilt' PROVE \A o \in Quotes : order'[o].at # "open"
    <3>1. me.pc = "massed" /\ Unspoilt
      BY <2>1, <2>5 DEF Unspoilt
    <3> QED BY <1>2, <2>3, <3>1 DEF OpenInv, MassedIsClear
  <2> QED BY <2>2, <2>4, <2>5 DEF OpenInv, MassAlone, Massing, MassedIsClear, Working
<1> QED
  BY <1>4, <1>5, <1>6

LEMMA OpenStep == Typed /\ OpenInv /\ [Next]_vars => OpenInv'
<1> SUFFICES ASSUME Typed, OpenInv, [Next]_vars PROVE OpenInv'
  OBVIOUS
<1>1. CASE Collect
  <2>1. UNCHANGED <<task, races>> /\ \A o \in Quotes : order'[o] \in {order[o], NoOrder}
    BY <1>1 DEF Collect
  <2>2. OrdersCalm
    BY <2>1 DEF OrdersCalm, NoOrder
  <2>3. Working => Working'
    BY <2>1, <2>2 DEF Working, OrdersCalm, Posted
  <2> QED BY <2>1, <2>2, <2>3 DEF OpenInv, NewsOfEnds, OrdersCalm, Unspoilt, MassAlone, Massing, MassedIsClear, Busy
<1>2. CASE Resume \/ Withdraw \/ UNCHANGED vars
  <2>1. UNCHANGED <<task, races, order>>
    BY <1>2 DEF Resume, Withdraw, vars
  <2> QED BY <2>1 DEF OpenInv, NewsOfEnds, Unspoilt, MassAlone, Massing, MassedIsClear, Busy, Working, Posted
<1> QED
  BY <1>1, <1>2, StartKeepsOpen, RunKeepsOpen, AnsweredKeepsOpen, VenueKeepsOpen, HearKeepsOpen, MassKeepsOpen
  DEF Next

LEMMA InitOpen == Init => Typed /\ OpenInv
<1>1. ASSUME Init PROVE OpenInv
  <2>1. IdleTask.pc = "idle" /\ NoOrder.at = "none" /\ NoOrder.news = FALSE
    BY DEF IdleTask, NoOrder
  <2>2. task["operator"].pc = "idle" /\ \A o \in Quotes : order[o].at = "none" /\ ~order[o].news
    BY <1>1, <2>1 DEF Init, Task
  <2> QED BY <2>2 DEF OpenInv, NewsOfEnds, MassAlone, Massing, MassedIsClear, Working
<1> QED
  BY <1>1, InitTyped

\* An order that is open at the venue is one the order manager counts as working, or awaits the
\* reply for, unless a control operation crossed a refresh or a call failed: a mass cancel and the
\* reconciler know of it (order_manager.py submit_child, engine.py mark_working_cancelled).
THEOREM OpenOrdersWork == Spec => []OpenIsWorking
<1>1. Init => Typed /\ OpenInv
  BY InitOpen
<1>2. Typed /\ OpenInv /\ [Next]_vars => (Typed /\ OpenInv)'
  BY TypedStep, OpenStep
<1>3. Typed /\ OpenInv => OpenIsWorking
  BY DEF OpenInv, OpenIsWorking, Unspoilt, Working, Posted
<1> QED
  BY <1>1, <1>2, <1>3, PTL DEF Spec

-----------------------------------------------------------------------------
(* The last level of an index. *)

\* q is in L, and no level after it has its index: the ladder goes by it (ByIndex).
Topmost(L, q) ==
  \E j \in DOMAIN L : L[j] = q /\ \A m \in DOMAIN L : m > j => L[m].idx # q.idx

LEMMA TopAppend ==
  ASSUME NEW L \in Seq(Level), NEW q \in Level, NEW e \in Level
  PROVE  /\ Topmost(Append(L, q), q)
         /\ Topmost(L, q) /\ e.idx # q.idx => Topmost(Append(L, e), q)
<1>1. Len(L) \in Nat /\ DOMAIN L = 1..Len(L)
  BY LenProperties
<1>2. \A x \in Level : /\ DOMAIN Append(L, x) = 1..Len(L) + 1 /\ Append(L, x)[Len(L) + 1] = x
                       /\ \A i \in 1..Len(L) : Append(L, x)[i] = L[i]
  BY AppendProperties, <1>1
<1>3. Topmost(Append(L, q), q)
  <2>1. Len(L) + 1 \in DOMAIN Append(L, q) /\ \A m \in DOMAIN Append(L, q) : ~(m > Len(L) + 1)
    BY <1>1, <1>2
  <2> QED BY <1>2, <2>1 DEF Topmost
<1>4. ASSUME Topmost(L, q), e.idx # q.idx
      PROVE  Topmost(Append(L, e), q)
  <2>1. PICK j \in 1..Len(L) : L[j] = q /\ \A m \in 1..Len(L) : m > j => L[m].idx # q.idx
    BY <1>1, <1>4 DEF Topmost
  <2>2. j \in 1..Len(L) + 1 /\ Append(L, e)[j] = q
    BY <1>1, <1>2, <2>1
  <2>3. ASSUME NEW m \in 1..Len(L) + 1, m > j
        PROVE  Append(L, e)[m].idx # q.idx
    <3>1. CASE m = Len(L) + 1
      BY <1>2, <1>4, <3>1
    <3>2. CASE m # Len(L) + 1
      <4>1. m \in 1..Len(L)
        BY <1>1, <3>2
      <4> QED BY <1>2, <2>1, <2>3, <4>1
    <3> QED BY <3>1, <3>2
  <2> QED BY <1>2, <2>2, <2>3 DEF Topmost
<1> QED
  BY <1>3, <1>4

LEMMA TopOne ==
  ASSUME NEW L \in Seq(Level), NEW p, NEW q, Topmost(L, p), Topmost(L, q), p.idx = q.idx
  PROVE  p = q
<1>1. Len(L) \in Nat /\ DOMAIN L = 1..Len(L)
  BY LenProperties
<1>2. PICK j \in 1..Len(L) : L[j] = p /\ \A m \in 1..Len(L) : m > j => L[m].idx # p.idx
  BY <1>1 DEF Topmost
<1>3. PICK k \in 1..Len(L) : L[k] = q /\ \A m \in 1..Len(L) : m > k => L[m].idx # q.idx
  BY <1>1 DEF Topmost
<1>4. ~(k > j) /\ ~(j > k)
  BY <1>2, <1>3
<1>5. k = j
  BY <1>1, <1>4
<1> QED
  BY <1>2, <1>3, <1>5

LEMMA TopMember ==
  ASSUME NEW L, NEW q, Topmost(L, q)
  PROVE  q \in ToSet(L) /\ L # <<>> /\ q.id \in Ids(L)
BY DEF Topmost, ToSet, Ids

LEMMA TopOnly ==
  ASSUME NEW L \in Seq(Level), NEW q \in Level, NEW S, q \in S, Topmost(L, q)
  PROVE  Topmost(Only(L, S), q)
<1>1. Len(L) \in Nat /\ DOMAIN L = 1..Len(L)
  BY LenProperties
<1>2. PICK j \in 1..Len(L) : L[j] = q /\ \A m \in 1..Len(L) : m > j => L[m].idx # q.idx
  BY <1>1 DEF Topmost
<1>3. PICK f : /\ Only(L, S) = f[Len(L)]
               /\ f[0] = <<>>
               /\ \A k \in 1..Len(L) :
                    f[k] = IF L[k] \in S THEN Append(f[k - 1], L[k]) ELSE f[k - 1]
  BY OnlyUpto
<1>4. \A k \in 1..Len(L) : L[k] \in Level
  BY ElementOfSeq
<1> DEFINE Right(n) == f[n] \in Seq(Level) /\ (n >= j => Topmost(f[n], q))
<1> DEFINE Bad == {n \in 0..Len(L) : ~Right(n)}
<1>5. Bad = {}
  <2>1. SUFFICES ASSUME Bad # {} PROVE FALSE
    OBVIOUS
  <2>2. PICK m \in Bad : \A n \in Bad : m <= n
    <3>1. Bad \subseteq Nat
      BY <1>1
    <3> HIDE DEF Bad
    <3> QED BY <2>1, <3>1, Least
  <2>3. m # 0
    <3>1. Right(0)
      BY <1>1, <1>3
    <3> QED BY <2>2, <3>1
  <2>4. m \in 1..Len(L) /\ m - 1 \in 0..Len(L)
    BY <1>1, <2>2, <2>3
  <2>5. Right(m - 1)
    <3>1. m - 1 \notin Bad
      <4> HIDE DEF Bad
      <4>1. ~(m <= m - 1)
        BY <2>4
      <4> QED BY <2>2, <4>1
    <3> QED BY <2>4, <3>1
  <2>6. f[m] = IF L[m] \in S THEN Append(f[m - 1], L[m]) ELSE f[m - 1]
    BY <1>3, <2>4
  <2>7. PICK g, e : g = f[m - 1] /\ e = L[m] /\ g \in Seq(Level) /\ e \in Level
    BY <1>4, <2>4, <2>5
  <2>8. f[m] \in Seq(Level)
    <3>1. Append(g, e) \in Seq(Level)
      BY <2>7
    <3> QED BY <2>6, <2>7, <3>1
  <2>9. ASSUME m >= j PROVE Topmost(f[m], q)
    <3>1. CASE m = j
      <4>1. e = q /\ f[m] = Append(g, q)
        BY <1>2, <2>6, <2>7, <3>1
      <4> QED BY <2>7, <4>1, TopAppend
    <3>2. CASE m # j
      <4>1. m > j /\ m - 1 >= j
        BY <1>1, <2>4, <2>9, <3>2
      <4>2. Topmost(g, q) /\ e.idx # q.idx
        BY <1>2, <2>4, <2>5, <2>7, <4>1
      <4>3. Topmost(Append(g, e), q)
        BY <2>7, <4>2, TopAppend
      <4> QED BY <2>6, <2>7, <4>2, <4>3
    <3> QED BY <3>1, <3>2
  <2> QED BY <2>2, <2>8, <2>9
<1>6. Right(Len(L))
  <2>1. Len(L) \in 0..Len(L)
    BY <1>1
  <2> QED BY <1>5, <2>1
<1>7. Len(L) >= j
  BY <1>1
<1> QED
  BY <1>3, <1>6, <1>7

\* What is of one index ends with its topmost level.
LEMMA TopIndex ==
  ASSUME NEW L \in Seq(Level), NEW q \in Level, Topmost(L, q)
  PROVE  OfIndex(L, q.idx) \in Seq(Level) /\ OfIndex(L, q.idx) # <<>> /\ Last(OfIndex(L, q.idx)) = q
<1> DEFINE S == {x \in Level : x.idx = q.idx}
<1>0. Len(L) \in Nat /\ DOMAIN L = 1..Len(L)
  BY LenProperties
<1>1. PICK M : M = Only(L, S)
  OBVIOUS
<1>2. M \in Seq(Level) /\ ToSet(M) = ToSet(L) \cap S /\ M = OfIndex(L, q.idx)
  BY <1>1, OnlyKeeps DEF OfIndex
<1>3. Topmost(M, q)
  BY <1>1, TopOnly
<1>4. Len(M) \in Nat /\ DOMAIN M = 1..Len(M)
  BY <1>2, LenProperties
<1>5. PICK j \in 1..Len(M) : M[j] = q /\ \A m \in 1..Len(M) : m > j => M[m].idx # q.idx
  BY <1>3, <1>4 DEF Topmost
<1>6. j = Len(M)
  <2>1. SUFFICES ASSUME j # Len(M) PROVE FALSE
    OBVIOUS
  <2>2. Len(M) \in 1..Len(M) /\ Len(M) > j
    <3>1. PICK n : n = Len(M)
      OBVIOUS
    <3>2. n \in Nat /\ j \in 1..n /\ j # n
      BY <1>4, <1>5, <2>1, <3>1
    <3>3. n \in 1..n /\ n > j
      BY <3>2
    <3> QED BY <3>1, <3>3
  <2>3. M[Len(M)] \in ToSet(M)
    BY <1>4, <2>2 DEF ToSet
  <2>4. M[Len(M)].idx = q.idx
    BY <1>2, <2>3
  <2> QED BY <1>5, <2>2, <2>4
<1>7. M # <<>>
  BY <1>3, TopMember
<1> QED
  BY <1>2, <1>5, <1>6, <1>7 DEF Last

\* The ladder's plan has the topmost levels.
LEMMA TopPlan ==
  ASSUME NEW L \in Seq(Level), NEW q \in Level, Topmost(L, q)
  PROVE  ByIndex(L)[q.idx + 1] = q
<1>1. q.idx \in 0..1 /\ q.idx + 1 \in 1..2 /\ (q.idx + 1) - 1 = q.idx
  BY DEF Level, LadderLevels
<1>2. q = [id |-> q.id, idx |-> q.idx]
  BY DEF Level
<1>3. q.id \in Ids(L) /\ [id |-> q.id, idx |-> (q.idx + 1) - 1] \in ToSet(L)
  BY <1>1, <1>2, TopMember
<1>4. ByIndex(L)[q.idx + 1] = Last(OfIndex(L, (q.idx + 1) - 1))
  BY <1>1, <1>3 DEF ByIndex, LadderLevels
<1> QED
  BY <1>1, <1>4, TopIndex

LEMMA TopJoin ==
  ASSUME NEW L \in Seq(Level), NEW q \in Level, Topmost(L, q)
  PROVE  Topmost(OfIndex(L, 0) \o OfIndex(L, 1), q)
<1>1. PICK A, B : A = OfIndex(L, 0) /\ B = OfIndex(L, 1)
  OBVIOUS
<1>2. /\ A \in Seq(Level) /\ B \in Seq(Level)
      /\ (\A x \in ToSet(A) : x.idx = 0) /\ (\A x \in ToSet(B) : x.idx = 1)
  BY <1>1, OnlyKeeps DEF OfIndex
<1>3. PICK C : C = A \o B
  OBVIOUS
<1>4. Len(A) \in Nat /\ Len(B) \in Nat /\ DOMAIN A = 1..Len(A) /\ DOMAIN B = 1..Len(B)
  BY <1>2, LenProperties
<1>5. /\ DOMAIN C = 1..Len(A) + Len(B)
      /\ \A i \in 1..Len(A) + Len(B) : C[i] = IF i <= Len(A) THEN A[i] ELSE B[i - Len(A)]
  <2>1. C \in Seq(Level) /\ Len(C) = Len(A) + Len(B)
        /\ \A i \in 1..Len(A) + Len(B) : C[i] = IF i <= Len(A) THEN A[i] ELSE B[i - Len(A)]
    BY <1>2, <1>3, ConcatProperties
  <2> QED BY <2>1, LenProperties
<1>6. CASE q.idx = 0
  <2>1. A # <<>> /\ Last(A) = q
    BY <1>1, <1>6, TopIndex
  <2>2. Len(A) \in 1..Len(A) + Len(B) /\ C[Len(A)] = q
    <3>1. Len(A) # 0
      BY <1>2, <2>1, EmptySeq
    <3>2. Len(A) \in 1..Len(A) + Len(B) /\ Len(A) <= Len(A)
      BY <1>4, <3>1
    <3> QED BY <1>5, <2>1, <3>2 DEF Last
  <2>3. ASSUME NEW m \in 1..Len(A) + Len(B), m > Len(A)
        PROVE  C[m].idx # 0
    <3>1. m - Len(A) \in 1..Len(B) /\ ~(m <= Len(A))
      BY <1>4, <2>3
    <3>2. C[m] = B[m - Len(A)] /\ B[m - Len(A)] \in ToSet(B)
      BY <1>4, <1>5, <3>1 DEF ToSet
    <3> QED BY <1>2, <3>2
  <2> QED BY <1>1, <1>3, <1>5, <1>6, <2>2, <2>3 DEF Topmost
<1>7. CASE q.idx = 1
  <2>1. B # <<>> /\ Last(B) = q
    BY <1>1, <1>7, TopIndex
  <2>2. PICK n : n = Len(A) + Len(B)
    OBVIOUS
  <2>3. Len(B) # 0
    BY <1>2, <2>1, EmptySeq
  <2>4. n \in 1..n /\ ~(n <= Len(A)) /\ n - Len(A) = Len(B)
    BY <1>4, <2>2, <2>3
  <2>5. C[n] = q
    BY <1>5, <2>1, <2>2, <2>4 DEF Last
  <2>6. \A m \in 1..n : ~(m > n)
    BY <1>4, <2>2
  <2> QED BY <1>1, <1>3, <1>5, <2>2, <2>4, <2>5, <2>6 DEF Topmost
<1> QED
  BY <1>6, <1>7 DEF Level, LadderLevels

LEMMA OnlyAll ==
  ASSUME NEW L \in Seq(Level), NEW S, ToSet(L) \subseteq S
  PROVE  Only(L, S) = L
<1>1. Len(L) \in Nat /\ DOMAIN L = 1..Len(L)
  BY LenProperties
<1>2. PICK f : /\ Only(L, S) = f[Len(L)]
               /\ f[0] = <<>>
               /\ \A k \in 1..Len(L) :
                    f[k] = IF L[k] \in S THEN Append(f[k - 1], L[k]) ELSE f[k - 1]
  BY OnlyUpto
<1>3. \A k \in 1..Len(L) : L[k] \in Level /\ L[k] \in S
  BY <1>1, ElementOfSeq DEF ToSet
<1> DEFINE Right(n) == f[n] \in Seq(Level) /\ Len(f[n]) = n /\ \A i \in 1..n : f[n][i] = L[i]
<1> DEFINE Bad == {n \in 0..Len(L) : ~Right(n)}
<1>5. Bad = {}
  <2>1. SUFFICES ASSUME Bad # {} PROVE FALSE
    OBVIOUS
  <2>2. PICK m \in Bad : \A n \in Bad : m <= n
    <3>1. Bad \subseteq Nat
      BY <1>1
    <3> HIDE DEF Bad
    <3> QED BY <2>1, <3>1, Least
  <2>3. m # 0
    <3>1. Right(0)
      BY <1>1, <1>2
    <3> QED BY <2>2, <3>1
  <2>4. m \in 1..Len(L) /\ m - 1 \in 0..Len(L)
    BY <1>1, <2>2, <2>3
  <2>5. Right(m - 1)
    <3>1. m - 1 \notin Bad
      <4> HIDE DEF Bad
      <4>1. ~(m <= m - 1)
        BY <2>4
      <4> QED BY <2>2, <4>1
    <3> QED BY <2>4, <3>1
  <2>6. PICK g, e : g = f[m - 1] /\ e = L[m]
    OBVIOUS
  <2>7. g \in Seq(Level) /\ e \in Level /\ Len(g) = m - 1 /\ (\A i \in 1..m - 1 : g[i] = L[i]) /\ f[m] = Append(g, e)
    BY <1>2, <1>3, <2>4, <2>5, <2>6
  <2>8. Append(g, e) \in Seq(Level) /\ Len(Append(g, e)) = m
        /\ Append(g, e)[m] = e /\ \A i \in 1..m - 1 : Append(g, e)[i] = g[i]
    BY <2>4, <2>7, AppendProperties
  <2>9. \A i \in 1..m : Append(g, e)[i] = L[i]
    <3>1. \A i \in 1..m : i = m \/ i \in 1..m - 1
      BY <2>4
    <3> QED BY <2>6, <2>7, <2>8, <3>1
  <2>10. Right(m)
    BY <2>7, <2>8, <2>9
  <2> QED BY <2>2, <2>10
<1>6. Right(Len(L))
  <2>1. Len(L) \in 0..Len(L)
    BY <1>1
  <2> QED BY <1>5, <2>1
<1>7. PICK M : M = Only(L, S)
  OBVIOUS
<1>8. M \in Seq(Level) /\ Len(M) = Len(L) /\ \A i \in 1..Len(L) : M[i] = L[i]
  BY <1>2, <1>6, <1>7
<1>9. M = L
  BY <1>8, SeqEqual
<1> QED
  BY <1>7, <1>9

\* R is L without its n-th element.
Without(L, R, n) ==
  /\ DOMAIN R = 1..Len(L) - 1
  /\ \A i \in 1..n - 1 : R[i] = L[i]
  /\ \A i \in n..Len(L) - 1 : R[i] = L[i + 1]

LEMMA RemoveFirstAt ==
  ASSUME NEW E, NEW L \in Seq(E), NEW q, q \in ToSet(L)
  PROVE  /\ RemoveFirst(L, q) \in Seq(E)
         /\ \E n \in 1..Len(L) : L[n] = q /\ Without(L, RemoveFirst(L, q), n)
<1> DEFINE I == {i \in 1..Len(L) : L[i] = q}
<1>1. Len(L) \in Nat /\ DOMAIN L = 1..Len(L)
  BY LenProperties
<1>2. I # {} /\ I \subseteq Nat
  BY <1>1 DEF ToSet
<1>3. PICK n : n = Min(I)
  OBVIOUS
<1>4. n \in 1..Len(L) /\ L[n] = q
  <2>1. Min(I) \in I
    <3> HIDE DEF I
    <3> QED BY <1>2, MinIn
  <2> QED BY <1>3, <2>1
<1>5. RemoveFirst(L, q) = SubSeq(L, 1, n - 1) \o SubSeq(L, n + 1, Len(L))
  <2>1. \E i \in 1..Len(L) : L[i] = q
    BY <1>4
  <2>2. SelectInSeq(L, LAMBDA v : v = q) = IF I # {} THEN Min(I) ELSE 0
    BY DEF SelectInSeq
  <2> QED BY <1>2, <1>3, <2>1, <2>2 DEF RemoveFirst, RemoveAt
<1>6. PICK a, b : a = SubSeq(L, 1, n - 1) /\ b = SubSeq(L, n + 1, Len(L))
  OBVIOUS
<1>7. /\ a \in Seq(E) /\ Len(a) = n - 1 /\ \A i \in 1..n - 1 : a[i] = L[i]
      /\ b \in Seq(E) /\ Len(b) = Len(L) - n /\ \A i \in 1..Len(L) - n : b[i] = L[n + i]
  <2>1. \A i \in 1..Len(L) : L[i] \in E
    BY ElementOfSeq
  <2>2. n - 1 \in Nat /\ Len(L) - n \in Nat
    BY <1>1, <1>4
  <2>3. a = [i \in 1..n - 1 |-> L[i]] /\ b = [i \in 1..Len(L) - n |-> L[n + i]]
    BY <1>1, <1>4, <1>6, <2>1, <2>2
  <2>4. a \in Seq(E) /\ Len(a) = n - 1
    <3>1. a \in [1..n - 1 -> E]
      BY <1>1, <1>4, <2>1, <2>3
    <3> QED BY <2>2, <3>1, SeqDef
  <2>5. b \in Seq(E) /\ Len(b) = Len(L) - n
    <3>1. b \in [1..Len(L) - n -> E]
      BY <1>1, <1>4, <2>1, <2>3
    <3> QED BY <2>2, <3>1, SeqDef
  <2> QED BY <2>3, <2>4, <2>5
<1>8. PICK c : c = RemoveFirst(L, q)
  OBVIOUS
<1>9. c = a \o b
  BY <1>5, <1>6, <1>8
<1>10. /\ c \in Seq(E) /\ DOMAIN c = 1..Len(L) - 1
       /\ \A i \in 1..n - 1 : c[i] = L[i]
       /\ \A i \in n..Len(L) - 1 : c[i] = L[i + 1]
  <2>1. c \in Seq(E) /\ Len(c) = Len(a) + Len(b)
        /\ \A i \in 1..Len(a) + Len(b) : c[i] = IF i <= Len(a) THEN a[i] ELSE b[i - Len(a)]
    BY <1>7, <1>9, ConcatProperties
  <2>2. Len(a) + Len(b) = Len(L) - 1
    BY <1>1, <1>4, <1>7
  <2>3. DOMAIN c = 1..Len(L) - 1
    BY <2>1, <2>2, LenProperties
  <2>4. ASSUME NEW i \in 1..n - 1 PROVE c[i] = L[i]
    <3>1. i \in 1..Len(a) + Len(b) /\ i <= Len(a)
      BY <1>1, <1>4, <1>7
    <3> QED BY <1>7, <2>1, <3>1
  <2>5. ASSUME NEW i \in n..Len(L) - 1 PROVE c[i] = L[i + 1]
    <3>1. i \in 1..Len(a) + Len(b) /\ ~(i <= Len(a)) /\ i - Len(a) \in 1..Len(L) - n /\ n + (i - Len(a)) = i + 1
      BY <1>1, <1>4, <1>7
    <3>2. c[i] = b[i - Len(a)]
      BY <2>1, <3>1
    <3> QED BY <1>7, <3>1, <3>2
  <2> QED BY <2>1, <2>3, <2>4, <2>5
<1>11. Without(L, c, n)
  BY <1>10 DEF Without
<1> QED
  BY <1>4, <1>8, <1>10, <1>11

LEMMA TopRemove ==
  ASSUME NEW L \in Seq(Level), NEW q \in Level, NEW x, x # q, x \in ToSet(L), Topmost(L, q)
  PROVE  Topmost(RemoveFirst(L, x), q)
<1>1. Len(L) \in Nat /\ DOMAIN L = 1..Len(L)
  BY LenProperties
<1>2. PICK j \in 1..Len(L) : L[j] = q /\ \A m \in 1..Len(L) : m > j => L[m].idx # q.idx
  BY <1>1 DEF Topmost
<1>3. PICK R : R = RemoveFirst(L, x)
  OBVIOUS
<1>4. PICK N, n : /\ N = Len(L) /\ n \in 1..N /\ L[n] = x /\ DOMAIN R = 1..N - 1
                  /\ \A i \in 1..n - 1 : R[i] = L[i]
                  /\ \A i \in n..N - 1 : R[i] = L[i + 1]
  <2>1. PICK n \in 1..Len(L) : L[n] = x /\ Without(L, R, n)
    BY <1>3, RemoveFirstAt
  <2> QED BY <2>1 DEF Without
<1>5. N \in Nat /\ j \in 1..N /\ n # j
  BY <1>1, <1>2, <1>4
<1>6. CASE j < n
  <2>1. j \in 1..N - 1 /\ R[j] = q
    BY <1>2, <1>4, <1>5, <1>6
  <2>2. ASSUME NEW m \in 1..N - 1, m > j PROVE R[m].idx # q.idx
    <3>1. CASE m < n
      <4>1. m \in 1..n - 1 /\ m \in 1..N
        BY <1>4, <1>5, <3>1
      <4> QED BY <1>2, <1>4, <2>2, <4>1
    <3>2. CASE ~(m < n)
      <4>1. m \in n..N - 1 /\ m + 1 \in 1..N /\ m + 1 > j
        BY <1>4, <1>5, <2>2, <3>2
      <4> QED BY <1>2, <1>4, <4>1
    <3> QED BY <3>1, <3>2
  <2>3. Topmost(R, q)
    BY <1>4, <2>1, <2>2 DEF Topmost
  <2> QED BY <1>3, <2>3
<1>7. CASE j > n
  <2>1. j - 1 \in 1..N - 1 /\ j - 1 \in n..N - 1 /\ (j - 1) + 1 = j
    BY <1>4, <1>5, <1>7
  <2>2. R[j - 1] = q
    BY <1>2, <1>4, <2>1
  <2>3. ASSUME NEW m \in 1..N - 1, m > j - 1 PROVE R[m].idx # q.idx
    <3>1. m \in n..N - 1 /\ m + 1 \in 1..N /\ m + 1 > j
      BY <1>4, <1>5, <1>7, <2>3
    <3> QED BY <1>2, <1>4, <3>1
  <2>4. Topmost(R, q)
    BY <1>4, <2>1, <2>2, <2>3 DEF Topmost
  <2> QED BY <1>3, <2>4
<1> QED
  BY <1>4, <1>5, <1>6, <1>7

-----------------------------------------------------------------------------
(* The account of the venue's quotes.  While nothing comes between its     *)
(* steps a refresh is the only one at work, and where it is tells which    *)
(* of the listed quotes can still be open.                                 *)

Held(o) == \E t \in Task : task[t].pc = "cancel" /\ task[t].id = o
Evicted(o) == \E t \in Task : Spot(task[t]) = "evict" /\ o \in Ids(task[t].todo)

\* How a list has a quote: a plain one alone, a ladder's as the one it goes by.
Claims(L, q) == IF setup.mode \in Layered THEN Topmost(L, q) ELSE L = <<q>>

\* Where task k is, an open quote q of its list L is still cancelled, kept or out of the way.
Climbs(k) == setup.mode \in Layered /\ ~k.take
InPlan(k, q) == k.plan[q.idx + 1] = q
Safe(k, L, q) ==
  /\ Spot(k) # "clear"
  /\ Spot(k) = "sweep" => \E j \in DOMAIN L : j >= k.i /\ L[j] = q
  /\ Spot(k) \in {"extras", "shed"} =>
       /\ Climbs(k)
       /\ q.idx \in LadderTargets(k.want[k.side]) => InPlan(k, q) /\ q \notin ToSet(k.todo)
       /\ q.idx \notin LadderTargets(k.want[k.side]) => q \in ToSet(k.todo)
  /\ Spot(k) = "shed" => q # Head(k.todo)
  /\ Spot(k) = "level" => Climbs(k) /\ (q.idx + 1 >= k.i => InPlan(k, q))
  /\ Spot(k) \in {"remove", "drop"} => q # k.plan[k.i]
  /\ Spot(k) \in {"remove", "drop", "place", "post"} =>
       Climbs(k) /\ q.idx + 1 # k.i /\ (q.idx + 1 > k.i => InPlan(k, q))

\* Quote o is in the current session as level q, and every task at work on its side minds it.
Listed(o, q) ==
  /\ q.id = o
  /\ Claims(sessions[cur][order[o].side], q)
  /\ \A t \in Task : task[t].on # 0 /\ task[t].side = order[o].side =>
       Safe(task[t], sessions[cur][order[o].side], q)
Kept(o) == cur # 0 /\ \E q \in Level : Listed(o, q)

\* What is so while nothing comes between the steps of a refresh.
OneBusy == \A t, u \in Task : Busy(t) /\ Busy(u) => t = u
OnCurrent == \A t \in Task :
  task[t].on # 0 => Busy(t) /\ Spot(task[t]) # "evict" /\ task[t].on = cur /\ ~task[t].mine
Begun == \A t \in Task :
  /\ Spot(task[t]) = "sync" => task[t].i = 1
  /\ task[t].pc = "post" => /\ order[task[t].id].at # "none" /\ order[task[t].id].side = task[t].side
                            /\ task[t].take => order[task[t].id].at # "open"
SentArePosted == \A o \in Quotes : order[o].at = "sent" => Posted(o)
NoneWork == \A o \in Quotes : order[o].at = "none" => order[o].om # "working"
Sided == cur # 0 => \A s \in Side : \A o \in Ids(sessions[cur][s]) :
           order[o].at # "none" /\ order[o].side = s

\* A ladder hears of an end only between refreshes.
NoStale == setup.mode \in Layered => \A o \in Quotes :
  order[o].at \in {"filled", "over"} /\ (order[o].om = "working" \/ Posted(o)) => order[o].news
AllWork(L) == \A o \in Ids(L) : order[o].om = "working"
ListsWork == setup.mode \in Layered => \A t \in Task : task[t].on # 0 =>
  /\ Spot(task[t]) \in {"sync", "sweep"} => AllWork(sessions[cur][task[t].side])
  /\ task[t].side = "bid" => AllWork(sessions[cur]["ask"])
Accounted(o) == Posted(o) \/ Held(o) \/ Evicted(o) \/ Kept(o)
AllAccounted == \A o \in Quotes : order[o].at = "open" => Accounted(o)

Exact ==
  /\ OneBusy /\ OnCurrent /\ Begun /\ SentArePosted /\ NoneWork
  /\ Sided /\ NoStale /\ ListsWork /\ AllAccounted /\ NoSecondQuote
SessionInv == Undisturbed => Exact

-----------------------------------------------------------------------------
(* A turn: task t goes on as r, and its list becomes L. *)

Here(t) == sessions[cur][task[t].side]
Stays(t, r) == r.on # 0 /\ r.side = task[t].side

Turn(t, r, L) ==
  /\ task' = [task EXCEPT ![t] = r]
  /\ sessions' = [sessions EXCEPT ![cur][task[t].side] = L]

\* What is true of a task's turn whatever it does with its quotes.
Shape(t, r) ==
  /\ r.on \in {0, task[t].on} /\ ~r.mine
  /\ r.on # 0 => Spot(r) \notin {"idle", "filled", "evict"}
  /\ r.on # 0 /\ r.side # task[t].side => Spot(r) = "sync" /\ task[t].side = "bid" /\ r.side = "ask"
  /\ Spot(r) = "sync" => r.i = 1

LEMMA Acting ==
  ASSUME Typed, Exact, NEW t \in Task, task[t].on # 0
  PROVE  /\ task[t].on = cur /\ cur \in Session /\ cur # 0 /\ task[t].side \in Side
         /\ Busy(t) /\ ~task[t].mine
         /\ Levels(t) = Here(t) /\ Here(t) \in Seq(Level)
         /\ \A s \in Side : sessions[cur][s] \in Seq(Level)
         /\ \A u \in Task : u # t => ~Busy(u) /\ task[u].on = 0
<1>1. task[t].on = cur /\ Busy(t) /\ ~task[t].mine
  BY DEF Exact, OnCurrent
<1>2. cur \in Session /\ task[t].side \in Side
  BY <1>1 DEF Typed, TasksRight, TaskRight, TaskType
<1>3. \A s \in Side : sessions[cur][s] \in Seq(Level)
  BY <1>2 DEF Typed, SessionsType
<1>4. \A u \in Task : u # t => ~Busy(u)
  BY <1>1 DEF Exact, OneBusy
<1>5. \A u \in Task : u # t => task[u].on = 0
  BY <1>4 DEF Exact, OnCurrent
<1> QED
  BY <1>1, <1>2, <1>3, <1>4, <1>5 DEF Levels, Here

LEMMA TurnTakes ==
  ASSUME Typed, Exact, NEW t \in Task, task[t].on # 0, NEW r, NEW L, Turn(t, r, L)
  PROVE  /\ task'[t] = r /\ \A u \in Task : u # t => task'[u] = task[u]
         /\ sessions'[cur][task[t].side] = L
         /\ \A s \in Side : s # task[t].side => sessions'[cur][s] = sessions[cur][s]
<1>1. cur \in Session /\ task[t].side \in Side
  BY Acting
<1>2. DOMAIN task = Task
  BY DEF Typed, TasksRight
<1>3. sessions \in [Session -> [Side -> Seq(Level)]]
  BY DEF Typed, SessionsType
<1>4. task'[t] = r /\ \A u \in Task : u # t => task'[u] = task[u]
  BY <1>2 DEF Turn
<1>5. PICK s : s = task[t].side
  OBVIOUS
<1>6. sessions' = [sessions EXCEPT ![cur][s] = L] /\ s \in Side
  BY <1>1, <1>5 DEF Turn
<1>7. sessions'[cur] = [sessions[cur] EXCEPT ![s] = L]
  BY <1>1, <1>3, <1>6
<1>8. sessions'[cur][s] = L /\ \A v \in Side : v # s => sessions'[cur][v] = sessions[cur][v]
  BY <1>1, <1>3, <1>6, <1>7
<1> QED
  BY <1>4, <1>5, <1>8

\* Quote o is in L, and safe there as far as the turn to r goes.
Stands(t, r, L, o) == \E q \in Level : q.id = o /\ Claims(L, q) /\ (Stays(t, r) => Safe(r, L, q))
InHand(r, o) == r.pc \in {"cancel", "post"} /\ r.id = o

LEMMA TurnAccounts ==
  ASSUME Typed, Exact, NEW t \in Task, task[t].on # 0, NEW r, NEW L, Turn(t, r, L), Shape(t, r),
         cur' = cur, setup' = setup,
         \A o \in Quotes : order'[o].at = "open" =>
           /\ order[o].at = "open" /\ order'[o].side = order[o].side
           /\ InHand(task[t], o) => order[o].side = task[t].side,
         \A o \in Quotes :
           /\ order'[o].at = "open" /\ order[o].side = task[t].side
           /\ InHand(task[t], o) \/ Stands(t, task[t], Here(t), o)
           => InHand(r, o) \/ Stands(t, r, L, o)
  PROVE  AllAccounted'
<1>1. PICK s : s = task[t].side
  OBVIOUS
<1>2. /\ cur \in Session /\ cur # 0 /\ s \in Side /\ Here(t) = sessions[cur][s]
      /\ \A u \in Task : u # t => ~Busy(u) /\ task[u].on = 0
  BY <1>1, Acting DEF Here
<1>3. /\ task'[t] = r /\ \A u \in Task : u # t => task'[u] = task[u]
      /\ sessions'[cur][s] = L
      /\ \A v \in Side : v # s => sessions'[cur][v] = sessions[cur][v]
  BY <1>1, TurnTakes
<1>4. ASSUME NEW o \in Quotes, order'[o].at = "open"
      PROVE  Accounted(o)'
  <2>1. order[o].at = "open" /\ order'[o].side = order[o].side /\ order[o].side \in Side
        /\ (InHand(task[t], o) => order[o].side = s)
    BY <1>1, <1>4 DEF Typed, OrderType
  <2>2. InHand(r, o) => Accounted(o)'
    BY <1>3 DEF InHand, Accounted, Posted, Held
  <2>3. ~Evicted(o)
    <3>1. Spot(task[t]) # "evict"
      BY DEF Exact, OnCurrent
    <3>2. \A u \in Task : Spot(task[u]) = "evict" => Busy(u) \/ task[u].pc = "cancel"
      BY DEF Spot, Busy
    <3>3. \A u \in Task : Spot(task[u]) = "evict" => Busy(u)
      BY <3>2 DEF Busy
    <3> QED BY <1>2, <3>1, <3>3 DEF Evicted
  <2>4. Posted(o) \/ Held(o) => InHand(task[t], o)
    <3>1. \A u \in Task : task[u].pc \in {"post", "cancel"} => u = t
      BY <1>2 DEF Busy
    <3> QED BY <3>1 DEF Posted, Held, InHand
  <2>5. CASE order[o].side # s
    <3>1. Kept(o)
      BY <1>4, <2>1, <2>3, <2>4, <2>5 DEF Exact, AllAccounted, Accounted
    <3>2. PICK q \in Level : Listed(o, q)
      BY <3>1 DEF Kept
    <3>3. Claims(sessions[cur][order[o].side], q)' /\ q.id = o
      BY <1>3, <2>1, <2>5, <3>2 DEF Listed, Claims
    <3>4. ASSUME NEW u \in Task, task'[u].on # 0, task'[u].side = order'[o].side
          PROVE  Safe(task[u], sessions[cur][order[o].side], q)'
      <4>1. u = t
        BY <1>2, <1>3, <3>4
      <4>2. Spot(r) = "sync"
        BY <1>1, <1>3, <2>1, <2>5, <3>4, <4>1 DEF Shape
      <4> QED BY <1>3, <4>1, <4>2 DEF Safe
    <3> QED BY <1>2, <3>3, <3>4 DEF Accounted, Kept, Listed
  <2>6. CASE order[o].side = s
    <3>1. InHand(task[t], o) \/ Stands(t, task[t], Here(t), o)
      <4>1. CASE Kept(o)
        <5>1. PICK q \in Level : Listed(o, q)
          BY <4>1 DEF Kept
        <5>2. q.id = o /\ Claims(Here(t), q) /\ Safe(task[t], Here(t), q)
          BY <1>1, <1>2, <2>6, <5>1 DEF Listed
        <5> QED BY <5>2 DEF Stands
      <4> QED BY <1>4, <2>1, <2>3, <2>4, <4>1 DEF Exact, AllAccounted, Accounted
    <3>2. InHand(r, o) \/ Stands(t, r, L, o)
      BY <1>1, <1>4, <2>6, <3>1
    <3>3. CASE Stands(t, r, L, o)
      <4>1. PICK q \in Level : q.id = o /\ Claims(L, q) /\ (Stays(t, r) => Safe(r, L, q))
        BY <3>3 DEF Stands
      <4>2. Claims(sessions[cur][order[o].side], q)'
        BY <1>3, <2>1, <2>6, <4>1 DEF Claims
      <4>3. ASSUME NEW u \in Task, task'[u].on # 0, task'[u].side = order'[o].side
            PROVE  Safe(task[u], sessions[cur][order[o].side], q)'
        <5>1. u = t
          BY <1>2, <1>3, <4>3
        <5>2. Safe(r, L, q)
          BY <1>1, <1>3, <2>1, <2>6, <4>1, <4>3, <5>1 DEF Stays
        <5>3. sessions'[cur'][order'[o].side] = L /\ task'[u] = r
          BY <1>3, <2>1, <2>6, <5>1
        <5> QED BY <5>2, <5>3 DEF Safe, Climbs
      <4> QED BY <1>2, <4>1, <4>2, <4>3 DEF Accounted, Kept, Listed
    <3> QED BY <2>2, <3>2, <3>3
  <2> QED BY <2>5, <2>6
<1> QED
  BY <1>4 DEF AllAccounted

\* Every open quote that stands in the list stands in the new one, or is being cancelled.
Carries(t, r, L) == \A q \in Level :
  /\ order[q.id].at = "open" /\ order[q.id].side = task[t].side
  /\ Claims(Here(t), q) /\ Safe(task[t], Here(t), q)
  => (r.pc = "cancel" /\ r.id = q.id) \/ (Claims(L, q) /\ (Stays(t, r) => Safe(r, L, q)))

\* A step of a refresh between two awaits.
Moves(t, r, L) ==
  /\ Turn(t, r, L) /\ Shape(t, r) /\ r.pc # "post"
  /\ Ids(L) \subseteq Ids(Here(t))
  /\ setup.mode \in Layered /\ Stays(t, r) /\ Spot(r) \in {"sync", "sweep"} => AllWork(L)
  /\ Carries(t, r, L)

\* What of the account a turn cannot disturb.
LEMMA ShapeKeeps ==
  ASSUME Typed, Exact, NEW t \in Task, task[t].on # 0, NEW r, NEW L, Turn(t, r, L), Shape(t, r),
         cur' = cur
  PROVE  OneBusy' /\ OnCurrent'
<1>1. /\ task[t].on = cur /\ Busy(t)
      /\ \A u \in Task : u # t => ~Busy(u) /\ task[u].on = 0
  BY Acting
<1>2. task'[t] = r /\ \A u \in Task : u # t => task'[u] = task[u]
  BY TurnTakes
<1>3. \A u \in Task : u # t => ~Busy(u)' /\ task'[u].on = 0
  BY <1>1, <1>2 DEF Busy
<1>4. OneBusy'
  BY <1>3 DEF OneBusy
<1>5. r.on # 0 => Busy(t)' /\ Spot(r) # "evict" /\ r.on = cur /\ ~r.mine
  BY <1>1, <1>2 DEF Shape, Busy, Spot
<1>6. OnCurrent'
  BY <1>2, <1>3, <1>5 DEF OnCurrent, Spot
<1> QED
  BY <1>4, <1>6

LEMMA ListsKeepWorking ==
  ASSUME Typed, Exact, NEW t \in Task, task[t].on # 0, NEW r, NEW L, Turn(t, r, L), Shape(t, r),
         cur' = cur, setup' = setup, setup.mode \in Layered,
         NEW T, \A o \in Quotes : order[o].om = "working" /\ order'[o].om # "working" => o \in T,
         \A s \in Side : s # task[t].side => Ids(sessions[cur][s]) \cap T = {},
         Stays(t, r) /\ Spot(r) \in {"sync", "sweep"} => AllWork(L)'
  PROVE  ListsWork'
<1>1. /\ cur \in Session /\ cur # 0 /\ task[t].side \in Side
      /\ \A u \in Task : u # t => task[u].on = 0
      /\ \A s \in Side : sessions[cur][s] \in Seq(Level)
  BY Acting
<1>2. /\ task'[t] = r /\ \A u \in Task : u # t => task'[u] = task[u]
      /\ sessions'[cur][task[t].side] = L
      /\ \A s \in Side : s # task[t].side => sessions'[cur][s] = sessions[cur][s]
  BY TurnTakes
<1>3. task[t].side = "bid" => AllWork(sessions[cur]["ask"])'
  <2>1. SUFFICES ASSUME task[t].side = "bid" PROVE AllWork(sessions[cur]["ask"])'
    OBVIOUS
  <2>2. AllWork(sessions[cur]["ask"])
    BY <2>1 DEF Exact, ListsWork
  <2>3. "ask" \in Side /\ sessions'[cur]["ask"] = sessions[cur]["ask"]
    BY <1>2, <2>1 DEF Side
  <2>4. \A o \in Ids(sessions[cur]["ask"]) : o \in Quotes
    <3>1. \A k \in 1..Len(sessions[cur]["ask"]) : sessions[cur]["ask"][k].id \in Quotes
      BY <1>1, <2>3, LevelIds
    <3>2. DOMAIN sessions[cur]["ask"] = 1..Len(sessions[cur]["ask"])
      BY <1>1, <2>3, LenProperties
    <3> QED BY <3>1, <3>2 DEF Ids
  <2>5. \A o \in Ids(sessions[cur]["ask"]) : o \notin T
    BY <2>1, <2>3
  <2>6. \A o \in Ids(sessions[cur]["ask"]) : order'[o].om = "working"
    BY <2>2, <2>4, <2>5 DEF AllWork
  <2> QED BY <2>3, <2>6 DEF AllWork
<1>4. ASSUME NEW u \in Task, task'[u].on # 0
      PROVE  /\ Spot(task[u])' \in {"sync", "sweep"} => AllWork(sessions[cur][task[u].side])'
             /\ task'[u].side = "bid" => AllWork(sessions[cur]["ask"])'
  <2>1. u = t /\ task'[u] = r /\ r.on # 0 /\ Spot(task[u])' = Spot(r)
    BY <1>1, <1>2, <1>4 DEF Spot
  <2>2. CASE r.side = task[t].side
    <3>1. Spot(r) \in {"sync", "sweep"} => AllWork(L)'
      BY <2>1, <2>2 DEF Stays
    <3>2. AllWork(L)' => AllWork(sessions[cur][task[u].side])'
      BY <1>2, <2>1, <2>2 DEF AllWork
    <3> QED BY <1>3, <2>1, <2>2, <3>1, <3>2
  <2>3. CASE r.side # task[t].side
    <3>1. task[t].side = "bid" /\ r.side = "ask"
      BY <2>1, <2>3 DEF Shape
    <3>2. AllWork(sessions[cur]["ask"])' => AllWork(sessions[cur][task[u].side])'
      BY <2>1, <3>1 DEF AllWork
    <3> QED BY <1>3, <2>1, <3>1, <3>2
  <2> QED BY <2>2, <2>3
<1> QED
  BY <1>4 DEF ListsWork

LEMMA MovesKeep ==
  ASSUME Typed, Exact, NEW t \in Task, task[t].pc # "post", task[t].on # 0,
         \A o \in Quotes : order[o].at = "open" => ~InHand(task[t], o),
         NEW r, NEW L, Moves(t, r, L), cur' = cur, setup' = setup, order' = order, races' = races
  PROVE  Exact'
<1>0. Turn(t, r, L) /\ Shape(t, r) /\ r.pc # "post" /\ Carries(t, r, L)
  BY DEF Moves
<1>1. /\ cur \in Session /\ cur # 0 /\ task[t].side \in Side /\ Busy(t)
      /\ \A u \in Task : u # t => ~Busy(u) /\ task[u].on = 0
  BY Acting
<1>2. /\ task'[t] = r /\ \A u \in Task : u # t => task'[u] = task[u]
      /\ sessions'[cur][task[t].side] = L
      /\ \A s \in Side : s # task[t].side => sessions'[cur][s] = sessions[cur][s]
  BY <1>0, TurnTakes
<1>3. OneBusy' /\ OnCurrent'
  BY <1>0, ShapeKeeps
<1>4. task[t].pc # "post" /\ \A u \in Task : u # t => task[u].pc # "post"
  BY <1>1 DEF Busy
<1>5. Begun'
  <2>1. \A u \in Task : task'[u].pc # "post"
    BY <1>0, <1>2, <1>4
  <2>2. \A u \in Task : Spot(task'[u]) = "sync" => task'[u].i = 1
    BY <1>0, <1>2 DEF Exact, Begun, Shape
  <2> QED BY <2>1, <2>2 DEF Begun, Spot
<1>6. \A o : ~Posted(o)
  BY <1>4 DEF Posted
<1>7. SentArePosted' /\ NoneWork'
  BY <1>6 DEF Exact, SentArePosted, NoneWork
<1>8. Sided'
  <2>1. ASSUME NEW s \in Side, NEW o \in Ids(sessions'[cur][s])
        PROVE  order[o].at # "none" /\ order[o].side = s
    <3>1. o \in Ids(sessions[cur][s])
      BY <1>2, <2>1 DEF Moves, Here
    <3> QED BY <1>1, <3>1 DEF Exact, Sided
  <2> QED BY <2>1 DEF Sided, Ids
<1>9. NoStale'
  <2>1. \A o : ~Posted(o)'
    BY <1>0, <1>2, <1>4 DEF Posted
  <2> QED BY <2>1 DEF Exact, NoStale
<1>10. ListsWork'
  <2>1. CASE setup.mode \in Layered
    <3>1. Stays(t, r) /\ Spot(r) \in {"sync", "sweep"} => AllWork(L)'
      BY <2>1 DEF Moves, AllWork
    <3>2. \A o \in Quotes : order[o].om = "working" /\ order'[o].om # "working" => o \in {}
      OBVIOUS
    <3>3. \A s \in Side : s # task[t].side => Ids(sessions[cur][s]) \cap {} = {}
      OBVIOUS
    <3> QED BY <1>0, <2>1, <3>1, <3>2, <3>3, ListsKeepWorking
  <2>2. CASE setup.mode \notin Layered
    BY <2>2 DEF ListsWork
  <2> QED BY <2>1, <2>2
<1>11. AllAccounted'
  <2>1. \A o \in Quotes : order'[o].at = "open" =>
          /\ order[o].at = "open" /\ order'[o].side = order[o].side
          /\ InHand(task[t], o) => order[o].side = task[t].side
    OBVIOUS
  <2>2. ASSUME NEW o \in Quotes, order'[o].at = "open", order[o].side = task[t].side,
               InHand(task[t], o) \/ Stands(t, task[t], Here(t), o)
        PROVE  InHand(r, o) \/ Stands(t, r, L, o)
    <3>1. Stands(t, task[t], Here(t), o)
      BY <2>2
    <3>2. PICK q \in Level : q.id = o /\ Claims(Here(t), q) /\ Safe(task[t], Here(t), q)
      BY <3>1 DEF Stands, Stays
    <3>3. (r.pc = "cancel" /\ r.id = o) \/ (Claims(L, q) /\ (Stays(t, r) => Safe(r, L, q)))
      BY <1>0, <2>2, <3>2 DEF Carries
    <3> QED BY <3>2, <3>3 DEF InHand, Stands
  <2> QED BY <1>0, <2>1, <2>2, TurnAccounts
<1>12. NoSecondQuote'
  BY DEF Exact, NoSecondQuote, Undisturbed
<1> QED
  BY <1>3, <1>5, <1>7, <1>8, <1>9, <1>10, <1>11, <1>12 DEF Exact

-----------------------------------------------------------------------------
(* The steps of a refresh carry its quotes. *)

LEMMA TurnTaken ==
  ASSUME Typed, Exact, NEW t \in Task, task[t].on # 0, NEW r, NEW L
  PROVE  /\ Becomes(t, r) /\ UNCHANGED sessions => Turn(t, r, Here(t))
         /\ Rewrite(t, L, r) => Turn(t, r, L)
         /\ Rebind(t, L, r) => Turn(t, r, L)
<1>1. /\ task[t].on = cur /\ cur \in Session /\ task[t].side \in Side /\ ~task[t].mine
      /\ \A u \in Task : u # t => task[u].on = 0
      /\ cur # 0
  BY Acting
<1>2. sessions \in [Session -> [Side -> Seq(Level)]] /\ DOMAIN task = Task
  BY DEF Typed, SessionsType, TasksRight
<1>3. ASSUME Becomes(t, r), UNCHANGED sessions PROVE Turn(t, r, Here(t))
  <2>1. sessions = [sessions EXCEPT ![cur][task[t].side] = sessions[cur][task[t].side]]
    BY <1>1, <1>2
  <2> QED BY <1>3, <2>1 DEF Turn, Becomes, Here
<1>4. ASSUME Rewrite(t, L, r) PROVE Turn(t, r, L)
  BY <1>1, <1>4 DEF Rewrite, Turn, Becomes
<1>5. ASSUME Rebind(t, L, r) PROVE Turn(t, r, L)
  <2>1. sessions' = [sessions EXCEPT ![cur][task[t].side] = L]
    BY <1>1, <1>5 DEF Rebind
  <2>2. task' = [u \in Task |-> IF u = t THEN r ELSE task[u]]
    BY <1>1, <1>5 DEF Rebind
  <2>3. task' = [task EXCEPT ![t] = r]
    BY <1>2, <2>2
  <2> QED BY <2>1, <2>3 DEF Turn
<1> QED
  BY <1>3, <1>4, <1>5

\* An open quote is working while nothing waits for a reply.
LEMMA OpenWorks ==
  ASSUME Typed, OpenInv, Undisturbed, Exact, NEW t \in Task, Busy(t), task[t].pc # "post"
  PROVE  \A o \in Quotes : order[o].at = "open" => order[o].om = "working"
<1>1. \A u \in Task : task[u].pc # "post"
  BY DEF Exact, OneBusy, Busy
<1>2. Unspoilt
  BY DEF Undisturbed, Unspoilt
<1> QED
  BY <1>1, <1>2 DEF OpenInv, Working, Posted

\* Two tasks that are alike but for what they wait for.
Alike(k, r) ==
  /\ k.on = r.on /\ k.side = r.side /\ k.want = r.want /\ k.take = r.take /\ k.mine = r.mine
  /\ k.i = r.i /\ k.todo = r.todo /\ k.plan = r.plan

LEMMA AlikeSafe ==
  ASSUME NEW k, NEW r, Alike(k, r), Spot(k) = Spot(r), NEW L, NEW q, Safe(r, L, q)
  PROVE  Safe(k, L, q)
BY DEF Safe, Alike, Climbs, InPlan

LEMMA CancelThenGoes ==
  ASSUME NEW t, NEW o \in Quotes, NEW r \in TaskType, r.pc \in {"evict"} \cup (Refreshing \ {"post"})
  PROVE  /\ Alike(CancelThen(t, o, r), r) /\ Spot(CancelThen(t, o, r)) = r.pc /\ Spot(r) = r.pc
         /\ CancelThen(t, o, r).pc # "post"
         /\ order[o].om = "working" => CancelThen(t, o, r).pc = "cancel" /\ CancelThen(t, o, r).id = o
<1>1. Spot(r) = r.pc /\ Alike(r, r)
  BY DEF Spot, Refreshing, Alike
<1>2. PICK k : k = [r EXCEPT !.pc = "cancel", !.id = o, !.then = r.pc]
  OBVIOUS
<1>3. k.pc = "cancel" /\ k.then = r.pc /\ k.id = o /\ Alike(k, r)
  BY <1>2 DEF TaskType, Alike
<1>4. Spot(k) = r.pc
  BY <1>3 DEF Spot
<1> QED
  BY <1>1, <1>2, <1>3, <1>4 DEF CancelThen

\* The step goes on, on its side; order o, if it is one, is cancelled first.
LEMMA OnwardMoves ==
  ASSUME Typed, OpenInv, Undisturbed, Exact,
         NEW t \in Task, task[t].on # 0, task[t].pc \in Refreshing \ {"post"},
         NEW r \in TaskType, Steady(r, task[t]), r.pc \in Refreshing \ {"post", "sync"},
         NEW o, NEW k, (o = 0 /\ k = r) \/ (o \in Quotes /\ k = CancelThen(t, o, r)),
         NEW L, Turn(t, k, L), Ids(L) \subseteq Ids(Here(t)),
         setup.mode \in Layered /\ r.pc = "sweep" => AllWork(L),
         \A q \in Level :
           /\ order[q.id].at = "open" /\ Claims(Here(t), q) /\ Safe(task[t], Here(t), q)
           /\ q.id # o
           => Claims(L, q) /\ Safe(r, L, q)
  PROVE  Moves(t, k, L)
<1>1. Spot(r) = r.pc /\ Alike(r, r)
  BY DEF Spot, Refreshing, Alike
<1>2. /\ Alike(k, r) /\ Spot(k) = r.pc /\ k.pc # "post"
      /\ o # 0 => (order[o].om = "working" => k.pc = "cancel" /\ k.id = o)
  <2>1. CASE o = 0 /\ k = r
    BY <1>1, <2>1
  <2>2. CASE o \in Quotes /\ k = CancelThen(t, o, r)
    BY <2>2, CancelThenGoes
  <2> QED BY <2>1, <2>2
<1>3. ~task[t].mine /\ Busy(t) /\ task[t].pc # "post"
  BY Acting
<1>4. Shape(t, k)
  BY <1>2, <1>3 DEF Shape, Alike, Steady, Refreshing
<1>5. Carries(t, k, L)
  <2>1. SUFFICES ASSUME NEW q \in Level, order[q.id].at = "open",
                        Claims(Here(t), q), Safe(task[t], Here(t), q)
                 PROVE  (k.pc = "cancel" /\ k.id = q.id) \/ (Claims(L, q) /\ Safe(k, L, q))
    BY DEF Carries
  <2>2. CASE q.id = o
    <3>1. o # 0
      BY <2>2, QuotesAssumption DEF Level
    <3>2. o \in Quotes /\ order[o].om = "working"
      BY <1>3, <2>1, <2>2, <3>1, OpenWorks
    <3> QED BY <1>2, <2>2, <3>1, <3>2
  <2>3. CASE q.id # o
    <3>1. Claims(L, q) /\ Safe(r, L, q)
      BY <2>1, <2>3
    <3>2. Safe(k, L, q)
      BY <1>1, <1>2, <3>1, AlikeSafe
    <3> QED BY <3>1, <3>2
  <2> QED BY <2>2, <2>3
<1> QED
  BY <1>2, <1>4, <1>5 DEF Moves

LEMMA StraightMoves ==
  ASSUME Typed, OpenInv, Undisturbed, Exact,
         NEW t \in Task, task[t].on # 0, task[t].pc \in Refreshing \ {"post"},
         NEW r \in TaskType, Steady(r, task[t]), r.pc \in Refreshing \ {"post", "sync"},
         NEW L, Turn(t, r, L), Ids(L) \subseteq Ids(Here(t)),
         setup.mode \in Layered /\ r.pc = "sweep" => AllWork(L),
         \A q \in Level :
           /\ order[q.id].at = "open" /\ Claims(Here(t), q) /\ Safe(task[t], Here(t), q)
           => Claims(L, q) /\ Safe(r, L, q)
  PROVE  Moves(t, r, L)
<1>1. PICK o : o = 0
  OBVIOUS
<1> QED
  BY <1>1, OnwardMoves

\* The step leaves the side, or ends the refresh.
LEMMA LeavingMoves ==
  ASSUME Typed, Exact, NEW t \in Task, task[t].on # 0, NEW r, r = Leave(t) \/ r = IdleTask,
         NEW L, Turn(t, r, L), Ids(L) \subseteq Ids(Here(t)),
         \A q \in Level :
           /\ order[q.id].at = "open" /\ Claims(Here(t), q) /\ Safe(task[t], Here(t), q)
           => Claims(L, q)
  PROVE  Moves(t, r, L) /\ ~Stays(t, r)
<1>1. PICK k : k = IdleTask
  OBVIOUS
<1>2. k \in TaskType /\ k.pc = "idle" /\ k.on = 0 /\ ~k.mine /\ k.i = 1 /\ k.then = ""
  BY <1>1, IdleRight DEF TaskRight, IdleTask
<1>3. CASE r = k
  <2>1. Shape(t, r) /\ r.pc # "post" /\ ~Stays(t, r)
    BY <1>2, <1>3 DEF Shape, Spot, Stays
  <2> QED BY <2>1 DEF Moves, Carries
<1>4. CASE r # k
  <2>1. task[t].side = "bid" /\ r = [k EXCEPT !.pc = "sync", !.on = task[t].on, !.side = "ask",
                        !.want = task[t].want, !.take = task[t].take]
    BY <1>1, <1>4 DEF Leave
  <2>2. r.pc = "sync" /\ r.on = task[t].on /\ r.side = "ask" /\ r.mine = k.mine /\ r.i = k.i
    BY <1>2, <2>1 DEF TaskType
  <2>3. Shape(t, r) /\ r.pc # "post" /\ ~Stays(t, r)
    BY <1>2, <2>1, <2>2 DEF Shape, Spot, Stays
  <2> QED BY <2>3 DEF Moves, Carries
<1> QED
  BY <1>3, <1>4

Calm == Typed /\ OpenInv /\ Undisturbed /\ Exact

LEMMA OnRefresh ==
  ASSUME Calm, NEW t \in Task, NEW pc \in Refreshing \ {"post"}, Runs(t, pc)
  PROVE  /\ task[t].pc = pc /\ task[t].pc \in Refreshing \ {"post"} /\ task[t] \in TaskType
         /\ task[t].on # 0 /\ Spot(task[t]) = pc /\ TaskRight(setup.mode, task[t])
         /\ Levels(t) = Here(t) /\ Here(t) \in Seq(Level)
         /\ task[t].want[task[t].side] \in 0..MaxPrice
         /\ \A o \in Quotes : order[o].at = "open" => order[o].om = "working"
<1>1. task[t].pc = pc
  BY DEF Runs
<1>2. /\ task[t] \in TaskType /\ task[t].on # 0 /\ Spot(task[t]) = pc /\ TaskRight(setup.mode, task[t])
      /\ task[t].want[task[t].side] \in 0..MaxPrice
  BY <1>1, RunsRefresh DEF Calm
<1>3. Levels(t) = Here(t) /\ Here(t) \in Seq(Level) /\ Busy(t)
  BY <1>2, Acting DEF Calm
<1> QED
  BY <1>1, <1>2, <1>3, OpenWorks DEF Calm

LEMMA ClaimMember ==
  ASSUME NEW L \in Seq(Level), NEW q \in Level, Claims(L, q)
  PROVE  q \in ToSet(L) /\ L # <<>> /\ \E j \in 1..Len(L) : L[j] = q
<1>1. q \in ToSet(L)
  <2>1. CASE setup.mode \in Layered
    BY <2>1, TopMember DEF Claims
  <2>2. CASE setup.mode \notin Layered
    BY <2>2 DEF Claims, ToSet
  <2> QED BY <2>1, <2>2
<1>2. ToSet(<<>>) = {}
  BY DEF ToSet
<1>3. DOMAIN L = 1..Len(L)
  BY LenProperties
<1> QED
  BY <1>1, <1>2, <1>3 DEF ToSet

LEMMA ClaimOnly ==
  ASSUME NEW L \in Seq(Level), NEW q \in Level, Claims(L, q), NEW S, q \in S
  PROVE  Claims(Only(L, S), q)
<1>1. CASE setup.mode \in Layered
  BY <1>1, TopOnly DEF Claims
<1>2. CASE setup.mode \notin Layered
  <2>1. L = <<q>> /\ ToSet(L) = {q}
    BY <1>2 DEF Claims, ToSet
  <2>2. Only(L, S) = L
    BY <2>1, OnlyAll
  <2> QED BY <1>2, <2>1, <2>2 DEF Claims
<1> QED
  BY <1>1, <1>2

LEMMA ClaimPrune ==
  ASSUME NEW L \in Seq(Level), NEW q \in Level, Claims(L, q), order[q.id].om = "working"
  PROVE  Claims(Prune(L), q)
BY ClaimOnly DEF Prune

\* What a list keeps is of it.
LEMMA FewerIds ==
  ASSUME NEW L \in Seq(Level), NEW M \in Seq(Level), ToSet(M) \subseteq ToSet(L)
  PROVE  Ids(M) \subseteq Ids(L)
<1>1. \A k \in DOMAIN M : M[k] \in ToSet(L)
  BY DEF ToSet
<1> QED
  BY <1>1 DEF Ids, ToSet

LEMMA SyncMoves ==
  ASSUME Calm, NEW t \in Task, Sync(t)
  PROVE  \E k, L : Moves(t, k, L)
<1>0. Typed /\ OpenInv /\ Undisturbed /\ Exact
  BY DEF Calm
<1>1. PICK me, H, target : me = task[t] /\ H = Here(t) /\ target = me.want[me.side]
  OBVIOUS
<1>2. /\ me.pc = "sync" /\ me \in TaskType /\ me.on # 0 /\ Spot(me) = "sync" /\ me.pc \in Refreshing \ {"post"}
      /\ Levels(t) = H /\ H \in Seq(Level)
      /\ \A o \in Quotes : order[o].at = "open" => order[o].om = "working"
  <2>1. Runs(t, "sync") /\ "sync" \in Refreshing \ {"post"}
    BY DEF Sync, Refreshing
  <2> QED BY <1>1, <2>1, OnRefresh
<1>3. \A q \in Level : q.id \in Quotes
  BY DEF Level
<1>4. PICK kept : kept = Prune(H)
  OBVIOUS
<1>5. kept \in Seq(Level) /\ Ids(kept) \subseteq Ids(H)
  <2>1. kept \in Seq(Level) /\ ToSet(kept) \subseteq ToSet(H)
    BY <1>2, <1>4, OnlyKeeps DEF Prune
  <2> QED BY <1>2, <2>1, FewerIds
<1>6. ASSUME NEW q \in Level, order[q.id].at = "open", Claims(H, q)
      PROVE  Claims(kept, q)
  BY <1>2, <1>3, <1>4, <1>6, ClaimPrune
<1>7. CASE Becomes(t, Leave(t)) /\ UNCHANGED sessions
  <2>1. Turn(t, Leave(t), H)
    BY <1>0, <1>1, <1>2, <1>7, TurnTaken
  <2>2. Moves(t, Leave(t), H)
    BY <1>0, <1>1, <1>2, <2>1, LeavingMoves
  <2> QED BY <2>2
<1>8. CASE Becomes(t, [me EXCEPT !.pc = "sweep"]) /\ UNCHANGED sessions
  <2>1. PICK r : r = WithPc(me, "sweep")
    OBVIOUS
  <2>2. r \in TaskType /\ Steady(r, me) /\ r.pc = "sweep" /\ r.i = me.i
    <3>1. "sweep" \in Moment
      BY DEF Moment, Refreshing
    <3> QED BY <1>2, <2>1, <3>1, SetPc
  <2>3. Turn(t, r, H)
    BY <1>0, <1>1, <1>2, <1>8, <2>1, TurnTaken DEF WithPc
  <2>4. setup.mode \in Layered => AllWork(H)
    <3>1. me.on = cur
      BY <1>0, <1>1, <1>2, Acting
    <3> QED BY <1>0, <1>1, <1>2 DEF Exact, ListsWork, Here
  <2>5. ASSUME NEW q \in Level, Claims(H, q) PROVE Safe(r, H, q)
    <3>1. PICK j \in 1..Len(H) : H[j] = q
      BY <1>2, <2>5, ClaimMember
    <3>2. r.i = 1 /\ Spot(r) = "sweep"
      BY <1>0, <1>1, <1>2, <2>2 DEF Exact, Begun, Spot
    <3>3. j \in DOMAIN H /\ j >= 1
      BY <1>2, LenProperties
    <3> QED BY <3>1, <3>2, <3>3 DEF Safe
  <2>6. r.pc \in Refreshing \ {"post", "sync"}
    BY <2>2 DEF Refreshing
  <2>7. Moves(t, r, H)
    BY <1>0, <1>1, <1>2, <2>2, <2>3, <2>4, <2>5, <2>6, StraightMoves
  <2> QED BY <2>7
<1>9. CASE /\ setup.mode \in Layered /\ ~me.take
           /\ Rewrite(t, kept, [me EXCEPT !.pc = "extras", !.plan = ByIndex(kept),
                      !.todo = Only(kept, {q \in Level : q.idx \notin LadderTargets(target)})])
  <2>1. PICK todo, plan : /\ todo = Only(kept, {q \in Level : q.idx \notin LadderTargets(target)})
                          /\ plan = ByIndex(kept)
    OBVIOUS
  <2>2. /\ todo \in Seq(Level)
        /\ \A q \in Level : q \in ToSet(todo) <=> q \in ToSet(kept) /\ q.idx \notin LadderTargets(target)
    BY <1>5, <2>1, OnlyKeeps
  <2>3. PICK a, b, r : a = WithPc(me, "extras") /\ b = WithPlan(a, plan) /\ r = WithTodo(b, todo)
    OBVIOUS
  <2>4. a \in TaskType /\ Steady(a, me) /\ a.pc = "extras"
    <3>1. "extras" \in Moment
      BY DEF Moment, Refreshing
    <3> QED BY <1>2, <2>3, <3>1, SetPc
  <2>5. b \in TaskType /\ Steady(b, me) /\ b.pc = "extras" /\ b.plan = plan
    <3>1. plan \in Seq([id : Quotes \cup {0}, idx : 0..LadderLevels - 1])
      BY <1>5, <2>1, ByIndexType
    <3> QED BY <2>3, <2>4, <3>1, SetPlan DEF Steady
  <2>6. r \in TaskType /\ Steady(r, me) /\ r.pc = "extras" /\ r.plan = plan /\ r.todo = todo
    BY <2>2, <2>3, <2>5, SetTodo DEF Steady
  <2>7. Rewrite(t, kept, r)
    BY <1>9, <2>1, <2>3 DEF WithPc, WithPlan, WithTodo
  <2>8. Turn(t, r, kept)
    BY <1>0, <1>1, <1>2, <2>7, TurnTaken
  <2>9. ASSUME NEW q \in Level, order[q.id].at = "open", Claims(H, q)
        PROVE  Claims(kept, q) /\ Safe(r, kept, q)
    <3>1. Claims(kept, q) /\ Topmost(kept, q) /\ q \in ToSet(kept)
      BY <1>5, <1>6, <1>9, <2>9, TopMember DEF Claims
    <3>2. r.plan[q.idx + 1] = q
      BY <1>5, <2>1, <2>6, <3>1, TopPlan
    <3>3. r.want[r.side] = target /\ ~r.take /\ Spot(r) = "extras"
      BY <1>1, <1>9, <2>6 DEF Steady, Spot
    <3>4. /\ q.idx \in LadderTargets(target) => q \notin ToSet(todo)
          /\ q.idx \notin LadderTargets(target) => q \in ToSet(todo)
      BY <2>2, <3>1
    <3> QED BY <1>9, <2>6, <3>1, <3>2, <3>3, <3>4 DEF Safe, Climbs, InPlan
  <2>10. r.pc \in Refreshing \ {"post", "sync"} /\ r.pc # "sweep"
    BY <2>6 DEF Refreshing
  <2>11. Moves(t, r, kept)
    BY <1>0, <1>1, <1>2, <1>5, <2>6, <2>8, <2>9, <2>10, StraightMoves
  <2> QED BY <2>11
<1>10. CASE /\ setup.mode \notin Layered
            /\ \E todo \in Seq(Level) : Rewrite(t, kept, [me EXCEPT !.pc = "trim", !.todo = todo])
  <2>1. PICK todo \in Seq(Level) : Rewrite(t, kept, [me EXCEPT !.pc = "trim", !.todo = todo])
    BY <1>10
  <2>2. PICK a, r : a = WithPc(me, "trim") /\ r = WithTodo(a, todo)
    OBVIOUS
  <2>3. a \in TaskType /\ Steady(a, me) /\ a.pc = "trim"
    <3>1. "trim" \in Moment
      BY DEF Moment, Refreshing
    <3> QED BY <1>2, <2>2, <3>1, SetPc
  <2>4. r \in TaskType /\ Steady(r, me) /\ r.pc = "trim"
    BY <2>2, <2>3, SetTodo DEF Steady
  <2>5. Turn(t, r, kept)
    BY <1>0, <1>1, <1>2, <2>1, <2>2, TurnTaken DEF WithPc, WithTodo
  <2>6. \A L, q : Safe(r, L, q)
    BY <2>4 DEF Safe, Spot
  <2>7. r.pc \in Refreshing \ {"post", "sync"} /\ r.pc # "sweep"
    BY <2>4 DEF Refreshing
  <2>8. Moves(t, r, kept)
    BY <1>0, <1>1, <1>2, <1>5, <1>6, <2>4, <2>5, <2>6, <2>7, StraightMoves
  <2> QED BY <2>8
<1>11. (IF setup.mode = "climb" /\ kept # <<>> THEN Tail(kept) ELSE <<>>) \in Seq(Level)
  <2>1. kept # <<>> => Tail(kept) \in Seq(Level)
    BY <1>5, HeadType
  <2> QED BY <2>1
<1>12. \/ Becomes(t, Leave(t)) /\ UNCHANGED sessions
       \/ Becomes(t, [me EXCEPT !.pc = "sweep"]) /\ UNCHANGED sessions
       \/ /\ setup.mode \in Layered /\ ~me.take
          /\ Rewrite(t, kept, [me EXCEPT !.pc = "extras", !.plan = ByIndex(kept),
                      !.todo = Only(kept, {q \in Level : q.idx \notin LadderTargets(target)})])
       \/ /\ setup.mode \notin Layered
          /\ Rewrite(t, kept, [me EXCEPT !.pc = "trim",
                      !.todo = IF setup.mode = "climb" /\ kept # <<>> THEN Tail(kept) ELSE <<>>])
  BY <1>1, <1>2, <1>4, Zenon DEF Sync
<1> QED
  BY <1>7, <1>8, <1>9, <1>10, <1>11, <1>12

LEMMA SweepMoves ==
  ASSUME Calm, NEW t \in Task, Sweep(t)
  PROVE  \E k, L : Moves(t, k, L)
<1>0. Typed /\ OpenInv /\ Undisturbed /\ Exact
  BY DEF Calm
<1>1. PICK me, H, target : me = task[t] /\ H = Here(t) /\ target = me.want[me.side]
  OBVIOUS
<1>2. /\ me.pc = "sweep" /\ me \in TaskType /\ me.on # 0 /\ Spot(me) = "sweep" /\ me.pc \in Refreshing \ {"post"}
      /\ Levels(t) = H /\ H \in Seq(Level) /\ target \in 0..MaxPrice
  <2>1. Runs(t, "sweep") /\ "sweep" \in Refreshing \ {"post"}
    BY DEF Sweep, Refreshing
  <2> QED BY <1>1, <2>1, OnRefresh
<1>3. Len(H) \in Nat /\ DOMAIN H = 1..Len(H) /\ me.i \in Nat /\ me.i # 0 /\ me.i + 1 \in Nat \ {0}
  BY <1>2, LenProperties, Fields
<1>4. CASE /\ me.i <= Len(H)
           /\ Becomes(t, CancelThen(t, H[me.i].id, [me EXCEPT !.i = @ + 1])) /\ UNCHANGED sessions
  <2>1. PICK i, o, r : i = me.i /\ o = H[i].id /\ r = WithI(me, i + 1)
    OBVIOUS
  <2>2. i \in 1..Len(H) /\ o \in Quotes
    <3>1. i \in 1..Len(H)
      BY <1>3, <1>4, <2>1
    <3> QED BY <1>2, <2>1, <3>1, LevelIds
  <2>3. r \in TaskType /\ Steady(r, me) /\ r.i = i + 1 /\ r.pc = "sweep"
    BY <1>2, <1>3, <2>1, SetI
  <2>4. Turn(t, CancelThen(t, o, r), H)
    <3>1. Becomes(t, CancelThen(t, o, r))
      BY <1>4, <2>1 DEF WithI
    <3> QED BY <1>0, <1>1, <1>2, <1>4, <3>1, TurnTaken
  <2>5. setup.mode \in Layered => AllWork(H)
    <3>1. me.on = cur
      BY <1>0, <1>1, <1>2, Acting
    <3> QED BY <1>0, <1>1, <1>2 DEF Exact, ListsWork, Here
  <2>6. ASSUME NEW q \in Level, Safe(me, H, q), q.id # o
        PROVE  Safe(r, H, q)
    <3>1. PICK j \in DOMAIN H : j >= i /\ H[j] = q
      BY <1>2, <2>1, <2>6 DEF Safe
    <3>2. j # i
      BY <2>1, <2>6, <3>1
    <3>3. j >= r.i
      BY <1>3, <2>2, <2>3, <3>1, <3>2
    <3> QED BY <2>3, <3>1, <3>3 DEF Safe, Spot
  <2>7. r.pc \in Refreshing \ {"post", "sync"}
    BY <2>3 DEF Refreshing
  <2>8. PICK k : k = CancelThen(t, o, r)
    OBVIOUS
  <2>9. Moves(t, k, H)
    BY <1>0, <1>1, <1>2, <2>2, <2>3, <2>4, <2>5, <2>6, <2>7, <2>8, OnwardMoves
  <2> QED BY <2>9
<1>5. CASE ~(me.i <= Len(H)) /\ Rewrite(t, <<>>, IF target = 0 THEN Leave(t)
                        ELSE [me EXCEPT !.pc = "place", !.px = target, !.i = 1])
  <2>1. ~\E q : Safe(me, H, q)
    <3>1. \A j \in DOMAIN H : ~(j >= me.i)
      BY <1>3, <1>5
    <3> QED BY <1>2, <3>1 DEF Safe
  <2>2. Ids(<<>>) = {}
    BY DEF Ids
  <2>3. CASE target = 0
    <3>1. Turn(t, Leave(t), <<>>)
      BY <1>0, <1>1, <1>2, <1>5, <2>3, TurnTaken
    <3>2. Moves(t, Leave(t), <<>>)
      BY <1>0, <1>1, <1>2, <2>1, <2>2, <3>1, LeavingMoves
    <3> QED BY <3>2
  <2>4. CASE target # 0
    <3>1. PICK a, b, r : a = WithPc(me, "place") /\ b = WithPx(a, target) /\ r = WithI(b, 1)
      OBVIOUS
    <3>2. a \in TaskType /\ a.pc = "place" /\ Steady(a, me)
      <4>1. "place" \in Moment
        BY DEF Moment, Refreshing
      <4> QED BY <1>2, <3>1, <4>1, SetPc
    <3>3. b \in TaskType /\ b.pc = "place" /\ Steady(b, me)
      BY <1>2, <3>1, <3>2, SetPx DEF Steady
    <3>4. r \in TaskType /\ r.pc = "place" /\ Steady(r, me)
      BY <3>1, <3>3, SetI DEF Steady
    <3>5. Turn(t, r, <<>>)
      <4>1. Rewrite(t, <<>>, r)
        BY <1>5, <2>4, <3>1 DEF WithPc, WithPx, WithI
      <4> QED BY <1>0, <1>1, <1>2, <4>1, TurnTaken
    <3>6. r.pc \in Refreshing \ {"post", "sync"} /\ r.pc # "sweep"
      BY <3>4 DEF Refreshing
    <3>7. Moves(t, r, <<>>)
      BY <1>0, <1>1, <1>2, <2>1, <2>2, <3>4, <3>5, <3>6, StraightMoves
    <3> QED BY <3>7
  <2> QED BY <2>3, <2>4
<1> QED
  BY <1>1, <1>2, <1>4, <1>5 DEF Sweep

LEMMA TrimMoves ==
  ASSUME Calm, NEW t \in Task, Trim(t)
  PROVE  \E k, L : Moves(t, k, L)
<1>0. Typed /\ OpenInv /\ Undisturbed /\ Exact
  BY DEF Calm
<1>1. PICK me, H : me = task[t] /\ H = Here(t)
  OBVIOUS
<1>2. /\ me.pc = "trim" /\ me \in TaskType /\ me.on # 0 /\ me.pc \in Refreshing \ {"post"}
      /\ Levels(t) = H /\ H \in Seq(Level) /\ setup.mode \notin Layered
  <2>1. Runs(t, "trim") /\ "trim" \in Refreshing \ {"post"}
    BY DEF Trim, Refreshing
  <2> QED BY <1>1, <2>1, OnRefresh DEF TaskRight, Single
<1>3. PICK r : r = WithPc(me, "decide")
  OBVIOUS
<1>4. r \in TaskType /\ Steady(r, me) /\ r.pc = "decide"
  <2>1. "decide" \in Moment
    BY DEF Moment, Refreshing
  <2> QED BY <1>2, <1>3, <2>1, SetPc
<1>5. \A k, L, q : Spot(k) \in {"trim", "decide"} => Safe(k, L, q)
  BY DEF Safe
<1>6. Spot(r) = "decide" /\ r.pc \in Refreshing \ {"post", "sync"} /\ r.pc # "sweep"
  BY <1>4 DEF Spot, Refreshing
<1>7. \A q : Claims(H, q) => H = <<q>>
  BY <1>2 DEF Claims
<1>8. CASE me.todo # <<>> /\ UNCHANGED sessions
           /\ Becomes(t, CancelThen(t, Head(me.todo).id, [me EXCEPT !.todo = Tail(@)]))
  <2>1. PICK o, c : o = Head(me.todo).id /\ c = WithTodo(me, Tail(me.todo))
    OBVIOUS
  <2>2. o \in Quotes /\ c \in TaskType /\ Steady(c, me) /\ c.pc = "trim"
    <3>1. me.todo \in Seq(Level)
      BY <1>2, Fields
    <3>2. o \in Quotes /\ Tail(me.todo) \in Seq(Level)
      BY <1>8, <2>1, <3>1, LevelIds
    <3> QED BY <1>2, <2>1, <3>2, SetTodo
  <2>3. Turn(t, CancelThen(t, o, c), H)
    <3>1. Becomes(t, CancelThen(t, o, c))
      BY <1>8, <2>1 DEF WithTodo
    <3> QED BY <1>0, <1>1, <1>2, <1>8, <3>1, TurnTaken
  <2>4. Spot(c) = "trim" /\ c.pc \in Refreshing \ {"post", "sync"} /\ c.pc # "sweep"
    BY <2>2 DEF Spot, Refreshing
  <2>5. Moves(t, CancelThen(t, o, c), H)
    BY <1>0, <1>1, <1>2, <1>5, <2>2, <2>3, <2>4, OnwardMoves
  <2> QED BY <2>5
<1>9. CASE Rewrite(t, IF H = <<>> THEN H ELSE <<Head(H)>>, r)
  <2>1. PICK L : L = IF H = <<>> THEN H ELSE <<Head(H)>>
    OBVIOUS
  <2>2. L \in Seq(Level) /\ ToSet(L) \subseteq ToSet(H)
    <3>1. CASE H = <<>>
      BY <1>2, <2>1, <3>1
    <3>2. CASE H # <<>>
      <4>1. Head(H) \in Level /\ Head(H) = H[1] /\ Len(H) \in 1..Len(H)
        BY <1>2, <3>2, HeadType
      <4>2. 1 \in DOMAIN H
        <5>1. Len(H) \in Nat
          BY <1>2, LenProperties
        <5> QED BY <1>2, <4>1, <5>1, LenProperties
      <4>3. <<Head(H)>> \in Seq(Level) /\ ToSet(<<Head(H)>>) = {Head(H)}
        BY <4>1 DEF ToSet
      <4> QED BY <2>1, <3>2, <4>1, <4>2, <4>3 DEF ToSet
    <3> QED BY <3>1, <3>2
  <2>3. Turn(t, r, L)
    BY <1>0, <1>1, <1>2, <1>9, <2>1, TurnTaken
  <2>4. ASSUME NEW q \in Level, Claims(H, q) PROVE Claims(L, q)
    <3>1. H = <<q>> /\ <<q>> # <<>> /\ Head(<<q>>) = q
      BY <1>7, <2>4
    <3> QED BY <1>2, <2>1, <3>1 DEF Claims
  <2>5. Ids(L) \subseteq Ids(H)
    BY <1>2, <2>2, FewerIds
  <2>6. Moves(t, r, L)
    BY <1>0, <1>1, <1>2, <1>4, <1>5, <1>6, <2>3, <2>4, <2>5, StraightMoves
  <2> QED BY <2>6
<1>10. CASE Len(H) > 1 /\ Rewrite(t, Front(H), CancelThen(t, Last(H).id, me))
  <2>1. H # <<>> /\ ~\E q : Claims(H, q)
    <3>1. \A q : Len(<<q>>) = 1
      OBVIOUS
    <3>2. Len(<<>>) = 0
      OBVIOUS
    <3>3. \A q : Claims(H, q) => Len(H) = 1
      BY <1>7, <3>1
    <3>4. ~(Len(H) = 0) /\ ~(Len(H) = 1)
      <4>1. PICK n : n = Len(H)
        OBVIOUS
      <4>2. n \in Nat
        BY <1>2, <4>1, LenProperties
      <4>3. n > 1
        BY <1>10, <4>1
      <4>4. ~(n = 0) /\ ~(n = 1)
        BY <4>2, <4>3
      <4> QED BY <4>1, <4>4
    <3> QED BY <3>2, <3>3, <3>4, Zenon
  <2>2. PICK o, L : o = Last(H).id /\ L = Front(H)
    OBVIOUS
  <2>3. o \in Quotes /\ L \in Seq(Level) /\ ToSet(L) \subseteq ToSet(H)
    <3>1. o \in Quotes /\ L \in Seq(Level)
      BY <1>2, <2>1, <2>2, LevelIds, HeadType
    <3>2. L = [i \in 1..Len(H) - 1 |-> H[i]]
      <4>1. Len(H) \in Nat
        BY <1>2, LenProperties
      <4> QED BY <1>2, <1>10, <2>2, <4>1 DEF Front
    <3>3. ToSet(L) \subseteq ToSet(H)
      <4>1. DOMAIN H = 1..Len(H) /\ Len(H) \in Nat /\ DOMAIN L = 1..Len(H) - 1
        BY <1>2, <3>2, LenProperties
      <4>2. \A i \in DOMAIN L : i \in DOMAIN H /\ L[i] = H[i]
        BY <3>2, <4>1
      <4> QED BY <4>2 DEF ToSet
    <3> QED BY <3>1, <3>3
  <2>4. Ids(L) \subseteq Ids(H)
    BY <1>2, <2>3, FewerIds
  <2>5. Turn(t, CancelThen(t, o, me), L)
    BY <1>0, <1>1, <1>2, <1>10, <2>2, TurnTaken
  <2>6. me.pc \in Refreshing \ {"post", "sync"} /\ me.pc # "sweep" /\ Steady(me, me)
    BY <1>2 DEF Refreshing, Steady
  <2>7. Moves(t, CancelThen(t, o, me), L)
    BY <1>0, <1>1, <1>2, <2>1, <2>3, <2>4, <2>5, <2>6, OnwardMoves
  <2> QED BY <2>7
<1>11. CASE Becomes(t, r) /\ UNCHANGED sessions
  <2>1. Turn(t, r, H)
    BY <1>0, <1>1, <1>2, <1>11, TurnTaken
  <2>2. Moves(t, r, H)
    BY <1>0, <1>1, <1>2, <1>4, <1>5, <1>6, <2>1, StraightMoves
  <2> QED BY <2>2
<1>12. r = [me EXCEPT !.pc = "decide"]
  BY <1>3 DEF WithPc
<1> QED
  BY <1>1, <1>2, <1>8, <1>9, <1>10, <1>11, <1>12, Zenon DEF Trim

LEMMA DecideMoves ==
  ASSUME Calm, NEW t \in Task, Decide(t)
  PROVE  \E k, L : Moves(t, k, L)
<1>0. Typed /\ OpenInv /\ Undisturbed /\ Exact
  BY DEF Calm
<1>1. PICK me, H, target : me = task[t] /\ H = Here(t) /\ target = me.want[me.side]
  OBVIOUS
<1>2. /\ me.pc = "decide" /\ me \in TaskType /\ me.on # 0 /\ me.pc \in Refreshing \ {"post"}
      /\ Levels(t) = H /\ H \in Seq(Level) /\ setup.mode \notin Layered /\ target \in 0..MaxPrice
      /\ UNCHANGED sessions
  <2>1. Runs(t, "decide") /\ "decide" \in Refreshing \ {"post"}
    BY DEF Decide, Refreshing
  <2> QED BY <1>1, <2>1, OnRefresh DEF TaskRight, Single, Decide
<1>3. \A q : Claims(H, q) => H = <<q>>
  BY <1>2 DEF Claims
<1>4. CASE H = <<>> /\ Becomes(t, [me EXCEPT !.pc = "place", !.px = target])
  <2>1. PICK a, r : a = WithPc(me, "place") /\ r = WithPx(a, target)
    OBVIOUS
  <2>2. r \in TaskType /\ Steady(r, me) /\ r.pc = "place"
    <3>1. "place" \in Moment
      BY DEF Moment, Refreshing
    <3>2. a \in TaskType /\ Steady(a, me) /\ a.pc = "place"
      BY <1>2, <2>1, <3>1, SetPc
    <3> QED BY <1>2, <2>1, <3>2, SetPx DEF Steady
  <2>3. ~\E q : Claims(H, q)
    BY <1>3, <1>4
  <2>4. Turn(t, r, H)
    BY <1>0, <1>1, <1>2, <1>4, <2>1, TurnTaken DEF WithPc, WithPx
  <2>5. r.pc \in Refreshing \ {"post", "sync"} /\ r.pc # "sweep"
    BY <2>2 DEF Refreshing
  <2>6. Moves(t, r, H)
    BY <1>0, <1>1, <1>2, <2>2, <2>3, <2>4, <2>5, StraightMoves
  <2> QED BY <2>6
<1>5. CASE Becomes(t, Leave(t))
  <2>1. Turn(t, Leave(t), H)
    BY <1>0, <1>1, <1>2, <1>5, TurnTaken
  <2>2. Moves(t, Leave(t), H)
    BY <1>0, <1>1, <1>2, <2>1, LeavingMoves
  <2> QED BY <2>2
<1>6. CASE /\ H # <<>>
           /\ \E x \in 0..MaxPrice : Becomes(t, CancelThen(t, Head(H).id, [me EXCEPT !.pc = "clear", !.px = x]))
  <2>1. PICK x \in 0..MaxPrice : Becomes(t, CancelThen(t, Head(H).id, [me EXCEPT !.pc = "clear", !.px = x]))
    BY <1>6
  <2>2. PICK a, r, o : a = WithPc(me, "clear") /\ r = WithPx(a, x) /\ o = Head(H).id
    OBVIOUS
  <2>3. r \in TaskType /\ Steady(r, me) /\ r.pc = "clear"
    <3>1. "clear" \in Moment
      BY DEF Moment, Refreshing
    <3>2. a \in TaskType /\ Steady(a, me) /\ a.pc = "clear"
      BY <1>2, <2>2, <3>1, SetPc
    <3> QED BY <2>2, <3>2, SetPx DEF Steady
  <2>4. o \in Quotes
    BY <1>2, <1>6, <2>2, LevelIds
  <2>5. Turn(t, CancelThen(t, o, r), H)
    <3>1. Becomes(t, CancelThen(t, o, r))
      BY <2>1, <2>2 DEF WithPc, WithPx
    <3> QED BY <1>0, <1>1, <1>2, <3>1, TurnTaken
  <2>6. \A q : Claims(H, q) => q.id = o
    <3>1. \A q : Head(<<q>>) = q
      OBVIOUS
    <3> QED BY <1>3, <2>2, <3>1
  <2>7. r.pc \in Refreshing \ {"post", "sync"} /\ r.pc # "sweep"
    BY <2>3 DEF Refreshing
  <2>8. Moves(t, CancelThen(t, o, r), H)
    BY <1>0, <1>1, <1>2, <2>3, <2>4, <2>5, <2>6, <2>7, OnwardMoves
  <2> QED BY <2>8
<1>7. \A p : Replacements(p, target) \cap Nat \subseteq Replacements(p, target)
  OBVIOUS
<1>8. ASSUME H # <<>>, NEW x \in Replacements(order[Head(H).id].px, target)
      PROVE  x \in 0..MaxPrice
  <2>1. Head(H).id \in Quotes
    BY <1>2, <1>8, LevelIds
  <2>2. PICK p : p = order[Head(H).id].px
    OBVIOUS
  <2>3. p \in 0..MaxPrice
    BY <1>0, <2>1, <2>2 DEF Typed, OrderType
  <2>4. x = target \/ (p < target /\ x = p + 1)
    BY <1>8, <2>2 DEF Replacements
  <2> QED BY <1>2, <2>3, <2>4, Prices
<1> QED
  BY <1>1, <1>2, <1>4, <1>5, <1>6, <1>8 DEF Decide

LEMMA ClearMoves ==
  ASSUME Calm, NEW t \in Task, Clear(t)
  PROVE  \E k, L : Moves(t, k, L)
<1>0. Typed /\ OpenInv /\ Undisturbed /\ Exact
  BY DEF Calm
<1>1. PICK me, r : me = task[t] /\ r = WithPc(me, "place")
  OBVIOUS
<1>2. /\ me.pc = "clear" /\ me \in TaskType /\ me.on # 0 /\ me.pc \in Refreshing \ {"post"}
      /\ Spot(me) = "clear"
  <2>1. Runs(t, "clear") /\ "clear" \in Refreshing \ {"post"}
    BY DEF Clear, Refreshing
  <2> QED BY <1>1, <2>1, OnRefresh
<1>3. r \in TaskType /\ Steady(r, me) /\ r.pc = "place"
  <2>1. "place" \in Moment
    BY DEF Moment, Refreshing
  <2> QED BY <1>1, <1>2, <2>1, SetPc
<1>4. Turn(t, r, <<>>)
  BY <1>0, <1>1, <1>2, TurnTaken DEF Clear, WithPc
<1>5. ~\E q : Safe(me, Here(t), q)
  BY <1>2 DEF Safe
<1>6. r.pc \in Refreshing \ {"post", "sync"} /\ r.pc # "sweep" /\ Ids(<<>>) = {}
  BY <1>3 DEF Refreshing, Ids
<1>7. Moves(t, r, <<>>)
  BY <1>0, <1>1, <1>2, <1>3, <1>4, <1>5, <1>6, StraightMoves
<1> QED
  BY <1>7

LEMMA ClaimRemove ==
  ASSUME setup.mode \in Layered, NEW L \in Seq(Level), NEW q \in Level, Claims(L, q),
         NEW x \in ToSet(L), x # q
  PROVE  Claims(RemoveFirst(L, x), q)
BY TopRemove DEF Claims

LEMMA ExtrasMoves ==
  ASSUME Calm, NEW t \in Task, Extras(t)
  PROVE  \E k, L : Moves(t, k, L)
<1>0. Typed /\ OpenInv /\ Undisturbed /\ Exact
  BY DEF Calm
<1>1. PICK me, H, targets : me = task[t] /\ H = Here(t) /\ targets = LadderTargets(me.want[me.side])
  OBVIOUS
<1>2. /\ me.pc = "extras" /\ me \in TaskType /\ me.on # 0 /\ me.pc \in Refreshing \ {"post"}
      /\ Spot(me) = "extras" /\ UNCHANGED sessions
  <2>1. Runs(t, "extras") /\ "extras" \in Refreshing \ {"post"}
    BY DEF Extras, Refreshing
  <2> QED BY <1>1, <2>1, OnRefresh DEF Extras
<1>3. ASSUME NEW q, Safe(me, H, q)
      PROVE  /\ Climbs(me)
             /\ q.idx \in targets => InPlan(me, q) /\ q \notin ToSet(me.todo)
             /\ q.idx \notin targets => q \in ToSet(me.todo)
  BY <1>1, <1>2, <1>3 DEF Safe
<1>4. CASE me.todo = <<>> /\ Becomes(t, [me EXCEPT !.pc = "level", !.i = 1])
  <2>1. PICK a, r : a = WithPc(me, "level") /\ r = WithI(a, 1)
    OBVIOUS
  <2>2. r \in TaskType /\ Steady(r, me) /\ r.pc = "level" /\ r.plan = me.plan
    <3>1. "level" \in Moment
      BY DEF Moment, Refreshing
    <3>2. a \in TaskType /\ Steady(a, me) /\ a.pc = "level" /\ a.plan = me.plan
      BY <1>2, <2>1, <3>1, SetPc
    <3> QED BY <2>1, <3>2, SetI DEF Steady
  <2>3. Turn(t, r, H)
    BY <1>0, <1>1, <1>2, <1>4, <2>1, TurnTaken DEF WithPc, WithI
  <2>4. ASSUME NEW q, Safe(me, H, q) PROVE Safe(r, H, q)
    <3>1. ToSet(me.todo) = {}
      BY <1>4 DEF ToSet
    <3>2. Climbs(me) /\ InPlan(me, q)
      BY <1>3, <2>4, <3>1
    <3> QED BY <2>2, <3>2 DEF Safe, Spot, Climbs, InPlan, Steady
  <2>5. r.pc \in Refreshing \ {"post", "sync"} /\ r.pc # "sweep"
    BY <2>2 DEF Refreshing
  <2>6. Moves(t, r, H)
    BY <1>0, <1>1, <1>2, <2>2, <2>3, <2>4, <2>5, StraightMoves
  <2> QED BY <2>6
<1>5. CASE me.todo # <<>> /\ Becomes(t, CancelThen(t, Head(me.todo).id, [me EXCEPT !.pc = "shed"]))
  <2>1. PICK o, r : o = Head(me.todo).id /\ r = WithPc(me, "shed")
    OBVIOUS
  <2>2. o \in Quotes
    <3>1. me.todo \in Seq(Level)
      BY <1>2, Fields
    <3> QED BY <1>5, <2>1, <3>1, LevelIds
  <2>3. r \in TaskType /\ Steady(r, me) /\ r.pc = "shed" /\ r.plan = me.plan /\ r.todo = me.todo
    <3>1. "shed" \in Moment
      BY DEF Moment, Refreshing
    <3> QED BY <1>2, <2>1, <3>1, SetPc
  <2>4. Turn(t, CancelThen(t, o, r), H)
    <3>1. Becomes(t, CancelThen(t, o, r))
      BY <1>5, <2>1 DEF WithPc
    <3> QED BY <1>0, <1>1, <1>2, <3>1, TurnTaken
  <2>5. ASSUME NEW q, Safe(me, H, q), q.id # o PROVE Safe(r, H, q)
    <3>1. q # Head(r.todo)
      BY <2>1, <2>3, <2>5
    <3>2. Spot(r) = "shed" /\ LadderTargets(r.want[r.side]) = targets
      BY <1>1, <2>3 DEF Spot, Steady
    <3>3. Climbs(r) /\ (InPlan(me, q) => InPlan(r, q))
      BY <1>3, <2>3, <2>5 DEF Climbs, InPlan, Steady
    <3> QED BY <1>3, <2>3, <2>5, <3>1, <3>2, <3>3 DEF Safe
  <2>6. r.pc \in Refreshing \ {"post", "sync"} /\ r.pc # "sweep"
    BY <2>3 DEF Refreshing
  <2>7. Moves(t, CancelThen(t, o, r), H)
    BY <1>0, <1>1, <1>2, <2>2, <2>3, <2>4, <2>5, <2>6, OnwardMoves
  <2> QED BY <2>7
<1> QED
  BY <1>1, <1>4, <1>5 DEF Extras

\* A level is taken off a ladder's list, or is not there and the refresh ends.
LEMMA TakeOffMoves ==
  ASSUME Calm, NEW t \in Task, task[t].on # 0, task[t].pc \in Refreshing \ {"post"},
         NEW r \in TaskType, Steady(r, task[t]), r.pc \in Refreshing \ {"post", "sync", "sweep"},
         NEW x, TakeOff(t, x, r),
         \A L, q : Safe(task[t], Here(t), q) => setup.mode \in Layered /\ q # x /\ Safe(r, L, q)
  PROVE  \E k, L : Moves(t, k, L)
<1>0. Typed /\ OpenInv /\ Undisturbed /\ Exact
  BY DEF Calm
<1>1. Levels(t) = Here(t) /\ Here(t) \in Seq(Level)
  BY <1>0, Acting
<1>2. CASE x \in ToSet(Here(t))
  <2>1. PICK R : R = RemoveFirst(Here(t), x)
    OBVIOUS
  <2>2. R \in Seq(Level) /\ ToSet(R) \subseteq ToSet(Here(t))
    BY <1>1, <1>2, <2>1, RemoveFirstKeeps
  <2>3. Ids(R) \subseteq Ids(Here(t))
    BY <1>1, <2>2, FewerIds
  <2>4. Turn(t, r, R)
    <3>1. Rewrite(t, R, r)
      BY <1>1, <1>2, <2>1 DEF TakeOff
    <3> QED BY <1>0, <3>1, TurnTaken
  <2>5. ASSUME NEW q \in Level, Claims(Here(t), q), Safe(task[t], Here(t), q)
        PROVE  Claims(R, q) /\ Safe(r, R, q)
    <3>1. setup.mode \in Layered /\ q # x /\ Safe(r, R, q)
      BY <2>5
    <3> QED BY <1>1, <1>2, <2>1, <2>5, <3>1, ClaimRemove
  <2>6. Moves(t, r, R)
    BY <1>0, <2>3, <2>4, <2>5, StraightMoves
  <2> QED BY <2>6
<1>3. CASE x \notin ToSet(Here(t))
  <2>1. Turn(t, IdleTask, Here(t))
    BY <1>0, <1>1, <1>3, TurnTaken DEF TakeOff
  <2>2. Moves(t, IdleTask, Here(t))
    BY <1>0, <2>1, LeavingMoves
  <2> QED BY <2>2
<1> QED
  BY <1>2, <1>3

LEMMA ToSetSplit ==
  ASSUME NEW E, NEW L \in Seq(E), L # <<>>
  PROVE  ToSet(L) = {Head(L)} \cup ToSet(Tail(L))
<1>1. PICK n : n = Len(L) /\ n \in Nat /\ n # 0 /\ DOMAIN L = 1..n
  BY LenProperties, EmptySeq
<1>2. PICK T : T = Tail(L)
  OBVIOUS
<1>3. T \in Seq(E) /\ DOMAIN T = 1..n - 1 /\ \A i \in 1..n - 1 : T[i] = L[i + 1]
  <2>1. T \in Seq(E) /\ Len(T) = n - 1 /\ \A i \in 1..Len(T) : T[i] = L[i + 1]
    BY <1>1, <1>2, HeadTailProperties
  <2> QED BY <2>1, LenProperties
<1>4. Head(L) = L[1]
  OBVIOUS
<1>5. ASSUME NEW x \in ToSet(L) PROVE x \in {L[1]} \cup ToSet(T)
  <2>1. PICK i \in 1..n : x = L[i]
    BY <1>1 DEF ToSet
  <2>2. i = 1 \/ (i - 1 \in 1..n - 1 /\ (i - 1) + 1 = i)
    BY <1>1
  <2> QED BY <1>3, <2>1, <2>2 DEF ToSet
<1>6. ASSUME NEW x \in ToSet(T) PROVE x \in ToSet(L)
  <2>1. PICK i \in 1..n - 1 : x = L[i + 1]
    BY <1>3, <1>5 DEF ToSet
  <2>2. i + 1 \in 1..n
    BY <1>1
  <2> QED BY <1>1, <2>1, <2>2 DEF ToSet
<1>7. L[1] \in ToSet(L)
  <2>1. 1 \in 1..n
    BY <1>1
  <2> QED BY <1>1, <2>1 DEF ToSet
<1> QED
  BY <1>2, <1>4, <1>5, <1>6, <1>7

LEMMA ShedMoves ==
  ASSUME Calm, NEW t \in Task, Shed(t)
  PROVE  \E k, L : Moves(t, k, L)
<1>0. Typed /\ OpenInv /\ Undisturbed /\ Exact
  BY DEF Calm
<1>1. PICK me, a, r : me = task[t] /\ a = WithPc(me, "extras") /\ r = WithTodo(a, Tail(me.todo))
  OBVIOUS
<1>2. /\ me.pc = "shed" /\ me \in TaskType /\ me.on # 0 /\ me.pc \in Refreshing \ {"post"}
      /\ Spot(me) = "shed" /\ TaskRight(setup.mode, me)
  <2>1. Runs(t, "shed") /\ "shed" \in Refreshing \ {"post"}
    BY DEF Shed, Refreshing
  <2> QED BY <1>1, <2>1, OnRefresh
<1>3. me.todo \in Seq(Level) /\ me.todo # <<>>
  BY <1>2, Fields DEF TaskRight
<1>4. Tail(me.todo) \in Seq(Level)
  BY <1>3, HeadType
<1>5. r \in TaskType /\ Steady(r, me) /\ r.pc = "extras" /\ r.plan = me.plan /\ r.todo = Tail(me.todo)
  <2>1. "extras" \in Moment
    BY DEF Moment, Refreshing
  <2>2. a \in TaskType /\ Steady(a, me) /\ a.pc = "extras" /\ a.plan = me.plan
    BY <1>1, <1>2, <2>1, SetPc
  <2> QED BY <1>1, <1>4, <2>2, SetTodo DEF Steady
<1>6. TakeOff(t, Head(me.todo), r)
  BY <1>1 DEF Shed, WithPc, WithTodo, TaskType
<1>7. \A q : q \in ToSet(me.todo) <=> q = Head(me.todo) \/ q \in ToSet(Tail(me.todo))
  BY <1>3, ToSetSplit
<1>8. \A L, q : Safe(me, Here(t), q) => setup.mode \in Layered /\ q # Head(me.todo) /\ Safe(r, L, q)
  <2>1. Spot(r) = "extras"
    BY <1>5 DEF Spot
  <2> QED BY <1>2, <1>5, <1>7, <2>1 DEF Safe, Climbs, InPlan, Steady
<1> QED
  BY <1>0, <1>1, <1>2, <1>5, <1>6, <1>8, TakeOffMoves DEF Calm, Refreshing

LEMMA RemoveLevelMoves ==
  ASSUME Calm, NEW t \in Task, RemoveLevel(t) \/ DropLevel(t)
  PROVE  \E k, L : Moves(t, k, L)
<1>0. Typed /\ OpenInv /\ Undisturbed /\ Exact
  BY DEF Calm
<1>1. PICK me, r, x : me = task[t] /\ r = WithPc(me, "place") /\ x = me.plan[me.i]
  OBVIOUS
<1>2. /\ me.pc \in {"remove", "drop"} /\ me \in TaskType /\ me.on # 0 /\ me.pc \in Refreshing \ {"post"}
      /\ Spot(me) = me.pc /\ Levels(t) = Here(t)
  <2>1. Runs(t, "remove") \/ Runs(t, "drop")
    BY DEF RemoveLevel, DropLevel
  <2>2. "remove" \in Refreshing \ {"post"} /\ "drop" \in Refreshing \ {"post"}
    BY DEF Refreshing
  <2> QED BY <1>1, <2>1, <2>2, OnRefresh
<1>3. r \in TaskType /\ Steady(r, me) /\ r.pc = "place" /\ r.plan = me.plan /\ r.i = me.i
  <2>1. "place" \in Moment
    BY DEF Moment, Refreshing
  <2> QED BY <1>1, <1>2, <2>1, SetPc
<1>4. r.pc \in Refreshing \ {"post", "sync", "sweep"} /\ Spot(r) = "place"
  BY <1>3 DEF Refreshing, Spot
<1>5. ASSUME NEW L, NEW q, Safe(me, Here(t), q)
      PROVE  setup.mode \in Layered /\ q # x /\ Safe(r, L, q)
  BY <1>1, <1>2, <1>3, <1>4, <1>5 DEF Safe, Climbs, InPlan, Steady
<1>6. CASE TakeOff(t, x, r)
  BY <1>0, <1>1, <1>2, <1>3, <1>4, <1>5, <1>6, TakeOffMoves DEF Calm
<1>7. CASE Becomes(t, r) /\ UNCHANGED sessions
  <2>1. Turn(t, r, Here(t))
    BY <1>0, <1>1, <1>2, <1>7, TurnTaken
  <2>2. Moves(t, r, Here(t))
    BY <1>0, <1>1, <1>2, <1>3, <1>4, <1>5, <2>1, StraightMoves
  <2> QED BY <2>2
<1>8. TakeOff(t, x, r) \/ (Becomes(t, r) /\ UNCHANGED sessions)
  BY <1>1, Zenon DEF RemoveLevel, DropLevel, WithPc
<1> QED
  BY <1>6, <1>7, <1>8

LEMMA NextFields ==
  ASSUME NEW t, task[t] \in TaskType
  PROVE  /\ NextLevel(t) \in TaskType /\ Steady(NextLevel(t), task[t]) /\ NextLevel(t).pc = "level"
         /\ NextLevel(t).i = task[t].i + 1 /\ NextLevel(t).plan = task[t].plan
         /\ NextLevel(t).id = task[t].id
<1>1. PICK me, a, b, r : me = task[t] /\ a = WithPc(me, "level") /\ b = WithI(a, me.i + 1) /\ r = WithPx(b, 0)
  OBVIOUS
<1>2. me \in TaskType /\ me.i + 1 \in Nat \ {0} /\ 0 \in 0..MaxPrice /\ "level" \in Moment
  <2>1. me \in TaskType
    BY <1>1
  <2>2. me.i + 1 \in Nat \ {0}
    BY <2>1, Fields
  <2>3. 0 \in 0..MaxPrice
    BY Prices
  <2>4. "level" \in Moment
    BY DEF Moment, Refreshing
  <2> QED BY <2>1, <2>2, <2>3, <2>4
<1>3. a \in TaskType /\ a.pc = "level" /\ Steady(a, me) /\ a.plan = me.plan /\ a.i = me.i /\ a.id = me.id
  BY <1>1, <1>2, SetPc
<1>4. b \in TaskType /\ b.pc = "level" /\ Steady(b, me) /\ b.plan = me.plan /\ b.i = me.i + 1 /\ b.id = me.id
  BY <1>1, <1>2, <1>3, SetI DEF Steady
<1>5. /\ r \in TaskType /\ r.pc = "level" /\ Steady(r, me) /\ r.plan = me.plan /\ r.i = me.i + 1
      /\ r.id = me.id
  BY <1>1, <1>2, <1>4, SetPx DEF Steady
<1>6. NextLevel(t) = r
  BY <1>1, <1>3 DEF NextLevel, WithPc, WithI, WithPx
<1> QED
  BY <1>1, <1>5, <1>6

\* What is known on a ladder of level i is known of those after it.
LEMMA OnLater ==
  ASSUME NEW q \in Level, NEW i \in Nat \ {0}
  PROVE  /\ q.idx + 1 >= i + 1 => q.idx + 1 > i
         /\ q.idx + 1 >= i /\ q.idx + 1 # i => q.idx + 1 > i
         /\ q.idx + 1 > i => q.idx + 1 >= i /\ q.idx + 1 >= i + 1
<1>1. PICK n : n = q.idx /\ n \in Nat
  BY DEF Level, LadderLevels
<1> QED
  BY <1>1

LEMMA NextIsSafe ==
  ASSUME NEW t, task[t] \in TaskType, NEW r, Steady(r, task[t]), r.pc = "level",
         r.i = task[t].i + 1, r.plan = task[t].plan,
         NEW L, NEW M, NEW q \in Level, Safe(task[t], M, q), Spot(task[t]) \in {"level", "place", "post"}
  PROVE  Safe(r, L, q)
<1>1. PICK k, i : k = task[t] /\ i = k.i /\ i \in Nat \ {0}
  BY DEF TaskType
<1>2. Climbs(k) /\ (q.idx + 1 > i => InPlan(k, q))
  BY <1>1, OnLater DEF Safe
<1>3. Spot(r) = "level" /\ Climbs(r) /\ (InPlan(k, q) => InPlan(r, q))
  BY <1>1, <1>2 DEF Spot, Climbs, InPlan, Steady
<1>4. q.idx + 1 >= r.i => InPlan(k, q)
  BY <1>1, <1>2, OnLater
<1> QED
  BY <1>3, <1>4 DEF Safe

LEMMA ToSetJoin ==
  ASSUME NEW E, NEW A \in Seq(E), NEW B \in Seq(E)
  PROVE  A \o B \in Seq(E) /\ ToSet(A \o B) = ToSet(A) \cup ToSet(B)
<1>1. PICK C, a, b : /\ C = A \o B /\ a = Len(A) /\ b = Len(B) /\ a \in Nat /\ b \in Nat
                     /\ DOMAIN A = 1..a /\ DOMAIN B = 1..b
  BY LenProperties
<1>2. /\ C \in Seq(E) /\ Len(C) = a + b
      /\ \A i \in 1..a + b : C[i] = IF i <= a THEN A[i] ELSE B[i - a]
  BY <1>1, ConcatProperties
<1>3. DOMAIN C = 1..a + b
  BY <1>2, LenProperties
<1>4. \A i \in 1..a : i \in 1..a + b /\ C[i] = A[i]
  BY <1>1, <1>2
<1>5. \A i \in 1..b : i + a \in 1..a + b /\ C[i + a] = B[i]
  BY <1>1, <1>2
<1>6. \A i \in 1..a + b : i \in 1..a \/ (i - a \in 1..b /\ C[i] = B[i - a])
  BY <1>1, <1>2
<1>7. ToSet(C) \subseteq ToSet(A) \cup ToSet(B)
  BY <1>1, <1>3, <1>4, <1>6 DEF ToSet
<1>8. ToSet(A) \subseteq ToSet(C) /\ ToSet(B) \subseteq ToSet(C)
  BY <1>1, <1>3, <1>4, <1>5 DEF ToSet
<1> QED
  BY <1>1, <1>2, <1>7, <1>8

LEMMA JoinIds ==
  ASSUME NEW L \in Seq(Level)
  PROVE  Ids(OfIndex(L, 0) \o OfIndex(L, 1)) \subseteq Ids(L)
<1>1. PICK A, B : A = OfIndex(L, 0) /\ B = OfIndex(L, 1)
  OBVIOUS
<1>2. A \in Seq(Level) /\ B \in Seq(Level) /\ ToSet(A) \subseteq ToSet(L) /\ ToSet(B) \subseteq ToSet(L)
  BY <1>1, OnlyKeeps DEF OfIndex
<1>3. PICK C : C = A \o B
  OBVIOUS
<1>4. C \in Seq(Level) /\ ToSet(C) = ToSet(A) \cup ToSet(B)
  BY <1>2, <1>3, ToSetJoin
<1> QED
  BY <1>1, <1>2, <1>3, <1>4, FewerIds

LEMMA LadderLevelMoves ==
  ASSUME Calm, NEW t \in Task, LadderLevel(t)
  PROVE  \E k, L : Moves(t, k, L)
<1>0. Typed /\ OpenInv /\ Undisturbed /\ Exact
  BY DEF Calm
<1>1. PICK me, H, i, want, x, p, target : /\ me = task[t] /\ H = Here(t) /\ i = me.i /\ want = me.want[me.side]
                               /\ x = me.plan[i] /\ p = order[x.id].px /\ target = want - (i - 1)
  OBVIOUS
<1>2. /\ me.pc = "level" /\ me \in TaskType /\ me.on # 0 /\ me.pc \in Refreshing \ {"post"}
      /\ Spot(me) = "level" /\ TaskRight(setup.mode, me)
      /\ Levels(t) = H /\ H \in Seq(Level) /\ want \in 0..MaxPrice
  <2>1. Runs(t, "level") /\ "level" \in Refreshing \ {"post"}
    BY DEF LadderLevel, Refreshing
  <2> QED BY <1>1, <2>1, OnRefresh
<1>3. i \in Nat \ {0} /\ me.plan \in Seq([id : Quotes \cup {0}, idx : 0..LadderLevels - 1])
      /\ Len(me.plan) = LadderLevels
  BY <1>1, <1>2, Fields DEF TaskRight, Laddering
<1>4. ASSUME NEW q \in Level, Safe(me, H, q)
      PROVE  /\ Climbs(me) /\ (q.idx + 1 >= i => InPlan(me, q))
             /\ (q.idx + 1 > i => InPlan(me, q)) /\ (q.idx + 1 = i => q = x)
  <2>1. Climbs(me) /\ (q.idx + 1 >= i => InPlan(me, q))
    BY <1>1, <1>2, <1>4 DEF Safe
  <2>2. q.idx + 1 = i => q.idx + 1 >= i
    BY <1>3
  <2> QED BY <1>1, <1>3, <2>1, <2>2, OnLater DEF InPlan
<1>5. ASSUME NEW pc \in {"place", "remove", "drop"}, NEW y \in 0..MaxPrice, NEW r, r = WithPx(WithPc(me, pc), y)
      PROVE  /\ r \in TaskType /\ Steady(r, me) /\ r.pc = pc
             /\ r.pc \in Refreshing \ {"post", "sync"} /\ r.pc # "sweep"
             /\ \A q \in Level : Safe(me, H, q) /\ q # x => Safe(r, H, q)
  <2>1. PICK a : a = WithPc(me, pc)
    OBVIOUS
  <2>2. pc \in Moment
    BY DEF Moment, Refreshing
  <2>3. a \in TaskType /\ a.pc = pc /\ Steady(a, me) /\ a.plan = me.plan /\ a.i = me.i
    BY <1>2, <2>1, <2>2, SetPc
  <2>4. r \in TaskType /\ r.pc = pc /\ Steady(r, me) /\ r.plan = me.plan /\ r.i = i
    BY <1>1, <1>5, <2>1, <2>3, SetPx DEF Steady
  <2>5. r.pc \in Refreshing \ {"post", "sync"} /\ r.pc # "sweep" /\ Spot(r) = pc
    BY <1>5, <2>4 DEF Refreshing, Spot
  <2>6. ASSUME NEW q \in Level, Safe(me, H, q), q # x PROVE Safe(r, H, q)
    <3>1. Climbs(r) /\ q.idx + 1 # i /\ (q.idx + 1 > i => InPlan(r, q))
      BY <1>4, <2>4, <2>6 DEF Climbs, InPlan, Steady
    <3>2. q # r.plan[r.i]
      BY <1>1, <2>4, <2>6
    <3> QED BY <1>5, <2>4, <2>5, <3>1, <3>2 DEF Safe
  <2> QED BY <2>4, <2>5, <2>6
<1>6. CASE Rebind(t, OfIndex(H, 0) \o OfIndex(H, 1), Leave(t))
  <2>1. PICK L : L = OfIndex(H, 0) \o OfIndex(H, 1)
    OBVIOUS
  <2>2. Turn(t, Leave(t), L)
    BY <1>0, <1>1, <1>2, <1>6, <2>1, TurnTaken
  <2>3. Ids(L) \subseteq Ids(H)
    BY <1>2, <2>1, JoinIds
  <2>4. ASSUME NEW q \in Level, Claims(H, q), Safe(me, H, q) PROVE Claims(L, q)
    BY <1>2, <1>4, <2>1, <2>4, TopJoin DEF Claims, Climbs
  <2>5. Moves(t, Leave(t), L)
    BY <1>0, <1>1, <1>2, <2>2, <2>3, <2>4, LeavingMoves
  <2> QED BY <2>5
<1>7. CASE UNCHANGED sessions /\ i - 1 \in LadderTargets(want)
  <2>1. i \in 1..LadderLevels /\ target \in 0..MaxPrice
    <3>1. MaxPrice \in Nat
      BY QuotesAssumption
    <3>2. i - 1 \in 0..LadderLevels - 1 /\ want > i - 1
      BY <1>7 DEF LadderTargets
    <3>3. ASSUME NEW w \in 0..MaxPrice, NEW j \in Nat, j # 0, j - 1 \in 0..LadderLevels - 1, w > j - 1
          PROVE  j \in 1..LadderLevels /\ w - (j - 1) \in 0..MaxPrice
      BY <3>1, <3>3 DEF LadderLevels
    <3> QED BY <1>1, <1>2, <1>3, <3>2, <3>3
  <2>2. x.id \in Quotes \cup {0}
    <3>1. x \in [id : Quotes \cup {0}, idx : 0..LadderLevels - 1]
      BY <1>1, <1>3, <2>1, ElementOfSeq
    <3> QED BY <3>1
  <2>3. CASE x.id = 0 /\ Becomes(t, [me EXCEPT !.pc = "place", !.px = target])
    <3>1. PICK r : r = WithPx(WithPc(me, "place"), target)
      OBVIOUS
    <3>2. Becomes(t, r)
      BY <2>3, <3>1 DEF WithPc, WithPx
    <3>3. Turn(t, r, H)
      BY <1>0, <1>1, <1>2, <1>7, <3>2, TurnTaken
    <3>4. \A q \in Level : q # x
      BY <2>3, QuotesAssumption DEF Level
    <3>5. Moves(t, r, H)
      BY <1>0, <1>1, <1>2, <1>5, <2>1, <3>1, <3>3, <3>4, StraightMoves
    <3> QED BY <3>5
  <2>4. CASE /\ x.id # 0
             /\ \E pc \in {"remove", "drop"}, y \in 0..MaxPrice :
                  Becomes(t, CancelThen(t, x.id, [me EXCEPT !.pc = pc, !.px = y]))
    <3>1. PICK pc \in {"remove", "drop"}, y \in 0..MaxPrice :
                  Becomes(t, CancelThen(t, x.id, [me EXCEPT !.pc = pc, !.px = y]))
      BY <2>4
    <3>2. PICK r, o, k : r = WithPx(WithPc(me, pc), y) /\ o = x.id /\ k = CancelThen(t, o, r)
      OBVIOUS
    <3>3. Becomes(t, k) /\ o \in Quotes
      BY <2>2, <2>4, <3>1, <3>2 DEF WithPc, WithPx
    <3>4. Turn(t, k, H)
      BY <1>0, <1>1, <1>2, <1>7, <3>3, TurnTaken
    <3>5. Moves(t, k, H)
      BY <1>0, <1>1, <1>2, <1>5, <3>2, <3>3, <3>4, OnwardMoves
    <3> QED BY <3>5
  <2>5. CASE Becomes(t, NextLevel(t))
    <3>1. PICK r : r = NextLevel(t)
      OBVIOUS
    <3>2. /\ r \in TaskType /\ Steady(r, me) /\ r.pc = "level" /\ r.i = i + 1 /\ r.plan = me.plan
          /\ r.pc \in Refreshing \ {"post", "sync"} /\ r.pc # "sweep"
      BY <1>1, <1>2, <3>1, NextFields DEF Refreshing
    <3>3. Turn(t, r, H)
      BY <1>0, <1>1, <1>2, <1>7, <2>5, <3>1, TurnTaken
    <3>4. \A q \in Level : Safe(me, H, q) => Safe(r, H, q)
      BY <1>1, <1>2, <3>2, NextIsSafe
    <3>5. Moves(t, r, H)
      BY <1>0, <1>1, <1>2, <3>2, <3>3, <3>4, StraightMoves
    <3> QED BY <3>5
  <2>6. x.id # 0 => p \in 0..MaxPrice
    BY <1>0, <1>1, <2>2 DEF Typed, OrderType
  <2>7. \A a, b \in 0..MaxPrice : ClimbNext(a, b) \in 0..MaxPrice /\ (a < b => a + 1 \in 0..MaxPrice)
    BY QuotesAssumption DEF ClimbNext
  <2>8. x.id # 0 => /\ (IF setup.mode = "climb_multi" THEN ClimbNext(p, target) ELSE target) \in 0..MaxPrice
                    /\ p < target => p + 1 \in 0..MaxPrice
    BY <2>1, <2>6, <2>7
  <2> DEFINE replace(pc, y) == Becomes(t, CancelThen(t, x.id, [me EXCEPT !.pc = pc, !.px = y]))
  <2>9. \/ x.id = 0 /\ Becomes(t, [me EXCEPT !.pc = "place", !.px = target])
        \/ x.id # 0 /\ replace("remove", IF setup.mode = "climb_multi" THEN ClimbNext(p, target) ELSE target)
        \/ x.id # 0 /\ p < target /\ replace("remove", p + 1)
        \/ x.id # 0 /\ replace("drop", target)
        \/ x.id # 0 /\ Becomes(t, NextLevel(t))
    BY <1>1, <1>2, <1>7 DEF LadderLevel
  <2>10. x.id # 0 /\ (\E pc \in {"remove", "drop"}, y \in 0..MaxPrice : replace(pc, y)) => \E k, L : Moves(t, k, L)
    BY <2>4
  <2> HIDE DEF replace
  <2> QED BY <2>1, <2>3, <2>5, <2>8, <2>9, <2>10
<1> QED
  BY <1>1, <1>2, <1>6, <1>7 DEF LadderLevel

\* There is an id for the order that goes out.
LEMMA FreeQuote ==
  ASSUME Typed, Cardinality(Quotes \ Unused) < setup.live
  PROVE  Min(Unused) \in Quotes /\ order[Min(Unused)].at = "none"
<1>1. Unused \subseteq Nat /\ Unused \subseteq Quotes
  BY QuotesAssumption DEF Unused
<1>2. Unused # {}
  <2>1. SUFFICES ASSUME Unused = {} PROVE FALSE
    OBVIOUS
  <2>2. Cardinality(Quotes) < setup.live
    BY <2>1
  <2>3. setup.live \in 0..Cardinality(Quotes) /\ Cardinality(Quotes) \in Nat
    BY QuotesAssumption, FS_CardinalityType DEF Typed
  <2> QED BY <2>2, <2>3
<1> QED
  BY <1>1, <1>2, MinIn DEF Unused

\* A refresh that has nothing to place goes on.
LEMMA PassMoves ==
  ASSUME Calm, NEW t \in Task, Place(t), UNCHANGED order
  PROVE  \E k, L : Moves(t, k, L)
<1>0. Typed /\ OpenInv /\ Undisturbed /\ Exact
  BY DEF Calm
<1>1. PICK me, H : me = task[t] /\ H = Here(t)
  OBVIOUS
<1>2. /\ me.pc = "place" /\ me \in TaskType /\ me.on # 0 /\ me.pc \in Refreshing \ {"post"}
      /\ Spot(me) = "place" /\ UNCHANGED sessions
  <2>1. Runs(t, "place") /\ "place" \in Refreshing \ {"post"}
    BY DEF Place, Refreshing
  <2> QED BY <1>1, <2>1, OnRefresh DEF Place
<1>3. CASE Becomes(t, Leave(t)) \/ Becomes(t, IdleTask)
  <2>1. PICK r : (r = Leave(t) \/ r = IdleTask) /\ Becomes(t, r)
    BY <1>3
  <2>2. Turn(t, r, H)
    BY <1>0, <1>1, <1>2, <2>1, TurnTaken
  <2>3. Moves(t, r, H)
    BY <1>0, <1>1, <1>2, <2>1, <2>2, LeavingMoves
  <2> QED BY <2>3
<1>4. CASE Becomes(t, NextLevel(t))
  <2>1. PICK r : r = NextLevel(t)
    OBVIOUS
  <2>2. /\ r \in TaskType /\ Steady(r, me) /\ r.pc = "level" /\ r.i = me.i + 1 /\ r.plan = me.plan
        /\ r.pc \in Refreshing \ {"post", "sync"} /\ r.pc # "sweep"
    BY <1>1, <1>2, <2>1, NextFields DEF Refreshing
  <2>3. Turn(t, r, H)
    BY <1>0, <1>1, <1>2, <1>4, <2>1, TurnTaken
  <2>4. \A q \in Level : Safe(me, H, q) => Safe(r, H, q)
    BY <1>1, <1>2, <2>2, NextIsSafe
  <2>5. Moves(t, r, H)
    BY <1>0, <1>1, <1>2, <2>2, <2>3, <2>4, StraightMoves
  <2> QED BY <2>5
<1>5. Becomes(t, Skip(t)) \/ Becomes(t, IdleTask)
  <2>1. SUFFICES ASSUME NEW o, o = Min(Unused), Cardinality(Quotes \ Unused) < setup.live,
                        order' = [order EXCEPT ![o] = [at |-> "sent", om |-> "working", side |-> task[t].side,
                                                       px |-> task[t].px, news |-> FALSE]]
                 PROVE  FALSE
    BY Zenon DEF Place
  <2>2. o \in Quotes /\ order[o].at = "none"
    BY <1>0, <2>1, FreeQuote
  <2>3. order'[o].at = "sent"
    BY <1>0, <2>1, <2>2 DEF Typed
  <2> QED BY <2>2, <2>3
<1> QED
  BY <1>3, <1>4, <1>5 DEF Skip

\* A quote of the side that a refresh works on, while it waits for nothing.
LEMMA KeptHere ==
  ASSUME Typed, Exact, NEW t \in Task, task[t].on # 0, task[t].pc \notin {"post", "cancel"},
         NEW o \in Quotes, order[o].at = "open", order[o].side = task[t].side
  PROVE  \E q \in Level : q.id = o /\ Claims(Here(t), q) /\ Safe(task[t], Here(t), q)
<1>1. /\ task[t].on = cur /\ cur # 0 /\ Busy(t)
      /\ \A u \in Task : u # t => ~Busy(u) /\ task[u].on = 0
  BY Acting
<1>2. ~Posted(o) /\ ~Held(o)
  BY <1>1 DEF Posted, Held, Busy
<1>3. ~Evicted(o)
  <2>1. Spot(task[t]) # "evict"
    BY DEF Exact, OnCurrent
  <2>2. \A u \in Task : Spot(task[u]) = "evict" => Busy(u)
    BY DEF Spot, Busy
  <2> QED BY <1>1, <2>1, <2>2 DEF Evicted
<1>4. PICK q \in Level : Listed(o, q)
  BY <1>2, <1>3 DEF Exact, AllAccounted, Accounted, Kept
<1> QED
  BY <1>4 DEF Listed, Here

\* What a side may have, of s, after a quote was added.
Quoted(s) == {o \in Quotes : order[o].side = s /\ order[o].at \in {"sent", "open"}}

LEMMA RoomToPlace ==
  ASSUME Typed, Exact, NEW t \in Task, task[t].pc = "place", task[t].on # 0
  PROVE  /\ \A p, o \in Quoted(task[t].side) : p = o
         /\ Quoted(task[t].side) # {} => setup.mode \in Layered
<1>1. \A u \in Task : u # t => ~Busy(u)
  BY Acting
<1>2. \A o : ~Posted(o)
  BY <1>1 DEF Posted, Busy
<1>3. \A o \in Quoted(task[t].side) : o \in Quotes /\ order[o].at = "open" /\ order[o].side = task[t].side
  BY <1>2 DEF Quoted, Exact, SentArePosted
<1>4. task[t] \in TaskType /\ TaskRight(setup.mode, task[t]) /\ Here(t) \in Seq(Level) /\ Spot(task[t]) = "place"
  BY Acting DEF Typed, TasksRight, TaskRight, Spot
<1>5. ASSUME NEW o \in Quoted(task[t].side)
      PROVE  \E q \in Level : /\ q.id = o /\ Topmost(Here(t), q) /\ Climbs(task[t])
                              /\ q.idx + 1 # task[t].i
  <2>1. PICK q \in Level : q.id = o /\ Claims(Here(t), q) /\ Safe(task[t], Here(t), q)
    BY <1>3, KeptHere
  <2>2. Climbs(task[t]) /\ q.idx + 1 # task[t].i
    BY <1>4, <2>1 DEF Safe
  <2> QED BY <2>1, <2>2 DEF Claims, Climbs
<1>6. ASSUME NEW p \in Quoted(task[t].side), NEW o \in Quoted(task[t].side)
      PROVE  p = o
  <2>1. PICK q \in Level : q.id = p /\ Topmost(Here(t), q) /\ Climbs(task[t]) /\ q.idx + 1 # task[t].i
    BY <1>5
  <2>2. PICK x \in Level : x.id = o /\ Topmost(Here(t), x) /\ x.idx + 1 # task[t].i
    BY <1>5
  <2>3. PICK i : i = task[t].i /\ i \in {1, 2}
    <3>1. task[t].i \in Nat /\ task[t].i # 0
      BY <1>4, Fields
    <3>2. task[t].i <= LadderLevels
      BY <1>4, <2>1 DEF TaskRight, OnLadder, Climbs
    <3> QED BY <3>1, <3>2 DEF LadderLevels
  <2>4. q.idx \in {0, 1} /\ x.idx \in {0, 1}
    BY DEF Level, LadderLevels
  <2>5. q.idx = x.idx
    BY <2>1, <2>2, <2>3, <2>4
  <2> QED BY <1>4, <2>1, <2>2, <2>5, TopOne
<1>7. Quoted(task[t].side) # {} => setup.mode \in Layered
  BY <1>5 DEF Climbs
<1> QED
  BY <1>6, <1>7

LEMMA FewQuoted ==
  ASSUME NEW S, NEW o, \A x, y \in S \ {o} : x = y
  PROVE  /\ Cardinality(S) <= 2
         /\ S \subseteq {o} => Cardinality(S) <= 1
<1>1. ASSUME NEW x, S \subseteq {x} PROVE IsFiniteSet(S) /\ Cardinality(S) \in Nat /\ Cardinality(S) <= 1
  <2>1. IsFiniteSet({x}) /\ Cardinality({x}) = 1
    BY FS_Singleton
  <2>2. IsFiniteSet(S) /\ Cardinality(S) <= Cardinality({x})
    BY <1>1, <2>1, FS_Subset
  <2> QED BY <2>1, <2>2, FS_CardinalityType
<1>2. CASE S \subseteq {o}
  <2>1. Cardinality(S) \in Nat /\ Cardinality(S) <= 1
    BY <1>1, <1>2
  <2> QED BY <2>1
<1>3. CASE ~(S \subseteq {o})
  <2>1. PICK x \in S : x # o
    BY <1>3
  <2>2. S \subseteq {x} \cup {o}
    BY <2>1
  <2>3. IsFiniteSet({x}) /\ Cardinality({x}) = 1
    BY FS_Singleton
  <2>4. IsFiniteSet({x} \cup {o}) /\ Cardinality({x} \cup {o}) = 2
    BY <2>1, <2>3, FS_AddElement
  <2>5. Cardinality(S) <= 2
    BY <2>2, <2>4, FS_Subset
  <2> QED BY <1>3, <2>5
<1> QED
  BY <1>2, <1>3

LEMMA ListedIds ==
  ASSUME NEW L \in Seq(Level), NEW o \in Ids(L)
  PROVE  o \in Quotes
<1>1. DOMAIN L = 1..Len(L)
  BY LenProperties
<1>2. PICK k \in 1..Len(L) : o = L[k].id
  BY <1>1 DEF Ids
<1> QED
  BY <1>2, LevelIds

LEMMA SendsKeeps ==
  ASSUME Calm, NEW t \in Task, Place(t), ~UNCHANGED order
  PROVE  Exact'
<1>0. Typed /\ OpenInv /\ Undisturbed /\ Exact
  BY DEF Calm
<1>1. PICK me, H, o, r : /\ me = task[t] /\ H = Here(t) /\ o = Min(Unused)
                         /\ r = WithId(WithPc(me, "post"), o)
  OBVIOUS
<1>2. /\ me.pc = "place" /\ me \in TaskType /\ me.on # 0 /\ me.pc \in Refreshing \ {"post"}
      /\ Spot(me) = "place" /\ UNCHANGED <<setup, cur, sessions, races>>
  <2>1. Runs(t, "place") /\ "place" \in Refreshing \ {"post"}
    BY DEF Place, Refreshing
  <2> QED BY <1>1, <2>1, OnRefresh DEF Place
<1>3. /\ Cardinality(Quotes \ Unused) < setup.live
      /\ order' = [order EXCEPT ![o] = [at |-> "sent", om |-> "working", side |-> me.side,
                                        px |-> me.px, news |-> FALSE]]
      /\ Becomes(t, r)
  BY <1>1, Zenon DEF Place, WithPc, WithId
<1>4. o \in Quotes /\ order[o].at = "none"
  BY <1>0, <1>1, <1>3, FreeQuote
<1>5. /\ order'[o].at = "sent" /\ order'[o].om = "working" /\ order'[o].side = me.side
      /\ \A p \in Quotes : p # o => order'[p] = order[p]
  BY <1>0, <1>3, <1>4 DEF Typed
<1>6. /\ r \in TaskType /\ Steady(r, me) /\ r.pc = "post" /\ r.id = o /\ r.i = me.i /\ r.plan = me.plan
      /\ r.todo = me.todo
  <2>1. "post" \in Moment
    BY DEF Moment, Refreshing
  <2>2. PICK a : a = WithPc(me, "post")
    OBVIOUS
  <2>3. a \in TaskType /\ Steady(a, me) /\ a.pc = "post" /\ a.i = me.i /\ a.plan = me.plan /\ a.todo = me.todo
    BY <1>2, <2>1, <2>2, SetPc
  <2> QED BY <1>1, <1>4, <2>2, <2>3, SetId DEF Steady
<1>7. Turn(t, r, H)
  BY <1>0, <1>1, <1>2, <1>3, TurnTaken
<1>8. Spot(r) = "post" /\ ~me.mine
  BY <1>0, <1>1, <1>2, <1>6, Acting DEF Spot
<1>9. Shape(t, r)
  BY <1>1, <1>6, <1>8 DEF Shape, Steady
<1>10. OneBusy' /\ OnCurrent'
  BY <1>0, <1>1, <1>2, <1>7, <1>9, ShapeKeeps
<1>11. /\ task'[t] = r /\ \A u \in Task : u # t => task'[u] = task[u] /\ ~Busy(u) /\ task[u].on = 0
       /\ me.side \in Side
  BY <1>0, <1>1, <1>2, <1>7, TurnTakes, Acting
<1>12. \A p : ~Posted(p) /\ (Posted(p)' <=> p = o)
  BY <1>1, <1>2, <1>6, <1>11 DEF Posted, Busy
<1>13. Begun'
  <2>1. \A u \in Task : u # t => Spot(task[u])' = Spot(task[u]) /\ task[u].pc # "post"
    BY <1>11 DEF Spot, Busy
  <2>2. Spot(task[t])' = "post"
    BY <1>8, <1>11 DEF Spot
  <2> QED BY <1>0, <1>5, <1>6, <1>11, <2>1, <2>2 DEF Exact, Begun, Steady
<1>14. SentArePosted' /\ NoneWork'
  BY <1>0, <1>5, <1>12 DEF Exact, SentArePosted, NoneWork
<1>15. Sided'
  <2>1. \A p : order[p].at # "none" => p # o
    BY <1>4
  <2>2. ASSUME cur # 0, NEW s \in Side, NEW p \in Ids(sessions[cur][s])
        PROVE  order'[p].at # "none" /\ order'[p].side = s
    <3>1. order[p].at # "none" /\ order[p].side = s
      BY <1>0, <2>2 DEF Exact, Sided
    <3>2. sessions[cur][s] \in Seq(Level)
      BY <1>0, <1>1, <1>2, Acting
    <3>3. p \in Quotes
      BY <2>2, <3>2, ListedIds
    <3> QED BY <1>5, <2>1, <3>1, <3>3
  <2>3. sessions' = sessions /\ cur' = cur
    BY <1>2
  <2> QED BY <2>2, <2>3 DEF Sided
<1>16. NoStale'
  <2>1. setup' = setup
    BY <1>2
  <2> QED BY <1>0, <1>5, <1>12, <2>1 DEF Exact, NoStale
<1>17. ListsWork'
  <2>1. CASE setup.mode \in Layered
    <3>1. \A p \in Quotes : order[p].om = "working" /\ order'[p].om # "working" => p \in {}
      BY <1>5
    <3>2. \A s \in Side : s # task[t].side => Ids(sessions[cur][s]) \cap {} = {}
      OBVIOUS
    <3>3. ~(Spot(r) \in {"sync", "sweep"})
      BY <1>8
    <3> QED BY <1>0, <1>1, <1>2, <1>7, <1>9, <2>1, <3>1, <3>2, <3>3, ListsKeepWorking
  <2>2. CASE setup.mode \notin Layered
    BY <1>2, <2>2 DEF ListsWork
  <2> QED BY <2>1, <2>2
<1>18. AllAccounted'
  <2>1. ~InHand(task[t], 0) /\ \A p : ~InHand(task[t], p)
    BY <1>1, <1>2 DEF InHand
  <2>2. \A p \in Quotes : order'[p].at = "open" => p # o /\ order[p].at = "open" /\ order'[p].side = order[p].side
    BY <1>5
  <2>3. \A q : Safe(me, H, q) => Safe(r, H, q)
    BY <1>2, <1>6, <1>8 DEF Safe, Steady, Climbs, InPlan
  <2>4. \A p : Stands(t, task[t], H, p) => Stands(t, r, H, p)
    BY <1>1, <1>2, <1>6, <2>3 DEF Stands, Stays, Steady
  <2> QED BY <1>0, <1>1, <1>2, <1>7, <1>9, <2>1, <2>2, <2>4, TurnAccounts
<1>19. NoSecondQuote'
  <2>1. ASSUME NEW s \in Side
        PROVE  Cardinality(Quoted(s)') <= (IF setup.mode \in Layered THEN LadderLevels ELSE 1)
    <3>1. CASE s = me.side
      <4>1. Quoted(s)' \subseteq Quoted(s) \cup {o}
        BY <1>5 DEF Quoted
      <4>2. /\ \A p, x \in Quoted(s) : p = x
            /\ Quoted(s) # {} => setup.mode \in Layered
        BY <1>0, <1>1, <1>2, <3>1, RoomToPlace
      <4>3. PICK S : S = Quoted(s)'
        OBVIOUS
      <4>4. \A x, y \in S \ {o} : x = y
        BY <4>1, <4>2, <4>3
      <4>5. setup.mode \notin Layered => S \subseteq {o}
        BY <4>1, <4>2, <4>3
      <4>6. Cardinality(S) <= 2 /\ (S \subseteq {o} => Cardinality(S) <= 1)
        BY <4>4, FewQuoted
      <4> QED BY <4>3, <4>5, <4>6 DEF LadderLevels
    <3>2. CASE s # me.side
      <4>1. Quoted(s)' = Quoted(s)
        BY <1>4, <1>5, <3>2 DEF Quoted
      <4> QED BY <1>0, <2>1, <4>1 DEF Exact, NoSecondQuote, Quoted
    <3> QED BY <3>1, <3>2
  <2>2. setup' = setup
    BY <1>2
  <2> QED BY <2>1, <2>2 DEF NoSecondQuote, Quoted
<1> QED
  BY <1>10, <1>13, <1>14, <1>15, <1>16, <1>17, <1>18, <1>19 DEF Exact

LEMMA RefreshKeeps ==
  ASSUME Calm, NEW t \in Task, Run(t), ~Evict(t)
  PROVE  Exact'
<1>0. Typed /\ OpenInv /\ Undisturbed /\ Exact
  BY DEF Calm
<1>1. CASE Place(t) /\ ~UNCHANGED order
  BY <1>1, SendsKeeps
<1>2. CASE ~(Place(t) /\ ~UNCHANGED order)
  <2>1. UNCHANGED <<setup, order, cur, races>>
    <3>1. CASE Place(t)
      BY <1>2, <3>1 DEF Place
    <3>2. CASE ~Place(t)
      BY <3>2 DEF Run, Sync, Sweep, Trim, Decide, Clear, Extras, Shed, LadderLevel, RemoveLevel, DropLevel, Keeps
    <3> QED BY <3>1, <3>2
  <2>2. \E k, L : Moves(t, k, L)
    BY <1>2, SyncMoves, SweepMoves, TrimMoves, DecideMoves, ClearMoves, ExtrasMoves, ShedMoves,
       LadderLevelMoves, RemoveLevelMoves, PassMoves DEF Run
  <2>3. PICK pc \in Refreshing \ {"post"} : Runs(t, pc)
    <3>1. PICK pc \in {"sync", "sweep", "trim", "decide", "clear", "extras", "shed", "level",
                       "remove", "drop", "place"} : Runs(t, pc)
      BY DEF Run, Sync, Sweep, Trim, Decide, Clear, Extras, Shed, LadderLevel, RemoveLevel, DropLevel, Place
    <3>2. pc \in Refreshing \ {"post"}
      BY <3>1 DEF Refreshing
    <3> QED BY <3>1, <3>2
  <2>4. task[t].pc # "post" /\ task[t].on # 0 /\ \A o : ~InHand(task[t], o)
    BY <2>3, OnRefresh DEF InHand, Refreshing
  <2> QED BY <1>0, <2>1, <2>2, <2>4, MovesKeep
<1> QED
  BY <1>1, <1>2

\* What the venue and the order manager may do to the orders behind the refreshes.
Settles ==
  /\ \A o \in Quotes :
       /\ order'[o].side = order[o].side /\ (order'[o].at = "none" <=> order[o].at = "none")
       /\ order'[o].at = "open" => order[o].at = "open" \/ Posted(o)
       /\ order'[o].at = "sent" => order[o].at = "sent"
       /\ order'[o].at \in {"sent", "open"} => order[o].at \in {"sent", "open"}
       /\ order'[o].om = "working" => order[o].om = "working"
       /\ setup.mode \in Layered => order'[o].om = order[o].om
       /\ setup.mode \in Layered /\ order'[o].at \in {"filled", "over"} /\ (order'[o].om = "working" \/ Posted(o))
            => order'[o].news
  /\ \A t \in Task : task[t].pc = "post" /\ task[t].take => order'[task[t].id].at # "open"

\* What task k has of order o in its hands.
Grips(k, o) == (k.pc = "cancel" /\ k.id = o) \/ (Spot(k) = "evict" /\ o \in Ids(k.todo))

LEMMA GripsAll == \A o : Held(o) \/ Evicted(o) <=> \E t \in Task : Grips(task[t], o)
BY DEF Held, Evicted, Grips

LEMMA FewerQuoted ==
  ASSUME NEW S, S \subseteq Quotes, NEW R, R \subseteq S
  PROVE  Cardinality(R) \in Nat /\ Cardinality(S) \in Nat /\ Cardinality(R) <= Cardinality(S)
<1>1. IsFiniteSet(S)
  BY QuotesAssumption, FS_Subset
<1>2. IsFiniteSet(R) /\ Cardinality(R) <= Cardinality(S)
  BY <1>1, FS_Subset
<1> QED
  BY <1>1, <1>2, FS_CardinalityType

\* No step that adds none makes too many quotes.
LEMMA StillFew ==
  ASSUME Undisturbed, NoSecondQuote, setup' = setup,
         \A o \in Quotes : /\ order'[o].at \in {"sent", "open"} => order[o].at \in {"sent", "open"}
                           /\ order'[o].at \in {"sent", "open"} => order'[o].side = order[o].side
  PROVE  NoSecondQuote'
<1>1. ASSUME NEW s \in Side
      PROVE  Cardinality(Quoted(s)') <= (IF setup.mode \in Layered THEN LadderLevels ELSE 1)
  <2>1. Quoted(s)' \subseteq Quoted(s) /\ Quoted(s) \subseteq Quotes
    BY DEF Quoted
  <2>2. PICK R, S : R = Quoted(s)' /\ S = Quoted(s)
    OBVIOUS
  <2>3. Cardinality(R) \in Nat /\ Cardinality(S) \in Nat /\ Cardinality(R) <= Cardinality(S)
    BY <2>1, <2>2, FewerQuoted
  <2>4. Cardinality(S) <= (IF setup.mode \in Layered THEN LadderLevels ELSE 1)
    BY <2>2 DEF NoSecondQuote, Quoted
  <2> QED BY <2>2, <2>3, <2>4 DEF LadderLevels
<1> QED
  BY <1>1 DEF NoSecondQuote, Quoted

\* A step beside the refreshes: task t, which is on no session, goes on as r.
LEMMA BesideKeeps ==
  ASSUME Typed, Undisturbed, Exact, NEW t \in Task, NEW r, task'[t] = r,
         \A u \in Task : u # t => task'[u] = task[u],
         task[t].on = 0, r.on = 0, task[t].pc # "post", r.pc # "post", Spot(r) # "sync",
         r.pc \in {"idle", "filled"} \/ Busy(t) \/ \A u \in Task : u # t => ~Busy(u),
         cur' = cur, setup' = setup, sessions' = sessions, Settles,
         \A o \in Quotes : order'[o].at = "open" /\ Grips(task[t], o) => Grips(r, o)
  PROVE  Exact'
<1>1. task'[t] = r /\ \A u \in Task : u # t => task'[u] = task[u]
  OBVIOUS
<1>2. \A u \in Task : u # t => (Busy(u)' <=> Busy(u)) /\ Spot(task[u])' = Spot(task[u])
  BY <1>1 DEF Busy, Spot
<1>3. r.pc \in {"idle", "filled"} => ~Busy(t)'
  BY <1>1 DEF Busy
<1>4. OneBusy'
  BY <1>1, <1>2, <1>3 DEF Exact, OneBusy
<1>5. OnCurrent'
  BY <1>1, <1>2 DEF Exact, OnCurrent
<1>6. \A o : Posted(o)' <=> Posted(o)
  BY <1>1 DEF Posted
<1>7. \A u \in Task : task[u].pc = "post" => u # t /\ task[u].id \in Quotes /\ task'[u] = task[u]
  BY <1>1 DEF Typed, TasksRight, TaskRight
<1>8. Begun'
  <2>1. Spot(task[t])' # "sync" /\ task'[t].pc # "post"
    BY <1>1 DEF Spot
  <2> QED BY <1>1, <1>2, <1>7, <2>1 DEF Exact, Begun, Settles
<1>9. SentArePosted' /\ NoneWork'
  BY <1>6 DEF Exact, SentArePosted, NoneWork, Settles
<1>10. cur # 0 => \A s \in Side : sessions[cur][s] \in Seq(Level)
  BY DEF Typed, SessionsType
<1>11. cur # 0 => \A s \in Side : \A o \in Ids(sessions[cur][s]) : o \in Quotes
  BY <1>10, ListedIds
<1>12. Sided'
  BY <1>11 DEF Exact, Sided, Settles
<1>13. NoStale'
  BY <1>6 DEF NoStale, Settles
<1>14. ListsWork'
  <2>1. SUFFICES ASSUME setup.mode \in Layered, NEW u \in Task, task'[u].on # 0
                 PROVE  /\ Spot(task[u])' \in {"sync", "sweep"} => AllWork(sessions[cur][task[u].side])'
                        /\ task'[u].side = "bid" => AllWork(sessions[cur]["ask"])'
    BY DEF ListsWork
  <2>2. u # t /\ task'[u] = task[u] /\ Spot(task[u])' = Spot(task[u]) /\ task[u].on # 0
    BY <1>1, <1>2, <2>1
  <2>3. cur # 0 /\ task[u].side \in Side /\ "ask" \in Side
    BY <2>2, Acting DEF Side
  <2>4. \A s \in Side : AllWork(sessions[cur][s]) => AllWork(sessions[cur][s])'
    BY <1>11, <2>1, <2>3 DEF AllWork, Settles
  <2> QED BY <2>1, <2>2, <2>3, <2>4 DEF Exact, ListsWork
<1>15. AllAccounted'
  <2>1. ASSUME NEW o \in Quotes, order'[o].at = "open", ~Posted(o)
        PROVE  Accounted(o)'
    <3>1. Accounted(o) /\ order'[o].side = order[o].side
      BY <2>1 DEF Exact, AllAccounted, Settles
    <3>2. ASSUME Held(o) \/ Evicted(o) PROVE Held(o)' \/ Evicted(o)'
      <4>1. PICK u \in Task : Grips(task[u], o)
        BY <3>2, GripsAll
      <4>2. Grips(task'[u], o)
        BY <1>1, <2>1, <4>1
      <4>3. Grips(task[u], o)'
        BY <4>2 DEF Grips, Spot
      <4> QED BY <4>3 DEF Held, Evicted, Grips
    <3>3. ASSUME Kept(o) PROVE Kept(o)'
      <4>1. PICK q \in Level : cur # 0 /\ Listed(o, q)
        BY <3>3 DEF Kept
      <4>2. ASSUME NEW u \in Task, task'[u].on # 0, task'[u].side = order'[o].side
            PROVE  Safe(task[u], sessions[cur][order[o].side], q)'
        <5>1. task'[u] = task[u] /\ task[u].on # 0 /\ task[u].side = order[o].side
          BY <1>1, <3>1, <4>2
        <5>2. Safe(task[u], sessions[cur][order[o].side], q)
          BY <4>1, <5>1 DEF Listed
        <5> QED BY <3>1, <5>1, <5>2 DEF Safe, Climbs, Spot, InPlan
      <4>3. Claims(sessions[cur][order[o].side], q)'
        BY <3>1, <4>1 DEF Listed, Claims
      <4> QED BY <4>1, <4>2, <4>3 DEF Kept, Listed
    <3> QED BY <2>1, <3>1, <3>2, <3>3 DEF Accounted
  <2> QED BY <1>6, <2>1 DEF AllAccounted, Accounted
<1>16. NoSecondQuote'
  BY StillFew DEF Exact, Settles
<1> QED
  BY <1>4, <1>5, <1>8, <1>9, <1>12, <1>13, <1>14, <1>15, <1>16 DEF Exact

LEMMA AsideKeeps ==
  ASSUME Typed, Undisturbed, Exact, NEW t \in Task, NEW r, task' = [task EXCEPT ![t] = r],
         task[t].on = 0, r.on = 0, task[t].pc # "post", r.pc # "post", Spot(r) # "sync",
         r.pc \in {"idle", "filled"} \/ Busy(t) \/ \A u \in Task : u # t => ~Busy(u),
         cur' = cur, setup' = setup, sessions' = sessions, Settles,
         \A o \in Quotes : order'[o].at = "open" /\ Grips(task[t], o) => Grips(r, o)
  PROVE  Exact'
<1>1. task'[t] = r /\ \A u \in Task : u # t => task'[u] = task[u]
  BY DEF Typed, TasksRight
<1> QED
  BY <1>1, BesideKeeps

\* Orders as they are settle.
LEMMA SameSettle ==
  ASSUME Exact, UNCHANGED order
  PROVE  Settles
BY DEF Exact, Begun, NoStale, Settles

LEMMA EvictKeeps ==
  ASSUME Calm, NEW t \in Task, Evict(t)
  PROVE  Exact'
<1>0. Typed /\ OpenInv /\ Undisturbed /\ Exact
  BY DEF Calm
<1>1. PICK me : me = task[t]
  OBVIOUS
<1>2. /\ me.pc = "evict" /\ Spot(me) = "evict" /\ me \in TaskType /\ me.on = 0
      /\ UNCHANGED <<setup, order, cur, sessions>> /\ Busy(t)
  <2>1. me.pc = "evict" /\ Spot(me) = "evict"
    BY <1>1 DEF Evict, Runs, Spot
  <2> QED BY <1>0, <1>1, <2>1 DEF Evict, Typed, TasksRight, TaskRight, Exact, OnCurrent, Busy
<1>3. Settles
  BY <1>0, <1>2, SameSettle
<1>4. CASE me.todo = <<>>
  <2>1. PICK r : r = IdleTask
    OBVIOUS
  <2>2. r.pc = "idle" /\ r.on = 0 /\ Spot(r) = "idle"
    BY <2>1 DEF IdleTask, Spot
  <2>3. task' = [task EXCEPT ![t] = r]
    BY <1>1, <1>4, <2>1 DEF Evict, Becomes
  <2>4. \A o : ~Grips(me, o)
    BY <1>2, <1>4 DEF Grips, Ids
  <2> QED BY <1>0, <1>1, <1>2, <1>3, <2>2, <2>3, <2>4, AsideKeeps
<1>5. CASE me.todo # <<>>
  <2>1. PICK o, c, r : o = Head(me.todo).id /\ c = WithTodo(me, Tail(me.todo)) /\ r = CancelThen(t, o, c)
    OBVIOUS
  <2>2. me.todo \in Seq(Level)
    BY <1>2, Fields
  <2>3. o \in Quotes /\ Tail(me.todo) \in Seq(Level)
    BY <1>5, <2>1, <2>2, LevelIds
  <2>4. c \in TaskType /\ Steady(c, me) /\ c.pc = "evict" /\ c.todo = Tail(me.todo)
    BY <1>2, <2>1, <2>3, SetTodo
  <2>5. /\ Alike(r, c) /\ Spot(r) = "evict" /\ r.pc # "post"
        /\ order[o].om = "working" => r.pc = "cancel" /\ r.id = o
    BY <2>1, <2>3, <2>4, CancelThenGoes
  <2>6. task' = [task EXCEPT ![t] = r]
    BY <1>1, <1>5, <2>1 DEF Evict, Becomes, WithTodo
  <2>7. ASSUME NEW p \in Quotes, order[p].at = "open", Grips(me, p)
        PROVE  Grips(r, p)
    <3>1. p \in Ids(me.todo)
      BY <1>2, <2>7 DEF Grips
    <3>2. p = o \/ p \in Ids(Tail(me.todo))
      <4>1. PICK x : x \in ToSet(me.todo) /\ x.id = p
        BY <3>1 DEF Ids, ToSet
      <4>2. x = Head(me.todo) \/ x \in ToSet(Tail(me.todo))
        BY <1>5, <2>2, <4>1, ToSetSplit
      <4> QED BY <2>1, <4>1, <4>2 DEF Ids, ToSet
    <3>3. CASE p = o
      <4>1. order[o].om = "working"
        BY <1>0, <1>1, <1>2, <2>3, <2>7, <3>3, OpenWorks
      <4> QED BY <2>5, <3>3, <4>1 DEF Grips
    <3>4. CASE p \in Ids(Tail(me.todo))
      BY <2>4, <2>5, <3>4 DEF Grips, Alike
    <3> QED BY <3>2, <3>3, <3>4
  <2>8. r.on = 0
    BY <1>2, <2>4, <2>5 DEF Alike, Steady
  <2> QED BY <1>0, <1>1, <1>2, <1>3, <2>5, <2>6, <2>7, <2>8, AsideKeeps
<1> QED
  BY <1>4, <1>5

LEMMA CancelledKeeps ==
  ASSUME Calm, NEW t \in Task, Cancelled(t)
  PROVE  Exact'
<1>0. Typed /\ OpenInv /\ Undisturbed /\ Exact
  BY DEF Calm
<1>1. PICK me, r : me = task[t] /\ r = [me EXCEPT !.pc = me.then, !.then = "", !.id = 0]
  OBVIOUS
<1>2. /\ me.pc = "cancel" /\ me \in TaskType /\ me.then \in {"evict"} \cup (Refreshing \ {"post"})
      /\ Spot(me) = me.then /\ Busy(t)
      /\ UNCHANGED <<setup, order, cur, sessions, races>> /\ order[me.id].at # "open"
      /\ task' = [task EXCEPT ![t] = r]
  <2>1. me.pc = "cancel"
    BY <1>1 DEF Cancelled
  <2>2. me \in TaskType /\ me.then # ""
    BY <1>0, <1>1, <2>1 DEF Typed, TasksRight, TaskRight
  <2>3. me.then \in {"evict"} \cup (Refreshing \ {"post"})
    BY <2>2 DEF TaskType
  <2> QED BY <1>1, <2>1, <2>2, <2>3 DEF Cancelled, Becomes, Spot, Busy
<1>3. Alike(r, me) /\ r.pc = me.then
  BY <1>1, <1>2 DEF TaskType, Alike
<1>4. Spot(r) = Spot(me) /\ r.pc # "post"
  BY <1>2, <1>3 DEF Spot, Refreshing
<1>5. CASE me.on = 0
  <2>1. Spot(r) # "sync"
    <3>1. me.then \notin Refreshing
      BY <1>0, <1>1, <1>2, <1>5 DEF Typed, TasksRight, TaskRight
    <3> QED BY <1>2, <1>4, <3>1 DEF Refreshing
  <2>2. \A o \in Quotes : order'[o].at = "open" /\ Grips(me, o) => Grips(r, o)
    BY <1>2, <1>3, <1>4 DEF Grips, Alike
  <2>3. Settles
    BY <1>0, <1>2, SameSettle
  <2>4. r.on = 0
    BY <1>3, <1>5 DEF Alike
  <2> QED BY <1>0, <1>1, <1>2, <1>4, <1>5, <2>1, <2>2, <2>3, <2>4, AsideKeeps
<1>6. CASE me.on # 0
  <2>1. PICK H : H = Here(t)
    OBVIOUS
  <2>2. Turn(t, r, H)
    BY <1>0, <1>1, <1>2, <1>6, <2>1, TurnTaken DEF Becomes
  <2>3. ~me.mine /\ me.on = cur
    BY <1>0, <1>1, <1>6, Acting
  <2>4. me.then # "evict" /\ (me.then = "sync" => me.i = 1)
    BY <1>0, <1>1, <1>2, <1>6 DEF Exact, OnCurrent, Begun
  <2>5. Shape(t, r)
    BY <1>1, <1>2, <1>3, <1>4, <2>3, <2>4 DEF Shape, Alike, Refreshing
  <2>6. setup.mode \in Layered /\ Spot(r) \in {"sync", "sweep"} => AllWork(H)
    BY <1>0, <1>1, <1>4, <1>6, <2>1, <2>3 DEF Exact, ListsWork, Here
  <2>7. Carries(t, r, H)
    <3>1. \A q : Safe(me, H, q) => Safe(r, H, q)
      BY <1>3, <1>4, AlikeSafe
    <3> QED BY <1>1, <2>1, <3>1 DEF Carries
  <2>8. Moves(t, r, H)
    BY <1>4, <2>1, <2>2, <2>5, <2>6, <2>7 DEF Moves
  <2>9. \A o \in Quotes : order[o].at = "open" => ~InHand(me, o)
    BY <1>2 DEF InHand
  <2> QED BY <1>0, <1>1, <1>2, <1>6, <2>8, <2>9, MovesKeep
<1> QED
  BY <1>5, <1>6

\* The reply to an order: the order manager has it as om, and the refresh goes on as r.
LEMMA ReplyKeeps ==
  ASSUME Calm, NEW t \in Task, task[t].pc = "post", task[t].on # 0,
         NEW o \in Quotes, task[t].id = o, order[o].at # "sent",
         NEW om \in {"working", "done"}, order' = [order EXCEPT ![o].om = om],
         om = "done" => order[o].at = "refused",
         NEW r, NEW L, Turn(t, r, L), Shape(t, r), r.pc # "post",
         Stays(t, r) => Spot(r) \notin {"sync", "sweep"},
         L \in Seq(Level), Ids(L) \subseteq Ids(Here(t)) \cup {o},
         \A q \in Level :
           /\ order[q.id].at = "open"
           /\ Claims(Here(t), q) /\ Safe(task[t], Here(t), q)
           => Claims(L, q) /\ (Stays(t, r) => Safe(r, L, q)),
         order[o].at = "open" => Stands(t, r, L, o),
         cur' = cur, setup' = setup, races' = races
  PROVE  Exact'
<1>0. Typed /\ OpenInv /\ Undisturbed /\ Exact
  BY DEF Calm
<1>1. /\ cur \in Session /\ cur # 0 /\ task[t].side \in Side /\ Busy(t)
      /\ \A u \in Task : u # t => ~Busy(u) /\ task[u].on = 0
      /\ \A s \in Side : sessions[cur][s] \in Seq(Level)
  BY <1>0, Acting
<1>2. /\ task'[t] = r /\ \A u \in Task : u # t => task'[u] = task[u]
      /\ sessions'[cur][task[t].side] = L
      /\ \A s \in Side : s # task[t].side => sessions'[cur][s] = sessions[cur][s]
  BY <1>0, TurnTakes
<1>3. \A p \in Quotes : /\ order'[p].at = order[p].at /\ order'[p].side = order[p].side
                        /\ order'[p].news = order[p].news
                        /\ p # o => order'[p].om = order[p].om
                        /\ p = o => order'[p].om = om
  <2>1. order[o] \in OrderType /\ order \in [Quotes -> OrderType]
    BY <1>0 DEF Typed
  <2> QED BY <2>1 DEF OrderType
<1>4. OneBusy' /\ OnCurrent'
  BY <1>0, ShapeKeeps
<1>5. \A u \in Task : task'[u].pc # "post"
  BY <1>1, <1>2 DEF Busy
<1>6. \A p : ~Posted(p)' /\ (Posted(p) <=> p = o)
  BY <1>1, <1>5 DEF Posted, Busy
<1>7. Begun'
  <2>1. \A u \in Task : Spot(task'[u]) = "sync" => task'[u].i = 1
    BY <1>0, <1>2 DEF Exact, Begun, Shape
  <2> QED BY <1>5, <2>1 DEF Begun, Spot
<1>8. order[o].at # "none" /\ order[o].side = task[t].side
  BY <1>0 DEF Exact, Begun
<1>9. SentArePosted' /\ NoneWork'
  BY <1>0, <1>3, <1>6, <1>8 DEF Exact, SentArePosted, NoneWork
<1>10. Sided'
  <2>1. ASSUME NEW s \in Side, NEW p \in Ids(sessions'[cur][s])
        PROVE  order'[p].at # "none" /\ order'[p].side = s
    <3>1. p \in Ids(sessions[cur][s]) \/ (p = o /\ s = task[t].side)
      BY <1>2, <2>1 DEF Here
    <3>2. order[p].at # "none" /\ order[p].side = s
      BY <1>0, <1>1, <1>8, <3>1 DEF Exact, Sided
    <3>3. p \in Quotes
      BY <1>1, <3>1, ListedIds
    <3> QED BY <1>3, <3>2, <3>3
  <2> QED BY <2>1 DEF Sided, Ids
<1>11. NoStale'
  <2>1. setup.mode \in Layered /\ order[o].at \in {"filled", "over"} => order[o].news
    BY <1>0, <1>6 DEF Exact, NoStale
  <2> QED BY <1>0, <1>3, <1>6, <2>1 DEF Exact, NoStale
<1>12. ListsWork'
  <2>1. CASE setup.mode \in Layered
    <3>1. \A p \in Quotes : order[p].om = "working" /\ order'[p].om # "working" => p \in {o}
      BY <1>3
    <3>2. \A s \in Side : s # task[t].side => Ids(sessions[cur][s]) \cap {o} = {}
      BY <1>0, <1>1, <1>8 DEF Exact, Sided
    <3> QED BY <1>0, <2>1, <3>1, <3>2, ListsKeepWorking
  <2>2. CASE setup.mode \notin Layered
    BY <2>2 DEF ListsWork
  <2> QED BY <2>1, <2>2
<1>13. AllAccounted'
  <2>1. \A p \in Quotes : order'[p].at = "open" =>
          /\ order[p].at = "open" /\ order'[p].side = order[p].side
          /\ InHand(task[t], p) => order[p].side = task[t].side
    BY <1>3, <1>8 DEF InHand
  <2>2. ASSUME NEW p \in Quotes, order'[p].at = "open", order[p].side = task[t].side,
               InHand(task[t], p) \/ Stands(t, task[t], Here(t), p)
        PROVE  InHand(r, p) \/ Stands(t, r, L, p)
    <3>0. order[p].at = "open"
      BY <1>3, <2>2
    <3>1. CASE InHand(task[t], p)
      <4>1. p = o
        BY <3>1 DEF InHand
      <4> QED BY <3>0, <4>1
    <3>2. CASE Stands(t, task[t], Here(t), p)
      <4>1. PICK q \in Level : q.id = p /\ Claims(Here(t), q) /\ Safe(task[t], Here(t), q)
        BY <3>2 DEF Stands, Stays
      <4>2. Claims(L, q) /\ (Stays(t, r) => Safe(r, L, q))
        BY <3>0, <4>1
      <4> QED BY <4>1, <4>2 DEF Stands
    <3> QED BY <2>2, <3>1, <3>2
  <2> QED BY <1>0, <2>1, <2>2, TurnAccounts
<1>14. NoSecondQuote'
  BY <1>0, <1>3, StillFew DEF Exact
<1> QED
  BY <1>4, <1>7, <1>9, <1>10, <1>11, <1>12, <1>13, <1>14 DEF Exact

LEMMA OnPost ==
  ASSUME Calm, NEW t \in Task, task[t].pc = "post"
  PROVE  /\ task[t] \in TaskType /\ task[t].on # 0 /\ task[t].id \in Quotes /\ Spot(task[t]) = "post"
         /\ TaskRight(setup.mode, task[t]) /\ Here(t) \in Seq(Level) /\ Levels(t) = Here(t)
         /\ task[t].on = cur /\ ~task[t].mine /\ task[t].side \in Side
         /\ order[task[t].id].at # "none" /\ order[task[t].id].side = task[t].side
         /\ task[t].take => order[task[t].id].at # "open"
<1>1. task[t] \in TaskType /\ task[t].id \in Quotes /\ TaskRight(setup.mode, task[t]) /\ Spot(task[t]) = "post"
  BY DEF Calm, Typed, TasksRight, TaskRight, Spot
<1>2. task[t].on # 0
  BY <1>1 DEF TaskRight, Refreshing
<1> QED
  BY <1>1, <1>2, Acting DEF Calm, Exact, Begun

\* How a refresh leaves its side.
LEMMA LeaveShape ==
  ASSUME NEW t \in Task, task[t] \in TaskType, NEW r, r = Leave(t) \/ r = IdleTask
  PROVE  Shape(t, r) /\ ~Stays(t, r) /\ r.pc # "post" /\ WithId(r, 0) = r
<1>1. PICK k : k = IdleTask
  OBVIOUS
<1>2. k \in TaskType /\ k.pc = "idle" /\ k.on = 0 /\ ~k.mine /\ k.i = 1 /\ k.then = "" /\ k.id = 0
  BY <1>1, IdleRight DEF TaskRight, IdleTask
<1>3. CASE r = k
  <2>1. WithId(r, 0) = r
    BY <1>2, <1>3 DEF WithId, TaskType
  <2> QED BY <1>2, <1>3, <2>1 DEF Shape, Spot, Stays
<1>4. CASE r # k
  <2>1. task[t].side = "bid" /\ r = [k EXCEPT !.pc = "sync", !.on = task[t].on, !.side = "ask",
                        !.want = task[t].want, !.take = task[t].take]
    BY <1>1, <1>4 DEF Leave
  <2>2. r.pc = "sync" /\ r.on = task[t].on /\ r.side = "ask" /\ r.mine = k.mine /\ r.i = k.i /\ r.id = 0
    BY <1>2, <2>1 DEF TaskType
  <2>3. WithId(r, 0) = r
    <3>1. r \in TaskType
      <4>1. "sync" \in Moment /\ "ask" \in Side
        BY DEF Moment, Refreshing, Side
      <4> QED BY <1>2, <2>1, <4>1 DEF TaskType
    <3> QED BY <2>2, <3>1 DEF WithId, TaskType
  <2> QED BY <1>2, <2>1, <2>2, <2>3 DEF Shape, Spot, Stays
<1> QED
  BY <1>3, <1>4

\* The ladder goes on with the next level, its order bound or not.
LEMMA NextShape ==
  ASSUME Calm, NEW t \in Task, task[t].pc = "post", NEW r, r = WithId(NextLevel(t), 0)
  PROVE  /\ r \in TaskType /\ Steady(r, task[t]) /\ r.pc = "level" /\ Spot(r) = "level"
         /\ r.i = task[t].i + 1 /\ r.plan = task[t].plan /\ Shape(t, r)
<1>1. PICK n : n = NextLevel(t)
  OBVIOUS
<1>2. task[t] \in TaskType /\ ~task[t].mine
  BY OnPost
<1>3. n \in TaskType /\ Steady(n, task[t]) /\ n.pc = "level" /\ n.i = task[t].i + 1 /\ n.plan = task[t].plan
  BY <1>1, <1>2, NextFields
<1>4. /\ r \in TaskType /\ Steady(r, task[t]) /\ r.pc = "level"
      /\ r.i = task[t].i + 1 /\ r.plan = task[t].plan
  <2>1. 0 \in Quotes \cup {0}
    OBVIOUS
  <2> QED BY <1>1, <1>3, <2>1, SetId DEF Steady
<1>5. Spot(r) = "level"
  BY <1>4 DEF Spot
<1> QED
  BY <1>2, <1>4, <1>5 DEF Shape, Steady

LEMMA RefusedKeeps ==
  ASSUME Calm, NEW t \in Task, PlaceRefused(t)
  PROVE  Exact'
<1>0. Typed /\ OpenInv /\ Undisturbed /\ Exact
  BY DEF Calm
<1>1. PICK me, H, o, om : me = task[t] /\ H = Here(t) /\ o = me.id /\ om = "done"
  OBVIOUS
<1>2. /\ me.pc = "post" /\ order[o].at = "refused" /\ order' = [order EXCEPT ![o].om = om]
      /\ UNCHANGED <<setup, cur, sessions, races>>
  BY <1>1 DEF PlaceRefused
<1>3. /\ me \in TaskType /\ me.on # 0 /\ o \in Quotes /\ H \in Seq(Level) /\ Spot(me) = "post"
  BY <1>1, <1>2, OnPost
<1>4. PICK r : Becomes(t, r) /\ (r = WithId(NextLevel(t), 0) \/ r = Leave(t) \/ r = IdleTask)
  <2>1. \A r : r = Leave(t) => WithId(r, 0) = r
    BY <1>1, <1>3, LeaveShape
  <2> QED BY <2>1 DEF PlaceRefused, Skip, WithId
<1>5. Turn(t, r, H)
  BY <1>0, <1>1, <1>2, <1>3, <1>4, TurnTaken
<1>6. CASE r = Leave(t) \/ r = IdleTask
  <2>1. Shape(t, r) /\ ~Stays(t, r) /\ r.pc # "post"
    BY <1>1, <1>3, <1>6, LeaveShape
  <2> QED BY <1>1, <1>2, <1>3, <1>5, <2>1, ReplyKeeps
<1>7. CASE r = WithId(NextLevel(t), 0)
  <2>1. /\ r \in TaskType /\ Steady(r, me) /\ r.pc = "level" /\ Spot(r) = "level"
        /\ r.i = me.i + 1 /\ r.plan = me.plan /\ Shape(t, r)
    BY <1>1, <1>2, <1>7, NextShape
  <2>2. \A q \in Level : Safe(me, H, q) => Safe(r, H, q)
    BY <1>1, <1>3, <2>1, NextIsSafe
  <2> QED BY <1>1, <1>2, <1>3, <1>5, <2>1, <2>2, ReplyKeeps
<1> QED
  BY <1>4, <1>6, <1>7

LEMMA AppendIds ==
  ASSUME NEW L \in Seq(Level), NEW q \in Level
  PROVE  Append(L, q) \in Seq(Level) /\ Ids(Append(L, q)) \subseteq Ids(L) \cup {q.id}
<1>1. PICK M : M = Append(L, q)
  OBVIOUS
<1>2. M \in Seq(Level) /\ ToSet(M) = ToSet(L) \cup {q}
  BY <1>1, ToSetAppend, AppendProperties
<1>3. \A x \in ToSet(M) : x = q \/ x.id \in Ids(L)
  BY <1>2 DEF ToSet, Ids
<1>4. Ids(M) \subseteq Ids(L) \cup {q.id}
  BY <1>3 DEF ToSet, Ids
<1> QED
  BY <1>1, <1>2, <1>4

\* The order placed, its side is left.
LEMMA LeftKeeps ==
  ASSUME Calm, NEW t \in Task, task[t].pc = "post", task[t].on # 0,
         NEW o \in Quotes, task[t].id = o, order[o].at # "sent",
         order' = [order EXCEPT ![o].om = "working"],
         NEW r, NEW L, Turn(t, r, L), Shape(t, r), r.pc # "post", ~Stays(t, r),
         L \in Seq(Level), Ids(L) \subseteq Ids(Here(t)) \cup {o},
         \A q \in Level : ~Safe(task[t], Here(t), q),
         order[o].at = "open" => Stands(t, r, L, o),
         cur' = cur, setup' = setup, races' = races
  PROVE  Exact'
<1>1. PICK om \in {"working", "done"} : om = "working"
  OBVIOUS
<1>2. order' = [order EXCEPT ![o].om = om] /\ om # "done"
  BY <1>1
<1> QED
  BY <1>2, ReplyKeeps

LEMMA PlacedKeeps ==
  ASSUME Calm, NEW t \in Task, Placed(t)
  PROVE  Exact'
<1>0. Typed /\ OpenInv /\ Undisturbed /\ Exact
  BY DEF Calm
<1>1. PICK me, H, o, om : me = task[t] /\ H = Here(t) /\ o = me.id /\ om = "working"
  OBVIOUS
<1>2. /\ me.pc = "post" /\ order[o].at # "sent" /\ order' = [order EXCEPT ![o].om = om]
      /\ UNCHANGED <<setup, cur, races>> /\ Bind(t)
  BY <1>1 DEF Placed
<1>3. /\ me \in TaskType /\ me.on # 0 /\ o \in Quotes /\ H \in Seq(Level) /\ Spot(me) = "post" /\ Levels(t) = H
      /\ TaskRight(setup.mode, me) /\ (me.take => order[o].at # "open")
  BY <1>1, <1>2, OnPost
<1>4. ASSUME NEW k \in 0..LadderLevels - 1, NEW q, q = [id |-> o, idx |-> k]
      PROVE  /\ q \in Level /\ q.id = o /\ q.idx = k
             /\ Append(H, q) \in Seq(Level) /\ Ids(Append(H, q)) \subseteq Ids(H) \cup {o}
             /\ <<q>> \in Seq(Level) /\ Ids(<<q>>) \subseteq Ids(H) \cup {o}
  <2>1. q \in Level /\ q.id = o /\ q.idx = k
    BY <1>3, <1>4 DEF Level
  <2>2. <<q>> \in Seq(Level) /\ Ids(<<q>>) = {o}
    BY <2>1 DEF Ids
  <2> QED BY <1>3, <2>1, <2>2, AppendIds
<1>5. PICK zero : zero = [id |-> o, idx |-> 0]
  OBVIOUS
<1>6. /\ zero \in Level /\ zero.id = o
      /\ Append(H, zero) \in Seq(Level) /\ Ids(Append(H, zero)) \subseteq Ids(H) \cup {o}
      /\ <<zero>> \in Seq(Level) /\ Ids(<<zero>>) \subseteq Ids(H) \cup {o}
  <2>1. 0 \in 0..LadderLevels - 1
    BY DEF LadderLevels
  <2> QED BY <1>4, <1>5, <2>1
<1>7. \A q : Safe(me, H, q) => Climbs(me)
  BY <1>3 DEF Safe
<1>8. CASE me.take
  <2>1. PICK r, L : r = Leave(t) /\ L = Append(H, zero)
    OBVIOUS
  <2>2. Turn(t, r, L)
    <3>1. Rewrite(t, L, r)
      BY <1>1, <1>2, <1>3, <1>5, <1>8, <2>1 DEF Bind
    <3> QED BY <1>0, <1>1, <1>3, <3>1, TurnTaken
  <2>3. Shape(t, r) /\ ~Stays(t, r) /\ r.pc # "post"
    BY <1>1, <1>3, <2>1, LeaveShape
  <2>4. ~\E q : Safe(me, H, q)
    BY <1>7, <1>8 DEF Climbs
  <2>5. order[o].at # "open"
    BY <1>3, <1>8
  <2>6. /\ L \in Seq(Level) /\ Ids(L) \subseteq Ids(H) \cup {o} /\ om \in {"working", "done"} /\ om # "done"
        /\ \A q \in Level : ~Safe(me, H, q)
    BY <1>1, <1>6, <2>1, <2>4
  <2> QED BY <1>1, <1>2, <1>3, <2>2, <2>3, <2>5, <2>6, LeftKeeps
<1>9. CASE ~me.take /\ setup.mode \in Layered
  <2>1. PICK r, q, L : r = WithId(NextLevel(t), 0) /\ q = [id |-> o, idx |-> me.i - 1] /\ L = Append(H, q)
    OBVIOUS
  <2>2. PICK i : i = me.i /\ i \in Nat /\ i # 0 /\ i - 1 \in 0..LadderLevels - 1
    <3>1. me.i \in Nat /\ me.i # 0
      BY <1>3, Fields
    <3>2. me.i <= LadderLevels
      BY <1>3, <1>9 DEF TaskRight, OnLadder
    <3> QED BY <3>1, <3>2 DEF LadderLevels
  <2>3. q \in Level /\ q.id = o /\ q.idx = i - 1 /\ L \in Seq(Level) /\ Ids(L) \subseteq Ids(H) \cup {o}
    <3>1. PICK k \in 0..LadderLevels - 1 : k = i - 1
      BY <2>2
    <3>2. q = [id |-> o, idx |-> k] /\ L = Append(H, q)
      BY <2>1, <2>2, <3>1
    <3> QED BY <1>4, <3>1, <3>2
  <2>4. Turn(t, r, L)
    <3>1. Rewrite(t, L, r)
      BY <1>1, <1>2, <1>3, <1>9, <2>1 DEF Bind, WithId
    <3> QED BY <1>0, <1>1, <1>3, <3>1, TurnTaken
  <2>5. /\ r \in TaskType /\ Steady(r, me) /\ r.pc = "level" /\ Spot(r) = "level"
        /\ r.i = i + 1 /\ r.plan = me.plan /\ Shape(t, r)
    BY <1>1, <1>2, <2>1, <2>2, NextShape
  <2>6. ASSUME NEW x \in Level, Claims(H, x), Safe(me, H, x)
        PROVE  Claims(L, x) /\ Safe(r, L, x)
    <3>1. x.idx + 1 # i
      BY <1>3, <2>2, <2>6 DEF Safe
    <3>2. x.idx # q.idx
      <4>1. (i - 1) + 1 = i
        BY <2>2
      <4> QED BY <2>3, <3>1, <4>1
    <3>3. Claims(L, x)
      BY <1>3, <1>9, <2>1, <2>3, <2>6, <3>2, TopAppend DEF Claims
    <3> QED BY <1>1, <1>3, <2>2, <2>5, <2>6, <3>3, NextIsSafe
  <2>7. Stands(t, r, L, o)
    <3>1. Claims(L, q)
      BY <1>3, <1>9, <2>1, <2>3, TopAppend DEF Claims
    <3>2. ~(q.idx + 1 >= r.i)
      BY <2>2, <2>3, <2>5
    <3>3. Safe(r, L, q)
      BY <1>9, <2>5, <3>2 DEF Safe, Climbs, Steady
    <3> QED BY <2>3, <3>1, <3>3 DEF Stands
  <2>8. Spot(r) \notin {"sync", "sweep"} /\ r.pc # "post"
    BY <2>5
  <2> QED BY <1>1, <1>2, <1>3, <2>3, <2>4, <2>5, <2>6, <2>7, <2>8, ReplyKeeps
<1>10. CASE ~me.take /\ setup.mode \notin Layered
  <2>1. PICK r, L : r = Leave(t) /\ L = <<zero>>
    OBVIOUS
  <2>2. Turn(t, r, L)
    <3>1. Rebind(t, L, r)
      BY <1>1, <1>2, <1>5, <1>10, <2>1 DEF Bind
    <3> QED BY <1>0, <1>1, <1>3, <3>1, TurnTaken
  <2>3. Shape(t, r) /\ ~Stays(t, r) /\ r.pc # "post"
    BY <1>1, <1>3, <2>1, LeaveShape
  <2>4. ~\E q : Safe(me, H, q)
    BY <1>7, <1>10 DEF Climbs
  <2>5. Stands(t, r, L, o)
    BY <1>6, <1>10, <2>1, <2>3 DEF Stands, Claims
  <2>6. /\ L \in Seq(Level) /\ Ids(L) \subseteq Ids(H) \cup {o} /\ om \in {"working", "done"} /\ om # "done"
        /\ \A q \in Level : ~Safe(me, H, q)
    BY <1>1, <1>6, <2>1, <2>4
  <2> QED BY <1>1, <1>2, <1>3, <2>2, <2>3, <2>5, <2>6, LeftKeeps
<1> QED
  BY <1>8, <1>9, <1>10

\* The venue and the poll act beside every task.
LEMMA OrdersKeep ==
  ASSUME Typed, Undisturbed, Exact, UNCHANGED <<task, cur, setup, sessions>>, Settles
  PROVE  Exact'
<1>1. PICK t \in Task, r \in {task["operator"]} : t = "operator" /\ r = task[t]
  BY DEF Task
<1>2. TaskRight(setup.mode, r) /\ r.on = 0
  BY <1>1 DEF Typed, TasksRight
<1>3. Spot(r) # "sync" /\ r.pc # "post"
  BY <1>2 DEF TaskRight, Refreshing, Spot
<1>4. task'[t] = r /\ \A u \in Task : u # t => task'[u] = task[u]
  BY <1>1
<1>5. r.pc \in {"idle", "filled"} \/ Busy(t)
  BY <1>1 DEF Busy
<1> QED
  BY <1>1, <1>2, <1>3, <1>4, <1>5, BesideKeeps

\* An order that ended, and the news of it.
LEMMA EndSettles ==
  ASSUME Typed, Exact, NEW o \in Quotes, order[o].at \in {"sent", "open"}, NEW at \in {"filled", "over"},
         order' = Ends(o, at)
  PROVE  Settles
<1>1. order[o] \in OrderType /\ order \in [Quotes -> OrderType]
  BY DEF Typed
<1>2. /\ order'[o].at = at /\ order'[o].news /\ order'[o].om = order[o].om /\ order'[o].side = order[o].side
      /\ \A p \in Quotes : p # o => order'[p] = order[p]
  BY <1>1 DEF OrderType, Ends
<1>3. \A t \in Task : task[t].pc = "post" => task[t].id \in Quotes
  BY DEF Typed, TasksRight, TaskRight
<1> QED
  BY <1>2, <1>3 DEF Exact, Begun, NoStale, Settles

LEMMA AnswersKeep ==
  ASSUME Calm, NEW t \in Task, Answers(t)
  PROVE  Exact'
<1>0. Typed /\ Undisturbed /\ Exact
  BY DEF Calm
<1>1. PICK o : o = task[t].id
  OBVIOUS
<1>2. /\ task[t].pc \in {"post", "cancel"} /\ o \in Quotes /\ order \in [Quotes -> OrderType]
      /\ UNCHANGED <<task, cur, setup, sessions>> /\ order[o].at \in {"sent", "open"}
  BY <1>0, <1>1 DEF Typed, TasksRight, TaskRight, Answers, VenueTakes, VenueCancels, VenueOnly
<1>3. CASE \E at \in {"filled", "over"} : order' = Ends(o, at)
  BY <1>0, <1>2, <1>3, EndSettles, OrdersKeep
<1>4. CASE \E at \in {"refused", "open"} : /\ order' = [order EXCEPT ![o].at = at] /\ task[t].pc = "post"
                                            /\ (at = "open" => ~task[t].take) /\ order[o].at = "sent"
  <2>1. PICK at \in {"refused", "open"} : /\ order' = [order EXCEPT ![o].at = at] /\ task[t].pc = "post"
                                           /\ (at = "open" => ~task[t].take)
    BY <1>4
  <2>2. /\ order'[o].at = at /\ order'[o].om = order[o].om /\ order'[o].side = order[o].side
        /\ order'[o].news = order[o].news
        /\ \A p \in Quotes : p # o => order'[p] = order[p]
    BY <1>2, <2>1 DEF OrderType
  <2>3. Posted(o)
    BY <1>1, <2>1 DEF Posted
  <2>4. \A u \in Task : task[u].pc = "post" => u = t
    BY <1>0, <2>1 DEF Exact, OneBusy, Busy
  <2>5. Settles
    BY <1>0, <1>1, <1>2, <1>4, <2>1, <2>2, <2>3, <2>4 DEF Exact, Begun, NoStale, Settles
  <2> QED BY <1>0, <1>2, <2>5, OrdersKeep
<1> QED
  BY <1>1, <1>3, <1>4 DEF Answers, VenueTakes, VenueCancels

LEMMA FillKeeps ==
  ASSUME Calm, NEW o \in Quotes, VenueFills(o)
  PROVE  Exact'
<1>1. Typed /\ Undisturbed /\ Exact
  BY DEF Calm
<1>2. UNCHANGED <<task, cur, setup, sessions>> /\ order[o].at \in {"sent", "open"} /\ order' = Ends(o, "filled")
  BY DEF VenueFills, VenueOnly
<1> QED
  BY <1>1, <1>2, EndSettles, OrdersKeep

LEMMA PollKeeps ==
  ASSUME Calm, NEW o \in Quotes, Poll(o)
  PROVE  Exact'
<1>1. Typed /\ Undisturbed /\ Exact
  BY DEF Calm
<1>2. UNCHANGED <<task, cur, setup, sessions>> /\ ~order[o].news
  BY DEF Poll, VenueOnly
<1>3. CASE order[o].at = "open" /\ order' = Ends(o, "over")
  BY <1>1, <1>2, <1>3, EndSettles, OrdersKeep
<1>4. CASE order[o].at \in {"filled", "over"} /\ order[o].om = "working" /\ order' = [order EXCEPT ![o].om = "done"]
  <2>1. setup.mode \notin Layered
    BY <1>1, <1>2, <1>4 DEF Exact, NoStale
  <2>2. order \in [Quotes -> OrderType]
    BY <1>1 DEF Typed
  <2>3. \A p \in Quotes : /\ order'[p].at = order[p].at /\ order'[p].side = order[p].side
                          /\ order'[p].news = order[p].news
                          /\ order'[p].om = "working" => order[p].om = "working"
    BY <1>4, <2>2 DEF OrderType
  <2>4. \A t \in Task : task[t].pc = "post" => task[t].id \in Quotes
    BY <1>1 DEF Typed, TasksRight, TaskRight
  <2>5. Settles
    BY <1>1, <2>1, <2>3, <2>4 DEF Exact, Begun, Settles
  <2> QED BY <1>1, <1>2, <2>5, OrdersKeep
<1> QED
  BY <1>3, <1>4 DEF Poll

LEMMA PartialKeeps ==
  ASSUME Calm, NEW o \in Quotes, HearPartial(o)
  PROVE  Exact'
<1>1. Typed /\ Undisturbed /\ Exact
  BY DEF Calm
<1>2. PICK t \in Task, r \in {[IdleTask EXCEPT !.pc = "filled"]} : t = "user" /\ r = [IdleTask EXCEPT !.pc = "filled"]
  BY DEF Task
<1>3. r.pc = "filled" /\ r.on = 0 /\ Spot(r) = "filled"
  BY <1>2 DEF IdleTask, Spot
<1>4. task' = [task EXCEPT ![t] = r] /\ task[t].pc = "idle" /\ UNCHANGED <<cur, setup, sessions, order>>
  BY <1>2 DEF HearPartial, Becomes
<1>5. task[t].on = 0
  BY <1>1, <1>4 DEF Exact, OnCurrent, Busy
<1>6. \A p : ~Grips(task[t], p)
  BY <1>4 DEF Grips, Spot
<1>7. Settles
  BY <1>1, <1>4, SameSettle
<1> QED
  BY <1>1, <1>3, <1>4, <1>5, <1>6, <1>7, AsideKeeps

\* A call that is undisturbed when it begins has the quotes for itself.
LEMMA UncrossedAlone ==
  ASSUME Undisturbed', NEW t \in Task, NEW kind, Notes(Crossing(t, kind))
  PROVE  \A u \in Task : u # t => ~Busy(u)
BY DEF Undisturbed, Notes, Crossing

LEMMA MassCancelKeeps ==
  ASSUME Calm, MassCancel, Undisturbed'
  PROVE  Exact'
<1>1. Typed /\ Undisturbed /\ Exact
  BY DEF Calm
<1>2. PICK t \in Task, r \in {[IdleTask EXCEPT !.pc = "mass"]} : t = "operator" /\ r = [IdleTask EXCEPT !.pc = "mass"]
  BY DEF Task
<1>3. r.pc = "mass" /\ r.on = 0 /\ Spot(r) = "mass"
  BY <1>2 DEF IdleTask, Spot
<1>4. task' = [task EXCEPT ![t] = r] /\ task[t].pc = "idle" /\ UNCHANGED <<cur, setup, sessions, order>>
  BY <1>2 DEF MassCancel, Becomes
<1>5. \A u \in Task : u # t => ~Busy(u)
  BY <1>2, UncrossedAlone DEF MassCancel
<1>6. task[t].on = 0
  BY <1>1, <1>4 DEF Exact, OnCurrent, Busy
<1>7. \A p : ~Grips(task[t], p)
  BY <1>4 DEF Grips, Spot
<1>8. Settles
  BY <1>1, <1>4, SameSettle
<1> QED
  BY <1>1, <1>3, <1>4, <1>5, <1>6, <1>7, <1>8, AsideKeeps

LEMMA MassLandsKeeps ==
  ASSUME Calm, MassLands
  PROVE  Exact'
<1>1. Typed /\ Undisturbed /\ Exact
  BY DEF Calm
<1>2. PICK t \in Task, r \in {[task["operator"] EXCEPT !.pc = "massed"]} : t = "operator" /\ r = [task[t] EXCEPT !.pc = "massed"]
  BY DEF Task
<1>3. task[t].pc = "mass" /\ task[t] \in TaskType /\ order \in [Quotes -> OrderType]
  BY <1>1, <1>2 DEF MassLands, Typed, TasksRight, TaskRight
<1>4. r.pc = "massed" /\ r.on = task[t].on /\ Spot(r) = "massed" /\ task[t].on = 0 /\ Busy(t)
  BY <1>1, <1>2, <1>3 DEF TaskType, Spot, Typed, TasksRight, Busy
<1>5. task' = [task EXCEPT ![t] = r] /\ UNCHANGED <<cur, setup, sessions>>
  BY <1>2 DEF MassLands, Becomes
<1>6. \A p \in Quotes : /\ order[p].at # "open" => order'[p] = order[p]
                        /\ order[p].at = "open" =>
                             /\ order'[p].at = "over" /\ order'[p].news /\ order'[p].om = order[p].om
                             /\ order'[p].side = order[p].side
  <2>1. order' = [o \in Quotes |-> IF order[o].at = "open"
                                   THEN [order[o] EXCEPT !.at = "over", !.news = TRUE] ELSE order[o]]
    BY DEF MassLands
  <2>2. \A e \in OrderType : LET f == [e EXCEPT !.at = "over", !.news = TRUE] IN
          f.at = "over" /\ f.news /\ f.om = e.om /\ f.side = e.side
    BY DEF OrderType
  <2> QED BY <1>3, <2>1, <2>2
<1>7. \A u \in Task : task[u].pc = "post" => task[u].id \in Quotes
  BY <1>1 DEF Typed, TasksRight, TaskRight
<1>8. Settles
  BY <1>1, <1>6, <1>7 DEF Exact, Begun, NoStale, Settles
<1>9. \A p : ~Grips(task[t], p)
  BY <1>3 DEF Grips, Spot
<1> QED
  BY <1>1, <1>3, <1>4, <1>5, <1>8, <1>9, AsideKeeps

\* Where no task is at work after a step, nothing of the account is about tasks.
LEMMA AtRest ==
  ASSUME \A u \in Task : task'[u].pc \in {"idle", "filled"} /\ task'[u].on = 0
  PROVE  OneBusy' /\ OnCurrent' /\ Begun' /\ ListsWork' /\ \A o : ~Posted(o)'
BY DEF OneBusy, OnCurrent, Begun, ListsWork, Posted, Busy, Spot

\* Where no task is at work, an open quote is kept, and no order waits for its reply.
LEMMA AllKept ==
  ASSUME Calm, \A u \in Task : ~Busy(u)
  PROVE  /\ \A u \in Task : task[u].on = 0 /\ task[u].pc \in {"idle", "filled"}
         /\ \A o \in Quotes : order[o].at # "sent" /\ ~Posted(o)
         /\ \A o \in Quotes : order[o].at = "open" => Kept(o) /\ order[o].om = "working"
<1>1. \A u \in Task : task[u].on = 0 /\ task[u].pc \in {"idle", "filled"}
  BY DEF Calm, Exact, OnCurrent, Busy
<1>2. \A o : ~Posted(o) /\ ~Held(o) /\ ~Evicted(o)
  BY <1>1 DEF Posted, Held, Evicted, Spot
<1>3. Unspoilt
  BY DEF Calm, Undisturbed, Unspoilt
<1> QED
  BY <1>1, <1>2, <1>3 DEF Calm, Exact, SentArePosted, AllAccounted, Accounted, OpenInv, Working

LEMMA MassReturnsKeeps ==
  ASSUME Calm, MassReturns, Undisturbed'
  PROVE  Exact'
<1>0. Typed /\ OpenInv /\ Undisturbed /\ Exact
  BY DEF Calm
<1>1. PICK t \in Task, r \in {IdleTask} : t = "operator" /\ r = IdleTask
  BY DEF Task
<1>2. task[t].pc = "massed" /\ \A u \in Task : u # t => ~Busy(u)
  BY <1>1 DEF MassReturns, Undisturbed, Notes, Crossing
<1>3. \A o \in Quotes : order[o].at # "open"
  BY <1>0, <1>1, <1>2 DEF OpenInv, Unspoilt, Undisturbed, MassedIsClear
<1>4. cur' = 0 /\ setup' = setup /\ task' = [task EXCEPT ![t] = r]
  BY <1>1 DEF MassReturns, Becomes
<1>5. r.pc = "idle" /\ r.on = 0
  BY <1>1 DEF IdleTask
<1>6. \A u \in Task : task'[u].pc \in {"idle", "filled"} /\ task'[u].on = 0
  BY <1>0, <1>2, <1>4, <1>5 DEF Typed, TasksRight, Exact, OnCurrent, Busy
<1>7. \A o \in Quotes : /\ order'[o].at = order[o].at /\ order'[o].side = order[o].side
                        /\ order'[o].news = order[o].news /\ order'[o].om # "working"
  <2>1. order' = [o \in Quotes |-> IF order[o].om = "working" THEN [order[o] EXCEPT !.om = "done"] ELSE order[o]]
    BY DEF MassReturns
  <2>2. \A e \in OrderType : LET f == [e EXCEPT !.om = "done"] IN
          f.at = e.at /\ f.news = e.news /\ f.om = "done" /\ f.side = e.side
    BY DEF OrderType
  <2>3. \A o \in Quotes : order[o] \in OrderType
    BY <1>0 DEF Typed
  <2> QED BY <2>1, <2>2, <2>3
<1>8. \A o \in Quotes : order[o].at # "sent"
  BY <1>0, <1>2 DEF Exact, SentArePosted, Posted, Busy
<1>9. OneBusy' /\ OnCurrent' /\ Begun' /\ ListsWork' /\ \A o : ~Posted(o)'
  BY <1>6, AtRest
<1>10. SentArePosted' /\ NoneWork' /\ NoStale' /\ AllAccounted'
  BY <1>3, <1>7, <1>8, <1>9 DEF SentArePosted, NoneWork, NoStale, AllAccounted
<1>11. Sided'
  BY <1>4 DEF Sided
<1>12. NoSecondQuote'
  BY <1>0, <1>4, <1>7, StillFew DEF Exact
<1> QED
  BY <1>9, <1>10, <1>11, <1>12 DEF Exact

LEMMA StartEvictKeeps ==
  ASSUME Calm, NEW t \in Task, StartEvict(t), Undisturbed'
  PROVE  Exact'
<1>0. Typed /\ OpenInv /\ Undisturbed /\ Exact
  BY DEF Calm
<1>1. \A u \in Task : ~Busy(u)
  BY UncrossedAlone DEF StartEvict, MayRefresh, Busy
<1>2. /\ \A u \in Task : task[u].on = 0 /\ task[u].pc \in {"idle", "filled"}
      /\ \A o \in Quotes : order[o].at # "sent"
      /\ \A o \in Quotes : order[o].at = "open" => Kept(o)
  BY <1>1, AllKept
<1>3. PICK todo, idle, r : /\ todo = IF cur = 0 THEN <<>> ELSE sessions[cur]["bid"] \o sessions[cur]["ask"]
                           /\ idle = IdleTask /\ r = [idle EXCEPT !.pc = "evict", !.todo = todo]
  OBVIOUS
<1>4. r.pc = "evict" /\ r.todo = todo /\ r.on = 0 /\ Spot(r) = "evict"
  <2>1. idle \in TaskType /\ idle.on = 0
    BY <1>3, IdleRight DEF TaskRight
  <2> QED BY <1>3, <2>1 DEF TaskType, Spot
<1>5. task' = [task EXCEPT ![t] = r] /\ cur' = 0 /\ UNCHANGED <<setup, order, sessions>>
  BY <1>3 DEF StartEvict, Becomes
<1>6. task'[t] = r /\ \A u \in Task : u # t => task'[u] = task[u]
  BY <1>0, <1>5 DEF Typed, TasksRight
<1>7. OneBusy' /\ OnCurrent' /\ Begun' /\ ListsWork'
  BY <1>2, <1>4, <1>6 DEF OneBusy, OnCurrent, Begun, ListsWork, Busy, Spot
<1>8. SentArePosted' /\ NoneWork' /\ Sided'
  BY <1>0, <1>2, <1>5 DEF Exact, SentArePosted, NoneWork, Sided
<1>9. NoStale'
  <2>1. \A o : ~Posted(o)'
    BY <1>2, <1>4, <1>6 DEF Posted
  <2> QED BY <1>0, <1>5, <2>1 DEF Exact, NoStale
<1>10. AllAccounted'
  <2>1. ASSUME NEW o \in Quotes, order[o].at = "open" PROVE Evicted(o)'
    <3>1. PICK q \in Level : cur # 0 /\ Listed(o, q)
      BY <1>2, <2>1 DEF Kept
    <3>2. order[o].side \in Side /\ \A s \in Side : sessions[cur][s] \in Seq(Level)
      BY <1>0, <3>1 DEF Typed, OrderType, SessionsType
    <3>3. PICK A, B : A = sessions[cur]["bid"] /\ B = sessions[cur]["ask"]
      OBVIOUS
    <3>4. A \in Seq(Level) /\ B \in Seq(Level) /\ q.id = o
      BY <3>1, <3>2, <3>3 DEF Side, Listed
    <3>5. Claims(A, q) \/ Claims(B, q)
      BY <3>1, <3>2, <3>3 DEF Side, Listed
    <3>6. q \in ToSet(A \o B)
      BY <3>4, <3>5, ClaimMember, ToSetJoin
    <3>7. o \in Ids(A \o B)
      BY <3>4, <3>6 DEF Ids, ToSet
    <3>8. o \in Ids(r.todo)
      BY <1>3, <1>4, <3>1, <3>3, <3>7
    <3>9. Spot(task[t])' = "evict" /\ task'[t].todo = r.todo
      BY <1>4, <1>6 DEF Spot
    <3> QED BY <3>8, <3>9 DEF Evicted
  <2> QED BY <1>5, <2>1 DEF AllAccounted, Accounted
<1>11. NoSecondQuote'
  BY <1>0, <1>5, StillFew DEF Exact
<1> QED
  BY <1>7, <1>8, <1>9, <1>10, <1>11 DEF Exact

LEMMA PruneWorks ==
  ASSUME NEW L \in Seq(Level)
  PROVE  Prune(L) \in Seq(Level) /\ Ids(Prune(L)) \subseteq Ids(L) /\ AllWork(Prune(L))
<1>1. PICK S, M : S = {q \in Level : order[q.id].om = "working"} /\ M = Only(L, S)
  OBVIOUS
<1>2. M \in Seq(Level) /\ ToSet(M) = ToSet(L) \cap S
  BY <1>1, OnlyKeeps
<1>3. Ids(M) \subseteq Ids(L)
  BY <1>2, FewerIds
<1>4. \A k \in DOMAIN M : M[k] \in S
  BY <1>2 DEF ToSet
<1>5. AllWork(M)
  BY <1>1, <1>4 DEF AllWork, Ids
<1> QED
  BY <1>1, <1>2, <1>3, <1>5 DEF Prune

\* A session nobody holds is empty while every task waits.
LEMMA FreeIsEmpty ==
  ASSUME Typed, Quiet, cur = 0
  PROVE  FreeSession \in Session /\ sessions[FreeSession] = Empty
<1>1. FreeSession \in Session /\ \A t \in Task : task[t].on # FreeSession
  BY FreeSessionType
<1>2. FreeSession # cur
  BY <1>1 DEF Session
<1> QED
  BY <1>1, <1>2 DEF Quiet, Unheld

LEMMA StartRefreshKeeps ==
  ASSUME Calm, NEW t \in Task, StartRefresh(t), Undisturbed'
  PROVE  Exact'
<1>0. Typed /\ OpenInv /\ Undisturbed /\ Exact
  BY DEF Calm
<1>1. \A u \in Task : ~Busy(u)
  BY UncrossedAlone DEF StartRefresh, MayRefresh, Busy
<1>2. /\ \A u \in Task : task[u].on = 0 /\ task[u].pc \in {"idle", "filled"}
      /\ \A o \in Quotes : order[o].at # "sent"
      /\ \A o \in Quotes : order[o].at = "open" => Kept(o) /\ order[o].om = "working"
  BY <1>1, AllKept
<1>3. PICK n : n = IF cur # 0 THEN cur ELSE FreeSession
  OBVIOUS
<1>4. n \in Session /\ n # 0 /\ cur' = n /\ sessions' = PruneBook(n) /\ UNCHANGED <<setup, order>>
      /\ (cur = 0 => sessions[n] = Empty) /\ (cur # 0 => n = cur)
  <2>1. n \in Session /\ (cur = 0 => sessions[n] = Empty)
    BY <1>0, <1>3, FreeIsEmpty DEF Typed, StartRefresh
  <2> QED BY <1>3, <2>1 DEF StartRefresh, Session
<1>5. PICK w \in Wishes, k \in {FALSE, setup.take} :
        Becomes(t, [IdleTask EXCEPT !.pc = "sync", !.on = n, !.want = w, !.take = k])
  BY <1>3 DEF StartRefresh
<1>6. PICK idle, r : idle = IdleTask /\ r = [idle EXCEPT !.pc = "sync", !.on = n, !.want = w, !.take = k]
  OBVIOUS
<1>7. r.pc = "sync" /\ r.on = n /\ ~r.mine /\ r.i = 1 /\ Spot(r) = "sync"
  <2>1. idle \in TaskType /\ idle.i = 1 /\ ~idle.mine
    BY <1>6, IdleRight DEF TaskRight, IdleTask
  <2> QED BY <1>6, <2>1 DEF TaskType, Spot
<1>8. task'[t] = r /\ \A u \in Task : u # t => task'[u] = task[u]
  BY <1>0, <1>5, <1>6 DEF Typed, TasksRight, Becomes
<1>9. OneBusy' /\ OnCurrent' /\ Begun'
  BY <1>2, <1>4, <1>7, <1>8 DEF OneBusy, OnCurrent, Begun, Busy, Spot
<1>10. SentArePosted' /\ NoneWork'
  BY <1>0, <1>2, <1>4 DEF Exact, SentArePosted, NoneWork
<1>11. NoStale'
  <2>1. \A o : ~Posted(o)'
    BY <1>2, <1>7, <1>8 DEF Posted
  <2> QED BY <1>0, <1>4, <2>1 DEF Exact, NoStale
<1>12. \A s \in Side : sessions[n][s] \in Seq(Level) /\ sessions'[n][s] = Prune(sessions[n][s])
  BY <1>0, <1>4 DEF Typed, SessionsType, PruneBook
<1>13. \A s \in Side : Ids(sessions'[n][s]) \subseteq Ids(sessions[n][s]) /\ AllWork(sessions'[n][s])
  BY <1>12, PruneWorks
<1>14. Sided'
  <2>1. ASSUME NEW s \in Side, NEW o \in Ids(sessions'[n][s])
        PROVE  order[o].at # "none" /\ order[o].side = s
    <3>1. o \in Ids(sessions[n][s])
      BY <1>13, <2>1
    <3>2. cur # 0
      BY <1>4, <3>1 DEF Empty, Ids
    <3> QED BY <1>0, <1>4, <3>1, <3>2 DEF Exact, Sided
  <2> QED BY <1>4, <2>1 DEF Sided, Ids
<1>15. ListsWork'
  <2>1. \A s \in Side : AllWork(sessions[n][s])'
    BY <1>4, <1>13 DEF AllWork
  <2>2. \A u \in Task : task'[u].on # 0 => task'[u] = r
    BY <1>2, <1>8
  <2>3. r.side \in Side /\ "ask" \in Side
    <3>1. idle.side \in Side /\ idle \in TaskType
      BY <1>6, IdleRight DEF TaskRight, TaskType
    <3> QED BY <1>6, <3>1 DEF TaskType, Side
  <2> QED BY <1>4, <2>1, <2>2, <2>3 DEF ListsWork, AllWork
<1>16. AllAccounted'
  <2>1. ASSUME NEW o \in Quotes, order[o].at = "open" PROVE Kept(o)'
    <3>1. PICK q \in Level : cur # 0 /\ Listed(o, q) /\ order[o].om = "working"
      BY <1>2, <2>1 DEF Kept
    <3>2. PICK L : L = sessions[cur][order[o].side]
      OBVIOUS
    <3>3. order[o].side \in Side /\ q.id = o /\ Claims(L, q) /\ n = cur
      BY <1>0, <1>4, <3>1, <3>2 DEF Typed, OrderType, Listed
    <3>4. L \in Seq(Level) /\ sessions'[n][order[o].side] = Prune(L)
      BY <1>12, <3>2, <3>3
    <3>5. Claims(Prune(L), q)
      BY <3>1, <3>3, <3>4, ClaimPrune
    <3>6. Claims(sessions[cur][order[o].side], q)'
      BY <1>4, <3>4, <3>5 DEF Claims
    <3>7. \A u \in Task : task'[u].on # 0 => Safe(task[u], sessions[cur][order[o].side], q)'
      <4>1. \A u \in Task : task'[u].on # 0 => task'[u] = r
        BY <1>2, <1>8
      <4> QED BY <1>7, <4>1 DEF Safe
    <3> QED BY <1>4, <3>3, <3>6, <3>7 DEF Kept, Listed
  <2> QED BY <1>4, <2>1 DEF AllAccounted, Accounted
<1>17. NoSecondQuote'
  BY <1>0, <1>4, StillFew DEF Exact
<1> QED
  BY <1>9, <1>10, <1>11, <1>14, <1>15, <1>16, <1>17 DEF Exact

LEMMA OrderWorksOrPosted ==
  ASSUME Calm, NEW o \in Quotes, order[o].at = "open", ~Posted(o)
  PROVE  order[o].om = "working"
BY DEF Calm, OpenInv, Undisturbed, Unspoilt, Working

LEMMA HearEndKeeps ==
  ASSUME Calm, NEW o \in Quotes, HearEnd(o), Undisturbed'
  PROVE  Exact'
<1>0. Typed /\ OpenInv /\ Undisturbed /\ Exact
  BY DEF Calm
<1>1. setup.mode \in Layered => \A u \in Task : ~(Busy(u) /\ task[u].on # 0)
  BY DEF HearEnd, Notes, Undisturbed
<1>2. setup.mode \in Layered => \A u \in Task : task[u].on = 0 /\ task[u].pc # "post"
  <2>1. \A u \in Task : task[u].on # 0 => Busy(u)
    BY <1>0 DEF Exact, OnCurrent
  <2>2. \A u \in Task : task[u].pc = "post" => task[u].on # 0
    BY <1>0, OnPost DEF Calm
  <2> QED BY <1>1, <2>1, <2>2
<1>3. order[o].at \in {"filled", "over"} /\ task["user"].pc = "idle" /\ UNCHANGED <<setup, cur>>
  BY <1>0 DEF HearEnd, OpenInv, NewsOfEnds
<1>4. \A p \in Quotes : /\ order'[p].at = order[p].at /\ order'[p].side = order[p].side
                        /\ p # o => order'[p] = order[p]
                        /\ p = o => order'[p].om = "done"
  <2>1. order' = [order EXCEPT ![o].news = FALSE, ![o].om = "done"]
    BY DEF HearEnd
  <2>2. order \in [Quotes -> OrderType]
    BY <1>0 DEF Typed
  <2> QED BY <2>1, <2>2 DEF OrderType
<1>5. PICK me : me = task'["user"]
  OBVIOUS
<1>6. me.pc \in {"idle", "filled"} /\ me.on = 0 /\ \A u \in Task : u # "user" => task'[u] = task[u]
  <2>1. CASE UNCHANGED task
    <3>1. "user" \in Task
      BY DEF Task
    <3> QED BY <1>0, <1>3, <1>5, <2>1, <3>1 DEF Exact, OnCurrent, Busy
  <2>2. CASE Becomes("user", [IdleTask EXCEPT !.pc = "filled"])
    <3>1. PICK r : r = [IdleTask EXCEPT !.pc = "filled"]
      OBVIOUS
    <3>2. r.pc = "filled" /\ r.on = 0
      BY <3>1 DEF IdleTask
    <3>3. task' = [task EXCEPT !["user"] = r] /\ "user" \in Task
      BY <2>2, <3>1 DEF Becomes, Task
    <3> QED BY <1>0, <1>5, <3>2, <3>3 DEF Typed, TasksRight
  <2> QED BY <2>1, <2>2 DEF HearEnd
<1>7. \A u \in Task : \/ u # "user" /\ task'[u] = task[u]
                      \/ u = "user" /\ task'[u] = me
  BY <1>5, <1>6
<1>8. ~Busy("user") /\ Spot(me) \in {"idle", "filled"}
  BY <1>3, <1>6 DEF Busy, Spot
<1>9. OneBusy' /\ OnCurrent'
  BY <1>0, <1>3, <1>6, <1>7 DEF Exact, OneBusy, OnCurrent, Busy, Spot
<1>10. Begun'
  <2>1. \A u \in Task : task[u].pc = "post" => task[u].id \in Quotes
    BY <1>0 DEF Typed, TasksRight, TaskRight
  <2> QED BY <1>0, <1>4, <1>6, <1>7, <1>8, <2>1 DEF Exact, Begun, Spot
<1>11. \A p : Posted(p)' <=> Posted(p)
  BY <1>3, <1>6, <1>7 DEF Posted
<1>12. SentArePosted' /\ NoneWork'
  BY <1>0, <1>4, <1>11 DEF Exact, SentArePosted, NoneWork
<1>13. NoStale'
  <2>1. setup.mode \in Layered => \A p : ~Posted(p)
    BY <1>2 DEF Posted
  <2> QED BY <1>0, <1>3, <1>4, <1>11, <2>1 DEF Exact, NoStale
<1>14. ListsWork'
  <2>1. setup.mode \in Layered => \A u \in Task : task'[u].on = 0
    BY <1>2, <1>6, <1>7
  <2> QED BY <1>3, <2>1 DEF ListsWork
<1>15. PICK S : S = {q \in Level : q.id # o /\ order[q.id].om = "working"}
  OBVIOUS
<1>16. ASSUME cur # 0, NEW s \in Side
       PROVE  sessions[cur][s] \in Seq(Level) /\ sessions'[cur][s] = Only(sessions[cur][s], S)
  <2>1. sessions' = [sessions EXCEPT ![cur] = [v \in Side |-> Only(sessions[cur][v], S)]]
    BY <1>15, <1>16 DEF HearEnd
  <2>2. cur \in Session /\ sessions \in [Session -> [Side -> Seq(Level)]]
    BY <1>0, <1>16 DEF Typed, SessionsType
  <2> QED BY <1>16, <2>1, <2>2
<1>17. Sided'
  <2>1. ASSUME cur # 0, NEW s \in Side, NEW p \in Ids(sessions'[cur][s])
        PROVE  order'[p].at # "none" /\ order'[p].side = s
    <3>1. PICK L, M : L = sessions[cur][s] /\ M = Only(L, S)
      OBVIOUS
    <3>2. L \in Seq(Level) /\ M \in Seq(Level) /\ ToSet(M) \subseteq ToSet(L) /\ p \in Ids(M)
      BY <1>16, <2>1, <3>1, OnlyKeeps
    <3>3. p \in Ids(L) /\ p \in Quotes
      BY <3>2, FewerIds, ListedIds
    <3> QED BY <1>0, <1>4, <2>1, <3>1, <3>3 DEF Exact, Sided
  <2> QED BY <1>3, <2>1 DEF Sided, Ids
<1>18. AllAccounted'
  <2>1. ASSUME NEW p \in Quotes, order[p].at = "open", ~Posted(p)
        PROVE  Accounted(p)'
    <3>1. p # o /\ order'[p] = order[p] /\ order[p].side \in Side
      BY <1>0, <1>3, <1>4, <2>1 DEF Typed, OrderType
    <3>2. order[p].om = "working"
      BY <2>1, OrderWorksOrPosted
    <3>3. Held(p) => Held(p)'
      BY <1>3, <1>7 DEF Held
    <3>4. Evicted(p) => Evicted(p)'
      BY <1>3, <1>7 DEF Evicted, Spot
    <3>5. ASSUME Kept(p) PROVE Kept(p)'
      <4>1. PICK q \in Level : cur # 0 /\ Listed(p, q)
        BY <3>5 DEF Kept
      <4>2. PICK L : L = sessions[cur][order[p].side]
        OBVIOUS
      <4>3. /\ L \in Seq(Level) /\ Claims(L, q) /\ q.id = p /\ q \in S
            /\ sessions'[cur][order[p].side] = Only(L, S)
        BY <1>15, <1>16, <3>1, <3>2, <4>1, <4>2 DEF Listed
      <4>4. Claims(sessions[cur][order[p].side], q)'
        <5>1. Claims(Only(L, S), q)
          BY <4>3, ClaimOnly
        <5> QED BY <1>3, <3>1, <4>3, <5>1 DEF Claims
      <4>5. ASSUME NEW u \in Task, task'[u].on # 0, task'[u].side = order'[p].side
            PROVE  Safe(task[u], sessions[cur][order[p].side], q)'
        <5>1. task'[u] = task[u] /\ task[u].on # 0 /\ task[u].side = order[p].side
          BY <1>6, <1>7, <3>1, <4>5
        <5>2. setup.mode \notin Layered
          BY <1>2, <5>1
        <5>3. L = <<q>> /\ ToSet(L) = {q}
          BY <4>3, <5>2 DEF Claims, ToSet
        <5>4. Only(L, S) = L
          BY <4>3, <5>3, OnlyAll
        <5>5. Safe(task[u], L, q)
          BY <4>1, <4>2, <5>1 DEF Listed
        <5>6. sessions'[cur'][order'[p].side] = L
          BY <1>3, <3>1, <4>3, <5>4
        <5> QED BY <1>3, <5>1, <5>5, <5>6 DEF Safe, Climbs, Spot, InPlan
      <4> QED BY <1>3, <4>1, <4>3, <4>4, <4>5 DEF Kept, Listed
    <3>6. Accounted(p)
      BY <1>0, <2>1 DEF Exact, AllAccounted
    <3> QED BY <2>1, <3>3, <3>4, <3>5, <3>6 DEF Accounted
  <2> QED BY <1>4, <1>11, <2>1 DEF AllAccounted, Accounted
<1>19. NoSecondQuote'
  BY <1>0, <1>3, <1>4, StillFew DEF Exact
<1> QED
  BY <1>9, <1>10, <1>12, <1>13, <1>14, <1>17, <1>18, <1>19 DEF Exact

\* The lists change between the steps of the tasks.
LEMMA ListsKeep ==
  ASSUME Calm, UNCHANGED <<setup, order, task>>,
         \A u \in Task : task[u].on # 0 => cur' = cur,
         cur' # 0 => \A s \in Side : \A o \in Ids(sessions'[cur'][s]) :
                       order[o].at # "none" /\ order[o].side = s,
         setup.mode \in Layered /\ cur # 0 => \A s \in Side : AllWork(sessions[cur][s]) => AllWork(sessions'[cur][s]),
         \A o \in Quotes : order[o].at = "open" /\ order[o].om = "working" /\ Kept(o) => Kept(o)'
  PROVE  Exact'
<1>0. Typed /\ OpenInv /\ Undisturbed /\ Exact
  BY DEF Calm
<1>1. OneBusy' /\ OnCurrent' /\ Begun' /\ SentArePosted' /\ NoneWork' /\ NoStale' /\ \A o : Posted(o)' <=> Posted(o)
  BY <1>0 DEF Exact, OneBusy, OnCurrent, Begun, SentArePosted, NoneWork, NoStale, Posted, Busy, Spot
<1>2. Sided'
  BY DEF Sided, Ids
<1>3. ListsWork'
  <2>1. SUFFICES ASSUME setup.mode \in Layered, NEW u \in Task, task[u].on # 0
                 PROVE  /\ Spot(task[u]) \in {"sync", "sweep"} => AllWork(sessions[cur][task[u].side])'
                        /\ task[u].side = "bid" => AllWork(sessions[cur]["ask"])'
    BY DEF ListsWork, Spot
  <2>2. cur # 0 /\ task[u].side \in Side /\ "ask" \in Side /\ cur' = cur
    BY <1>0, <2>1, Acting DEF Side
  <2>3. \A s \in Side : AllWork(sessions[cur][s]) => AllWork(sessions[cur][s])'
    BY <2>1, <2>2 DEF AllWork
  <2> QED BY <1>0, <2>1, <2>2, <2>3 DEF Exact, ListsWork
<1>4. AllAccounted'
  <2>1. ASSUME NEW o \in Quotes, order[o].at = "open", ~Posted(o)
        PROVE  Accounted(o)'
    <3>1. Held(o) \/ Evicted(o) => Held(o)' \/ Evicted(o)'
      BY DEF Held, Evicted, Spot
    <3>2. Kept(o) => Kept(o)'
      BY <2>1, OrderWorksOrPosted
    <3> QED BY <1>0, <2>1, <3>1, <3>2 DEF Exact, AllAccounted, Accounted
  <2> QED BY <1>1, <2>1 DEF AllAccounted, Accounted
<1>5. NoSecondQuote'
  BY <1>0, StillFew DEF Exact
<1> QED
  BY <1>1, <1>2, <1>3, <1>4, <1>5 DEF Exact

\* What is adopted is working, on its side.
LEMMA AdoptedWorks ==
  ASSUME NEW s, NEW L \in Adopted(s)
  PROVE  L \in Seq(Level) /\ \A o \in Ids(L) : o \in Quotes /\ order[o].om = "working" /\ order[o].side = s
<1> DEFINE S == {o \in Quotes : order[o].om = "working" /\ order[o].side = s}
<1>1. PICK ids \in SetToSeqs(S) : L = [k \in DOMAIN ids |-> [id |-> ids[k], idx |-> 0]]
  BY DEF Adopted
<1>2. PICK D : D = 1..Cardinality(S)
  OBVIOUS
<1>3. ids \in [D -> S]
  <2> HIDE DEF S
  <2> QED BY <1>1, <1>2 DEF SetToSeqs
<1>4. DOMAIN L = D /\ \A k \in D : L[k].id = ids[k] /\ ids[k] \in S
  BY <1>1, <1>3
<1>5. \A o \in Ids(L) : o \in S
  BY <1>4 DEF Ids
<1> QED
  BY <1>5, AdoptedType

\* A quote the list has stays safe when the list is pruned.
LEMMA PruneSafe ==
  ASSUME Calm, NEW u \in Task, task[u].on # 0, NEW s, s = task[u].side,
         NEW L, L = sessions[cur][s], NEW q \in Level, Claims(L, q), order[q.id].om = "working",
         Safe(task[u], L, q)
  PROVE  Safe(task[u], Prune(L), q)
<1>0. Typed /\ Exact
  BY DEF Calm
<1>1. L \in Seq(Level)
  BY <1>0, Acting
<1>2. PICK S : S = {x \in Level : order[x.id].om = "working"}
  OBVIOUS
<1>3. Prune(L) = Only(L, S)
  BY <1>2 DEF Prune
<1>4. CASE setup.mode \notin Layered
  <2>1. L = <<q>> /\ ToSet(L) = {q} /\ q \in S
    BY <1>2, <1>4 DEF Claims, ToSet
  <2>2. Prune(L) = L
    BY <1>1, <1>3, <2>1, OnlyAll
  <2> QED BY <2>2
<1>5. CASE setup.mode \in Layered /\ Spot(task[u]) = "sweep"
  <2>1. AllWork(L)
    BY <1>0, <1>5 DEF Exact, ListsWork
  <2>2. ToSet(L) \subseteq S
    <3>1. ASSUME NEW k \in DOMAIN L PROVE L[k] \in S
      <4>1. L[k] \in Level
        BY <1>1, <3>1, LenProperties, ElementOfSeq
      <4>2. order[L[k].id].om = "working"
        BY <2>1, <3>1 DEF AllWork, Ids
      <4> QED BY <1>2, <4>1, <4>2
    <3> QED BY <3>1 DEF ToSet
  <2>3. Prune(L) = L
    BY <1>1, <1>3, <2>2, OnlyAll
  <2> QED BY <2>3
<1>6. CASE Spot(task[u]) # "sweep"
  BY <1>6 DEF Safe
<1> QED
  BY <1>4, <1>5, <1>6

LEMMA SeededKeeps ==
  ASSUME Calm, Quiet, Seeded, UNCHANGED <<setup, order, task>>
  PROVE  Exact'
<1>0. Typed /\ OpenInv /\ Undisturbed /\ Exact
  BY DEF Calm
<1>1. PICK n, pruned : /\ n = IF cur # 0 THEN cur ELSE FreeSession
                       /\ pruned = [s \in Side |-> Prune(sessions[n][s])]
  OBVIOUS
<1>2. n \in Session /\ n # 0 /\ (cur = 0 => sessions[n] = Empty) /\ (cur # 0 => n = cur)
  <2>1. n \in Session /\ (cur = 0 => sessions[n] = Empty)
    BY <1>0, <1>1, FreeIsEmpty DEF Typed
  <2> QED BY <1>1, <2>1 DEF Session
<1>3. /\ \A s \in Side : sessions[n][s] \in Seq(Level) /\ pruned[s] = Prune(sessions[n][s])
      /\ sessions \in [Session -> [Side -> Seq(Level)]]
  BY <1>0, <1>1, <1>2 DEF Typed, SessionsType
<1>4. \A s \in Side : Ids(pruned[s]) \subseteq Ids(sessions[n][s]) /\ AllWork(pruned[s])
  BY <1>3, PruneWorks
<1>5. cur = 0 => \A u \in Task : task[u].on = 0
  BY <1>0, Acting
<1>6. PICK bids \in Adopted("bid"), asks \in Adopted("ask") :
        \/ sessions' = [sessions EXCEPT ![n] = pruned] /\ UNCHANGED cur
        \/ /\ cur = 0 \/ pruned = Empty
           /\ sessions' = [sessions EXCEPT ![n] = [s \in Side |-> IF s = "bid" THEN bids ELSE asks]] /\ cur' = n
  BY <1>1 DEF Seeded
<1>7. CASE sessions' = [sessions EXCEPT ![n] = pruned] /\ UNCHANGED cur
  <2>1. cur # 0 => \A s \in Side : sessions'[cur][s] = pruned[s]
    BY <1>2, <1>3, <1>7
  <2>2. cur # 0 => \A s \in Side : \A o \in Ids(sessions'[cur][s]) : order[o].at # "none" /\ order[o].side = s
    BY <1>0, <1>2, <1>4, <2>1 DEF Exact, Sided
  <2>3. cur # 0 => \A s \in Side : AllWork(sessions'[cur][s])
    BY <1>4, <2>1
  <2>4. ASSUME NEW o \in Quotes, order[o].at = "open", order[o].om = "working", Kept(o)
        PROVE  Kept(o)'
    <3>1. PICK q \in Level : cur # 0 /\ Listed(o, q)
      BY <2>4 DEF Kept
    <3>2. PICK s, L : s = order[o].side /\ L = sessions[cur][s]
      OBVIOUS
    <3>3. s \in Side /\ q.id = o /\ Claims(L, q) /\ L \in Seq(Level) /\ sessions'[cur][s] = Prune(L)
      BY <1>0, <1>2, <1>3, <2>1, <3>1, <3>2 DEF Typed, OrderType, Listed
    <3>4. Claims(Prune(L), q)
      BY <2>4, <3>3, ClaimPrune
    <3>5. \A u \in Task : task[u].on # 0 /\ task[u].side = s => Safe(task[u], Prune(L), q)
      <4>1. \A u \in Task : task[u].on # 0 /\ task[u].side = s => Safe(task[u], L, q)
        BY <3>1, <3>2 DEF Listed
      <4> QED BY <2>4, <3>2, <3>3, <4>1, PruneSafe
    <3>6. Claims(sessions[cur][order[o].side], q)'
      BY <1>7, <3>2, <3>3, <3>4 DEF Claims
    <3>7. ASSUME NEW u \in Task, task'[u].on # 0, task'[u].side = order'[o].side
          PROVE  Safe(task[u], sessions[cur][order[o].side], q)'
      <4>1. Safe(task[u], Prune(L), q)
        BY <3>2, <3>5, <3>7
      <4>2. sessions'[cur'][order'[o].side] = Prune(L)
        BY <1>7, <3>2, <3>3
      <4> QED BY <4>1, <4>2 DEF Safe, Climbs, Spot, InPlan
    <3> QED BY <1>7, <3>1, <3>3, <3>6, <3>7 DEF Kept, Listed
  <2> QED BY <1>7, <2>2, <2>3, <2>4, ListsKeep
<1>8. CASE /\ cur = 0 \/ pruned = Empty
           /\ sessions' = [sessions EXCEPT ![n] = [s \in Side |-> IF s = "bid" THEN bids ELSE asks]] /\ cur' = n
  <2>1. \A s \in Side : sessions'[n][s] = IF s = "bid" THEN bids ELSE asks
    BY <1>2, <1>3, <1>8
  <2>2. \A s \in Side : \A o \in Ids(sessions'[n][s]) : o \in Quotes /\ order[o].om = "working" /\ order[o].side = s
    BY <2>1, AdoptedWorks DEF Side
  <2>3. \A s \in Side : \A o \in Ids(sessions'[n][s]) : order[o].at # "none" /\ order[o].side = s
    BY <1>0, <2>2 DEF Exact, NoneWork
  <2>4. \A s \in Side : AllWork(sessions'[n][s])
    BY <2>2 DEF AllWork
  <2>5. ASSUME NEW o \in Quotes, order[o].at = "open", order[o].om = "working"
        PROVE  ~Kept(o)
    <3>1. SUFFICES ASSUME cur # 0, NEW q \in Level, Listed(o, q) PROVE FALSE
      BY DEF Kept
    <3>2. PICK L : L = sessions[cur][order[o].side]
      OBVIOUS
    <3>3. order[o].side \in Side /\ q.id = o /\ Claims(L, q) /\ L \in Seq(Level) /\ pruned[order[o].side] = Prune(L)
      BY <1>0, <1>2, <1>3, <3>1, <3>2 DEF Typed, OrderType, Listed
    <3>4. Claims(Prune(L), q) /\ Prune(L) \in Seq(Level)
      BY <2>5, <3>3, ClaimPrune, PruneWorks
    <3>5. Prune(L) # <<>>
      BY <3>4, ClaimMember
    <3> QED BY <1>8, <3>1, <3>3, <3>5 DEF Empty
  <2>6. \A u \in Task : task[u].on # 0 => cur' = cur
    BY <1>2, <1>5, <1>8
  <2> QED BY <1>2, <1>8, <2>3, <2>4, <2>5, <2>6, ListsKeep
<1> QED
  BY <1>6, <1>7, <1>8

\* What changes nothing the account is about.
LEMMA SameKeeps ==
  ASSUME Calm, UNCHANGED <<setup, order, cur, sessions, task>>
  PROVE  Exact'
<1>1. cur # 0 => \A s \in Side : \A o \in Ids(sessions'[cur'][s]) : order[o].at # "none" /\ order[o].side = s
  BY DEF Calm, Exact, Sided
<1>2. \A o : Kept(o) => Kept(o)'
  BY DEF Kept, Listed, Claims, Safe, Climbs, Spot, InPlan
<1> QED
  BY <1>1, <1>2, ListsKeep

LEMMA ResumeKeeps ==
  ASSUME Calm, Resume
  PROVE  Exact'
<1>1. CASE Seeded
  BY <1>1, SeededKeeps DEF Resume
<1>2. CASE UNCHANGED <<cur, sessions>>
  BY <1>2, SameKeeps DEF Resume
<1> QED
  BY <1>1, <1>2 DEF Resume

LEMMA CollectKeeps ==
  ASSUME Calm, Collect
  PROVE  Exact'
<1>0. Typed /\ OpenInv /\ Undisturbed /\ Exact
  BY DEF Calm
<1>1. /\ UNCHANGED <<setup, cur, task>>
      /\ sessions' = [n \in Session |-> IF n \in Unheld THEN Empty ELSE sessions[n]]
      /\ order' = [o \in Quotes |-> IF o \in Spent THEN NoOrder ELSE order[o]]
  BY DEF Collect
<1>2. cur # 0 => sessions'[cur] = sessions[cur]
  BY <1>0, <1>1 DEF Typed, Unheld
<1>3. \A o \in Quotes : \/ o \notin Spent /\ order'[o] = order[o]
                        \/ o \in Spent /\ order'[o] = NoOrder
  BY <1>1
<1>4. \A o \in Quotes : order[o].at \in {"none", "sent", "open"} \/ Posted(o) => order'[o] = order[o]
  BY <1>3 DEF Spent, Posted, Named
<1>5. NoOrder.at = "none" /\ NoOrder.om = "unknown"
  BY DEF NoOrder
<1>6. \A o : Posted(o)' <=> Posted(o)
  BY <1>1 DEF Posted
<1>7. OneBusy' /\ OnCurrent'
  BY <1>0, <1>1 DEF Exact, OneBusy, OnCurrent, Busy, Spot
<1>8. Begun'
  <2>1. \A u \in Task : task[u].pc = "post" => task[u].id \in Quotes /\ Posted(task[u].id)
    BY <1>0 DEF Typed, TasksRight, TaskRight, Posted
  <2>2. \A u \in Task : task[u].pc = "post" => order'[task[u].id] = order[task[u].id]
    BY <1>4, <2>1
  <2> QED BY <1>0, <1>1, <2>2 DEF Exact, Begun, Spot
<1>9. SentArePosted' /\ NoneWork' /\ NoStale'
  BY <1>0, <1>1, <1>3, <1>5, <1>6 DEF Exact, SentArePosted, NoneWork, NoStale
<1>10. ASSUME cur # 0, NEW s \in Side, NEW o \in Ids(sessions[cur][s])
       PROVE  o \in Quotes /\ order'[o] = order[o]
  <2>1. cur \in Session /\ sessions[cur][s] \in Seq(Level)
    BY <1>0, <1>10 DEF Typed, SessionsType
  <2>2. o \in Quotes /\ o \in Tracked(cur)
    BY <1>10, <2>1, ListedIds DEF Tracked
  <2> QED BY <1>3, <2>1, <2>2 DEF Spent
<1>11. Sided'
  BY <1>0, <1>1, <1>2, <1>10 DEF Exact, Sided, Ids
<1>12. ListsWork'
  <2>1. SUFFICES ASSUME setup.mode \in Layered, NEW u \in Task, task[u].on # 0
                 PROVE  /\ Spot(task[u]) \in {"sync", "sweep"} => AllWork(sessions[cur][task[u].side])'
                        /\ task[u].side = "bid" => AllWork(sessions[cur]["ask"])'
    BY <1>1 DEF ListsWork, Spot
  <2>2. cur # 0 /\ task[u].side \in Side /\ "ask" \in Side
    BY <1>0, <2>1, Acting DEF Side
  <2>3. \A s \in Side : AllWork(sessions[cur][s]) => AllWork(sessions[cur][s])'
    BY <1>1, <1>2, <1>10, <2>2 DEF AllWork
  <2>4. task' = task /\ cur' = cur
    BY <1>1
  <2> QED BY <1>0, <2>1, <2>2, <2>3, <2>4 DEF Exact, ListsWork
<1>13. AllAccounted'
  <2>1. ASSUME NEW o \in Quotes, order'[o].at = "open"
        PROVE  Accounted(o)'
    <3>1. order[o].at = "open" /\ order'[o] = order[o]
      BY <1>3, <1>5, <2>1
    <3>2. Held(o) => Held(o)'
      BY <1>1 DEF Held
    <3>3. Evicted(o) => Evicted(o)'
      BY <1>1 DEF Evicted, Spot
    <3>4. ASSUME Kept(o) PROVE Kept(o)'
      <4>1. PICK q \in Level : cur # 0 /\ Listed(o, q)
        BY <3>4 DEF Kept
      <4>2. sessions'[cur'][order'[o].side] = sessions[cur][order[o].side]
        BY <1>1, <1>2, <3>1, <4>1
      <4>3. PICK L : L = sessions[cur][order[o].side]
        OBVIOUS
      <4>4. Claims(sessions[cur][order[o].side], q)'
        BY <1>1, <4>1, <4>2, <4>3 DEF Listed, Claims
      <4>5. ASSUME NEW u \in Task, task'[u].on # 0, task'[u].side = order'[o].side
            PROVE  Safe(task[u], sessions[cur][order[o].side], q)'
        <5>1. Safe(task[u], L, q)
          BY <1>1, <3>1, <4>1, <4>3, <4>5 DEF Listed
        <5> QED BY <1>1, <4>2, <4>3, <5>1 DEF Safe, Climbs, Spot, InPlan
      <4>6. Listed(o, q)'
        BY <4>1, <4>4, <4>5 DEF Listed
      <4> QED BY <1>1, <4>1, <4>6 DEF Kept
    <3> QED BY <1>0, <1>6, <3>1, <3>2, <3>3, <3>4 DEF Exact, AllAccounted, Accounted
  <2> QED BY <2>1 DEF AllAccounted
<1>14. NoSecondQuote'
  <2>1. \A o \in Quotes : /\ order'[o].at \in {"sent", "open"} => order[o].at \in {"sent", "open"}
                          /\ order'[o].at \in {"sent", "open"} => order'[o].side = order[o].side
    BY <1>3, <1>5
  <2> QED BY <1>0, <1>1, <2>1, StillFew DEF Exact
<1> QED
  BY <1>7, <1>8, <1>9, <1>11, <1>12, <1>13, <1>14 DEF Exact

LEMMA AnsweredKeeps ==
  ASSUME Calm, NEW t \in Task, Answered(t), Undisturbed'
  PROVE  Exact'
<1>1. ~PlaceLost(t) /\ ~CancelFails(t)
  BY DEF PlaceLost, CancelFails, Notes, Undisturbed
<1> QED
  BY <1>1, PlacedKeeps, RefusedKeeps, CancelledKeeps DEF Answered

\* What has been disturbed stays so.
LEMMA RacesGrow == [Next]_vars => races \subseteq races'
<1> SUFFICES ASSUME [Next]_vars PROVE races \subseteq races'
  OBVIOUS
<1>1. ASSUME NEW t \in Task, Run(t) PROVE races' = races
  BY <1>1 DEF Run, Evict, Sync, Sweep, Trim, Decide, Clear, Extras, Shed, LadderLevel, RemoveLevel,
              DropLevel, Place, Keeps
<1>2. ASSUME NEW t \in Task, StartRefresh(t) \/ StartEvict(t) \/ Answered(t) \/ Answers(t)
      PROVE  races \subseteq races'
  BY <1>2 DEF StartRefresh, StartEvict, Answered, Placed, PlaceRefused, PlaceLost, Cancelled, CancelFails,
              Answers, VenueTakes, VenueCancels, VenueOnly, Notes
<1>3. ASSUME NEW o \in Quotes, VenueFills(o) \/ HearEnd(o) \/ HearPartial(o) \/ Poll(o)
      PROVE  races \subseteq races'
  BY <1>3 DEF VenueFills, HearEnd, HearPartial, Poll, VenueOnly, Notes
<1>4. CASE Collect \/ MassCancel \/ MassLands \/ MassReturns \/ Resume \/ Withdraw \/ UNCHANGED vars
  BY <1>4 DEF Collect, MassCancel, MassLands, MassReturns, Resume, Withdraw, Notes, vars
<1> QED
  BY <1>1, <1>2, <1>3, <1>4 DEF Next

LEMMA SessionStep == Typed /\ OpenInv /\ SessionInv /\ [Next]_vars => SessionInv'
<1> SUFFICES ASSUME Typed, OpenInv, SessionInv, [Next]_vars, Undisturbed' PROVE Exact'
  BY DEF SessionInv
<1>1. Calm
  BY RacesGrow DEF Calm, SessionInv, Undisturbed
<1>2. CASE Withdraw \/ UNCHANGED vars
  BY <1>1, <1>2, SameKeeps DEF Withdraw, vars
<1> QED
  BY <1>1, <1>2, CollectKeeps, StartRefreshKeeps, StartEvictKeeps, RefreshKeeps, EvictKeeps, AnsweredKeeps,
     AnswersKeep, FillKeeps, HearEndKeeps, PartialKeeps, PollKeeps, MassCancelKeeps, MassLandsKeeps,
     MassReturnsKeeps, ResumeKeeps DEF Next

LEMMA InitExact == Init => Exact
<1> SUFFICES ASSUME Init PROVE Exact
  OBVIOUS
<1>1. PICK idle, none : idle = IdleTask /\ none = NoOrder
  OBVIOUS
<1>2. idle.pc = "idle" /\ idle.on = 0 /\ Spot(idle) = "idle" /\ none.at = "none" /\ none.om = "unknown"
  BY <1>1 DEF IdleTask, NoOrder, Spot
<1>3. cur = 0 /\ (\A t \in Task : task[t] = idle) /\ \A o \in Quotes : order[o] = none
  BY <1>1 DEF Init
<1>4. OneBusy /\ OnCurrent /\ Begun /\ ListsWork /\ Sided
  BY <1>2, <1>3 DEF OneBusy, OnCurrent, Begun, ListsWork, Sided, Busy
<1>5. SentArePosted /\ NoneWork /\ NoStale /\ AllAccounted
  BY <1>2, <1>3 DEF SentArePosted, NoneWork, NoStale, AllAccounted
<1>6. NoSecondQuote
  <2>1. ASSUME NEW s \in Side
        PROVE  Cardinality({o \in Quotes : order[o].side = s /\ order[o].at \in {"sent", "open"}}) = 0
    <3>1. {o \in Quotes : order[o].side = s /\ order[o].at \in {"sent", "open"}} = {}
      BY <1>2, <1>3
    <3> QED BY <3>1, FS_EmptySet
  <2> QED BY <2>1 DEF NoSecondQuote, LadderLevels
<1> QED
  BY <1>4, <1>5, <1>6 DEF Exact

LEMMA InvIsExact == Typed /\ SessionInv => SessionExact
<1> SUFFICES ASSUME Typed, Undisturbed, Exact PROVE SessionExact
  BY DEF SessionInv, SessionExact, NoQuoteIsForgotten, NoSecondQuote
<1>1. ASSUME NEW o \in Quotes, order[o].at = "open"
      PROVE  o \in Hands \/ (cur # 0 /\ o \in Tracked(cur))
  <2>1. Posted(o) \/ Held(o) \/ Evicted(o) \/ Kept(o)
    BY <1>1 DEF Exact, AllAccounted, Accounted
  <2>2. Posted(o) \/ Held(o) \/ Evicted(o) => o \in Hands
    BY DEF Posted, Held, Evicted, Hands, Named
  <2>3. ASSUME Kept(o) PROVE cur # 0 /\ o \in Tracked(cur)
    <3>1. PICK q \in Level : cur # 0 /\ Listed(o, q)
      BY <2>3 DEF Kept
    <3>2. PICK s, L : s = order[o].side /\ L = sessions[cur][s]
      OBVIOUS
    <3>3. s \in Side /\ L \in Seq(Level) /\ Claims(L, q) /\ q.id = o
      BY <1>1, <3>1, <3>2 DEF Typed, OrderType, SessionsType, Listed
    <3>4. q \in ToSet(L)
      BY <3>3, ClaimMember
    <3>5. o \in Ids(L)
      BY <3>3, <3>4 DEF Ids, ToSet
    <3> QED BY <3>1, <3>2, <3>3, <3>5 DEF Tracked
  <2> QED BY <2>1, <2>2, <2>3
<1> QED
  BY <1>1 DEF Exact, SessionExact, NoQuoteIsForgotten

\* Unless another call, a frame between a ladder's steps or a failed call came between the steps of
\* a refresh, in every mode, whatever the number of orders, prices and setups: every quote open at
\* the venue is in the current session or in the hands of a task, and a side has never two plain
\* quotes, nor a ladder more than its levels, sent or open (quote_executor.py _refresh_symbol,
\* _sync_single, _sync_climb, _sync_ladder, _sync_take, cancel_all, prune_symbol).
THEOREM SessionIsExact == Spec => []SessionExact
<1>1. Init => Typed /\ OpenInv /\ SessionInv
  BY InitOpen, InitExact DEF SessionInv
<1>2. Typed /\ OpenInv /\ SessionInv /\ [Next]_vars => (Typed /\ OpenInv /\ SessionInv)'
  BY TypedStep, OpenStep, SessionStep
<1>3. Typed /\ OpenInv /\ SessionInv => SessionExact
  BY InvIsExact
<1> QED
  BY <1>1, <1>2, <1>3, PTL DEF Spec
=============================================================================
