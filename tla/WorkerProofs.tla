---------------------------- MODULE WorkerProofs ----------------------------
(***************************************************************************)
(* The worker: its budget of tokens, its day and its site watch.           *)
(*                                                                         *)
(* TypeOK and OvershootBounded of Budget, for any number of callers, any   *)
(* budget and any costs. A call is checked before it is made and charged   *)
(* when its answer comes, so what is bounded is the tokens of a day        *)
(* together with the calls still under way: once the budget is reached no  *)
(* call is added to them, and each can be charged once.                    *)
(*                                                                         *)
(* NoMentionLost and SitesFirst of Day, for any calendar and any length of *)
(* ticks: a tick that ends has run the jobs that it found due, and what a  *)
(* day's digest leaves out is too new, too old or in another's digest.     *)
(*                                                                         *)
(* NothingSwallowed of SiteWatch, for any pages: what a visit has written  *)
(* down is stored, left out on purpose or still to be stored.              *)
(***************************************************************************)
EXTENDS Budget, Day, SiteWatch, FiniteSetTheorems, TLAPS

\* The calls under way that the total of their own day allowed.
UnderWay == {c \in Callers : call[c].pc \in {"model", "write"} /\ ~ call[c].late}

\* What the day may come to before the calls under way are charged.
Room(n) == Budget + (Cardinality(Callers) - n) * MaxCost

TodayBounded ==
  today \notin outrun => used[today] < Budget \/ used[today] < Room(Cardinality(UnderWay))

Inv == TypeOK /\ OvershootBounded /\ TodayBounded

CallType == [pc : {"idle", "warn", "tell", "check", "model", "draft", "write"},
             clock : Days \union {Live}, due : SUBSET Marks, late : BOOLEAN]

\* The part of TypeOK about the callers.
CallsFit ==
  /\ call \in [Callers -> CallType]
  /\ \A t \in Tools : call[t].pc # "idle" => call[t].clock \in 1 .. today

\* The rest of it.
TablesFit ==
  /\ today \in Days /\ used \in [Days -> 0 .. Most]
  /\ notice \in [Days \X Marks -> {"unsent", "sent", "uncertain"}]
  /\ crashes \in 0 .. MaxCrashes /\ outrun \subseteq Days
  /\ \A d \in Days : d > today => used[d] = 0

LEMMA Parts == TypeOK <=> CallsFit /\ TablesFit
  BY DEF TypeOK, CallsFit, TablesFit, CallType

LEMMA PartsNext == TypeOK' <=> CallsFit' /\ TablesFit'
  BY DEF TypeOK, CallsFit, TablesFit, CallType

-----------------------------------------------------------------------------
(***************************************************************************)
(* Numbers of callers, and what they may spend.                            *)
(***************************************************************************)
LEMMA CallersFinite == IsFiniteSet(Callers) /\ Cardinality(Callers) \in Nat
<1>1. IsFiniteSet(Callers)
  BY BudgetAssumption, FS_AddElement DEF Callers
<1> QED
  BY <1>1, FS_CardinalityType

LEMMA CountType ==
  ASSUME NEW S \in SUBSET Callers
  PROVE  IsFiniteSet(S) /\ Cardinality(S) \in Nat /\ Cardinality(S) <= Cardinality(Callers)
  BY CallersFinite, FS_Subset, FS_CardinalityType

\* Fewer calls under way leave more room, by what a call costs each.
LEMMA RoomFacts ==
  ASSUME NEW n \in Nat, NEW m \in Nat, m <= n, n <= Cardinality(Callers)
  PROVE  /\ Room(n) \in Nat /\ Room(m) \in Nat /\ Most \in Nat
         /\ Budget <= Room(n) /\ Room(n) <= Room(m) /\ Room(m) <= Most
         /\ m < n => Room(n) + MaxCost <= Room(m)
<1> DEFINE N == Cardinality(Callers)
           a == (N - n) * MaxCost
           b == (n - m) * MaxCost
           e == m * MaxCost
<1>1. N \in Nat /\ MaxCost \in Nat /\ Budget \in Nat
  BY CallersFinite, BudgetAssumption
<1>2. N - n \in Nat /\ n - m \in Nat
  BY <1>1
<1>3. a \in Nat /\ b \in Nat /\ e \in Nat
  BY <1>1, <1>2
<1>4. (N - m) * MaxCost = a + b /\ N * MaxCost = a + b + e
  BY <1>1, <1>2
<1>5. m < n => b >= MaxCost
  <2>1. SUFFICES ASSUME m < n PROVE b >= MaxCost
    OBVIOUS
  <2>2. n - m - 1 \in Nat /\ b = (n - m - 1) * MaxCost + MaxCost
    BY <1>1, <2>1
  <2>3. (n - m - 1) * MaxCost \in Nat
    BY <1>1, <2>2
  <2> QED
    BY <1>1, <2>2, <2>3
<1> HIDE DEF a, b, e
<1>6. Room(n) = Budget + a /\ Room(m) = Budget + a + b /\ Most = Budget + a + b + e
  BY <1>1, <1>3, <1>4 DEF Room, Most, a
<1> QED
  BY <1>1, <1>3, <1>5, <1>6

\* A day below the budget is below every bound.
LEMMA BelowBudget ==
  ASSUME NEW n \in Nat, n <= Cardinality(Callers), NEW u \in Nat,
         u < Budget \/ u < Room(n)
  PROVE  u < Most
<1>1. 0 \in Nat /\ 0 <= n
  OBVIOUS
<1> QED
  BY <1>1, RoomFacts, BudgetAssumption

-----------------------------------------------------------------------------
(***************************************************************************)
(* The steps.                                                              *)
(***************************************************************************)
LEMMA InitInv == Init => Inv
<1> SUFFICES ASSUME Init PROVE Inv
  OBVIOUS
<1>1. Budget \in Nat /\ Budget > 0 /\ MaxDay \in Nat /\ MaxDay > 0 /\ MaxCrashes \in Nat
  BY BudgetAssumption
<1>2. Most \in Nat /\ Most >= Budget
  <2>1. 0 \in Nat /\ 0 <= Cardinality(Callers)
    BY CallersFinite
  <2>2. Most \in Nat /\ Budget <= Room(0) /\ Room(0) <= Most /\ Room(0) \in Nat
    BY <2>1, RoomFacts
  <2> QED
    BY <1>1, <2>2
<1>3. CallsFit
  <2>1. Idle \in CallType /\ Idle.pc = "idle"
    BY DEF Idle, CallType
  <2> QED
    BY <2>1 DEF Init, CallsFit, Callers
<1>4. TablesFit
  BY <1>1, <1>2 DEF Init, TablesFit, Days
<1>5. OvershootBounded /\ TodayBounded
  BY <1>1, <1>2, <1>4 DEF Init, OvershootBounded, TodayBounded, TablesFit
<1> QED
  BY <1>3, <1>4, <1>5, Parts DEF Inv

\* Steps that spend nothing and begin no call: a caller moves on, sends the
\* warning or gives up.
LEMMA Spared ==
  ASSUME Inv, TypeOK', UNCHANGED <<today, used, outrun>>, UnderWay' \subseteq UnderWay
  PROVE  Inv'
<1>1. /\ UnderWay \subseteq Callers /\ IsFiniteSet(UnderWay)
      /\ Cardinality(UnderWay) \in Nat /\ Cardinality(UnderWay) <= Cardinality(Callers)
      /\ Cardinality(UnderWay') \in Nat /\ Cardinality(UnderWay') <= Cardinality(UnderWay)
  <2>1. UnderWay \subseteq Callers
    BY DEF UnderWay
  <2> QED
    BY <2>1, CountType, FS_Subset
<1>2. Room(Cardinality(UnderWay)) <= Room(Cardinality(UnderWay')) /\ Room(Cardinality(UnderWay)) \in Nat
      /\ Room(Cardinality(UnderWay')) \in Nat
  BY <1>1, RoomFacts
<1>3. used[today] \in Nat
  BY CallersFinite, RoomFacts DEF Inv, TypeOK, Most
<1>4. OvershootBounded'
  BY DEF Inv, OvershootBounded, Most
<1>5. Room(Cardinality(UnderWay))' = Room(Cardinality(UnderWay'))
  BY DEF Room
<1>6. TodayBounded'
  BY <1>2, <1>3, <1>5 DEF Inv, TodayBounded
<1> QED
  BY <1>4, <1>6 DEF Inv

\* A call that is begun is late, or the day was below the budget.
LEMMA Begun ==
  ASSUME Inv, TypeOK', UNCHANGED <<today, used, outrun>>, used[today] < Budget
  PROVE  Inv'
<1>1. OvershootBounded' /\ TodayBounded'
  BY DEF Inv, OvershootBounded, TodayBounded, Most
<1> QED
  BY <1>1 DEF Inv

\* A charge is at most what the call took of the room.
LEMMA ChargeStep ==
  ASSUME Inv, NEW c \in Callers, NEW n \in Costs, Charge(c, n)
  PROVE  Inv'
<1>1. TypeOK /\ CallsFit /\ TablesFit /\ OvershootBounded /\ TodayBounded
  BY Parts DEF Inv
<1>2. n \in Nat /\ n <= MaxCost /\ MaxCost \in Nat /\ Budget \in Nat
  BY BudgetAssumption
<1>3. Most \in Nat /\ Cardinality(Callers) \in Nat
  BY CallersFinite, RoomFacts
<1>4. /\ today \in Days /\ used[today] \in 0 .. Most /\ today' = today
      /\ used' = [used EXCEPT ![today] = IF @ + n < Most THEN @ + n ELSE Most]
  BY <1>1 DEF TablesFit, Charge
<1>5. /\ call' \in [Callers -> CallType] /\ call'[c].pc \notin {"model", "write"}
      /\ \A o \in Callers : o # c => call'[o] = call[o]
      /\ call'[c].clock = call[c].clock
  BY <1>1 DEF Charge, AfterModel, Goto, CallsFit, CallType
<1>6. CallsFit'
  BY <1>1, <1>4, <1>5 DEF CallsFit, Charge, Callers
<1>7. outrun' \subseteq Days /\ outrun \subseteq outrun'
  BY <1>1, <1>4 DEF Charge, TablesFit
<1>8. TablesFit'
  <2>1. used' \in [Days -> 0 .. Most] /\ \A d \in Days : d # today => used'[d] = used[d]
    BY <1>1, <1>2, <1>3, <1>4 DEF TablesFit
  <2>2. today \in Nat
    BY <1>4, BudgetAssumption DEF Days
  <2>3. \A d \in Days : d > today => used'[d] = 0
    BY <1>1, <2>1, <2>2, BudgetAssumption DEF TablesFit, Days
  <2> QED
    BY <1>1, <1>4, <1>7, <2>1, <2>3 DEF TablesFit, Charge, Most
<1>9. ASSUME today \notin outrun'
      PROVE  used'[today] < Room(Cardinality(UnderWay'))
  <2>1. ~ call[c].late /\ today \notin outrun /\ c \in UnderWay
    BY <1>1, <1>9 DEF Charge, UnderWay, CallsFit, CallType
  <2>2. UnderWay' = UnderWay \ {c}
    BY <1>5, <2>1 DEF UnderWay
  <2>3. UnderWay \subseteq Callers
    BY DEF UnderWay
  <2>4. /\ Cardinality(UnderWay') = Cardinality(UnderWay) - 1
        /\ Cardinality(UnderWay) \in Nat /\ Cardinality(UnderWay') \in Nat
        /\ Cardinality(UnderWay) <= Cardinality(Callers)
    BY <2>1, <2>2, <2>3, CountType, FS_RemoveElement
  <2> DEFINE k == Cardinality(UnderWay)
             j == Cardinality(UnderWay')
  <2>5. /\ Room(k) \in Nat /\ Room(j) \in Nat /\ Budget <= Room(k)
        /\ Room(k) + MaxCost <= Room(j) /\ Room(j) <= Most
    BY <2>4, RoomFacts
  <2>6. used[today] < Room(k)
    BY <1>1, <1>2, <1>4, <2>1, <2>5 DEF TodayBounded
  <2> HIDE DEF k, j
  <2>7. used[today] + n < Room(j) /\ used[today] + n < Most
    BY <1>2, <1>3, <1>4, <2>5, <2>6
  <2>8. used'[today] = used[today] + n
    BY <1>1, <1>4, <2>7 DEF TablesFit
  <2> QED
    BY <2>7, <2>8 DEF j
<1>10. TodayBounded'
  BY <1>4, <1>9 DEF TodayBounded, Room
<1>11. OvershootBounded'
  <2>1. ASSUME NEW d \in Days \ outrun'
        PROVE  used'[d] < Most
    <3>1. CASE d = today
      <4>1. UnderWay' \subseteq Callers
        BY DEF UnderWay
      <4>2. Cardinality(UnderWay') \in Nat /\ Cardinality(UnderWay') <= Cardinality(Callers)
        BY <4>1, CountType
      <4>3. used'[today] \in Nat
        BY <1>3, <1>4, <1>8 DEF TablesFit, Most
      <4> QED
        BY <1>9, <2>1, <3>1, <4>2, <4>3, BelowBudget
    <3>2. CASE d # today
      BY <1>1, <1>4, <1>7, <2>1, <3>2 DEF TablesFit, OvershootBounded
    <3> QED
      BY <3>1, <3>2
  <2> QED
    BY <2>1 DEF OvershootBounded, Most
<1> QED
  BY <1>6, <1>8, <1>10, <1>11, PartsNext DEF Inv

\* A new day has spent nothing.
LEMMA MidnightStep ==
  ASSUME Inv, Midnight
  PROVE  Inv'
<1>1. CallsFit /\ TablesFit /\ OvershootBounded
  BY Parts DEF Inv
<1>2. /\ today \in Days /\ today' = today + 1 /\ today' \in Days
      /\ UNCHANGED <<used, call, notice, crashes, outrun>>
  BY <1>1, BudgetAssumption DEF Midnight, TablesFit, Days
<1>3. today \in Nat /\ MaxDay \in Nat /\ Budget \in Nat /\ Budget > 0
  BY <1>2, BudgetAssumption DEF Days
<1>4. CallsFit'
  BY <1>1, <1>2, <1>3 DEF CallsFit
<1>5. TablesFit'
  BY <1>1, <1>2, <1>3 DEF TablesFit, Days, Most
<1>6. used'[today'] = 0
  BY <1>1, <1>2, <1>3 DEF TablesFit
<1>7. OvershootBounded' /\ TodayBounded'
  BY <1>1, <1>2, <1>3, <1>6 DEF OvershootBounded, TodayBounded, Most
<1> QED
  BY <1>4, <1>5, <1>7, PartsNext DEF Inv

-----------------------------------------------------------------------------
\* A caller goes to a place where it has no call under way.
LEMMA MoveStep ==
  ASSUME Inv, NEW c \in Callers, UNCHANGED <<today, used, crashes, outrun>>,
         notice' \in [Days \X Marks -> {"unsent", "sent", "uncertain"}],
         call' \in [Callers -> CallType],
         \A o \in Callers : o # c => call'[o] = call[o],
         call'[c].pc \notin {"model", "write"},
         c \in Tools /\ call'[c].pc # "idle" => call'[c].clock \in 1 .. today
  PROVE  Inv'
<1>1. CallsFit /\ TablesFit
  BY Parts DEF Inv
<1>2. CallsFit'
  BY <1>1 DEF CallsFit, Callers
<1>3. TablesFit'
  BY <1>1 DEF TablesFit, Most
<1>4. UnderWay' \subseteq UnderWay
  BY DEF UnderWay
<1> QED
  BY <1>2, <1>3, <1>4, PartsNext, Spared

LEMMA StepStep ==
  ASSUME Inv, NEW c \in Callers, Step(c)
  PROVE  Inv'
<1>1. CallsFit /\ TablesFit
  BY Parts DEF Inv
<1>2. call[c] \in CallType /\ call \in [Callers -> CallType]
  BY <1>1 DEF CallsFit
<1>3. today \in Days /\ today \in Nat /\ today \in 1 .. today
      /\ notice \in [Days \X Marks -> {"unsent", "sent", "uncertain"}]
  BY <1>1, BudgetAssumption DEF TablesFit, Days
<1>4. c \in Tools => c # Worker /\ (call[c].pc # "idle" => call[c].clock \in 1 .. today)
  BY <1>1, BudgetAssumption DEF CallsFit
<1>5. Live \notin 1 .. today
  BY <1>3, BudgetAssumption DEF Days
<1>6. CASE StartPass(c)
  <2>1. ClockOf(c) \in Days \union {Live} /\ (c \in Tools => ClockOf(c) = today)
    BY <1>3, <1>4 DEF ClockOf
  <2>2. Idle \in CallType
    BY DEF Idle, CallType
  <2>3. /\ call' \in [Callers -> CallType] /\ \A o \in Callers : o # c => call'[o] = call[o]
        /\ call'[c].pc = "warn" /\ call'[c].clock = ClockOf(c)
    BY <1>2, <1>6, <2>1, <2>2 DEF StartPass, CallType
  <2> QED
    BY <1>3, <1>6, <2>1, <2>3, MoveStep DEF StartPass
<1>7. CASE Warn(c)
  <2>1. Due(Day(c)) \subseteq Marks
    BY DEF Due
  <2>2. /\ call' \in [Callers -> CallType] /\ \A o \in Callers : o # c => call'[o] = call[o]
        /\ call'[c].pc = "tell"
        /\ call'[c].clock = IF call[c].clock = Live THEN today ELSE call[c].clock
    BY <1>2, <1>3, <1>7, <2>1 DEF Warn, CallType
  <2> QED
    BY <1>3, <1>4, <1>5, <1>7, <2>2, MoveStep DEF Warn
<1>8. CASE Told(c) \/ NotTold(c)
  <2>1. call' = [call EXCEPT ![c].due = @ \ {Next80(c)}] /\ call[c].pc = "tell"
        /\ UNCHANGED <<today, used, crashes, outrun>>
    BY <1>8 DEF Told, NotTold, AfterTell
  <2>2. /\ call' \in [Callers -> CallType] /\ \A o \in Callers : o # c => call'[o] = call[o]
        /\ call'[c].pc = "tell" /\ call'[c].clock = call[c].clock
    BY <1>2, <2>1 DEF CallType
  <2>3. notice' \in [Days \X Marks -> {"unsent", "sent", "uncertain"}]
    <3>1. CASE Told(c)
      BY <1>3, <3>1 DEF Told
    <3>2. CASE NotTold(c)
      BY <1>3, <3>2 DEF NotTold
    <3> QED
      BY <1>8, <3>1, <3>2
  <2> QED
    BY <1>4, <2>1, <2>2, <2>3, MoveStep
<1>9. CASE EndWarn(c)
  <2>1. /\ call' \in [Callers -> CallType] /\ \A o \in Callers : o # c => call'[o] = call[o]
        /\ call'[c].pc = "check"
        /\ call'[c].clock = IF c = Worker THEN Live ELSE call[c].clock
    BY <1>2, <1>9 DEF EndWarn, CallType
  <2> QED
    BY <1>3, <1>4, <1>9, <2>1, MoveStep DEF EndWarn
<1>10. CASE AskVerdict(c)
  <2>1. /\ call' \in [Callers -> CallType] /\ \A o \in Callers : o # c => call'[o] = call[o]
        /\ call'[c].clock = call[c].clock /\ call'[c].late = (Day(c) # today)
    BY <1>2, <1>10 DEF AskVerdict, CallType
  <2>2. TypeOK'
    <3>1. CallsFit'
      BY <1>1, <1>10, <2>1 DEF AskVerdict, CallsFit, Callers
    <3>2. TablesFit'
      BY <1>1, <1>10 DEF AskVerdict, TablesFit, Most
    <3> QED
      BY <3>1, <3>2, PartsNext
  <2>3. CASE Day(c) = today
    BY <1>10, <2>2, <2>3, Begun DEF AskVerdict, Allowed
  <2>4. CASE Day(c) # today
    <3>1. UnderWay' \subseteq UnderWay
      BY <2>1, <2>4 DEF UnderWay
    <3> QED
      BY <1>10, <2>2, <3>1, Spared DEF AskVerdict
  <2> QED
    BY <2>3, <2>4
<1>11. CASE EndPass(c)
  <2>1. /\ call' \in [Callers -> CallType] /\ \A o \in Callers : o # c => call'[o] = call[o]
        /\ call'[c].pc \in {"draft", "idle"} /\ (c # Worker => call'[c].pc = "idle")
    BY <1>2, <1>3, <1>11 DEF EndPass, CallType, Idle
  <2> QED
    BY <1>3, <1>4, <1>11, <2>1, MoveStep DEF EndPass
<1>12. CASE \E n \in Costs : Charge(c, n)
  BY <1>12, ChargeStep
<1>13. CASE NoAnswer(c)
  <2>1. /\ call' \in [Callers -> CallType] /\ \A o \in Callers : o # c => call'[o] = call[o]
        /\ call'[c].pc \in {"warn", "draft"} /\ call'[c].clock = call[c].clock
        /\ call[c].pc # "idle"
    BY <1>2, <1>13 DEF NoAnswer, AfterModel, Goto, CallType
  <2> QED
    BY <1>3, <1>4, <1>13, <2>1, MoveStep DEF NoAnswer
<1> QED
  BY <1>6, <1>7, <1>8, <1>9, <1>10, <1>11, <1>12, <1>13 DEF Step

LEMMA NextInv == Inv /\ [Next]_vars => Inv'
<1> SUFFICES ASSUME Inv, [Next]_vars PROVE Inv'
  OBVIOUS
<1>1. CallsFit /\ TablesFit /\ Worker \in Callers
  BY Parts DEF Inv, Callers
<1>2. CASE UNCHANGED vars
  BY <1>2 DEF vars, Inv, TypeOK, Most, OvershootBounded, TodayBounded, Room, UnderWay
<1>3. ASSUME NEW c \in Callers, Step(c)
      PROVE  Inv'
  BY <1>3, StepStep
<1>4. CASE AskDraft
  <2>1. /\ call' \in [Callers -> CallType] /\ \A o \in Tools : call'[o] = call[o]
        /\ used[today] < Budget
    BY <1>1, <1>4, BudgetAssumption DEF AskDraft, Allowed, CallsFit, CallType, Callers
  <2>2. CallsFit' /\ TablesFit'
    BY <1>1, <1>4, <2>1 DEF AskDraft, CallsFit, TablesFit, Most
  <2> QED
    BY <1>4, <2>1, <2>2, PartsNext, Begun DEF AskDraft
<1>5. CASE EndRound
  <2>1. /\ call' \in [Callers -> CallType] /\ call'[Worker].pc = "idle"
        /\ \A o \in Callers : o # Worker => call'[o] = call[o]
    BY <1>1, <1>5 DEF EndRound, CallsFit, CallType, Idle
  <2>2. notice' \in [Days \X Marks -> {"unsent", "sent", "uncertain"}]
    BY <1>1, <1>5 DEF EndRound, TablesFit
  <2> QED
    BY <1>1, <1>5, <2>1, <2>2, MoveStep DEF EndRound
<1>6. CASE \E k \in Days \X Marks : Settle(k)
  <2>1. CallsFit' /\ TablesFit' /\ UnderWay' \subseteq UnderWay
    BY <1>1, <1>6 DEF Settle, CallsFit, TablesFit, Most, UnderWay
  <2> QED
    BY <1>6, <2>1, PartsNext, Spared DEF Settle
<1>7. CASE Midnight
  BY <1>7, MidnightStep
<1>8. CASE Crash
  <2>1. call' \in [Callers -> CallType] /\ \A c \in Callers : call'[c].pc = "idle"
    BY <1>8 DEF Crash, Idle, CallType
  <2>2. CallsFit' /\ UnderWay' \subseteq UnderWay
    BY <2>1 DEF CallsFit, UnderWay, Callers
  <2>3. TablesFit'
    BY <1>1, <1>8, BudgetAssumption DEF Crash, TablesFit, Most
  <2> QED
    BY <1>8, <2>2, <2>3, PartsNext, Spared DEF Crash
<1> QED
  BY <1>1, <1>2, <1>3, <1>4, <1>5, <1>6, <1>7, <1>8 DEF Next, WorkerStep, Callers

LEMMA Invariance == Spec => []Inv
  BY InitInv, NextInv, PTL DEF Spec

-----------------------------------------------------------------------------
\* The tables and the callers keep their types.
THEOREM TypeCorrect == Spec => []TypeOK
<1>1. Inv => TypeOK
  BY DEF Inv
<1> QED
  BY Invariance, <1>1, PTL

\* However many tools run beside the worker, a day that no stale clock reached
\* is overspent by less than a call of each (budget.ts:24, classify.ts:60-80).
THEOREM OvershootIsBounded == Spec => []OvershootBounded
<1>1. Inv => OvershootBounded
  BY DEF Inv
<1> QED
  BY Invariance, <1>1, PTL

-----------------------------------------------------------------------------
(***************************************************************************)
(* Day: types, a tick in each hour, and what the scheduler remembers.      *)
(***************************************************************************)
WorkerType == [pc : {"down", "idle", "ingest", "digest", "site"}, at : Instants,
               prev : Instants, lastDigest : Nat, lastSite : Nat]

\* TypeOK with the types of what it leaves out.
DayTyped ==
  /\ DayTypeOK
  /\ worker \in WorkerType
  /\ watched \in Nat /\ early \in Nat /\ since \in Nat

\* There is a tick in each hour, unless one has outlasted it: what prev and at are
\* to each other.
Ticking ==
  /\ worker.pc # "down" => now <= worker.at + 1 \/ since = now
  /\ worker.pc = "idle" => worker.prev = worker.at
  /\ worker.pc \in {"ingest", "digest", "site"} =>
       worker.prev = worker.at - 1 \/ worker.at = 1 \/ worker.at <= since

\* What the scheduler remembers of the digest stands for an instant that was not
\* before its hour.
DigestMemory ==
  worker.pc # "down" /\ worker.lastDigest # 0 =>
    \E t \in Instants : /\ HourOf(t) >= DigestHour /\ DayOf(t) = worker.lastDigest
                        /\ t < worker.at \/ (t = worker.at /\ worker.pc # "ingest")

MentionInv == DayTyped /\ Ticking /\ DigestMemory /\ NoMentionLost

\* A site watch that is over has left its mark, and one that a day's early tick came
\* before is over or due when the day is past its hour.
Overdue == early = DayOf(worker.at) /\ HourOf(worker.at) >= SiteHour

SitesKept ==
  worker.pc # "down" =>
    /\ early <= DayOf(worker.at)
    /\ worker.pc = "site" => worker.lastSite = DayOf(worker.at)
    /\ worker.pc # "site" /\ worker.lastSite # 0 => watched = worker.lastSite
    /\ worker.pc \in {"ingest", "digest"} /\ Overdue
         => watched = DayOf(worker.at) \/ DueDaily(SiteHour, worker.lastSite)
    /\ worker.pc = "idle" => worker.prev = worker.at /\ (Overdue => watched = DayOf(worker.at))

SitesInv == DayTyped /\ SitesKept

-----------------------------------------------------------------------------
(***************************************************************************)
(* Day: the steps of the scheduler.                                        *)
(***************************************************************************)
LEMMA Calendars ==
  /\ Len(Local) \in Nat \ {0} /\ Instants = 1 .. Len(Local) /\ Instants \subseteq Nat
  /\ \A t \in Instants : DayOf(t) \in LocalDays /\ DayOf(t) \in Nat \ {0} /\ HourOf(t) \in Nat
  /\ DayLen \in Nat /\ DigestHour \in Nat
<1>1. Local \in Seq([day : Nat \ {0}, hour : Nat]) /\ Len(Local) > 0
  BY DayAssumption
<1>2. Len(Local) \in Nat \ {0}
  BY <1>1
<1>3. \A t \in Instants : Local[t] \in [day : Nat \ {0}, hour : Nat]
  <2>1. ASSUME NEW R, Local \in Seq(R) PROVE \A t \in 1 .. Len(Local) : Local[t] \in R
    BY <2>1
  <2> QED
    BY <1>1, <2>1 DEF Instants
<1>4. DayLen \in Nat /\ DigestHour \in Nat
  BY DayAssumption
<1>5. \A t \in Instants : DayOf(t) \in LocalDays /\ DayOf(t) \in Nat \ {0} /\ HourOf(t) \in Nat
  BY <1>3 DEF LocalDays, DayOf, HourOf
<1>6. Instants = 1 .. Len(Local) /\ Instants \subseteq Nat
  BY <1>2 DEF Instants
<1> QED
  BY <1>2, <1>4, <1>5, <1>6

LEMMA SiteHourType == SiteHour \in Nat
<1>1. \A h, l \in Nat : l > 0 => (h + l - 1) % l \in Nat
  OBVIOUS
<1> QED
  BY <1>1, DayAssumption DEF SiteHour

\* The worker in numbers.
LEMMA WorkerFacts ==
  ASSUME DayTyped
  PROVE  /\ worker \in WorkerType /\ now \in Instants /\ now \in Nat /\ since \in Nat
         /\ worker.at \in Instants /\ worker.at \in Nat /\ worker.at >= 1
         /\ worker.prev \in Instants /\ worker.prev \in Nat /\ worker.prev >= 1
         /\ worker.at <= now
  BY Calendars DEF DayTyped, DayTypeOK, WorkerType

\* An item in numbers.
LEMMA ItemFacts ==
  ASSUME DayTyped, NEW i \in Items
  PROVE  /\ item[i] \in [fetched : 0 .. now, verdict : 0 .. now, taken : BOOLEAN]
         /\ item[i].fetched \in Nat /\ item[i].verdict \in Nat
         /\ item[i].verdict > 0 => item[i].fetched > 0
<1>1. item[i] \in [fetched : 0 .. now, verdict : 0 .. now, taken : BOOLEAN]
  BY DEF DayTyped, DayTypeOK
<1>2. item[i].verdict > 0 => item[i].fetched \in 1 .. item[i].verdict
  BY DEF DayTyped, DayTypeOK
<1> QED
  BY <1>1, <1>2, WorkerFacts

\* The tick goes on with another job, or ends.
Forward(pc) ==
  /\ pc = "digest" => DueDaily(DigestHour, worker.lastDigest)
  /\ pc = "site" => DueDaily(SiteHour, worker.lastSite)
  /\ worker' = [worker EXCEPT
                  !.pc = pc,
                  !.lastDigest = IF pc = "digest" THEN DayOf(worker.at) ELSE @,
                  !.lastSite = IF pc = "site" THEN DayOf(worker.at) ELSE @,
                  !.prev = IF pc = "idle" THEN worker.at ELSE @]

LEMMA GoToForward ==
  ASSUME worker \in WorkerType, NEW pc \in {"digest", "site", "idle"}, GoTo(pc),
         pc = "digest" => DueDaily(DigestHour, worker.lastDigest),
         pc = "site" => DueDaily(SiteHour, worker.lastSite)
  PROVE  Forward(pc)
<1>1. CASE pc = "digest"
  BY <1>1 DEF GoTo, Forward, WorkerType
<1>2. CASE pc = "site"
  BY <1>2 DEF GoTo, Forward, WorkerType
<1>3. CASE pc = "idle"
  BY <1>3 DEF GoTo, Forward, WorkerType, TickTime
<1> QED
  BY <1>1, <1>2, <1>3

LEMMA EndIngestGoes ==
  ASSUME worker \in WorkerType, EndIngest
  PROVE  \E pc \in {"digest", "site", "idle"} :
           /\ Forward(pc)
           /\ pc # "digest" => ~ DueDaily(DigestHour, worker.lastDigest)
           /\ pc = "idle" => ~ DueDaily(SiteHour, worker.lastSite)
<1>1. CASE DueDaily(DigestHour, worker.lastDigest)
  BY <1>1, GoToForward DEF EndIngest, AfterIngest
<1>2. CASE ~ DueDaily(DigestHour, worker.lastDigest) /\ DueDaily(SiteHour, worker.lastSite)
  BY <1>2, GoToForward DEF EndIngest, AfterIngest, AfterDigest
<1>3. CASE ~ DueDaily(DigestHour, worker.lastDigest) /\ ~ DueDaily(SiteHour, worker.lastSite)
  BY <1>3, GoToForward DEF EndIngest, AfterIngest, AfterDigest
<1> QED
  BY <1>1, <1>2, <1>3

LEMMA DigestGoes ==
  ASSUME worker \in WorkerType, GoTo(AfterDigest)
  PROVE  \E pc \in {"site", "idle"} :
           Forward(pc) /\ (pc = "idle" => ~ DueDaily(SiteHour, worker.lastSite))
<1>1. CASE DueDaily(SiteHour, worker.lastSite)
  BY <1>1, GoToForward DEF AfterDigest
<1>2. CASE ~ DueDaily(SiteHour, worker.lastSite)
  BY <1>2, GoToForward DEF AfterDigest
<1> QED
  BY <1>1, <1>2

\* A worker whose tick goes on keeps its types and its instant.
LEMMA ForwardTyped ==
  ASSUME worker \in WorkerType, NEW pc \in {"digest", "site", "idle"}, Forward(pc)
  PROVE  /\ worker' \in WorkerType /\ worker'.pc = pc /\ worker'.at = worker.at
         /\ worker'.prev = IF pc = "idle" THEN worker.at ELSE worker.prev
         /\ worker'.lastDigest = IF pc = "digest" THEN DayOf(worker.at) ELSE worker.lastDigest
         /\ worker'.lastSite = IF pc = "site" THEN DayOf(worker.at) ELSE worker.lastSite
<1>1. DayOf(worker.at) \in Nat
  BY Calendars DEF WorkerType
<1> QED
  BY <1>1 DEF Forward, WorkerType

\* A worker that is started.
LEMMA StartedFacts ==
  ASSUME NEW t \in Instants
  PROVE  /\ Started(t) \in WorkerType
         /\ Started(t).at = t /\ Started(t).prev = t /\ Started(t).pc = "ingest"
         /\ Started(t).lastDigest = 0 /\ Started(t).lastSite = 0
         /\ Early(t) \in Nat
  BY Calendars DEF Started, WorkerType, Early

\* What a step of the scheduler does to the worker: it ends a job, begins a tick,
\* or is none of its own.
LEMMA WorkerMoves ==
  ASSUME DayTyped, DayNext
  PROVE  \/ UNCHANGED worker /\ (Clock \/ now' = now)
         \/ Tick \/ Stop \/ Start
         \/ /\ worker.pc \in {"ingest", "digest", "site"} /\ now' = now /\ early' = early
            /\ \E pc \in {"digest", "site", "idle"} :
                 /\ Forward(pc)
                 /\ worker.pc # "ingest" => pc # "digest"
                 /\ worker.pc = "site" <=> EndSite
                 /\ worker.pc \in {"ingest", "digest"} /\ pc = "idle"
                      => ~ DueDaily(SiteHour, worker.lastSite)
                 /\ worker.pc = "ingest" /\ pc # "digest"
                      => ~ DueDaily(DigestHour, worker.lastDigest)
                 /\ worker.pc # "site" => watched' = watched
<1>0. worker \in WorkerType
  BY DEF DayTyped
<1>1. CASE EndIngest
  <2>1. worker.pc = "ingest" /\ ~ EndSite /\ UNCHANGED <<now, early, watched>>
    BY <1>1 DEF EndIngest, EndSite
  <2> QED
    BY <1>0, <1>1, <2>1, EndIngestGoes
<1>2. CASE SendDigest
  <2>1. worker.pc = "digest" /\ ~ EndSite /\ UNCHANGED <<now, early, watched>>
    BY <1>2 DEF SendDigest, EndSite
  <2>2. GoTo(AfterDigest)
    BY <1>2 DEF SendDigest
  <2>3. PICK pc \in {"site", "idle"} :
          Forward(pc) /\ (pc = "idle" => ~ DueDaily(SiteHour, worker.lastSite))
    BY <1>0, <2>2, DigestGoes
  <2> QED
    BY <2>1, <2>3
<1>3. CASE EndSite
  <2>1. worker.pc = "site" /\ UNCHANGED <<now, early>>
    BY <1>3 DEF EndSite
  <2>2. Forward("idle")
    BY <1>0, <1>3, GoToForward DEF EndSite
  <2> QED
    BY <1>3, <2>1, <2>2
<1> QED
  BY <1>1, <1>2, <1>3 DEF DayNext, Clock, Classify, Take, Change, Retry

\* The last disturbance does not go back.
LEMMA SinceMoves ==
  ASSUME DayTyped, [DayNext]_dayVars
  PROVE  /\ since' \in Nat /\ now' \in {now, now + 1}
         /\ since' \in {since, now'}
         /\ now' = now \/ Clock
<1>1. now' = now \/ (now' = now + 1 /\ Clock)
  BY DEF DayNext, Clock, Tick, EndIngest, SendDigest, EndSite, Stop, Start,
         Classify, Take, Change, Retry, dayVars
<1>2. since' \in {since, now'}
  BY DEF DayNext, Clock, Tick, EndIngest, SendDigest, EndSite, Stop, Start,
         Classify, Take, Change, Retry, dayVars
<1> QED
  BY <1>1, <1>2, WorkerFacts

-----------------------------------------------------------------------------
(***************************************************************************)
(* Day: types.                                                             *)
(***************************************************************************)
LEMMA DayTypedInit == DayInit => DayTyped
<1> SUFFICES ASSUME DayInit PROVE DayTyped
  OBVIOUS
<1>1. 1 \in Instants /\ DayOf(1) \in Nat
  BY Calendars
<1>2. worker \in WorkerType /\ worker.at = 1 /\ worker.prev = 1 /\ worker.pc = "ingest"
      /\ early \in Nat
  BY <1>1, StartedFacts DEF DayInit
<1>3. item \in [Items -> [fetched : 0 .. now, verdict : 0 .. now, taken : BOOLEAN]]
  BY DEF DayInit
<1>4. box \in [Keys -> [status : {"free", "uncertain", "sent"}, list : SUBSET Items]]
  BY DEF DayInit
<1> QED
  BY <1>1, <1>2, <1>3, <1>4 DEF DayInit, DayTyped, DayTypeOK

\* Time moves on: what was typed by the hour stays so.
LEMMA LaterTyped ==
  ASSUME DayTyped, now' \in Instants, now' \in {now, now + 1}, UNCHANGED <<item, box>>
  PROVE  /\ item' \in [Items -> [fetched : 0 .. now', verdict : 0 .. now', taken : BOOLEAN]]
         /\ \A i \in Items : item'[i].verdict > 0 => item'[i].fetched \in 1 .. item'[i].verdict
         /\ box' \in [Keys -> [status : {"free", "uncertain", "sent"}, list : SUBSET Items]]
         /\ \A k \in Keys : /\ box'[k].status # "uncertain" => box'[k].list = {}
                            /\ box'[k].status # "free" => k[1] <= DayOf(now')
<1>1. now \in Nat /\ now' \in Nat /\ now <= now' /\ 0 .. now \subseteq 0 .. now'
  BY WorkerFacts
<1>2. DayOf(now) <= DayOf(now') /\ DayOf(now) \in Nat /\ DayOf(now') \in Nat
  BY <1>1, WorkerFacts, Calendars, DayAssumption
<1>3. \A k \in Keys : k[1] \in Nat
  BY Calendars, DayAssumption DEF Keys, LocalDays, DayOf
<1>4. item \in [Items -> [fetched : 0 .. now', verdict : 0 .. now', taken : BOOLEAN]]
  BY <1>1 DEF DayTyped, DayTypeOK
<1>5. \A k \in Keys : box[k].status # "free" => k[1] <= DayOf(now')
  BY <1>2, <1>3 DEF DayTyped, DayTypeOK
<1> QED
  BY <1>4, <1>5 DEF DayTyped, DayTypeOK

\* The boxes after some posts.
LEMMA PostTyped ==
  ASSUME DayTyped, NEW keys \in SUBSET Keys, NEW outcome, NEW list,
         \A k \in keys : /\ k[1] <= DayOf(now) /\ list[k] \in SUBSET Items
                         /\ outcome[k] \in Outcomes \union {"given up"},
         Post(keys, outcome, list)
  PROVE  /\ box' \in [Keys -> [status : {"free", "uncertain", "sent"}, list : SUBSET Items]]
         /\ \A k \in Keys : /\ box'[k].status # "uncertain" => box'[k].list = {}
                            /\ box'[k].status # "free" => k[1] <= DayOf(now)
<1>1. ASSUME NEW k \in keys
      PROVE  /\ AfterPost(outcome[k], list[k]) \in
                  [status : {"free", "uncertain", "sent"}, list : SUBSET Items]
             /\ AfterPost(outcome[k], list[k]).status # "uncertain"
                  => AfterPost(outcome[k], list[k]).list = {}
  <2>1. CASE outcome[k] \in {"taken", "lost"}
    BY <2>1 DEF AfterPost
  <2>2. CASE outcome[k] = "sent"
    BY <2>2 DEF AfterPost
  <2>3. CASE outcome[k] \in {"refused", "given up"}
    BY <2>3 DEF AfterPost
  <2> QED
    BY <2>1, <2>2, <2>3 DEF Outcomes
<1>2. \A k \in Keys : box'[k] = IF k \in keys THEN AfterPost(outcome[k], list[k]) ELSE box[k]
  BY DEF Post
<1>3. box' \in [Keys -> [status : {"free", "uncertain", "sent"}, list : SUBSET Items]]
  BY <1>1 DEF Post, DayTyped, DayTypeOK
<1> QED
  BY <1>1, <1>2, <1>3 DEF DayTyped, DayTypeOK

\* The digest's posts are of keys of the day, and list items.
LEMMA DigestPosts ==
  ASSUME DayTyped, SendDigest
  PROVE  \E keys \in SUBSET DigestKeys(now) :
           \E outcome \in [keys -> Outcomes \union {"given up"}] :
             /\ keys \in SUBSET Keys /\ \A k \in keys : k[1] = DayOf(now)
             /\ Post(keys, outcome, [k \in keys |-> Listed(k[2], now)])
             /\ since' = IF /\ keys = DigestKeys(now)
                           /\ \A k \in keys : box[k].status = "free" /\ outcome[k] # "refused"
                         THEN since ELSE now
<1>1. PICK keys \in SUBSET DigestKeys(now) :
        \E outcome \in [keys -> Outcomes \union {"given up"}] :
          /\ Post(keys, outcome, [k \in keys |-> Listed(k[2], now)])
          /\ since' = IF /\ keys = DigestKeys(now)
                        /\ \A k \in keys : box[k].status = "free" /\ outcome[k] # "refused"
                      THEN since ELSE now
  BY DEF SendDigest
<1>2. DayOf(now) \in LocalDays
  BY WorkerFacts, Calendars
<1>3. keys \in SUBSET Keys /\ \A k \in keys : k[1] = DayOf(now)
  BY <1>2 DEF DigestKeys, Keys
<1> QED
  BY <1>1, <1>3

LEMMA DayTypedNext == DayTyped /\ [DayNext]_dayVars => DayTyped'
<1> SUFFICES ASSUME DayTyped, [DayNext]_dayVars PROVE DayTyped'
  OBVIOUS
<1>0. /\ worker \in WorkerType /\ now \in Instants /\ now \in Nat
      /\ worker.at \in Nat /\ worker.prev \in Nat /\ worker.at \in Instants
      /\ DayOf(now) \in Nat /\ DayOf(worker.at) \in Nat
  BY WorkerFacts, Calendars
<1>1. CASE UNCHANGED dayVars
  BY <1>1 DEF dayVars, digestVars, DayTyped, DayTypeOK
<1> SUFFICES ASSUME DayNext PROVE DayTyped'
  BY <1>1
<1>2. now' \in Instants /\ now' \in {now, now + 1} /\ since' \in Nat /\ now' \in Nat
  <2>1. CASE Clock
    BY <1>0, <2>1, Calendars, SinceMoves DEF Clock
  <2> QED
    BY <1>0, <2>1, SinceMoves
<1>3. worker' \in WorkerType /\ worker'.prev <= worker'.at /\ worker'.at <= now'
  <2>1. CASE UNCHANGED worker
    BY <1>0, <1>2, <2>1 DEF DayTyped, DayTypeOK
  <2>2. CASE Tick
    <3>1. worker' \in WorkerType /\ worker'.at = now /\ worker'.prev = worker.prev /\ now' = now
      BY <1>0, <2>2 DEF Tick, WorkerType
    <3>2. worker.prev <= worker.at /\ worker.at <= now
      BY DEF DayTyped, DayTypeOK
    <3> QED
      BY <1>0, <3>1, <3>2
  <2>3. CASE Stop
    <3>1. 1 \in Instants /\ now >= 1
      BY <1>0, Calendars
    <3> QED
      BY <1>0, <2>3, <3>1, StartedFacts DEF Stop, WorkerType
  <2>4. CASE Start
    BY <1>0, <2>4, StartedFacts DEF Start
  <2>5. ASSUME NEW pc \in {"digest", "site", "idle"}, Forward(pc), now' = now
        PROVE  worker' \in WorkerType /\ worker'.prev <= worker'.at /\ worker'.at <= now'
    BY <1>0, <2>5, ForwardTyped DEF DayTyped, DayTypeOK
  <2> QED
    BY <2>1, <2>2, <2>3, <2>4, <2>5, WorkerMoves
<1>4. watched' \in Nat /\ early' \in Nat
  <2>1. early' \in Nat
    BY <1>0, StartedFacts DEF DayNext, Clock, Tick, EndIngest, SendDigest, EndSite, Stop, Start,
         Classify, Take, Change, Retry, DayTyped
  <2>2. watched' \in Nat
    BY <1>0 DEF DayNext, Clock, Tick, EndIngest, SendDigest, EndSite, Stop, Start,
         Classify, Take, Change, Retry, DayTyped
  <2> QED
    BY <2>1, <2>2
<1>5. CASE UNCHANGED <<item, box>>
  BY <1>2, <1>3, <1>4, <1>5, LaterTyped, WorkerFacts DEF DayTyped, DayTypeOK, WorkerType
<1>6. ASSUME NEW keys \in SUBSET Keys, NEW outcome, NEW list,
             \A k \in keys : /\ k[1] <= DayOf(now) /\ list[k] \in SUBSET Items
                             /\ outcome[k] \in Outcomes \union {"given up"},
             Post(keys, outcome, list), UNCHANGED <<now, item>>
      PROVE  DayTyped'
  <2>1. /\ box' \in [Keys -> [status : {"free", "uncertain", "sent"}, list : SUBSET Items]]
        /\ \A k \in Keys : /\ box'[k].status # "uncertain" => box'[k].list = {}
                           /\ box'[k].status # "free" => k[1] <= DayOf(now)
    BY <1>6, PostTyped
  <2> QED
    BY <1>2, <1>3, <1>4, <1>6, <2>1 DEF DayTyped, DayTypeOK, WorkerType
<1>7. CASE SendDigest
  <2>0. DayOf(now) <= DayOf(now)
    BY <1>0
  <2>1. PICK keys \in SUBSET DigestKeys(now) :
          \E outcome \in [keys -> Outcomes \union {"given up"}] :
            /\ keys \in SUBSET Keys /\ \A k \in keys : k[1] = DayOf(now)
            /\ Post(keys, outcome, [k \in keys |-> Listed(k[2], now)])
    BY <1>7, DigestPosts
  <2>2. PICK outcome \in [keys -> Outcomes \union {"given up"}] :
          /\ keys \in SUBSET Keys /\ \A k \in keys : k[1] = DayOf(now)
          /\ Post(keys, outcome, [k \in keys |-> Listed(k[2], now)])
    BY <2>1
  <2>3. ASSUME NEW k \in keys
        PROVE  /\ k[1] <= DayOf(now) /\ outcome[k] \in Outcomes \union {"given up"}
               /\ [key \in keys |-> Listed(key[2], now)][k] \in SUBSET Items
    <3>1. outcome[k] \in Outcomes \union {"given up"}
      OBVIOUS
    <3>3. k[1] <= DayOf(now)
      <4>1. k[1] = DayOf(now)
        BY <2>2, Zenon
      <4> QED
        BY <2>0, <4>1, Zenon
    <3>2. Listed(k[2], now) \in SUBSET Items
      BY DEF Listed
    <3> QED
      BY <3>1, <3>2, <3>3
  <2>4. UNCHANGED <<now, item>>
    BY <1>7 DEF SendDigest
  <2> DEFINE list == [k \in keys |-> Listed(k[2], now)]
  <2> HIDE DEF list
  <2>5. keys \in SUBSET Keys /\ Post(keys, outcome, list)
        /\ \A k \in keys : k[1] <= DayOf(now) /\ list[k] \in SUBSET Items
                           /\ outcome[k] \in Outcomes \union {"given up"}
    BY <2>2, <2>3 DEF list
  <2> QED
    BY <1>6, <2>4, <2>5
<1>8. ASSUME NEW k \in Keys, Retry(k) PROVE DayTyped'
  <2>1. PICK outcome \in [{k} -> Outcomes \union {"given up"}] :
          Post({k}, outcome, [key \in {k} |-> box[k].list])
    BY <1>8 DEF Retry
  <2>2. box[k].status = "uncertain" /\ UNCHANGED <<now, item>>
    BY <1>8 DEF Retry
  <2>3. k[1] <= DayOf(now) /\ box[k].list \in SUBSET Items
    BY <2>2 DEF DayTyped, DayTypeOK
  <2> DEFINE list == [key \in {k} |-> box[k].list]
  <2>4. \A key \in {k} : list[key] \in SUBSET Items
    BY <2>3
  <2>5. Post({k}, outcome, list)
    BY <2>1
  <2> HIDE DEF list
  <2> QED
    BY <1>6, <2>2, <2>3, <2>4, <2>5
<1>9. ASSUME NEW i \in Items, NEW f \in Instants, Classify(i, f) PROVE DayTyped'
  <2>1. /\ item' = [item EXCEPT ![i] = [fetched |-> f, verdict |-> now, taken |-> FALSE]]
        /\ f \in 1 .. now /\ UNCHANGED <<now, box>>
    BY <1>9, Calendars DEF Classify, Change, digestVars
  <2>2. /\ item' \in [Items -> [fetched : 0 .. now, verdict : 0 .. now, taken : BOOLEAN]]
        /\ \A k \in Items : item'[k].verdict > 0 => item'[k].fetched \in 1 .. item'[k].verdict
    BY <1>0, <2>1 DEF DayTyped, DayTypeOK
  <2> QED
    BY <1>2, <1>3, <1>4, <2>1, <2>2 DEF DayTyped, DayTypeOK, WorkerType
<1>10. ASSUME NEW i \in Items, Take(i) PROVE DayTyped'
  <2>1. /\ item' = [item EXCEPT ![i] = [item[i] EXCEPT !.taken = TRUE]]
        /\ UNCHANGED <<now, box>>
    BY <1>10 DEF Take, Change, digestVars
  <2>2. /\ item' \in [Items -> [fetched : 0 .. now, verdict : 0 .. now, taken : BOOLEAN]]
        /\ \A k \in Items : item'[k].verdict > 0 => item'[k].fetched \in 1 .. item'[k].verdict
    BY <2>1 DEF DayTyped, DayTypeOK
  <2> QED
    BY <1>2, <1>3, <1>4, <2>1, <2>2 DEF DayTyped, DayTypeOK, WorkerType
<1> QED
  BY <1>5, <1>7, <1>8, <1>9, <1>10
  DEF DayNext, Clock, Tick, EndIngest, EndSite, Stop, Start, digestVars

LEMMA DayInvariance == DaySpec => []DayTyped
  BY DayTypedInit, DayTypedNext, PTL DEF DaySpec

\* The clock, the items, the scheduler and the digests' deliveries keep their types.
THEOREM DayTypeCorrect == DaySpec => []DayTypeOK
<1>1. DayTyped => DayTypeOK
  BY DEF DayTyped
<1> QED
  BY DayInvariance, <1>1, PTL

-----------------------------------------------------------------------------
(***************************************************************************)
(* Day: a tick in each hour, and what the digest leaves behind.            *)
(***************************************************************************)
LEMMA TickingNext ==
  ASSUME DayTyped, DayTyped', Ticking, [DayNext]_dayVars
  PROVE  Ticking'
<1>0. /\ since' \in Nat /\ since' \in {since, now'} /\ now' \in {now, now + 1}
      /\ now' \in Nat /\ worker'.at \in Nat /\ worker'.at <= now'
  <2>1. worker'.at \in Instants /\ now' \in Instants /\ worker'.at <= now'
    BY DEF DayTyped, DayTypeOK, WorkerType
  <2>2. worker'.at \in Nat /\ now' \in Nat
    BY <2>1, Calendars
  <2> QED
    BY <2>1, <2>2, SinceMoves
<1>1. CASE UNCHANGED worker /\ now' = now
  BY <1>0, <1>1, WorkerFacts DEF Ticking
<1>2. CASE UNCHANGED worker /\ Clock
  <2>1. since' = IF worker.pc = "down" \/ worker.at < now THEN now + 1 ELSE since
    BY <1>2 DEF Clock
  <2>2. now' = now + 1 /\ worker' = worker
    BY <1>2 DEF Clock
  <2>3. worker.pc # "down" => now' <= worker.at + 1 \/ since' = now'
    BY <2>1, <2>2, WorkerFacts
  <2>4. worker.at <= since => worker.at <= since'
    BY <1>0, <2>2, WorkerFacts
  <2> QED
    BY <2>2, <2>3, <2>4, WorkerFacts DEF Ticking
<1>3. CASE Tick
  <2>1. /\ now' = now /\ since' = since /\ worker'.pc = "ingest" /\ worker'.at = now
        /\ worker'.prev = worker.prev /\ worker.pc = "idle" /\ worker.at # now
    BY <1>3, WorkerFacts DEF Tick, WorkerType
  <2>2. worker.prev = now - 1 \/ since = now
    BY <2>1, WorkerFacts DEF Ticking
  <2> QED
    BY <2>1, <2>2, WorkerFacts DEF Ticking
<1>4. CASE Stop
  <2>1. worker'.pc = "down"
    BY <1>4, StartedFacts, Calendars DEF Stop, WorkerType
  <2> QED
    BY <2>1 DEF Ticking
<1>5. CASE Start
  <2>1. now' = now /\ since' = now /\ worker'.pc = "ingest" /\ worker'.at = now
    BY <1>5, StartedFacts, WorkerFacts DEF Start
  <2> QED
    BY <2>1, WorkerFacts DEF Ticking
<1>6. ASSUME NEW pc \in {"digest", "site", "idle"}, Forward(pc), now' = now,
             worker.pc \in {"ingest", "digest", "site"}
      PROVE  Ticking'
  <2>1. worker'.pc = pc /\ worker'.at = worker.at
        /\ worker'.prev = IF pc = "idle" THEN worker.at ELSE worker.prev
    BY <1>6, ForwardTyped, WorkerFacts
  <2>2. worker.at <= since => worker.at <= since'
    BY <1>0, <1>6, WorkerFacts
  <2>3. now <= worker.at + 1 \/ since' = now
    BY <1>0, <1>6 DEF Ticking
  <2>4. pc # "idle" => worker.prev = worker.at - 1 \/ worker.at = 1 \/ worker.at <= since'
    BY <1>6, <2>2 DEF Ticking
  <2> QED
    BY <1>6, <2>1, <2>3, <2>4 DEF Ticking
<1>7. CASE UNCHANGED dayVars
  BY <1>7 DEF dayVars, Ticking
<1> QED
  BY <1>1, <1>2, <1>3, <1>4, <1>5, <1>6, <1>7, WorkerMoves

LEMMA DigestMemoryNext ==
  ASSUME DayTyped, DigestMemory, [DayNext]_dayVars
  PROVE  DigestMemory'
<1>0. worker \in WorkerType /\ worker.at \in Instants /\ worker.at \in Nat
  BY WorkerFacts
<1>1. CASE UNCHANGED worker
  BY <1>1 DEF DigestMemory
<1>2. CASE Tick
  <2>1. /\ worker'.at = now /\ worker.at < now /\ worker'.lastDigest = worker.lastDigest
        /\ worker.pc = "idle"
    BY <1>2, WorkerFacts DEF Tick, WorkerType
  <2>2. \A t \in Instants : t \in Nat
    BY Calendars
  <2> QED
    BY <1>0, <2>1, <2>2, WorkerFacts DEF DigestMemory
<1>3. CASE Stop
  <2>1. worker'.pc = "down"
    BY <1>3, StartedFacts, Calendars DEF Stop, WorkerType
  <2> QED
    BY <2>1 DEF DigestMemory
<1>4. CASE Start
  <2>1. worker'.lastDigest = 0
    BY <1>4, StartedFacts, WorkerFacts DEF Start
  <2> QED
    BY <2>1 DEF DigestMemory
<1>5. ASSUME NEW pc \in {"digest", "site", "idle"}, Forward(pc),
             worker.pc \in {"ingest", "digest", "site"}
      PROVE  DigestMemory'
  <2>1. /\ worker'.pc = pc /\ worker'.at = worker.at
        /\ worker'.lastDigest = IF pc = "digest" THEN DayOf(worker.at) ELSE worker.lastDigest
    BY <1>0, <1>5, ForwardTyped
  <2>2. CASE pc = "digest"
    <3>1. HourOf(worker.at) >= DigestHour
      <4>1. HourOf(worker.at) = DigestHour \/ HourOf(worker.at) > DigestHour
        BY <1>5, <2>2 DEF Forward, DueDaily, Skipped
      <4> QED
        BY <1>0, <4>1, Calendars
    <3> QED
      BY <1>0, <2>1, <2>2, <3>1 DEF DigestMemory
  <2>3. CASE pc # "digest"
    BY <1>5, <2>1, <2>3 DEF DigestMemory
  <2> QED
    BY <2>2, <2>3
<1> QED
  BY <1>1, <1>2, <1>3, <1>4, <1>5, WorkerMoves DEF dayVars

\* In its hour a job is due, unless the worker has just been started or has outlasted
\* the hour, or the job has been run on the day.
LEMMA DueWhenSaid ==
  ASSUME DayTyped, Ticking, worker.pc \in {"ingest", "digest", "site"},
         NEW hour \in Nat, NEW last,
         JobDue(hour, worker.at), since < worker.at, DayOf(worker.at) # last
  PROVE  DueDaily(hour, last)
<1>1. worker.prev = worker.at - 1 \/ worker.at = 1
  BY WorkerFacts DEF Ticking
<1> QED
  BY <1>1, WorkerFacts DEF DueDaily, JobDue

\* A first chance has no earlier hour of the digest before it on its day.
LEMMA NoneBefore ==
  ASSUME NEW t \in Instants, FirstDue(t), NEW u \in Instants, u < t, DayOf(u) = DayOf(t)
  PROVE  ~ (HourOf(u) >= DigestHour)
<1> SUFFICES ASSUME HourOf(u) >= DigestHour PROVE FALSE
  OBVIOUS
<1>1. u \in Nat /\ t \in Nat /\ HourOf(u) \in Nat /\ HourOf(t) \in Nat /\ DigestHour \in Nat
      /\ t - 1 \in Instants
  BY Calendars
<1>2. /\ HourOf(u) <= HourOf(t)
      /\ DayOf(u) = DayOf(t - 1) => HourOf(u) <= HourOf(t - 1)
  <2>1. HourOf(u) <= HourOf(t)
    BY <1>1, DayAssumption
  <2>2. DayOf(u) = DayOf(t - 1) => HourOf(u) <= HourOf(t - 1)
    BY <1>1, DayAssumption
  <2> QED
    BY <2>1, <2>2
<1>3. CASE HourOf(t) = DigestHour
  <2>1. HourOf(u) = DigestHour
    BY <1>1, <1>3, DayAssumption
  <2> QED
    BY <2>1 DEF FirstDue, JobDue
<1>4. CASE t > 1 /\ Skipped(t - 1, t, DigestHour)
  <2>1. DayOf(t - 1) = DayOf(t) /\ HourOf(t - 1) < DigestHour
    BY <1>4 DEF Skipped
  <2>2. HourOf(t - 1) \in Nat
    BY <1>1, Calendars
  <2> QED
    BY <1>1, <1>2, <2>1, <2>2
<1> QED
  BY <1>3, <1>4 DEF FirstDue, JobDue

\* What posts do to the items that their messages list.
LEMMA PostKeeps ==
  ASSUME DayTyped, NEW keys \in SUBSET Keys, NEW outcome, NEW list,
         Post(keys, outcome, list), NEW k \in keys, NEW i, i \in list[k],
         outcome[k] \in {"sent", "taken", "lost"}
  PROVE  <<i, k[2]>> \in shown' \/ i \in box'[k].list
<1>1. CASE outcome[k] \in {"sent", "taken"}
  <2>1. <<i, k[2]>> \in list[k] \X {k[2]}
    OBVIOUS
  <2> QED
    BY <1>1, <2>1 DEF Post
<1>2. CASE outcome[k] = "lost"
  <2>1. box'[k] = AfterPost(outcome[k], list[k])
    BY DEF Post
  <2> QED
    BY <1>2, <2>1 DEF AfterPost
<1> QED
  BY <1>1, <1>2

\* An item that was listed stays so, or a disturbance comes.
LEMMA SeenStays ==
  ASSUME DayTyped, DayNext, NEW i \in Items, Seen(i), since' # now
  PROVE  Seen(i)'
<1>1. PICK a \in Watching(i) :
        <<i, a>> \in shown \/ \E d \in LocalDays : i \in box[<<d, a>>].list
  BY DEF Seen
<1>2. shown \subseteq shown'
  BY DEF DayNext, Clock, Tick, EndIngest, SendDigest, EndSite, Stop, Start,
         Classify, Take, Change, Retry, Post, digestVars
<1>3. CASE <<i, a>> \in shown
  BY <1>2, <1>3 DEF Seen, Watching
<1>4. ASSUME NEW d \in LocalDays, i \in box[<<d, a>>].list
      PROVE  Seen(i)'
  <2> DEFINE k == <<d, a>>
  <2>0. k \in Keys /\ k[2] = a
    <3>1. a \in Audiences
      BY DayAssumption DEF Watching, Audiences
    <3> QED
      BY <3>1 DEF Keys
  <2>1. box[k].status = "uncertain"
    BY <1>4, <2>0 DEF DayTyped, DayTypeOK
  <2>2. SUFFICES <<i, a>> \in shown' \/ i \in box'[k].list
    BY DEF Seen, Watching
  <2>3. CASE box' = box
    BY <1>4, <2>3
  <2>4. CASE SendDigest
    <3>1. PICK keys \in SUBSET DigestKeys(now) :
            \E outcome \in [keys -> Outcomes \union {"given up"}] :
              /\ keys \in SUBSET Keys /\ \A key \in keys : key[1] = DayOf(now)
              /\ Post(keys, outcome, [key \in keys |-> Listed(key[2], now)])
              /\ since' = IF /\ keys = DigestKeys(now)
                            /\ \A key \in keys : box[key].status = "free" /\ outcome[key] # "refused"
                          THEN since ELSE now
      BY <2>4, DigestPosts
    <3>2. k \notin keys
      BY <2>1, <3>1
    <3>3. box'[k] = box[k]
      BY <2>0, <3>1, <3>2 DEF Post
    <3> QED
      BY <1>4, <3>3
  <2>5. ASSUME NEW key \in Keys, Retry(key)
        PROVE  <<i, a>> \in shown' \/ i \in box'[k].list
    <3>1. PICK outcome \in [{key} -> Outcomes \union {"given up"}] :
            /\ Post({key}, outcome, [x \in {key} |-> box[key].list])
            /\ since' = IF outcome[key] \in {"refused", "given up"} THEN now ELSE since
      BY <2>5 DEF Retry
    <3>2. CASE key = k
      <4>1. outcome[k] \in {"sent", "taken", "lost"}
        BY <3>1, <3>2 DEF Outcomes
      <4> DEFINE list == [x \in {key} |-> box[key].list]
      <4>2. i \in list[k]
        BY <1>4, <3>2
      <4>3. Post({k}, outcome, list)
        BY <3>1, <3>2
      <4> HIDE DEF list, k
      <4> QED
        BY <2>0, <4>1, <4>2, <4>3, PostKeeps
    <3>3. CASE key # k
      <4>1. box'[k] = box[k]
        BY <2>0, <3>1, <3>3 DEF Post
      <4> QED
        BY <1>4, <4>1
    <3> QED
      BY <3>2, <3>3
  <2> QED
    BY <2>3, <2>4, <2>5
    DEF DayNext, Clock, Tick, EndIngest, EndSite, Stop, Start, Classify, Take, Change, digestVars
<1> QED
  BY <1>1, <1>3, <1>4

\* A chance that has just passed was used, and listed the items it could.
LEMMA ChanceUsed ==
  ASSUME DayTyped, DayTyped', Ticking, DigestMemory, DayNext,
         NEW t \in Instants, NEW i \in Items,
         FirstDue(t), since' < t, since < t, ~ Past(t), Past(t)',
         item[i].verdict \in 1 .. t - 1, t + 1 < item[i].fetched + 2 * DayLen,
         ~ item[i].taken, Route[i] # {}
  PROVE  Seen(i)'
<1>0. /\ t \in Nat /\ since' \in Nat /\ since \in Nat
      /\ item[i].fetched \in Nat /\ item[i].verdict \in Nat /\ item[i].verdict > 0
      /\ DayLen \in Nat
  <2>1. t \in Nat /\ item[i].fetched \in Nat /\ item[i].verdict \in Nat /\ DayLen \in Nat
    BY ItemFacts, Calendars
  <2>2. item[i].verdict > 0
    BY <2>1
  <2> QED
    BY <2>1, <2>2, SinceMoves, WorkerFacts
<1>1. CASE UNCHANGED worker
  BY <1>1 DEF Past
<1>2. CASE Tick
  <2>1. worker'.at = now /\ worker'.pc = "ingest" /\ worker.pc = "idle"
    BY <1>2, WorkerFacts DEF Tick, WorkerType
  <2>2. now <= worker.at + 1 \/ since = now
    BY <2>1 DEF Ticking
  <2> QED
    BY <1>0, <2>1, <2>2, WorkerFacts DEF Past
<1>3. CASE Stop \/ Start
  <2>1. since' = now /\ now' = now
    BY <1>3 DEF Stop, Start
  <2>2. t <= worker'.at /\ worker'.at <= now' /\ worker'.at \in Nat
    <3>1. worker'.at <= now' /\ worker'.at \in Nat
      BY Calendars DEF DayTyped, DayTypeOK, WorkerType
    <3> QED
      BY <1>0, <3>1 DEF Past
  <2> QED
    BY <1>0, <2>1, <2>2, WorkerFacts
<1>4. ASSUME NEW pc \in {"digest", "site", "idle"}, Forward(pc)
      PROVE  t = worker.at /\ pc \in {"site", "idle"} /\ worker.pc \notin {"site", "idle"}
  <2>1. worker'.at = worker.at /\ worker'.pc = pc
    BY <1>4, ForwardTyped, WorkerFacts
  <2> QED
    BY <2>1 DEF Past
<1>5. CASE EndIngest
  <2>1. PICK pc \in {"digest", "site", "idle"} :
          Forward(pc) /\ (pc # "digest" => ~ DueDaily(DigestHour, worker.lastDigest))
    BY <1>5, EndIngestGoes, WorkerFacts
  <2>2. t = worker.at /\ ~ DueDaily(DigestHour, worker.lastDigest) /\ worker.pc = "ingest"
    BY <1>4, <1>5, <2>1 DEF EndIngest
  <2>3. JobDue(DigestHour, worker.at)
    BY <2>2 DEF FirstDue
  <2>4. DayOf(t) = worker.lastDigest
    BY <2>2, <2>3, DueWhenSaid, Calendars
  <2>5. worker.lastDigest # 0
    BY <2>4, Calendars
  <2>6. PICK u \in Instants : /\ HourOf(u) >= DigestHour /\ DayOf(u) = worker.lastDigest
                              /\ u < worker.at
    BY <2>2, <2>5 DEF DigestMemory
  <2> QED
    BY <2>2, <2>4, <2>6, NoneBefore
<1>6. CASE SendDigest
  <2>1. t = worker.at /\ worker.pc = "digest"
    BY <1>4, <1>6, DigestGoes, WorkerFacts DEF SendDigest
  <2>2. now <= t + 1 /\ now # since' /\ t <= now
    BY <1>0, <2>1, WorkerFacts DEF Ticking
  <2>12. item[i].verdict > 0 /\ ~ item[i].taken /\ InWindow(i, now)
    BY <1>0, <2>2, WorkerFacts DEF InWindow
  <2>3. PICK keys \in SUBSET DigestKeys(now) :
          \E outcome \in [keys -> Outcomes \union {"given up"}] :
            /\ keys \in SUBSET Keys /\ \A k \in keys : k[1] = DayOf(now)
            /\ Post(keys, outcome, [k \in keys |-> Listed(k[2], now)])
            /\ since' = IF /\ keys = DigestKeys(now)
                          /\ \A k \in keys : box[k].status = "free" /\ outcome[k] # "refused"
                        THEN since ELSE now
    BY <1>6, DigestPosts
  <2>4. PICK outcome \in [keys -> Outcomes \union {"given up"}] :
          Post(keys, outcome, [k \in keys |-> Listed(k[2], now)])
            /\ \A k \in keys : box[k].status = "free" /\ outcome[k] # "refused"
    BY <2>2, <2>3
  <2>5. keys = DigestKeys(now) /\ keys \in SUBSET Keys
    BY <2>2, <2>3
  <2>6. \A k \in keys : outcome[k] \in {"sent", "taken", "lost"}
    BY <2>4 DEF Post, Outcomes
  <2>7. PICK a \in Watching(i) : i \in Listed(a, now)
    <3>1. item[i].verdict > 0 /\ ~ item[i].taken
      BY <2>12
    <3>2. CASE InDay(i, now)
      <4>1. \E a \in Watching(i) : a \in Route[i]
        BY DEF Watching
      <4> QED
        BY <3>1, <3>2, <4>1 DEF Listed
    <3>3. CASE ~ InDay(i, now)
      <4>1. Founder \in Watching(i)
        BY DEF Watching
      <4> QED
        BY <2>12, <3>1, <3>3, <4>1 DEF Listed
    <3> QED
      BY <3>2, <3>3
  <2>8. a \in Audiences /\ DayOf(now) \in LocalDays
    BY DayAssumption, WorkerFacts, Calendars DEF Watching, Audiences
  <2> DEFINE key == <<DayOf(now), a>>
             list == [k \in keys |-> Listed(k[2], now)]
  <2>9. key \in keys /\ key[2] = a
    BY <2>5, <2>8 DEF DigestKeys
  <2>10. i \in list[key]
    BY <2>7, <2>9
  <2>11. <<i, key[2]>> \in shown' \/ i \in box'[key].list
    <3>1. Post(keys, outcome, list)
      BY <2>4
    <3> HIDE DEF list, key
    <3> QED
      BY <2>5, <2>6, <2>9, <2>10, <3>1, PostKeeps
  <2> QED
    BY <2>8, <2>9, <2>11 DEF Seen, Watching
<1>7. CASE EndSite
  <2>1. Forward("idle") /\ worker.pc = "site"
    BY <1>7, GoToForward, WorkerFacts DEF EndSite
  <2> QED
    BY <1>4, <2>1
<1> QED
  BY <1>1, <1>2, <1>3, <1>5, <1>6, <1>7
  DEF DayNext, Clock, Classify, Take, Change, Retry

LEMMA NoMentionLostNext ==
  ASSUME DayTyped, DayTyped', Ticking, DigestMemory, NoMentionLost, [DayNext]_dayVars
  PROVE  NoMentionLost'
<1>1. CASE UNCHANGED dayVars
  BY <1>1 DEF dayVars, digestVars, NoMentionLost, Past, Seen, Watching
<1> SUFFICES ASSUME DayNext,
                    NEW i \in Items, NEW t \in Instants,
                    FirstDue(t), since' < t, Past(t)',
                    item'[i].verdict \in 1 .. t - 1, t + 1 < item'[i].fetched + 2 * DayLen,
                    ~ item'[i].taken, Route[i] # {}
             PROVE  Seen(i)'
  BY <1>1 DEF NoMentionLost
<1>2. /\ t \in Nat /\ now' \in Nat /\ worker'.at \in Nat /\ since' \in Nat
      /\ worker'.at <= now' /\ t <= worker'.at /\ now \in Nat
  <2>1. /\ t \in Nat /\ now' \in Nat /\ worker'.at \in Nat /\ since' \in Nat /\ worker'.at <= now'
    BY Calendars DEF DayTyped, DayTypeOK, WorkerType
  <2> QED
    BY <2>1, WorkerFacts DEF Past
<1>3. since < t /\ since' # now'
  BY <1>2, SinceMoves, WorkerFacts
<1>4. item'[i] = item[i]
  <2>1. ASSUME NEW k \in Items, NEW f \in Instants, Classify(k, f)
        PROVE  item'[i] = item[i]
    <3>1. item' = [item EXCEPT ![k] = [fetched |-> f, verdict |-> now, taken |-> FALSE]]
          /\ now' = now
      BY <2>1 DEF Classify, Change
    <3>2. k # i
      <4>1. SUFFICES ASSUME k = i PROVE FALSE
        OBVIOUS
      <4>2. item'[i].verdict = now
        BY <3>1, <4>1 DEF DayTyped, DayTypeOK
      <4> QED
        BY <1>2, <3>1, <4>2
    <3> QED
      BY <3>1, <3>2 DEF DayTyped, DayTypeOK
  <2>2. ASSUME NEW k \in Items, Take(k) PROVE item'[i] = item[i]
    BY <2>2, ItemFacts DEF Take, Change, DayTyped, DayTypeOK
  <2> QED
    BY <2>1, <2>2
    DEF DayNext, Clock, Tick, EndIngest, SendDigest, EndSite, Stop, Start, Retry
<1>5. CASE Past(t)
  <2>1. Seen(i)
    BY <1>3, <1>4, <1>5 DEF NoMentionLost
  <2>2. CASE Clock
    BY <2>1, <2>2 DEF Clock, digestVars, Seen, Watching
  <2>3. CASE now' = now
    BY <1>3, <2>1, <2>3, SeenStays
  <2> QED
    BY <2>2, <2>3, SinceMoves
<1>6. CASE ~ Past(t)
  BY <1>3, <1>4, <1>6, ChanceUsed
<1> QED
  BY <1>5, <1>6

LEMMA MentionInvariance == DaySpec => []MentionInv
<1>1. DayInit => MentionInv
  <2> SUFFICES ASSUME DayInit PROVE MentionInv
    OBVIOUS
  <2>1. DayTyped
    BY DayTypedInit
  <2>2. worker.at = 1 /\ worker.pc = "ingest" /\ worker.lastDigest = 0 /\ now = 1
    BY StartedFacts, Calendars DEF DayInit
  <2>3. Ticking /\ DigestMemory
    BY <2>2 DEF Ticking, DigestMemory
  <2>4. NoMentionLost
    BY DEF DayInit, NoMentionLost
  <2> QED
    BY <2>1, <2>3, <2>4 DEF MentionInv
<1>2. MentionInv /\ [DayNext]_dayVars => MentionInv'
  <2> SUFFICES ASSUME MentionInv, [DayNext]_dayVars PROVE MentionInv'
    OBVIOUS
  <2>1. DayTyped'
    BY DayTypedNext DEF MentionInv
  <2> QED
    BY <2>1, TickingNext, DigestMemoryNext, NoMentionLostNext DEF MentionInv
<1> QED
  BY <1>1, <1>2, PTL DEF DaySpec

\* When the first chance of a digest on a day has passed undisturbed, the items that
\* were classified before it, are less than two days old and are routed to a chat have
\* been listed for one (build.ts:71-94, scheduler.ts:37-43), for any calendar, any
\* length of ticks, any routes and any audiences.
THEOREM MentionsKept == DaySpec => []NoMentionLost
<1>1. MentionInv => NoMentionLost
  BY DEF MentionInv
<1> QED
  BY MentionInvariance, <1>1, PTL

-----------------------------------------------------------------------------
(***************************************************************************)
(* Day: the site watch before the digest.                                  *)
(***************************************************************************)
\* What is due by the watch's memory is so whatever the digest's says.
LEMMA SitesKeptTick ==
  ASSUME DayTyped, SitesKept, Tick
  PROVE  SitesKept'
<1>1. /\ worker.pc = "idle" /\ worker.prev = worker.at /\ worker.at < now
      /\ worker'.pc = "ingest" /\ worker'.at = now /\ worker'.prev = worker.at
      /\ worker'.lastSite = worker.lastSite /\ UNCHANGED watched
      /\ early' = IF HourOf(now) <= SiteHour THEN DayOf(now) ELSE early
  BY WorkerFacts DEF Tick, WorkerType, SitesKept
<1>2. /\ DayOf(worker.at) \in Nat \ {0} /\ DayOf(now) \in Nat \ {0} /\ early \in Nat
      /\ HourOf(worker.at) \in Nat /\ HourOf(now) \in Nat /\ SiteHour \in Nat
      /\ DayOf(worker.at) <= DayOf(now)
  BY <1>1, WorkerFacts, Calendars, SiteHourType, DayAssumption DEF DayTyped
<1>3. early <= DayOf(worker.at) /\ early' <= DayOf(now)
  BY <1>1, <1>2 DEF SitesKept
<1>4. worker.lastSite # 0 => watched = worker.lastSite
  BY <1>1 DEF SitesKept
<1>5. ASSUME early' = DayOf(now), HourOf(now) >= SiteHour
      PROVE  watched = DayOf(now) \/ DueDaily(SiteHour, worker.lastSite)'
  <2>1. CASE worker.lastSite = DayOf(now)
    BY <1>2, <1>4, <2>1
  <2>2. CASE worker.lastSite # DayOf(now) /\ HourOf(now) = SiteHour
    BY <1>1, <2>2 DEF DueDaily
  <2>3. CASE worker.lastSite # DayOf(now) /\ HourOf(now) > SiteHour
    <3>1. early = DayOf(now) /\ DayOf(worker.at) = DayOf(now)
      BY <1>1, <1>2, <1>3, <1>5, <2>3
    <3>2. CASE HourOf(worker.at) >= SiteHour
      BY <1>1, <3>1, <3>2 DEF SitesKept, Overdue
    <3>3. CASE HourOf(worker.at) < SiteHour
      BY <1>1, <2>3, <3>1, <3>3 DEF DueDaily, Skipped
    <3> QED
      BY <1>2, <3>2, <3>3
  <2> QED
    BY <1>2, <1>5, <2>1, <2>2, <2>3
<1> QED
  BY <1>1, <1>3, <1>4, <1>5 DEF SitesKept, Overdue

LEMMA SitesKeptNext ==
  ASSUME DayTyped, SitesKept, [DayNext]_dayVars
  PROVE  SitesKept'
<1>0. worker \in WorkerType /\ DayOf(worker.at) \in Nat \ {0}
  BY WorkerFacts, Calendars
<1>1. CASE UNCHANGED worker /\ ~ Tick /\ ~ Start /\ ~ EndSite
  <2>1. UNCHANGED <<early, watched>>
    BY <1>1 DEF DayNext, Clock, EndIngest, SendDigest, Stop, Classify, Take, Change, Retry, dayVars
  <2> QED
    BY <1>1, <2>1 DEF SitesKept, Overdue, DueDaily
<1>2. CASE Tick
  BY <1>2, SitesKeptTick
<1>3. CASE Stop
  <2>1. worker'.pc = "down"
    BY <1>3, StartedFacts, Calendars DEF Stop, WorkerType
  <2> QED
    BY <2>1 DEF SitesKept
<1>4. CASE Start
  <2>1. /\ worker'.pc = "ingest" /\ worker'.at = now /\ worker'.prev = now
        /\ worker'.lastSite = 0 /\ early' = Early(now)
    BY <1>4, StartedFacts, WorkerFacts DEF Start
  <2>2. DayOf(now) \in Nat \ {0} /\ HourOf(now) \in Nat /\ SiteHour \in Nat
    BY WorkerFacts, Calendars, SiteHourType
  <2>3. early' <= DayOf(now) /\ (early' = DayOf(now) => HourOf(now) <= SiteHour)
    BY <2>1, <2>2 DEF Early
  <2>4. early' = DayOf(now) /\ HourOf(now) >= SiteHour => DueDaily(SiteHour, worker.lastSite)'
    BY <2>1, <2>2, <2>3 DEF DueDaily
  <2> QED
    BY <2>1, <2>3, <2>4 DEF SitesKept, Overdue
<1>5. CASE EndSite
  <2>1. Forward("idle") /\ worker.pc = "site" /\ watched' = DayOf(worker.at) /\ early' = early
    BY <1>0, <1>5, GoToForward DEF EndSite
  <2>2. /\ worker'.pc = "idle" /\ worker'.at = worker.at /\ worker'.prev = worker.at
        /\ worker'.lastSite = worker.lastSite
    BY <1>0, <2>1, ForwardTyped
  <2> QED
    BY <2>1, <2>2 DEF SitesKept
<1>6. ASSUME NEW pc \in {"digest", "site", "idle"}, Forward(pc), early' = early,
             watched' = watched, worker.pc \in {"ingest", "digest"},
             pc = "idle" => ~ DueDaily(SiteHour, worker.lastSite)
      PROVE  SitesKept'
  <2>1. /\ worker'.pc = pc /\ worker'.at = worker.at
        /\ worker'.prev = IF pc = "idle" THEN worker.at ELSE worker.prev
        /\ worker'.lastSite = IF pc = "site" THEN DayOf(worker.at) ELSE worker.lastSite
    BY <1>0, <1>6, ForwardTyped
  <2>2. early <= DayOf(worker.at)
    BY <1>6 DEF SitesKept
  <2>3. worker.lastSite # 0 => watched = worker.lastSite
    BY <1>6 DEF SitesKept
  <2>4. Overdue => watched = DayOf(worker.at) \/ DueDaily(SiteHour, worker.lastSite)
    BY <1>6 DEF SitesKept
  <2>5. Overdue' = Overdue
    BY <1>6, <2>1 DEF Overdue
  <2>6. CASE pc = "digest"
    <3>1. DueDaily(SiteHour, worker.lastSite)' = DueDaily(SiteHour, worker.lastSite)
      BY <2>1, <2>6 DEF DueDaily
    <3> QED
      BY <1>6, <2>1, <2>2, <2>3, <2>4, <2>5, <2>6, <3>1 DEF SitesKept
  <2>7. CASE pc = "site"
    BY <1>6, <2>1, <2>2, <2>7 DEF SitesKept
  <2>8. CASE pc = "idle"
    BY <1>6, <2>1, <2>2, <2>3, <2>4, <2>5, <2>8 DEF SitesKept
  <2> QED
    BY <2>6, <2>7, <2>8
<1> QED
  BY <1>1, <1>2, <1>3, <1>4, <1>5, <1>6, WorkerMoves DEF dayVars

LEMMA SitesInvariance == DaySpec => []SitesInv
<1>1. DayInit => SitesInv
  <2> SUFFICES ASSUME DayInit PROVE SitesInv
    OBVIOUS
  <2>1. DayTyped
    BY DayTypedInit
  <2>2. /\ worker.at = 1 /\ worker.prev = 1 /\ worker.pc = "ingest" /\ worker.lastSite = 0
        /\ early = Early(1)
    BY StartedFacts, Calendars DEF DayInit
  <2>3. DayOf(1) \in Nat \ {0} /\ HourOf(1) \in Nat /\ SiteHour \in Nat
    BY <2>2, WorkerFacts, Calendars, SiteHourType, <2>1
  <2>4. early <= DayOf(1) /\ (early = DayOf(1) => HourOf(1) <= SiteHour)
    BY <2>2, <2>3 DEF Early
  <2>5. early = DayOf(1) /\ HourOf(1) >= SiteHour => DueDaily(SiteHour, worker.lastSite)
    BY <2>2, <2>3, <2>4 DEF DueDaily
  <2> QED
    BY <2>1, <2>2, <2>4, <2>5 DEF SitesInv, SitesKept, Overdue
<1>2. SitesInv /\ [DayNext]_dayVars => SitesInv'
  <2> SUFFICES ASSUME SitesInv, [DayNext]_dayVars PROVE SitesInv'
    OBVIOUS
  <2> QED
    BY DayTypedNext, SitesKeptNext DEF SitesInv
<1> QED
  BY <1>1, <1>2, PTL DEF DaySpec

\* On a day with a tick no later than the watch's hour the digest never runs after that
\* hour while the watch is neither over nor due (scheduler.ts:37-43, worker.ts:91), for
\* any digest hour, any calendar and any length of ticks.
THEOREM SitesComeFirst == DaySpec => []SitesFirst
<1>1. SitesInv => SitesFirst
  BY DEF SitesInv, SitesKept, Overdue, SitesFirst
<1> QED
  BY SitesInvariance, <1>1, PTL
-----------------------------------------------------------------------------
(***************************************************************************)
(* SiteWatch: types, and no block is swallowed.                            *)
(***************************************************************************)
\* What a run has written down of the page it is storing: known before, stored,
\* left out on purpose or about to be stored.
CursorCovered ==
  run.pc = "storing" => ToSet(run.cursor) \subseteq stored \union silent \union run.left

\* A run that visits has a site to visit.
ListHeld ==
  /\ run \in [pc : {"down", "idle", "open", "reading", "storing"}, list : Seq(Site),
              left : SUBSET Blocks, cursor : Seq(Blocks)]
  /\ run.pc \in {"open", "reading", "storing"} => run.list # <<>>

WatchInv == WatchTypeOK /\ ListHeld /\ CursorCovered /\ NothingSwallowed

-----------------------------------------------------------------------------
(***************************************************************************)
(* SiteWatch: the operators that put a set in a row.                       *)
(***************************************************************************)
LEMMA SetToSeqFacts ==
  ASSUME NEW S, IsFiniteSet(S)
  PROVE  /\ SetToSeq(S) \in Seq(S) /\ Len(SetToSeq(S)) = Cardinality(S)
         /\ ToSet(SetToSeq(S)) = S
         /\ IsInjective(SetToSeq(S))
<1>1. PICK f : f \in Bijection(1 .. Cardinality(S), S)
  BY FS_CardinalityType DEF ExistsBijection
<1>2. Cardinality(S) \in Nat
  BY FS_CardinalityType
<1>3. f \in [1 .. Cardinality(S) -> S] /\ IsInjective(f)
  BY <1>1 DEF Bijection, Injection
<1> DEFINE g == SetToSeq(S)
<1>4. g \in [1 .. Cardinality(S) -> S] /\ IsInjective(g)
  BY <1>3 DEF SetToSeq
<1>5. g \in Injection(1 .. Cardinality(S), S)
  BY <1>4 DEF Injection
<1>6. IsFiniteSet(1 .. Cardinality(S)) /\ Cardinality(1 .. Cardinality(S)) = Cardinality(S)
  BY <1>2, FS_Interval
<1>7. g \in Surjection(1 .. Cardinality(S), S)
  BY <1>5, <1>6, FS_Injection
<1>8. g \in Seq(S) /\ Len(g) = Cardinality(S)
  BY <1>2, <1>4
<1>9. ToSet(g) = S
  BY <1>4, <1>7 DEF ToSet, Surjection
<1> QED
  BY <1>4, <1>8, <1>9

\* How many of a set of numbers come before one, with itself.
Rank(S, x) == Cardinality({y \in S : y <= x})

LEMMA RankFacts ==
  ASSUME NEW S \in SUBSET Nat, IsFiniteSet(S)
  PROVE  /\ \A x \in S : Rank(S, x) \in 1 .. Cardinality(S)
         /\ \A x, y \in S : x < y => Rank(S, x) < Rank(S, y)
         /\ \A r \in 1 .. Cardinality(S) : \E x \in S : Rank(S, x) = r
<1>1. Cardinality(S) \in Nat
  BY FS_CardinalityType
<1> DEFINE Upto(x) == {y \in S : y <= x}
<1>2. \A x \in S : /\ IsFiniteSet(Upto(x)) /\ Cardinality(Upto(x)) \in Nat
                   /\ Cardinality(Upto(x)) <= Cardinality(S)
  BY FS_Subset, FS_CardinalityType
<1>3. \A x \in S : Rank(S, x) \in 1 .. Cardinality(S)
  <2> TAKE x \in S
  <2>1. x \in Upto(x)
    OBVIOUS
  <2>2. Cardinality(Upto(x)) # 0
    BY <1>2, <2>1, FS_EmptySet
  <2> QED
    BY <1>1, <1>2, <2>2 DEF Rank
<1>4. \A x, y \in S : x < y => Rank(S, x) < Rank(S, y)
  <2> SUFFICES ASSUME NEW x \in S, NEW y \in S, x < y PROVE Rank(S, x) < Rank(S, y)
    OBVIOUS
  <2>1. x \in Nat /\ y \in Nat
    OBVIOUS
  <2>2. y \in Upto(y) /\ y \notin Upto(x)
    BY <2>1
  <2>3. \A z \in S : z <= x => z <= y
    BY <2>1
  <2>4. Upto(x) \in SUBSET Upto(y)
    BY <2>3
  <2>5. Cardinality(Upto(x)) <= Cardinality(Upto(y)) /\ Cardinality(Upto(x)) # Cardinality(Upto(y))
    BY <1>2, <2>2, <2>4, FS_Subset
  <2> QED
    BY <1>2, <2>5 DEF Rank
<1> DEFINE f == [x \in S |-> Rank(S, x)]
<1>5. f \in [S -> 1 .. Cardinality(S)]
  BY <1>3
<1>6. IsInjective(f)
  <2> SUFFICES ASSUME NEW x \in S, NEW y \in S, f[x] = f[y] PROVE x = y
    BY DEF IsInjective
  <2>1. Rank(S, x) = Rank(S, y) /\ Rank(S, x) \in Nat
    BY <1>1, <1>3
  <2>2. ~ (x < y) /\ ~ (y < x)
    BY <1>4, <2>1
  <2> QED
    BY <2>2
<1>7. IsFiniteSet(1 .. Cardinality(S)) /\ Cardinality(1 .. Cardinality(S)) = Cardinality(S)
  BY <1>1, FS_Interval
<1>8. f \in Surjection(S, 1 .. Cardinality(S))
  <2> HIDE DEF f
  <2>1. f \in Injection(S, 1 .. Cardinality(S))
    BY <1>5, <1>6 DEF Injection
  <2> QED
    BY <1>7, <2>1, FS_Injection
<1>9. \A r \in 1 .. Cardinality(S) : \E x \in S : Rank(S, x) = r
  BY <1>8 DEF Surjection
<1> QED
  BY <1>3, <1>4, <1>9

\* A finite set of numbers can be put in order.
LEMMA ByIdFacts ==
  ASSUME NEW S \in SUBSET Nat, IsFiniteSet(S)
  PROVE  ById(S) \in Seq(S) /\ Len(ById(S)) = Cardinality(S)
<1> DEFINE n == Cardinality(S)
           At(r) == CHOOSE x \in S : Rank(S, x) = r
           f == [r \in 1 .. n |-> At(r)]
<1>1. n \in Nat
  BY FS_CardinalityType
<1>2. ASSUME NEW r \in 1 .. n PROVE At(r) \in S /\ At(r) \in Nat /\ Rank(S, At(r)) = r
  <2>1. \E x \in S : Rank(S, x) = r
    BY RankFacts
  <2> QED
    BY <2>1
<1> HIDE DEF At
<1>3. f \in [1 .. n -> S]
  BY <1>2
<1>4. ASSUME NEW k \in 1 .. n, NEW m \in 1 .. n, k < m PROVE f[k] < f[m]
  <2>1. f[k] = At(k) /\ f[m] = At(m) /\ At(k) # At(m) /\ k \in Nat /\ m \in Nat
    BY <1>1, <1>2, <1>4
  <2>2. ASSUME At(m) < At(k) PROVE FALSE
    <3>1. Rank(S, At(m)) < Rank(S, At(k))
      BY <1>2, <2>2, RankFacts
    <3> QED
      BY <1>2, <1>4, <2>1, <3>1
  <2> QED
    BY <1>2, <2>1, <2>2
<1> HIDE DEF f, n
<1>5. DOMAIN f = 1 .. n
  BY <1>3
<1> DEFINE Ordered(s) == \A k, m \in DOMAIN s : k < m => s[k] < s[m]
<1>6. f \in [1 .. n -> S] /\ Ordered(f)
  BY <1>3, <1>4, <1>5
<1>7. ById(S) = CHOOSE s \in [1 .. n -> S] : Ordered(s)
  BY DEF ById, n
<1> HIDE DEF Ordered
<1>8. ById(S) \in [1 .. n -> S]
  BY <1>6, <1>7
<1> QED
  BY <1>1, <1>8 DEF n

\* A finite set of numbers has a greatest one.
LEMMA MaxFacts ==
  ASSUME NEW S \in SUBSET Nat, IsFiniteSet(S), S # {}
  PROVE  Max(S) \in S /\ \A x \in S : x <= Max(S)
<1>1. Cardinality(S) \in 1 .. Cardinality(S)
  BY FS_CardinalityType, FS_EmptySet
<1>2. PICK x \in S : Rank(S, x) = Cardinality(S)
  BY <1>1, RankFacts
<1>3. ASSUME NEW y \in S PROVE x >= y
  BY <1>2, <1>3, RankFacts, FS_CardinalityType
<1> QED
  BY <1>3 DEF Max

-----------------------------------------------------------------------------
(***************************************************************************)
(* SiteWatch: the invariant holds at first, and every step keeps it.       *)
(***************************************************************************)
LEMMA WatchInitially == WatchInit => WatchInv
<1> SUFFICES ASSUME WatchInit PROVE WatchInv
  OBVIOUS
<1> USE SiteAssumption DEF WatchInit
<1>1. Ids = {} /\ Cardinality(Ids) = 0
  BY FS_EmptySet DEF Ids
<1>2. run.pc = "idle" /\ ListHeld
  BY DEF NoRun, ListHeld
<1>3. WatchTypeOK
  BY <1>1, <1>2 DEF WatchTypeOK, ListHeld
<1> QED
  BY <1>1, <1>2, <1>3 DEF WatchInv, CursorCovered, NothingSwallowed

\* The table has finitely many rows.
LEMMA FiniteTable ==
  ASSUME WatchInv
  PROVE  Ids \in SUBSET Nat /\ IsFiniteSet(Ids) /\ Cardinality(Ids) \in Nat
<1>1. Ids \subseteq 1 .. MaxId /\ MaxId \in Nat
  BY SiteAssumption DEF WatchInv, WatchTypeOK
<1>2. IsFiniteSet(1 .. MaxId)
  BY <1>1, FS_Interval
<1>3. Ids \in SUBSET Nat /\ Ids \in SUBSET (1 .. MaxId)
  BY <1>1
<1>4. IsFiniteSet(Ids)
  BY <1>2, <1>3, FS_Subset
<1> QED
  BY <1>3, <1>4, FS_CardinalityType

\* A step that changes the run only has to keep the run in order.
LEMMA RunChanges ==
  ASSUME WatchInv, ListHeld', CursorCovered', UNCHANGED <<page, sites, stored, silent>>
  PROVE  WatchInv'
<1>1. UNCHANGED Ids
  BY DEF Ids
<1>2. WatchTypeOK'
  BY <1>1 DEF WatchInv, WatchTypeOK, ListHeld
<1>3. NothingSwallowed'
  BY <1>1 DEF WatchInv, NothingSwallowed
<1> QED
  BY <1>2, <1>3 DEF WatchInv

\* A step that changes the table only has to keep the table in order.
LEMMA TableChanges ==
  ASSUME WatchInv, UNCHANGED <<page, stored, run, silent>>,
         Ids' \subseteq 1 .. MaxId, Cardinality(Ids') <= MaxSites,
         \A i \in Ids' : /\ sites'[i] \in Row /\ Len(sites'[i].cursor) <= MaxCursor
                         /\ ToSet(sites'[i].cursor) \subseteq stored \union silent
  PROVE  WatchInv'
<1>1. WatchTypeOK'
  BY DEF WatchInv, WatchTypeOK
<1>2. ListHeld' /\ CursorCovered'
  BY DEF WatchInv, ListHeld, CursorCovered
<1>3. NothingSwallowed'
  BY DEF NothingSwallowed
<1> QED
  BY <1>1, <1>2, <1>3 DEF WatchInv

\* An empty run has a list, nothing to store and nothing written down.
LEMMA EmptyRun ==
  /\ NoRun \in [pc : {"down", "idle", "open", "reading", "storing"}, list : Seq(Site),
                left : SUBSET Blocks, cursor : Seq(Blocks)]
  /\ NoRun.pc = "idle"
  BY DEF NoRun

\* The run goes on with the next site, or is over.
LEMMA NextSite ==
  ASSUME WatchInv, run.pc \in {"reading", "storing"}, run' = Rest,
         UNCHANGED <<page, sites, stored, silent>>
  PROVE  WatchInv'
<1>1. run.list \in Seq(Site) /\ run.list # <<>>
  BY DEF WatchInv, ListHeld
<1>2. Tail(run.list) \in Seq(Site)
  BY <1>1
<1>3. ListHeld' /\ run'.pc # "storing"
  BY <1>2, EmptyRun DEF Rest, ListHeld
<1> QED
  BY <1>3, RunChanges DEF CursorCovered

LEMMA WatchPublishKeeps ==
  ASSUME WatchInv, NEW b \in Blocks, Publish(b)
  PROVE  WatchInv'
<1> USE DEF Publish
<1>1. UNCHANGED Ids
  BY DEF Ids
<1>2. WatchTypeOK'
  BY <1>1 DEF WatchInv, WatchTypeOK
<1> QED
  BY <1>1, <1>2 DEF WatchInv, ListHeld, CursorCovered, NothingSwallowed

LEMMA AddKeeps ==
  ASSUME WatchInv, NEW u \in Urls, NEW m \in {"mentions", "all"}, Add(u, m)
  PROVE  WatchInv'
<1> DEFINE id == IF Ids = {} THEN 1 ELSE Max(Ids) + 1
<1>1. id \in 1 .. MaxId
  BY SiteAssumption, FiniteTable, MaxFacts DEF Add
<1>2. id \notin Ids
  BY FiniteTable, MaxFacts
<1> HIDE DEF id
<1>3. /\ UNCHANGED <<page, stored, run, silent>> /\ Cardinality(Ids) < MaxSites
      /\ sites' = [i \in Ids \union {id} |->
                     IF i = id THEN [url |-> u, mode |-> m, cursor |-> <<>>, visited |-> FALSE]
                               ELSE sites[i]]
  BY DEF Add, id
<1>4. Ids' = Ids \union {id}
  BY <1>3 DEF Ids
<1>5. Ids' \subseteq 1 .. MaxId
  BY <1>1, <1>4 DEF WatchInv, WatchTypeOK
<1>6. Cardinality(Ids') <= MaxSites
  <2>1. IsFiniteSet(Ids) /\ Cardinality(Ids) \in Nat
    BY FiniteTable
  <2>2. Cardinality(Ids \union {id}) = Cardinality(Ids) + 1
    BY <1>2, <2>1, FS_AddElement
  <2> QED
    BY <1>3, <1>4, <2>1, <2>2, SiteAssumption
<1>7. ASSUME NEW i \in Ids'
      PROVE  /\ sites'[i] \in Row /\ Len(sites'[i].cursor) <= MaxCursor
             /\ ToSet(sites'[i].cursor) \subseteq stored \union silent
  <2>1. CASE i = id
    <3>1. sites'[i] = [url |-> u, mode |-> m, cursor |-> <<>>, visited |-> FALSE]
      BY <1>3, <1>4, <1>7, <2>1
    <3>2. sites'[i] \in Row /\ sites'[i].cursor = <<>>
      BY <3>1 DEF Row
    <3>3. Len(<<>>) = 0 /\ ToSet(<<>>) = {}
      BY DEF ToSet
    <3> QED
      BY <3>2, <3>3, SiteAssumption
  <2>2. CASE i # id
    <3>1. i \in Ids /\ sites'[i] = sites[i]
      BY <1>3, <1>4, <1>7, <2>2
    <3> QED
      BY <3>1 DEF WatchInv, WatchTypeOK, NothingSwallowed
  <2> QED
    BY <2>1, <2>2
<1> QED
  BY <1>3, <1>5, <1>6, <1>7, TableChanges

LEMMA RemoveSiteKeeps ==
  ASSUME WatchInv, NEW id \in Ids, RemoveSite(id)
  PROVE  WatchInv'
<1> USE DEF RemoveSite
<1>1. Ids' = Ids \ {id}
  BY DEF Ids
<1>2. Ids' \subseteq 1 .. MaxId /\ Ids' \in SUBSET Ids
  BY <1>1 DEF WatchInv, WatchTypeOK
<1>3. Cardinality(Ids') <= Cardinality(Ids) /\ Cardinality(Ids') \in Nat
  BY <1>2, FiniteTable, FS_Subset, FS_CardinalityType
<1>4. Cardinality(Ids') <= MaxSites
  BY <1>3, FiniteTable, SiteAssumption DEF WatchInv, WatchTypeOK
<1>5. \A i \in Ids' : sites'[i] = sites[i]
  BY <1>1
<1> QED
  BY <1>2, <1>4, <1>5, TableChanges DEF WatchInv, WatchTypeOK, NothingSwallowed

LEMMA StartRunKeeps ==
  ASSUME WatchInv, StartRun
  PROVE  WatchInv'
<1> DEFINE order == ById(Ids)
           list  == [n \in DOMAIN order |->
                       [id |-> order[n], url |-> sites[order[n]].url,
                        mode |-> sites[order[n]].mode]]
<1>1. order \in Seq(Ids) /\ Len(order) # 0
  BY FiniteTable, ByIdFacts, FS_EmptySet DEF StartRun
<1> HIDE DEF order
<1>2. ASSUME NEW n \in DOMAIN order PROVE list[n] \in Site
  <2>1. order[n] \in Ids
    BY <1>1
  <2>2. order[n] \in 1 .. MaxId /\ sites[order[n]] \in Row
    BY <2>1 DEF WatchInv, WatchTypeOK
  <2> QED
    BY <2>2 DEF Row, Site
<1>3. list \in Seq(Site) /\ list # <<>>
  <2>1. DOMAIN order = 1 .. Len(order) /\ Len(order) \in Nat
    BY <1>1
  <2>2. list \in [1 .. Len(order) -> Site]
    BY <1>2, <2>1
  <2>3. list \in Seq(Site) /\ Len(list) = Len(order)
    BY <2>1, <2>2
  <2> QED
    BY <1>1, <2>3
<1>4. run' = [NoRun EXCEPT !.pc = "open", !.list = list] /\ UNCHANGED <<page, sites, stored, silent>>
  BY DEF StartRun, order
<1> HIDE DEF list
<1>5. ListHeld' /\ run'.pc # "storing"
  BY <1>3, <1>4, EmptyRun DEF ListHeld
<1> QED
  BY <1>4, <1>5, RunChanges DEF CursorCovered

LEMMA OpenedKeeps ==
  ASSUME WatchInv, Opened \/ OpenFails \/ RecordFails
  PROVE  WatchInv'
<1>1. ListHeld' /\ run'.pc # "storing" /\ UNCHANGED <<page, sites, stored, silent>>
  BY EmptyRun DEF WatchInv, ListHeld, Opened, OpenFails, RecordFails
<1> QED
  BY <1>1, RunChanges DEF CursorCovered

LEMMA StopKeeps ==
  ASSUME WatchInv, RunCrash \/ Restart
  PROVE  WatchInv'
<1>1. ListHeld' /\ run'.pc # "storing" /\ UNCHANGED <<page, sites, stored, silent>>
  BY EmptyRun DEF WatchInv, ListHeld, RunCrash, Restart
<1> QED
  BY <1>1, RunChanges DEF CursorCovered

\* The elements of two sequences in a row.
LEMMA ConcatElements ==
  ASSUME NEW S, NEW s \in Seq(S), NEW t \in Seq(S)
  PROVE  s \o t \in Seq(S) /\ ToSet(s \o t) = ToSet(s) \union ToSet(t)
<1>1. /\ s \o t \in Seq(S) /\ Len(s \o t) = Len(s) + Len(t)
      /\ \A k \in 1 .. Len(s) : (s \o t)[k] = s[k]
      /\ \A k \in 1 .. Len(t) : (s \o t)[Len(s) + k] = t[k]
  OBVIOUS
<1>2. /\ DOMAIN s = 1 .. Len(s) /\ DOMAIN t = 1 .. Len(t) /\ Len(s) \in Nat /\ Len(t) \in Nat
      /\ DOMAIN (s \o t) = 1 .. Len(s) + Len(t)
  BY <1>1
<1>3. ASSUME NEW k \in DOMAIN (s \o t) PROVE (s \o t)[k] \in ToSet(s) \union ToSet(t)
  <2>1. CASE k <= Len(s)
    BY <1>1, <1>2, <2>1 DEF ToSet
  <2>2. CASE ~ (k <= Len(s))
    <3>1. k - Len(s) \in 1 .. Len(t) /\ k = Len(s) + (k - Len(s))
      BY <1>2, <2>2
    <3> QED
      BY <1>1, <1>2, <3>1 DEF ToSet
  <2> QED
    BY <2>1, <2>2
<1>4. ASSUME NEW k \in DOMAIN s PROVE s[k] \in ToSet(s \o t)
  <2>1. k \in DOMAIN (s \o t) /\ (s \o t)[k] = s[k]
    BY <1>1, <1>2
  <2> QED
    BY <2>1 DEF ToSet
<1>5. ASSUME NEW k \in DOMAIN t PROVE t[k] \in ToSet(s \o t)
  <2>1. Len(s) + k \in DOMAIN (s \o t) /\ (s \o t)[Len(s) + k] = t[k]
    BY <1>1, <1>2
  <2> QED
    BY <2>1 DEF ToSet
<1> QED
  BY <1>1, <1>3, <1>4, <1>5 DEF ToSet

\* What a visit finds is kept to be stored, or left out on purpose; the rest of
\* the cursor is the one in the table, which is covered already.
LEMMA WatchReadKeeps ==
  ASSUME WatchInv, ReadPage
  PROVE  WatchInv'
<1> DEFINE seen == IF Visit.id \in Ids THEN sites[Visit.id].cursor ELSE <<>>
           more == Additions(Visit.url, seen)
           kept == Kept(Visit.mode, Reported(Visit.url, seen))
<1>1. run.list \in Seq(Site) /\ run.list # <<>> /\ Visit \in Site
  BY DEF WatchInv, ListHeld, Visit, ReadPage
<1>2. Visit.url \in Urls
  BY <1>1 DEF Site
<1>3. seen \in Seq(Blocks) /\ ToSet(seen) \subseteq stored \union silent
  <2>1. CASE Visit.id \in Ids
    BY <2>1 DEF WatchInv, WatchTypeOK, NothingSwallowed, Row
  <2>2. CASE Visit.id \notin Ids
    BY <2>2 DEF ToSet
  <2> QED
    BY <2>1, <2>2
<1>4. more \in SUBSET Blocks
  BY <1>2 DEF WatchInv, WatchTypeOK, Additions
<1>5. kept \in SUBSET more
  BY DEF Kept, Reported
<1> HIDE DEF seen, more, kept
<1>6. IsFiniteSet(more)
  BY <1>4, SiteAssumption, FS_Subset
<1>7. SetToSeq(more) \in Seq(Blocks) /\ ToSet(SetToSeq(more)) = more
  <2>1. SetToSeq(more) \in Seq(more) /\ ToSet(SetToSeq(more)) = more
    BY <1>6, SetToSeqFacts
  <2> QED
    BY <1>4, <2>1
<1>8. seen \o SetToSeq(more) \in Seq(Blocks)
      /\ ToSet(seen \o SetToSeq(more)) = ToSet(seen) \union more
  BY <1>3, <1>7, ConcatElements
<1>9. /\ run' = [run EXCEPT !.pc = "storing", !.left = kept, !.cursor = seen \o SetToSeq(more)]
      /\ silent' = silent \union (more \ kept)
      /\ UNCHANGED <<page, sites, stored>>
  BY DEF ReadPage, seen, more, kept
<1>10. UNCHANGED Ids
  BY <1>9 DEF Ids
<1>11. ListHeld'
  BY <1>1, <1>4, <1>5, <1>8, <1>9 DEF WatchInv, ListHeld
<1>12. CursorCovered'
  <2>1. run'.cursor = seen \o SetToSeq(more) /\ run'.left = kept
    BY <1>9 DEF WatchInv, ListHeld
  <2> QED
    BY <1>3, <1>5, <1>8, <1>9, <2>1 DEF CursorCovered
<1>13. WatchTypeOK'
  BY <1>4, <1>9, <1>10, <1>11 DEF WatchInv, WatchTypeOK, ListHeld
<1>14. NothingSwallowed'
  BY <1>9, <1>10 DEF WatchInv, NothingSwallowed
<1> QED
  BY <1>11, <1>12, <1>13, <1>14 DEF WatchInv

LEMMA StoreNextKeeps ==
  ASSUME WatchInv, StoreNext
  PROVE  WatchInv'
<1>1. PICK b \in run.left : stored' = stored \union {b} /\ run' = [run EXCEPT !.left = @ \ {b}]
  BY DEF StoreNext
<1>2. UNCHANGED <<page, sites, silent>> /\ b \in Blocks /\ run.pc = "storing"
  BY DEF StoreNext, WatchInv, ListHeld
<1>3. UNCHANGED Ids
  BY <1>2 DEF Ids
<1>4. ListHeld' /\ run'.cursor = run.cursor /\ run'.left = run.left \ {b}
  BY <1>1, <1>2 DEF WatchInv, ListHeld
<1>5. CursorCovered'
  BY <1>1, <1>2, <1>4 DEF WatchInv, CursorCovered
<1>6. WatchTypeOK'
  BY <1>1, <1>2, <1>3, <1>4 DEF WatchInv, WatchTypeOK, ListHeld
<1>7. NothingSwallowed'
  BY <1>1, <1>2, <1>3 DEF WatchInv, NothingSwallowed
<1> QED
  BY <1>4, <1>5, <1>6, <1>7 DEF WatchInv

\* A capped cursor has as many entries as a cursor may have, all of them old.
LEMMA CappedFacts ==
  ASSUME NEW s \in Seq(Blocks)
  PROVE  Capped(s) \in Seq(Blocks) /\ Len(Capped(s)) <= MaxCursor /\ ToSet(Capped(s)) \subseteq ToSet(s)
<1> DEFINE size == Len(s)
           from == IF size > MaxCursor THEN size - MaxCursor + 1 ELSE 1
<1>1. size \in Nat /\ MaxCursor \in Nat \ {0}
  BY SiteAssumption
<1>2. from \in 1 .. size + 1 /\ size + 1 - from <= MaxCursor
  BY <1>1
<1>3. Capped(s) = SubSeq(s, from, size)
  BY DEF Capped
<1> HIDE DEF from
<1>4. /\ Capped(s) \in Seq(Blocks) /\ Len(Capped(s)) = size + 1 - from
      /\ \A k \in 1 .. Len(Capped(s)) : Capped(s)[k] = s[from + k - 1]
  BY <1>1, <1>2, <1>3
<1>5. ASSUME NEW k \in DOMAIN Capped(s) PROVE Capped(s)[k] \in ToSet(s)
  <2>1. k \in 1 .. Len(Capped(s))
    BY <1>4
  <2>2. from + k - 1 \in DOMAIN s
    BY <1>1, <1>2, <1>4, <2>1
  <2> QED
    BY <1>4, <2>1, <2>2 DEF ToSet
<1> QED
  BY <1>2, <1>4, <1>5 DEF ToSet

\* The cursor is saved when all that was to be stored is.
LEMMA SaveCursorKeeps ==
  ASSUME WatchInv, SaveCursor
  PROVE  WatchInv'
<1>1. /\ run.pc = "storing" /\ run.left = {} /\ run' = Rest /\ UNCHANGED <<page, stored, silent>>
      /\ run.cursor \in Seq(Blocks)
  BY DEF SaveCursor, AllStored, WatchInv, ListHeld
<1>2. ToSet(run.cursor) \subseteq stored \union silent
  BY <1>1 DEF WatchInv, CursorCovered
<1>3. Ids' = Ids
  BY DEF SaveCursor, Ids
<1>4. ASSUME NEW i \in Ids
      PROVE  /\ sites'[i] \in Row /\ Len(sites'[i].cursor) <= MaxCursor
             /\ ToSet(sites'[i].cursor) \subseteq stored \union silent
  <2>1. CASE i = Visit.id
    <3>1. sites[i] \in Row
      BY DEF WatchInv, WatchTypeOK
    <3>2. sites'[i] = [sites[i] EXCEPT !.cursor = Capped(run.cursor),
                                       !.visited = @ \/ sites[i].url = Visit.url]
      BY <2>1 DEF SaveCursor
    <3> DEFINE seen == sites[i].visited \/ sites[i].url = Visit.url
    <3>3. seen \in BOOLEAN
      OBVIOUS
    <3>4. sites'[i] = [url |-> sites[i].url, mode |-> sites[i].mode,
                       cursor |-> Capped(run.cursor), visited |-> seen]
      BY <3>1, <3>2 DEF Row
    <3> HIDE DEF seen
    <3>5. sites'[i] \in Row /\ sites'[i].cursor = Capped(run.cursor)
      BY <1>1, <3>1, <3>3, <3>4, CappedFacts DEF Row
    <3> QED
      BY <1>1, <1>2, <3>5, CappedFacts
  <2>2. CASE i # Visit.id
    <3>1. sites'[i] = sites[i]
      BY <2>2 DEF SaveCursor
    <3> QED
      BY <3>1 DEF WatchInv, WatchTypeOK, NothingSwallowed
  <2> QED
    BY <2>1, <2>2
<1>5. Tail(run.list) \in Seq(Site)
  BY <1>1 DEF WatchInv, ListHeld
<1>6. ListHeld' /\ run'.pc # "storing"
  BY <1>1, <1>5, EmptyRun DEF Rest, ListHeld
<1>7. WatchTypeOK'
  BY <1>1, <1>3, <1>4, <1>6 DEF WatchInv, WatchTypeOK, ListHeld
<1>8. NothingSwallowed'
  BY <1>1, <1>3, <1>4 DEF NothingSwallowed
<1> QED
  BY <1>6, <1>7, <1>8 DEF WatchInv, CursorCovered

LEMMA WatchStepKeeps ==
  ASSUME WatchInv, [WatchNext]_watchVars
  PROVE  WatchInv'
<1>1. CASE UNCHANGED watchVars
  BY <1>1 DEF watchVars, WatchInv, WatchTypeOK, ListHeld, CursorCovered, NothingSwallowed, Ids
<1>2. CASE Restart \/ RunCrash
  BY <1>2, StopKeeps
<1>3. CASE StartRun
  BY <1>3, StartRunKeeps
<1>4. CASE Opened \/ OpenFails \/ RecordFails
  BY <1>4, OpenedKeeps
<1>5. CASE ReadPage
  BY <1>5, WatchReadKeeps
<1>6. CASE StoreNext
  BY <1>6, StoreNextKeeps
<1>7. CASE SaveCursor
  BY <1>7, SaveCursorKeeps
<1>8. CASE \E u \in Urls : VisitFails(u)
  BY <1>8, NextSite DEF VisitFails
<1>9. CASE \E u \in Urls : \E m \in {"mentions", "all"} : Add(u, m)
  BY <1>9, AddKeeps
<1>10. CASE \E i \in Ids : RemoveSite(i)
  BY <1>10, RemoveSiteKeeps
<1>11. CASE \E b \in Blocks : Publish(b)
  BY <1>11, WatchPublishKeeps
<1> QED
  BY <1>1, <1>2, <1>3, <1>4, <1>5, <1>6, <1>7, <1>8, <1>9, <1>10, <1>11 DEF WatchNext, Work

LEMMA WatchAlways == WatchSpec => []WatchInv
<1>1. WatchInit => WatchInv
  BY WatchInitially
<1>2. WatchInv /\ [WatchNext]_watchVars => WatchInv'
  BY WatchStepKeeps
<1> QED
  BY <1>1, <1>2, PTL DEF WatchSpec

\* The state of the site watch is of its type; the table and the cursors keep
\* within their limits (MAX_SITES, MAX_CURSOR_ENTRIES).
THEOREM WatchTypeCorrect == WatchSpec => []WatchTypeOK
<1>1. WatchInv => WatchTypeOK
  BY DEF WatchInv
<1> QED
  BY <1>1, WatchAlways, PTL

\* A block enters the cursor of a site only when it was stored, or when the
\* visit meant to leave it out: inserts come before saveCursor, in every order of
\* visits, failures, crashes and changes to the table.
THEOREM BlocksKept == WatchSpec => []NothingSwallowed
<1>1. WatchInv => NothingSwallowed
  BY DEF WatchInv
<1> QED
  BY <1>1, WatchAlways, PTL
=============================================================================
