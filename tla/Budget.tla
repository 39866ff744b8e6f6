------------------------------- MODULE Budget -------------------------------
(***************************************************************************)
(* The daily token budget (aha/usage/budget.ts and the ledger it sums up). *)
(* A call of the model is allowed while the tokens of a day are below the  *)
(* budget, and charged to the day on which its answer comes; between the   *)
(* two the other process checks and charges too.  The owner is warned at   *)
(* 80 and at 100 per cent, once a day each.                                *)
(*                                                                         *)
(* The worker classifies and then writes drafts; a call of aha_digest_now  *)
(* classifies only, with a clock that stays at the start of the call.      *)
(***************************************************************************)
EXTENDS Naturals, FiniteSets

CONSTANTS
  Worker, Tools,  \* the worker, and calls of aha_digest_now
  Budget,         \* tokenBudget
  Costs,          \* what an answered call may cost
  MaxCost,
  MaxDay,         \* bound on the UTC days
  MaxCrashes,     \* bound on the crashes
  Live            \* a clock that runs

Callers == Tools \union {Worker}
Days    == 1 .. MaxDay
Marks   == {80, 100}

ASSUME BudgetAssumption ==
  /\ Worker \notin Tools /\ IsFiniteSet(Tools)
  /\ {Budget, MaxDay} \subseteq Nat \ {0} /\ {MaxCost, MaxCrashes} \subseteq Nat
  /\ Costs \subseteq 0 .. MaxCost /\ Live \notin Days

VARIABLES
  today,
  used,     \* day -> the tokens in the usage ledger
  call,     \* what each caller is at
  notice,   \* the deliveries of the keys budget:<day>:<mark>; "unsent": none, or failed
  crashes,
  outrun    \* ghost: days charged by calls that another day's total allowed

vars == <<today, used, call, notice, crashes, outrun>>

Idle == [pc |-> "idle", clock |-> Live, due |-> {}, late |-> FALSE]

\* More tokens than calls that overlap can spend are not counted.
Most == Budget + Cardinality(Callers) * MaxCost

TypeOK ==
  /\ today \in Days /\ used \in [Days -> 0 .. Most]
  /\ call \in [Callers -> [pc : {"idle", "warn", "tell", "check", "model", "draft", "write"},
                           clock : Days \union {Live}, due : SUBSET Marks, late : BOOLEAN]]
  /\ notice \in [Days \X Marks -> {"unsent", "sent", "uncertain"}]
  /\ crashes \in 0 .. MaxCrashes /\ outrun \subseteq Days
  /\ \A t \in Tools : call[t].pc # "idle" => call[t].clock \in 1 .. today
  /\ \A d \in Days : d > today => used[d] = 0

Init ==
  /\ today = 1 /\ used = [d \in Days |-> 0] /\ call = [c \in Callers |-> Idle]
  /\ notice = [k \in Days \X Marks |-> "unsent"] /\ crashes = 0 /\ outrun = {}

-----------------------------------------------------------------------------
\* deps.now, or the clock.
Day(c) == IF call[c].clock = Live THEN today ELSE call[c].clock

\* classifyAllowed, llmAllowed
Allowed_After(d) == used[d] < Budget + MaxCost
Allowed(d) == used[d] < Budget

Reached(d, m) == 100 * used[d] >= m * Budget

Goto(c, pc) == call' = [call EXCEPT ![c].pc = pc]

(***************************************************************************)
(* classifyNewItems: a warning, and a check before each batch.             *)
(***************************************************************************)
ClockOf(c) == IF c = Worker THEN Live ELSE today

StartPass(c) ==
  /\ call[c].pc = "idle"
  /\ call' = [call EXCEPT ![c] = [Idle EXCEPT !.pc = "warn", !.clock = ClockOf(c)]]
  /\ UNCHANGED <<today, used, notice, crashes, outrun>>

\* warnBudgetIfNeeded reads the ledger once.
Due(d) == {m \in Marks : Reached(d, m)}

Warn(c) ==
  /\ call[c].pc = "warn"
  /\ call' = [call EXCEPT ![c].pc = "tell", ![c].due = Due(Day(c)),
                          ![c].clock = IF @ = Live THEN today ELSE @]
  /\ UNCHANGED <<today, used, notice, crashes, outrun>>

\* sendToChat, for the lower mark first.
Next80(c) == IF 80 \in call[c].due THEN 80 ELSE 100

Key_NoDay(c) == <<1, Next80(c)>>
Key(c) == <<call[c].clock, Next80(c)>>

AfterTell(c) == call' = [call EXCEPT ![c].due = @ \ {Next80(c)}]

Told(c) ==
  /\ call[c].pc = "tell" /\ call[c].due # {}
  /\ notice[Key(c)] \notin {"sent", "uncertain"}
  /\ notice' = [notice EXCEPT ![Key(c)] = "sent"]
  /\ AfterTell(c)
  /\ UNCHANGED <<today, used, crashes, outrun>>

NotTold(c) ==
  /\ call[c].pc = "tell" /\ call[c].due # {}
  /\ IF notice[Key(c)] \in {"sent", "uncertain"} THEN UNCHANGED notice
     ELSE \E s \in {"unsent", "uncertain"} : notice' = [notice EXCEPT ![Key(c)] = s]
  /\ AfterTell(c)
  /\ UNCHANGED <<today, used, crashes, outrun>>

EndWarn(c) ==
  /\ call[c].pc = "tell" /\ call[c].due = {}
  /\ call' = [call EXCEPT ![c].pc = "check", ![c].clock = IF c = Worker THEN Live ELSE @]
  /\ UNCHANGED <<today, used, notice, crashes, outrun>>

\* A batch of items, if there are any.
AskVerdict(c) ==
  /\ call[c].pc = "check" /\ Allowed(Day(c))
  /\ call' = [call EXCEPT ![c].pc = "model", ![c].late = Day(c) # today]
  /\ UNCHANGED <<today, used, notice, crashes, outrun>>

\* The worker writes drafts next, with the clock of that stage's start.
EndPass(c) ==
  /\ call[c].pc = "check"
  /\ call' = [call EXCEPT ![c] = IF c = Worker THEN [Idle EXCEPT !.pc = "draft", !.clock = today]
                                 ELSE Idle]
  /\ UNCHANGED <<today, used, notice, crashes, outrun>>

\* complete and recordUsage: the answer's tokens are charged when it comes, if
\* one comes and the ledger can be written.
AfterModel(c) == Goto(c, IF call[c].pc = "model" THEN "warn" ELSE "draft")

Charge(c, n) ==
  /\ call[c].pc \in {"model", "write"}
  /\ used' = [used EXCEPT ![today] = IF @ + n < Most THEN @ + n ELSE Most]
  /\ outrun' = IF call[c].late THEN outrun \union {today} ELSE outrun
  /\ AfterModel(c)
  /\ UNCHANGED <<today, notice, crashes>>

NoAnswer(c) ==
  /\ call[c].pc \in {"model", "write"}
  /\ AfterModel(c)
  /\ UNCHANGED <<today, used, notice, crashes, outrun>>

(***************************************************************************)
(* draftAndNotify asks with the clock of the stage, draftReply with a      *)
(* running one.                                                            *)
(***************************************************************************)
AskDraft ==
  /\ call[Worker].pc = "draft" /\ Allowed(Day(Worker)) /\ Allowed(today)
  /\ call' = [call EXCEPT ![Worker].pc = "write", ![Worker].late = FALSE]
  /\ UNCHANGED <<today, used, notice, crashes, outrun>>

EndRound ==
  /\ call[Worker].pc = "draft"
  /\ call' = [call EXCEPT ![Worker] = Idle]
  /\ UNCHANGED <<today, used, notice, crashes, outrun>>

-----------------------------------------------------------------------------
\* retryUncertainDeliveries
Settle(k) ==
  /\ notice[k] = "uncertain"
  /\ \E s \in {"sent", "unsent"} : notice' = [notice EXCEPT ![k] = s]
  /\ UNCHANGED <<today, used, call, crashes, outrun>>

Midnight ==
  /\ today < MaxDay
  /\ today' = today + 1
  /\ UNCHANGED <<used, call, notice, crashes, outrun>>

\* A call whose answer is not awaited any more is not charged.
Crash ==
  /\ crashes < MaxCrashes
  /\ crashes' = crashes + 1
  /\ call' = [c \in Callers |-> Idle]
  /\ UNCHANGED <<today, used, notice, outrun>>

Step(c) ==
  \/ StartPass(c) \/ Warn(c) \/ Told(c) \/ NotTold(c) \/ EndWarn(c)
  \/ AskVerdict(c) \/ EndPass(c)
  \/ \E n \in Costs : Charge(c, n)
  \/ NoAnswer(c)

WorkerStep == Step(Worker) \/ AskDraft \/ EndRound

Next ==
  \/ WorkerStep
  \/ \E t \in Tools : Step(t)
  \/ \E k \in Days \X Marks : Settle(k)
  \/ Midnight \/ Crash

Spec == Init /\ [][Next]_vars

\* The worker's rounds and its retries of messages go on, and Plow takes a
\* message that is sent again and again.
Fairness ==
  /\ WF_vars(WorkerStep)
  /\ \A k \in Days \X Marks :
       /\ WF_vars(Settle(k))
       /\ SF_vars(\E c \in Callers : Told(c) /\ Key(c) = k)

FairSpec == Spec /\ Fairness

-----------------------------------------------------------------------------
(***************************************************************************)
(* Properties.                                                             *)
(***************************************************************************)
\* The budget is checked before a call and charged after it, in two processes:
\* a day is overspent by no more than a call of each caller, unless a tool
\* went on with the clock of the day before.
OvershootBounded == \A d \in Days \ outrun : used[d] < Most

\* When the tokens of a day are used up the owner is told, that day.
ExhaustionIsTold ==
  \A d \in Days :
    (used[d] >= Budget /\ today = d) ~> (notice[<<d, 100>>] = "sent" \/ today # d)

\* "Classification and drafts stop" (budget.ts:54): no call is begun on a day
\* whose tokens are used up.
ExhaustedStops ==
  [][\A c \in Callers :
       call[c].pc \notin {"model", "write"} /\ call'[c].pc \in {"model", "write"}
         => used[today] < Budget]_vars
=============================================================================
