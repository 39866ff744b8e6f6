--------------------------- MODULE PromisesProofs ---------------------------
(***************************************************************************)
(* TypeOK, ClosedAsTold and ClosedForGood of Promises, for any promises,   *)
(* members, chats, counts and bounds. That a chat was told is only kept in *)
(* the deliveries and in the outcomes of the round, so both are shown to   *)
(* say no more than what Plow took; and a proposal is shown to be the only *)
(* one of a promise that is not open yet.                                  *)
(***************************************************************************)
EXTENDS Promises, TLAPS

\* What the database and the round believe to have been told was told.
SentWasTold == \A t \in Texts : row[t] = "sent" => t \in told

RoundFits ==
  run.pc = "telling" =>
    /\ run.deal \in Deals /\ run.verdict \in Verdicts /\ run.dests # {}
    /\ run.ok => \A c \in run.dests \ run.left : <<run.deal, run.verdict, c>> \in told

\* A proposal is of a promise not yet open, and the only one of it.
ProposalsFit ==
  \A n \in Ids : proposal[n] # None =>
    /\ status[proposal[n]] = "proposed"
    /\ \A m \in Ids : proposal[m] = proposal[n] => m = n

Inv == TypeOK /\ SentWasTold /\ RoundFits /\ ProposalsFit

\* How a step may change what a promise has come to.
Moves ==
  \A d \in Deals : status'[d] # status[d] =>
    \/ status[d] = "none" \/ status[d] = "proposed"
    \/ /\ status[d] = "open" /\ status'[d] = run.verdict /\ run.deal = d
       /\ run.dests # {} /\ \A c \in run.dests : <<d, run.verdict, c>> \in told

RunType == [pc : {"idle", "between", "telling"}, todo : SUBSET (Deals \X Verdicts),
            chats : SUBSET Chats, deal : Deals \union {None},
            verdict : Verdicts \union {None}, dests : SUBSET Chats,
            left : SUBSET Chats, ok : BOOLEAN]

-----------------------------------------------------------------------------
\* Init establishes the invariant.
LEMMA InitInv == Init => Inv
<1> SUFFICES ASSUME Init PROVE Inv
  OBVIOUS
<1>1. reading \in [{} -> Counts] /\ {} \in SUBSET Soon
  BY DEF Init
<1>2. run \in RunType /\ run.left = {} /\ run.dests = {} /\ run.pc = "idle"
  BY DEF Init, Idle, RunType
<1>3. recounts \in 0 .. MaxRecounts /\ crashes \in 0 .. MaxCrashes
  BY PromisesAssumption DEF Init
<1>4. /\ proposal \in [Ids -> Deals \union {None}]
      /\ status \in [Deals -> {"none", "proposed", "open"} \union Verdicts]
      /\ chats \subseteq Chats /\ told \subseteq Texts
      /\ row \in [Texts -> {"unsent", "uncertain", "sent"}]
  BY DEF Init
<1>5. TypeOK
  BY <1>1, <1>2, <1>3, <1>4 DEF Init, TypeOK, RunType
<1>6. SentWasTold /\ RoundFits /\ ProposalsFit
  BY <1>2 DEF Init, SentWasTold, RoundFits, ProposalsFit
<1> QED
  BY <1>5, <1>6 DEF Inv

-----------------------------------------------------------------------------
(***************************************************************************)
(* The tools, and the world.                                               *)
(***************************************************************************)
\* A new proposal is the only one of its promise.
LEMMA ProposeStep ==
  ASSUME Inv, NEW d \in Deals, Propose(d)
  PROVE  Inv' /\ Moves
<1>1. PICK n \in Ids : NextId(n) /\ proposal' = [proposal EXCEPT ![n] = d]
  BY DEF Propose
<1>2. TypeOK'
  BY <1>1 DEF Propose, Inv, TypeOK, base
<1>3. SentWasTold' /\ RoundFits'
  BY DEF Propose, Inv, SentWasTold, RoundFits
<1>4. \A m \in Ids : proposal[m] # d
  BY PromisesAssumption DEF Propose, Inv, ProposalsFit
<1>5. ProposalsFit'
  BY <1>1, <1>4, PromisesAssumption DEF Propose, Inv, TypeOK, ProposalsFit
<1>6. Moves
  BY DEF Propose, Moves, Inv, TypeOK
<1> QED
  BY <1>2, <1>3, <1>5, <1>6 DEF Inv

\* A confirmation opens a promise that was proposed and takes the proposal.
LEMMA ConfirmStep ==
  ASSUME Inv, NEW p \in Members, NEW n \in Ids, Confirm(p, n)
  PROVE  Inv' /\ Moves
<1> DEFINE d == proposal[n]
<1>1. d \in Deals /\ status[d] = "proposed" /\ \A m \in Ids : m # n => proposal[m] # d
  BY DEF Confirm, Inv, TypeOK, ProposalsFit
<1>2. TypeOK'
  BY <1>1 DEF Confirm, Taken, Inv, TypeOK, base
<1>3. SentWasTold' /\ RoundFits'
  BY DEF Confirm, Inv, SentWasTold, RoundFits
<1>4. ProposalsFit'
  BY <1>1, PromisesAssumption DEF Confirm, Taken, Inv, TypeOK, ProposalsFit
<1>5. Moves
  BY <1>1 DEF Confirm, Moves, Inv, TypeOK
<1> QED
  BY <1>2, <1>3, <1>4, <1>5 DEF Inv

\* What the world does changes the readings and the chats only.
LEMMA WorldStep ==
  ASSUME Inv, World
  PROVE  Inv' /\ Moves
<1>1. UNCHANGED <<proposal, status, row, told, run, crashes>>
  BY DEF World, Ripen, Recount, AssignChat
<1>2. ASSUME NEW c \in Chats, AssignChat(c)
      PROVE  TypeOK'
  BY <1>2 DEF AssignChat, Inv, TypeOK
<1>3. PICK ripe \in SUBSET Soon : reading \in [ripe -> Counts]
  BY DEF Inv, TypeOK
<1>4. ASSUME NEW d \in Deals, Ripen(d)
      PROVE  TypeOK'
  <2>1. d \in Soon /\ reading' \in [ripe \union {d} -> Counts] /\ ripe \union {d} \in SUBSET Soon
    BY <1>3, <1>4 DEF Ripen, Ripe
  <2> QED
    BY <1>4, <2>1 DEF Ripen, Inv, TypeOK
<1>5. ASSUME NEW d \in Deals, Recount(d)
      PROVE  TypeOK'
  <2>1. reading' \in [ripe -> Counts]
    BY <1>3, <1>5 DEF Recount
  <2>2. recounts' \in 0 .. MaxRecounts
    BY <1>5, PromisesAssumption DEF Recount, Inv, TypeOK
  <2> QED
    BY <1>5, <2>1, <2>2 DEF Recount, Inv, TypeOK
<1>6. TypeOK'
  BY <1>2, <1>4, <1>5 DEF World
<1> QED
  BY <1>1, <1>6 DEF Inv, SentWasTold, RoundFits, ProposalsFit, Moves

-----------------------------------------------------------------------------
(***************************************************************************)
(* The worker's round.                                                     *)
(***************************************************************************)
\* A step that leaves the tables of promises alone.
LEMMA RoundFrame ==
  ASSUME Inv, UNCHANGED <<proposal, base, status>>,
         crashes' \in 0 .. MaxCrashes,
         row' \in [Texts -> {"unsent", "uncertain", "sent"}], told' \subseteq Texts,
         run' \in RunType, run'.left \subseteq run'.dests, run'.dests \subseteq run'.chats,
         SentWasTold', RoundFits'
  PROVE  Inv' /\ Moves
  BY DEF Inv, TypeOK, RunType, base, ProposalsFit, Moves

LEMMA RunTyped ==
  ASSUME Inv
  PROVE  /\ run \in RunType /\ run.left \subseteq run.dests /\ run.dests \subseteq run.chats
         /\ row \in [Texts -> {"unsent", "uncertain", "sent"}] /\ told \subseteq Texts
         /\ crashes \in 0 .. MaxCrashes
  BY DEF Inv, TypeOK, RunType

LEMMA CheckStep ==
  ASSUME Inv, Check
  PROVE  Inv' /\ Moves
<1> DEFINE todo == {<<d, VerdictOf(reading[d])>> : d \in {e \in Deals : Due(e)}}
<1>1. \A d \in Deals : VerdictOf(reading[d]) \in Verdicts
  BY DEF VerdictOf, Verdicts
<1>2. todo \in SUBSET (Deals \X Verdicts)
  BY <1>1
<1>3. run' = [Idle EXCEPT !.pc = "between", !.chats = chats, !.todo = todo]
  BY DEF Check
<1>4. chats \in SUBSET Chats
  BY DEF Inv, TypeOK
<1>5. run' \in RunType /\ run'.left = {} /\ run'.dests = {} /\ run'.pc = "between"
  BY <1>2, <1>3, <1>4 DEF Idle, RunType
<1>6. UNCHANGED <<proposal, base, status, row, told, crashes>>
  BY DEF Check
<1> QED
  BY <1>5, <1>6, RunTyped, RoundFrame DEF Inv, SentWasTold, RoundFits

LEMMA AddressStep ==
  ASSUME Inv, Address
  PROVE  Inv' /\ Moves
<1>1. PICK r \in run.todo :
        LET to == Addressees(r[1])
        IN  run' = [run EXCEPT !.todo = @ \ {r},
                               !.pc = IF to = {} THEN "between" ELSE "telling",
                               !.deal = IF to = {} THEN None ELSE r[1],
                               !.verdict = IF to = {} THEN None ELSE r[2],
                               !.dests = to, !.left = to, !.ok = TRUE]
  BY DEF Address
<1> DEFINE to == Addressees(r[1])
<1>2. to \subseteq run.chats /\ run.chats \subseteq Chats
  BY RunTyped DEF Addressees, RunType
<1>3. r[1] \in Deals /\ r[2] \in Verdicts
  BY RunTyped DEF RunType
<1>4. /\ run' \in RunType /\ run'.left = to /\ run'.dests = to /\ run'.chats = run.chats
      /\ run'.pc = "telling" => run'.deal = r[1] /\ run'.verdict = r[2] /\ to # {}
  <2> HIDE DEF to
  <2> QED
    BY <1>1, <1>2, <1>3, RunTyped DEF RunType, to
<1>5. UNCHANGED <<proposal, base, status, row, told, crashes>>
  BY DEF Address
<1>6. SentWasTold' /\ RoundFits'
  BY <1>3, <1>4, <1>5 DEF Inv, SentWasTold, RoundFits
<1> QED
  BY <1>2, <1>4, <1>5, <1>6, RunTyped, RoundFrame

\* One message of the round: the deliveries take note of it under its key, and
\* the round counts it as delivered if Plow has it.
LEMMA OutcomeStep ==
  ASSUME Inv, NEW c \in Chats, Telling(c), NEW outcome, Outcome(c, outcome),
         told \subseteq told', told' \subseteq Texts,
         row' \in [Texts -> {"unsent", "uncertain", "sent"}],
         \A t \in Texts : row'[t] = "sent" => row[t] = "sent" \/ t \in told',
         Delivered(outcome) => <<run.deal, run.verdict, c>> \in told'
  PROVE  Inv' /\ Moves
<1>1. run' = [run EXCEPT !.left = @ \ {c}, !.ok = @ /\ Delivered(outcome)]
  BY DEF Outcome
<1>2. UNCHANGED <<proposal, base, status, crashes>>
  BY DEF Outcome
<1>3. Delivered(outcome) \in BOOLEAN
  BY DEF Delivered
<1>4. /\ run' \in RunType /\ run'.left = run.left \ {c} /\ run'.dests = run.dests
      /\ run'.chats = run.chats /\ run'.pc = run.pc /\ run'.deal = run.deal
      /\ run'.verdict = run.verdict /\ (run'.ok => run.ok /\ Delivered(outcome))
  <2> DEFINE yes == Delivered(outcome)
  <2> HIDE DEF yes
  <2> QED
    BY <1>1, <1>3, RunTyped DEF RunType, yes
<1>5. SentWasTold' /\ RoundFits'
  BY <1>4 DEF Inv, SentWasTold, RoundFits, Telling
<1> QED
  BY <1>2, <1>4, <1>5, RunTyped, RoundFrame

\* The key of a message is the text that Plow gets.
LEMMA KeyIsText ==
  ASSUME Inv, NEW c \in Chats, Telling(c)
  PROVE  KeyTo(c) = <<run.deal, run.verdict, c>> /\ KeyTo(c) \in Texts
  BY DEF Telling, Inv, RoundFits, KeyTo, Key, Texts

LEMMA TellStep ==
  ASSUME Inv, NEW c \in Chats,
         Paused(c) \/ Duplicate(c) \/ InDoubt(c) \/ Accepted(c) \/ Refused(c) \/ Unanswered(c)
  PROVE  Inv' /\ Moves
<1>1. Telling(c)
  BY DEF Paused, Duplicate, InDoubt, Accepted, Refused, Unanswered, Posting
<1> DEFINE t == KeyTo(c)
<1>2. t = <<run.deal, run.verdict, c>> /\ t \in Texts
  BY <1>1, KeyIsText
<1>3. ~ Delivered("failed") /\ ~ Delivered("uncertain")
  BY DEF Delivered
<1>4. SentWasTold
  BY DEF Inv
<1> HIDE DEF t
<1>5. CASE Paused(c)
  BY <1>1, <1>3, <1>5, RunTyped, OutcomeStep DEF Paused
<1>6. CASE Duplicate(c)
  <2>1. row[t] = "sent" /\ UNCHANGED <<row, told>> /\ Outcome(c, "duplicate")
    BY <1>6 DEF Duplicate, t
  <2> QED
    BY <1>1, <1>2, <1>4, <2>1, RunTyped, OutcomeStep DEF SentWasTold
<1>7. CASE InDoubt(c)
  <2>1. /\ UNCHANGED told
        /\ \/ Outcome(c, "uncertain") /\ UNCHANGED row
           \/ Outcome(c, "failed") /\ row' = [row EXCEPT ![t] = "unsent"]
    BY <1>7 DEF InDoubt, t
  <2>2. row' \in [Texts -> {"unsent", "uncertain", "sent"}]
    BY <2>1, RunTyped
  <2>3. \A u \in Texts : row'[u] = "sent" => row[u] = "sent"
    BY <2>1, RunTyped
  <2> QED
    BY <1>1, <1>3, <2>1, <2>2, <2>3, RunTyped, OutcomeStep
<1>8. CASE Accepted(c)
  <2>1. /\ Outcome(c, "sent") /\ row' = [row EXCEPT ![t] = "sent"]
        /\ told' = told \union {<<run.deal, run.verdict, c>>}
    BY <1>8 DEF Accepted, Take, t
  <2>2. row' \in [Texts -> {"unsent", "uncertain", "sent"}] /\ told' \subseteq Texts
    BY <1>2, <2>1, RunTyped
  <2>3. \A u \in Texts : row'[u] = "sent" => row[u] = "sent" \/ u \in told'
    BY <1>2, <2>1, RunTyped
  <2> QED
    BY <1>1, <2>1, <2>2, <2>3, OutcomeStep
<1>9. CASE Refused(c)
  <2>1. Outcome(c, "failed") /\ row' = [row EXCEPT ![t] = "unsent"] /\ told' = told
    BY <1>9 DEF Refused, Take, t
  <2>2. row' \in [Texts -> {"unsent", "uncertain", "sent"}]
    BY <2>1, RunTyped
  <2>3. \A u \in Texts : row'[u] = "sent" => row[u] = "sent"
    BY <2>1, RunTyped
  <2> QED
    BY <1>1, <1>3, <2>1, <2>2, <2>3, RunTyped, OutcomeStep
<1>10. CASE Unanswered(c)
  <2>1. PICK yes \in BOOLEAN : Take(c, yes)
    BY <1>10 DEF Unanswered
  <2>2. /\ Outcome(c, "uncertain") /\ row' = [row EXCEPT ![t] = "uncertain"]
        /\ told' \in {told, told \union {<<run.deal, run.verdict, c>>}}
    BY <1>10, <2>1 DEF Unanswered, Take, t
  <2>3. /\ row' \in [Texts -> {"unsent", "uncertain", "sent"}]
        /\ told \subseteq told' /\ told' \subseteq Texts
    BY <1>2, <2>2, RunTyped
  <2>4. \A u \in Texts : row'[u] = "sent" => row[u] = "sent"
    BY <2>2, RunTyped
  <2> QED
    BY <1>1, <1>3, <2>2, <2>3, <2>4, OutcomeStep
<1> QED
  BY <1>5, <1>6, <1>7, <1>8, <1>9, <1>10

\* The only step that closes a promise, when every chat has its result.
LEMMA CloseStep ==
  ASSUME Inv, Close
  PROVE  Inv' /\ Moves
<1>1. /\ run.pc = "telling" /\ run.left = {} /\ UNCHANGED <<proposal, base, row, told, crashes>>
      /\ run' = [run EXCEPT !.pc = "between", !.deal = None, !.verdict = None, !.dests = {},
                            !.ok = TRUE]
  BY DEF Close
<1>2. run.deal \in Deals /\ run.verdict \in Verdicts /\ run.dests # {}
  BY <1>1 DEF Inv, RoundFits
<1>3. run' \in RunType /\ run'.left = {} /\ run'.dests = {} /\ run'.pc = "between"
  BY <1>1, RunTyped DEF RunType
<1>4. CASE ~ (run.ok /\ status[run.deal] = "open")
  <2>1. UNCHANGED status
    BY <1>4 DEF Close
  <2>2. SentWasTold' /\ RoundFits'
    BY <1>1, <1>3 DEF Inv, SentWasTold, RoundFits
  <2> QED
    BY <1>1, <1>3, <2>1, <2>2, RunTyped, RoundFrame
<1>5. CASE run.ok /\ status[run.deal] = "open"
  <2>1. status' = [status EXCEPT ![run.deal] = run.verdict]
    BY <1>5 DEF Close
  <2>2. \A c \in run.dests : <<run.deal, run.verdict, c>> \in told
    BY <1>1, <1>5 DEF Inv, RoundFits
  <2>3. Moves
    BY <1>2, <1>5, <2>1, <2>2 DEF Moves, Inv, TypeOK
  <2>4. ProposalsFit'
    BY <1>1, <1>5, <2>1 DEF Inv, TypeOK, ProposalsFit
  <2>5. TypeOK'
    BY <1>1, <1>2, <1>3, <2>1 DEF Inv, TypeOK, RunType, base
  <2>6. SentWasTold' /\ RoundFits'
    BY <1>1, <1>3 DEF Inv, SentWasTold, RoundFits
  <2> QED
    BY <2>3, <2>4, <2>5, <2>6 DEF Inv
<1> QED
  BY <1>4, <1>5

\* The round ends or is cut off.
LEMMA StopStep ==
  ASSUME Inv, EndRun \/ Crash
  PROVE  Inv' /\ Moves
<1>1. run' = Idle /\ UNCHANGED <<proposal, base, status, row, told>>
  BY DEF EndRun, Crash
<1>2. crashes' \in 0 .. MaxCrashes
  BY PromisesAssumption, RunTyped DEF EndRun, Crash
<1>3. Idle \in RunType /\ Idle.left = {} /\ Idle.dests = {} /\ Idle.pc = "idle"
  BY DEF Idle, RunType
<1>4. SentWasTold' /\ RoundFits'
  BY <1>1, <1>3 DEF Inv, SentWasTold, RoundFits
<1> QED
  BY <1>1, <1>2, <1>3, <1>4, RunTyped, RoundFrame

LEMMA RetryStep ==
  ASSUME Inv, NEW t \in Texts, Retry(t)
  PROVE  Inv' /\ Moves
<1>1. UNCHANGED <<proposal, base, status, run, crashes>>
  BY DEF Retry
<1>2. /\ row' \in [Texts -> {"unsent", "uncertain", "sent"}]
      /\ told \subseteq told' /\ told' \subseteq Texts
      /\ \A u \in Texts : row'[u] = "sent" => row[u] = "sent" \/ u \in told'
  BY RunTyped DEF Retry
<1>3. SentWasTold' /\ RoundFits'
  BY <1>1, <1>2 DEF Inv, SentWasTold, RoundFits
<1> QED
  BY <1>1, <1>2, <1>3, RunTyped, RoundFrame

-----------------------------------------------------------------------------
(***************************************************************************)
(* The theorems.                                                           *)
(***************************************************************************)
LEMMA Step == Inv /\ [Next]_vars => Inv' /\ Moves
<1> SUFFICES ASSUME Inv, [Next]_vars PROVE Inv' /\ Moves
  OBVIOUS
<1>1. CASE UNCHANGED vars
  BY <1>1 DEF Inv, TypeOK, SentWasTold, RoundFits, ProposalsFit, Moves, vars, base
<1>2. CASE Tools
  BY <1>2, ProposeStep, ConfirmStep DEF Tools
<1>3. CASE World
  BY <1>3, WorldStep
<1>4. CASE Round
  BY <1>4, CheckStep, AddressStep, TellStep, CloseStep, StopStep DEF Round, Tell
<1>5. CASE Crash
  BY <1>5, StopStep
<1>6. CASE \E t \in Texts : Retry(t)
  BY <1>6, RetryStep
<1> QED
  BY <1>1, <1>2, <1>3, <1>4, <1>5, <1>6 DEF Next

LEMMA Invariant == Spec => []Inv
  BY InitInv, Step, PTL DEF Spec

\* The tables, the round and the deliveries of promises are always well typed.
THEOREM TypeCorrect == Spec => []TypeOK
<1>1. Inv => TypeOK
  BY DEF Inv
<1> QED
  BY <1>1, Invariant, PTL

\* notifyPromiseResults closes a promise only with the verdict that all the chats
\* it was addressed to have got, whatever failed on the way there.
THEOREM ResultsWereTold == Spec => ClosedAsTold
<1>1. Inv /\ [Next]_vars =>
        [\A d \in Deals : status[d] = "open" /\ status'[d] # "open" =>
           /\ run.deal = d /\ run.dests # {}
           /\ \A c \in run.dests : <<d, status'[d], c>> \in told]_vars
  BY Step DEF Moves
<1> QED
  BY <1>1, Invariant, PTL DEF Spec, ClosedAsTold

\* aha_promise_confirm reopens no promise that is closed.
THEOREM ResultsStand == Spec => ClosedForGood
<1>1. Inv /\ [Next]_vars =>
        [\A d \in Deals : status[d] \in Verdicts => status'[d] = status[d]]_vars
  BY Step DEF Moves, Verdicts
<1> QED
  BY <1>1, Invariant, PTL DEF Spec, ClosedForGood
=============================================================================
