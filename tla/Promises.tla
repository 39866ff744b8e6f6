------------------------------ MODULE Promises ------------------------------
(***************************************************************************)
(* Promises to the people who complained (aha/promises/check.ts and the    *)
(* tools aha_promise_propose and aha_promise_confirm): a member proposes   *)
(* one, its owner or the company owner confirms it, and a week after it is *)
(* due the worker compares the mentions before and after, tells the owner  *)
(* and the role concerned, and closes it once both have been told.         *)
(*                                                                         *)
(* The gateway runs the tools, the worker the checks, a stage of each of   *)
(* its rounds, and the retries of messages, the last stage. A verdict is   *)
(* computed before the first message and acted on after the last; people   *)
(* and the other stages move mentions in and out of the count meanwhile.   *)
(* Of a delivery only its status is kept: Delivery models the rest.        *)
(***************************************************************************)
EXTENDS Naturals

CONSTANTS
  Deals,        \* promises as members word them: topic, due date and owner
  Soon,         \* those due soon enough for a check of them to be modelled
  Members,
  CompanyOwner,
  OwnerOf,      \* the member a deal names as its owner
  MaxId,        \* bound on the ids of proposals
  None,
  Roles,
  Groups,       \* the roles that may get a chat of their own
  Counts,       \* what windowCounts may find around a due date
  MaxRecounts,  \* bound on the changes of what it finds
  MaxCrashes    \* bound on the crashes of the worker

Ids      == 1 .. MaxId
Verdicts == {"resolvida", "sem sinal", "persiste"}
OwnerDm  == "dm"
Chats    == Groups \union {OwnerDm}
Texts    == Deals \X Verdicts \X Chats

ASSUME PromisesAssumption ==
  /\ Soon \subseteq Deals /\ CompanyOwner \in Members /\ OwnerOf \in [Deals -> Members]
  /\ MaxId \in Nat /\ MaxRecounts \in Nat /\ MaxCrashes \in Nat
  /\ None \notin Deals /\ OwnerDm \notin Roles /\ Groups \subseteq Roles
  /\ Counts \subseteq [before : Nat, after : Nat, high : BOOLEAN, role : Roles]

VARIABLES
  proposal,  \* the promise_proposals table
  status,    \* the promises table, by what is promised
  reading,   \* windowCounts and relatedRole of the promises whose week is over
  recounts,
  chats,     \* cfg.ownerChatUid, cfg.roleChats
  row,       \* the deliveries of promise results; "unsent": none, or failed
  told,      \* Plow: the results it took
  run,       \* the worker's promise checks
  crashes

base == <<reading, recounts, chats>>
vars == <<proposal, base, status, row, told, run, crashes>>

Idle == [pc |-> "idle", todo |-> {}, chats |-> {}, deal |-> None, verdict |-> None,
         dests |-> {}, left |-> {}, ok |-> TRUE]

\* todo: the results still to tell; dests: where the current one goes, left: still
\* to be sent, ok: all sent so far were delivered.
TypeOK ==
  /\ proposal \in [Ids -> Deals \union {None}]
  /\ status \in [Deals -> {"none", "proposed", "open"} \union Verdicts]
  /\ \E ripe \in SUBSET Soon : reading \in [ripe -> Counts]
  /\ recounts \in 0 .. MaxRecounts
  /\ chats \subseteq Chats
  /\ row \in [Texts -> {"unsent", "uncertain", "sent"}]
  /\ told \subseteq Texts
  /\ run \in [pc : {"idle", "between", "telling"}, todo : SUBSET (Deals \X Verdicts),
              chats : SUBSET Chats, deal : Deals \union {None},
              verdict : Verdicts \union {None}, dests : SUBSET Chats,
              left : SUBSET Chats, ok : BOOLEAN]
  /\ run.left \subseteq run.dests /\ run.dests \subseteq run.chats
  /\ crashes \in 0 .. MaxCrashes

Init ==
  /\ proposal = [i \in Ids |-> None]
  /\ status = [d \in Deals |-> "none"]
  /\ reading = [d \in {} |-> 0] /\ recounts = 0
  /\ chats = {}
  /\ row = [t \in Texts |-> "unsent"] /\ told = {}
  /\ run = Idle /\ crashes = 0

-----------------------------------------------------------------------------
(***************************************************************************)
(* The tools.                                                              *)
(***************************************************************************)
\* A new row takes the id after the largest there is.
NextId(n) ==
  \A i \in Ids : (proposal[i] # None => i < n) /\ (i = n - 1 => proposal[i] # None)

\* aha_promise_propose
Propose(d) ==
  /\ status[d] = "none"
  /\ \E n \in Ids : NextId(n) /\ proposal' = [proposal EXCEPT ![n] = d]
  /\ status' = [status EXCEPT ![d] = "proposed"]
  /\ UNCHANGED <<base, row, told, run, crashes>>

\* aha_promise_confirm of the proposal that has id n, by member p. It is gone
\* then: a second confirmation finds nothing, or a newer proposal of that id.
Taken_Kept(n) == proposal
Taken(n)      == [proposal EXCEPT ![n] = None]

Confirm(p, n) ==
  /\ proposal[n] # None
  /\ p = CompanyOwner \/ p = OwnerOf[proposal[n]]
  /\ proposal' = Taken(n)
  /\ status' = [status EXCEPT ![proposal[n]] = "open"]
  /\ UNCHANGED <<base, row, told, run, crashes>>

-----------------------------------------------------------------------------
(***************************************************************************)
(* What the worker's checks read.                                          *)
(***************************************************************************)
Ripe == DOMAIN reading

\* The week after the due date is over.
Ripen(d) ==
  /\ d \in Soon /\ status[d] = "open" /\ d \notin Ripe
  /\ \E c \in Counts :
       reading' = [e \in Ripe \union {d} |-> IF e = d THEN c ELSE reading[e]]
  /\ UNCHANGED <<proposal, recounts, chats, status, row, told, run, crashes>>

\* Mentions of that fortnight are decided on, classified late or backfilled.
Recount(d) ==
  /\ status[d] = "open" /\ d \in Ripe /\ recounts < MaxRecounts
  /\ \E c \in Counts \ {reading[d]} : reading' = [reading EXCEPT ![d] = c]
  /\ recounts' = recounts + 1
  /\ UNCHANGED <<proposal, chats, status, row, told, run, crashes>>

AssignChat(c) ==
  /\ c \notin chats
  /\ chats' = chats \union {c}
  /\ UNCHANGED <<proposal, reading, recounts, status, row, told, run, crashes>>

-----------------------------------------------------------------------------
(***************************************************************************)
(* runPromiseChecks.                                                       *)
(***************************************************************************)
VerdictOf(c) ==
  IF c.before < 3 THEN "sem sinal"
  ELSE IF 2 * c.after <= c.before /\ ~ c.high THEN "resolvida"
  ELSE "persiste"

Due(d) == status[d] = "open" /\ d \in Ripe

\* checkPromises, and the configuration notifyPromiseResults starts from
Check ==
  /\ run.pc = "idle" /\ \E d \in Deals : Due(d)
  /\ run' = [Idle EXCEPT !.pc = "between", !.chats = chats,
                         !.todo = {<<d, VerdictOf(reading[d])>> : d \in {e \in Deals : Due(e)}}]
  /\ UNCHANGED <<proposal, base, status, row, told, crashes>>

\* The next result, in any order: the role it concerns is read only now.
Addressees(d) == run.chats \intersect {OwnerDm, reading[d].role}

Address ==
  /\ run.pc = "between"
  /\ \E r \in run.todo :
       LET to == Addressees(r[1])
       IN  run' = [run EXCEPT !.todo = @ \ {r},
                              !.pc = IF to = {} THEN "between" ELSE "telling",
                              !.deal = IF to = {} THEN None ELSE r[1],
                              !.verdict = IF to = {} THEN None ELSE r[2],
                              !.dests = to, !.left = to, !.ok = TRUE]
  /\ UNCHANGED <<proposal, base, status, row, told, crashes>>

\* sendToChat under promise:<id>:<result>:<chat>, the owner's first.
Key_NoVerdict(d, v, c) == <<d, "persiste", c>>
Key(d, v, c)           == <<d, v, c>>

Delivered_New(outcome)   == outcome = "sent"
Delivered(outcome)       == outcome \in {"sent", "duplicate"}

Telling(c) ==
  /\ run.pc = "telling" /\ c \in run.left
  /\ c = OwnerDm \/ OwnerDm \notin run.left

KeyTo(c) == Key(run.deal, run.verdict, c)

Outcome(c, outcome) ==
  /\ run' = [run EXCEPT !.left = @ \ {c}, !.ok = @ /\ Delivered(outcome)]
  /\ UNCHANGED <<proposal, base, status, crashes>>

\* Nothing is posted while the agent is paused, which it may be at any time and
\* which spares the owner's chat, ...
Paused(c) ==
  /\ Telling(c) /\ c # OwnerDm
  /\ Outcome(c, "failed") /\ UNCHANGED <<row, told>>

\* ... nor what was sent before, ...
Duplicate(c) ==
  /\ Telling(c) /\ row[KeyTo(c)] = "sent"
  /\ Outcome(c, "duplicate") /\ UNCHANGED <<row, told>>

\* ... nor what is in doubt and not yet to be sent again, or is given up.
InDoubt(c) ==
  /\ Telling(c) /\ row[KeyTo(c)] = "uncertain" /\ UNCHANGED told
  /\ \/ Outcome(c, "uncertain") /\ UNCHANGED row
     \/ Outcome(c, "failed") /\ row' = [row EXCEPT ![KeyTo(c)] = "unsent"]

Posting(c)   == Telling(c) /\ row[KeyTo(c)] # "sent"
Take(c, yes) == told' = IF yes THEN told \union {<<run.deal, run.verdict, c>>} ELSE told

Accepted(c) ==
  /\ Posting(c) /\ Outcome(c, "sent") /\ Take(c, TRUE)
  /\ row' = [row EXCEPT ![KeyTo(c)] = "sent"]

Refused(c) ==
  /\ Posting(c) /\ Outcome(c, "failed") /\ Take(c, FALSE)
  /\ row' = [row EXCEPT ![KeyTo(c)] = "unsent"]

Unanswered(c) ==
  /\ Posting(c) /\ Outcome(c, "uncertain") /\ \E yes \in BOOLEAN : Take(c, yes)
  /\ row' = [row EXCEPT ![KeyTo(c)] = "uncertain"]

\* UPDATE promises SET status ... WHERE status = 'open'
Close ==
  /\ run.pc = "telling" /\ run.left = {}
  /\ status' = IF run.ok /\ status[run.deal] = "open"
               THEN [status EXCEPT ![run.deal] = run.verdict] ELSE status
  /\ run' = [run EXCEPT !.pc = "between", !.deal = None, !.verdict = None, !.dests = {},
                        !.ok = TRUE]
  /\ UNCHANGED <<proposal, base, row, told, crashes>>

EndRun ==
  /\ run.pc = "between" /\ run.todo = {}
  /\ run' = Idle
  /\ UNCHANGED <<proposal, base, status, row, told, crashes>>

\* The last stage of a round: retryUncertainDeliveries
Retry(t) ==
  /\ run.pc = "idle" /\ row[t] = "uncertain"
  /\ \/ told' = told \union {t}
        /\ \E s \in {"sent", "uncertain"} : row' = [row EXCEPT ![t] = s]
     \/ row' = [row EXCEPT ![t] = "unsent"] /\ UNCHANGED told
  /\ UNCHANGED <<proposal, base, status, run, crashes>>

Crash ==
  /\ run.pc # "idle" /\ crashes < MaxCrashes
  /\ run' = Idle /\ crashes' = crashes + 1
  /\ UNCHANGED <<proposal, base, status, row, told>>

-----------------------------------------------------------------------------
Tools == \/ \E d \in Deals : Propose(d)
         \/ \E p \in Members, n \in Ids : Confirm(p, n)
World == (\E c \in Chats : AssignChat(c)) \/ \E d \in Deals : Ripen(d) \/ Recount(d)
Tell  == \E c \in Chats :
           Paused(c) \/ Duplicate(c) \/ InDoubt(c) \/ Accepted(c) \/ Refused(c) \/ Unanswered(c)
Round == Check \/ Address \/ Tell \/ Close \/ EndRun
Next  == Tools \/ World \/ Round \/ Crash \/ \E t \in Texts : Retry(t)

\* The worker's rounds go on, and no chat is refused, unreachable or paused for
\* ever.
Fairness == WF_vars(Round) /\ \A c \in Chats : SF_vars(Duplicate(c) \/ Accepted(c))

Spec == Init /\ [][Next]_vars /\ Fairness

-----------------------------------------------------------------------------
(***************************************************************************)
(* Properties.                                                             *)
(***************************************************************************)
\* A promise is closed with the verdict that every chat it was addressed to was
\* told, and with none told to nobody, whatever was said of it on earlier rounds
\* and however the counts moved since (check.ts:126-135).
ClosedAsTold ==
  [][\A d \in Deals : status[d] = "open" /\ status'[d] # "open" =>
       /\ run.deal = d /\ run.dests # {}
       /\ \A c \in run.dests : <<d, status'[d], c>> \in told]_vars

\* A confirmation that arrives late, or again, does not reopen a promise whose
\* result is known (aha-tools.ts:1391).
ClosedForGood ==
  [][\A d \in Deals : status[d] \in Verdicts => status'[d] = status[d]]_vars

\* Once its week is over a promise is closed, although a round may tell one chat
\* and not the other, crash, or find another verdict than the last (check.ts:131-135).
EveryPromiseCloses ==
  \A d \in Deals : Due(d) /\ OwnerDm \in chats ~> status[d] \in Verdicts

\* tests/promises.test.ts:347 "promise results go to the role group and owner DM
\* once each"
OneResultEach ==
  \A d \in Deals, c \in Chats, v, w \in Verdicts :
    <<d, v, c>> \in told /\ <<d, w, c>> \in told => v = w
=============================================================================
