------------------------------- MODULE Items -------------------------------
(***************************************************************************)
(* What becomes of a stored post: ingestion and the check against what was *)
(* forgotten, retention, drafting and its announcement in the worker; the  *)
(* decisions of people, backfills and aha_forget in the gateway.  The two  *)
(* processes share the database only.  A row's id is the largest in use    *)
(* plus one, so the id of a deleted row comes back, while deliveries keep  *)
(* the keys that contain it.                                               *)
(*                                                                         *)
(* Classification and Reddit posting have modules of their own: here a     *)
(* verdict depends on the post, and a reply is published in one step.      *)
(***************************************************************************)
EXTENDS Naturals

CONSTANTS
  MaxId,       \* bound on the row ids
  Posts,       \* what the sources may show
  None,        \* no post
  SitePosts,   \* those that the site watch finds
  Targets,     \* the addresses and authors that aha_forget is given
  AddressOf,   \* the address of a post
  AuthorOf,    \* and its author, None if it has none to forget
  ThreadOf,    \* the thread of a post
  Kind,        \* what the model makes of a post
  MaxTries,    \* MAX_DRAFT_ATTEMPTS
  MaxInserts   \* bound on insertions

Kinds   == {"plain", "redLine", "competitor", "irrelevant"}
Ids     == 1 .. MaxId
Threads == {ThreadOf[p] : p \in Posts}

ASSUME ItemsAssumption ==
  /\ {MaxId, MaxTries, MaxInserts} \subseteq Nat
  /\ None \notin Posts \union Targets /\ SitePosts \subseteq Posts
  /\ DOMAIN AddressOf = Posts /\ DOMAIN AuthorOf = Posts
  /\ Kind \in [Posts -> Kinds]
  /\ DOMAIN ThreadOf = Posts

VARIABLES
  row,        \* the table items, with the draft of each
  told,       \* id -> the posts whose draft was sent under the key draft:<id>
  ledger,     \* threads with a row in the ledger
  audit,      \* forget_audit
  worker,     \* the worker's round
  forget,     \* the call of aha_forget under way
  inserts,    \* insertions so far
  slipped,    \* ghost: posts that were being stored while they were forgotten
  crossed     \* ghost: ids whose row went while its draft was being written

ghosts == <<slipped, crossed>>
vars   == <<row, told, ledger, audit, worker, forget, inserts, ghosts>>

NoDraft == [state |-> "none", about |-> None]
Gone    == [post |-> None, state |-> "gone", live |-> FALSE, text |-> FALSE, age |-> 0,
            tries |-> 0, draft |-> NoDraft]
Idle    == [pc |-> "idle", post |-> None, remove |-> {}, redact |-> {}, todo |-> {},
            item |-> 0]
NoCall  == [pc |-> "idle", target |-> None, ids |-> {}]

Stored == {i \in Ids : row[i].state # "gone"}
Held   == {row[i].post : i \in Stored}

\* Ages in which the code tells rows apart: up to 7 days, up to 90, above.
TooOld == 1
Expired(i) == row[i].age = 2

TypeOK ==
  /\ row \in [Ids -> [post : Posts \union {None}, live : BOOLEAN, text : BOOLEAN,
                      state : {"gone", "new", "relevant", "assigned", "escalated", "irrelevant"},
                      age : 0 .. 2, tries : 0 .. MaxTries,
                      draft : [state : {"none", "pending", "approved", "ignored", "expired"},
                               about : Posts \union {None}]]]
  /\ \A i, j \in Stored : row[i].post = row[j].post => i = j
  /\ told \in [Ids -> Posts \union {None}]
  /\ ledger \subseteq Threads /\ audit \subseteq Targets
  /\ worker.pc \in {"down", "idle", "ingest", "store", "prune", "classify", "draft",
                    "model", "announce"}
  /\ worker.remove \union worker.redact \subseteq Ids
  /\ \A d \in worker.todo : d.id \in Ids /\ d.post \in Posts

Init ==
  /\ row = [i \in Ids |-> Gone] /\ told = [i \in Ids |-> None]
  /\ ledger = {} /\ audit = {} /\ worker = Idle /\ forget = NoCall
  /\ inserts = 0 /\ slipped = {} /\ crossed = {}

-----------------------------------------------------------------------------
(***************************************************************************)
(* Statements that several callers share.                                  *)
(***************************************************************************)
\* The largest id in use plus one.
NextId(n) == (\A i \in Stored : i < n) /\ (n = 1 \/ n - 1 \in Stored)

\* insertItem: a post that is stored already is left alone.
Known(p) == p \in Held

Insert(p, live) ==
  IF Known(p) THEN UNCHANGED <<row, inserts>>
  ELSE /\ inserts < MaxInserts
       /\ inserts' = inserts + 1
       /\ \E n \in Ids :
            /\ NextId(n)
            /\ row' = [row EXCEPT ![n] = [Gone EXCEPT !.post = p, !.state = "new",
                                                     !.live = live, !.text = TRUE]]

WasForgotten_Address(p) == AddressOf[p] \in audit
WasForgotten(p) == {AddressOf[p], AuthorOf[p]} \intersect audit # {}

\* deleteItems, of the rows that are still there: the item, its draft, and the
\* rows of the ledger under its post and its thread.
Delete(rows, ids) ==
  /\ row'     = [i \in Ids |-> IF i \in ids THEN Gone ELSE rows[i]]
  /\ ledger'  = ledger \ {ThreadOf[row[i].post] : i \in ids \intersect Stored}
  /\ crossed' = IF worker.pc = "model" /\ worker.item \in ids THEN crossed \union {worker.item}
                ELSE crossed \ ids

-----------------------------------------------------------------------------
(***************************************************************************)
(* The gateway.                                                            *)
(***************************************************************************)
\* runIngest over a window of the past, on behalf of aha_backfill. Nothing of
\* this process comes between the check and the insertion.
Backfill(p, live) ==
  /\ p \notin SitePosts /\ ~ WasForgotten(p)
  /\ Insert(p, live)
  /\ UNCHANGED <<told, ledger, audit, worker, forget, ghosts>>

\* Redaction empties the author, not the address.
Matches(i, t) == AddressOf[row[i].post] = t \/ (AuthorOf[row[i].post] = t /\ row[i].text)

\* forgetByUrlOrAuthor: the matching rows are looked up first.
FindForgotten(t) ==
  /\ forget.pc = "idle"
  /\ forget' = [pc |-> "found", target |-> t, ids |-> {i \in Stored : Matches(i, t)}]
  /\ UNCHANGED <<row, told, ledger, audit, worker, inserts, ghosts>>

\* The transaction: deletion by id, and the entry that keeps the target out.
Forget ==
  /\ forget.pc = "found"
  /\ Delete(row, forget.ids)
  /\ audit' = audit \union {forget.target}
  /\ slipped' = {p \in Posts : /\ p \in slipped \/ forget.target \in {AddressOf[p], AuthorOf[p]}
                               /\ \/ worker.pc = "store" /\ worker.post = p
                                  \/ \E i \in Stored \ forget.ids : row[i].post = p}
  /\ forget' = NoCall
  /\ UNCHANGED <<told, worker, inserts>>

Decide(i, new) ==
  /\ row' = [row EXCEPT ![i] = new]
  /\ UNCHANGED <<told, audit, worker, forget, inserts, ledger, ghosts>>

\* aha_claim and aha_not_us: the second asks for a classification only.
Claim(i) ==
  /\ row[i].state = "relevant"
  /\ Decide(i, [row[i] EXCEPT !.state = "assigned"])

NotUs(i) ==
  /\ row[i].state \notin {"gone", "new"}
  /\ Decide(i, [row[i] EXCEPT !.state = "irrelevant"])

Ignore(i) ==
  /\ row[i].draft.state = "pending"
  /\ Decide(i, [row[i] EXCEPT !.draft.state = "ignored"])

\* aha_approve and postReply: one reply in a thread, by the thread's row.
Answer(i) ==
  /\ row[i].draft.state = "pending" /\ ThreadOf[row[i].post] \notin ledger
  /\ row' = [row EXCEPT ![i].draft.state = "approved"]
  /\ ledger' = ledger \union {ThreadOf[row[i].post]}
  /\ UNCHANGED <<told, audit, worker, forget, inserts, ghosts>>

Days ==
  /\ worker.pc \in {"idle", "down"}
  /\ \E i \in Stored : ~ Expired(i)
  /\ row' = [i \in Ids |-> IF i \in Stored /\ ~ Expired(i) THEN [row[i] EXCEPT !.age = @ + 1]
                           ELSE row[i]]
  /\ UNCHANGED <<told, ledger, audit, worker, forget, inserts, ghosts>>

-----------------------------------------------------------------------------
(***************************************************************************)
(* The worker: one round of ingestThenClassify after the other.            *)
(***************************************************************************)
Goto(pc) == worker' = [Idle EXCEPT !.pc = pc]

StartRound ==
  /\ worker.pc = "idle"
  /\ Goto("ingest")
  /\ UNCHANGED <<row, told, ledger, audit, forget, inserts, ghosts>>

\* runIngest: two statements, with the gateway's between them.
Check(p) ==
  /\ worker.pc = "ingest" /\ p \notin SitePosts
  /\ ~ WasForgotten(p)
  /\ worker' = [Idle EXCEPT !.pc = "store", !.post = p]
  /\ UNCHANGED <<row, told, ledger, audit, forget, inserts, ghosts>>

Store ==
  /\ worker.pc = "store"
  /\ Insert(worker.post, TRUE)
  /\ Goto("ingest")
  /\ UNCHANGED <<told, ledger, audit, forget, ghosts>>

\* visitSite asks nothing.
StoreSite(p) ==
  /\ worker.pc = "idle" /\ p \in SitePosts
  /\ Insert(p, TRUE)
  /\ UNCHANGED <<told, ledger, audit, worker, forget, ghosts>>

\* pruneExpired: work in progress keeps its row, without the text.
InWork(i) == row[i].state \in {"assigned", "escalated"} \/ row[i].draft.state = "pending"

SelectExpired ==
  LET old == {i \in Stored : Expired(i)} IN
  /\ worker.pc = "ingest"
  /\ worker' = [Idle EXCEPT !.pc = "prune", !.remove = {i \in old : ~ InWork(i)},
                            !.redact = {i \in old : InWork(i)}]
  /\ UNCHANGED <<row, told, ledger, audit, forget, inserts, ghosts>>

\* redactText
Redact_Drafted(r) == IF r.draft.state # "pending" THEN r
                     ELSE [r EXCEPT !.text = FALSE, !.draft.state = "expired"]
Redact(r) == [r EXCEPT !.text = FALSE,
                       !.draft.state = IF @ = "pending" THEN "expired" ELSE @]

Prune ==
  /\ worker.pc = "prune"
  /\ Delete([i \in Ids |-> IF i \in worker.redact \intersect Stored THEN Redact(row[i]) ELSE row[i]],
            worker.remove)
  /\ Goto("classify")
  /\ UNCHANGED <<told, audit, forget, inserts, slipped>>

\* classifyNewItems, for one row (see Classification).
Classify(i) ==
  /\ worker.pc = "classify" /\ row[i].state = "new"
  /\ row' = [row EXCEPT ![i].state = IF Kind[row[i].post] = "irrelevant" THEN "irrelevant"
                                     ELSE "relevant"]
  /\ UNCHANGED <<told, ledger, audit, worker, forget, inserts, ghosts>>

\* draftAndNotify takes its list once.
Draftable(i) ==
  /\ row[i].live /\ row[i].state \in {"relevant", "assigned"}
  /\ Kind[row[i].post] # "competitor"
  /\ row[i].tries < MaxTries
  /\ row[i].draft.state \in {"none", "expired"}

ListDraftable ==
  /\ worker.pc = "classify"
  /\ worker' = [Idle EXCEPT !.pc = "draft",
                  !.todo = {[id |-> i, post |-> row[i].post, old |-> row[i].age >= TooOld]
                              : i \in {j \in Stored : Draftable(j)}}]
  /\ UNCHANGED <<row, told, ledger, audit, forget, inserts, ghosts>>

First == CHOOSE d \in worker.todo : \A e \in worker.todo : d.id <= e.id

\* The next row of the list, with what the list says of it.
Take(d) == worker.pc = "draft" /\ worker.todo # {} /\ d = First
Done(d) == worker' = [worker EXCEPT !.pc = "draft", !.item = 0, !.post = None,
                                    !.todo = worker.todo \ {d}]

GiveUp(d) ==
  /\ Take(d) /\ d.old
  /\ row' = IF d.id \in Stored THEN [row EXCEPT ![d.id].tries = MaxTries] ELSE row
  /\ Done(d)
  /\ UNCHANGED <<told, ledger, audit, forget, inserts, ghosts>>

Escalate(d) ==
  /\ Take(d) /\ ~ d.old /\ Kind[d.post] = "redLine"
  /\ row' = IF row[d.id].state \in {"relevant", "assigned"}
            THEN [row EXCEPT ![d.id].state = "escalated"] ELSE row
  /\ Done(d)
  /\ UNCHANGED <<told, ledger, audit, forget, inserts, ghosts>>

\* draftReply: the row is read again, by its id, with the classification it
\* has by now.
Read_Listed(d) == d.post
Read(d) == row[d.id].post

KindOf(i) == IF row[i].state = "new" THEN "plain" ELSE Kind[row[i].post]

Ask(d) ==
  /\ Take(d) /\ ~ d.old /\ Kind[d.post] # "redLine"
  /\ d.id \in Stored /\ KindOf(d.id) \notin {"competitor", "redLine"}
  /\ worker' = [worker EXCEPT !.pc = "model", !.item = d.id, !.post = Read(d)]
  /\ UNCHANGED <<row, told, ledger, audit, forget, inserts, ghosts>>

\* recordDraftFailure
Failed(i) ==
  row' = IF i \in Stored THEN [row EXCEPT ![i].tries = IF @ < MaxTries THEN @ + 1 ELSE @]
         ELSE row

\* The row is gone, or another post has come under its id that gets no draft.
AskNothing(d) ==
  /\ Take(d) /\ ~ d.old /\ Kind[d.post] # "redLine"
  /\ d.id \in Stored => KindOf(d.id) \in {"competitor", "redLine"}
  /\ IF d.id \in Stored /\ KindOf(d.id) = "redLine"
     THEN row' = [row EXCEPT ![d.id].state = "escalated",
                             ![d.id].tries = IF @ < MaxTries THEN @ + 1 ELSE @]
     ELSE Failed(d.id)
  /\ Done(d)
  /\ UNCHANGED <<told, ledger, audit, forget, inserts, ghosts>>

\* The token budget is used up.
OverBudget(d) ==
  /\ Take(d) /\ ~ d.old /\ Kind[d.post] # "redLine"
  /\ Done(d)
  /\ UNCHANGED <<row, told, ledger, audit, forget, inserts, ghosts>>

\* The draft is stored under the id, if there is such a row and it has no
\* active draft, which is a race and not a failure.
Active(i) == row[i].draft.state \in {"pending", "approved", "ignored"}
Item      == CHOOSE d \in worker.todo : d.id = worker.item

StoreDraft ==
  /\ worker.pc = "model" /\ worker.item \in Stored /\ ~ Active(worker.item)
  /\ row' = [row EXCEPT ![worker.item].draft = [state |-> "pending", about |-> worker.post]]
  /\ worker' = [worker EXCEPT !.pc = "announce"]
  /\ UNCHANGED <<told, ledger, audit, forget, inserts, ghosts>>

DraftFails ==
  /\ worker.pc = "model"
  /\ \/ Failed(worker.item)
     \/ worker.item \in Stored /\ Active(worker.item) /\ UNCHANGED row
  /\ Done(Item)
  /\ UNCHANGED <<told, ledger, audit, forget, inserts, ghosts>>

\* notifyChats: a key that was used is not sent again; a send that fails is not
\* repeated, as the draft is there.
Announce ==
  /\ worker.pc = "announce"
  /\ told' = IF told[worker.item] = None THEN [told EXCEPT ![worker.item] = worker.post] ELSE told
  /\ Done(Item)
  /\ UNCHANGED <<row, ledger, audit, forget, inserts, ghosts>>

AnnounceFails ==
  /\ worker.pc = "announce"
  /\ Done(Item)
  /\ UNCHANGED <<row, told, ledger, audit, forget, inserts, ghosts>>

EndRound ==
  /\ worker.pc = "draft" /\ worker.todo = {}
  /\ Goto("idle")
  /\ UNCHANGED <<row, told, ledger, audit, forget, inserts, ghosts>>

Stop ==
  /\ worker.pc # "down"
  /\ Goto("down")
  /\ UNCHANGED <<row, told, ledger, audit, forget, inserts, ghosts>>

Restart ==
  /\ worker.pc = "down"
  /\ Goto("idle")
  /\ UNCHANGED <<row, told, ledger, audit, forget, inserts, ghosts>>

-----------------------------------------------------------------------------
Gateway ==
  \/ \E p \in Posts, live \in BOOLEAN : Backfill(p, live)
  \/ \E t \in Targets : FindForgotten(t)
  \/ Forget
  \/ \E i \in Ids : Claim(i) \/ NotUs(i) \/ Ignore(i) \/ Answer(i)

Drafting ==
  \/ ListDraftable
  \/ \E d \in worker.todo : GiveUp(d) \/ Escalate(d) \/ Ask(d) \/ AskNothing(d) \/ OverBudget(d)
  \/ StoreDraft \/ DraftFails \/ Announce \/ AnnounceFails

Round ==
  \/ StartRound
  \/ \E p \in Posts : Check(p)
  \/ Store \/ SelectExpired \/ Prune
  \/ \E i \in Ids : Classify(i)
  \/ Drafting \/ EndRound

Next ==
  \/ Gateway \/ Round \/ Days
  \/ \E p \in Posts : StoreSite(p)
  \/ Stop \/ Restart

Spec == Init /\ [][Next]_vars

-----------------------------------------------------------------------------
(***************************************************************************)
(* Properties.                                                             *)
(***************************************************************************)
\* Text of a forgotten post or author does not come back, through ingestion or
\* backfill, unless the post was just being stored while it was forgotten.
NothingReturns ==
  \A i \in Stored : row[i].text /\ row[i].post \notin SitePosts
    => {AddressOf[row[i].post], AuthorOf[row[i].post]} \intersect audit = {} \/ row[i].post \in slipped

\* A draft answers the post it is stored with, although ids are used again,
\* unless the row was deleted while its draft was being written.
DraftsFit ==
  \A i \in Stored : row[i].draft.about \in {None, row[i].post} \/ i \in crossed

\* A round that has pruned leaves no expired text, whoever took up, forgot or
\* stored an item since the expired rows were selected.
NoOldText == \A i \in Stored : ~ (Expired(i) /\ row[i].text)
RoundsPurge == [][worker.pc = "prune" /\ worker'.pc = "classify" => NoOldText']_vars

\* The chat context names a draft only if its notice was sent there.
Listed(i) == row[i].draft.state = "pending" /\ told[i] # None
ContextConfirmed == \A i \in Stored : Listed(i) => told[i] = row[i].draft.about
=============================================================================
