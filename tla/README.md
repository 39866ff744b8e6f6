# AHA agent: a TLA+ model

AHA (`src/`, TypeScript) watches public sources for mentions of a company, classifies them with
a language model, drafts replies, publishes approved replies on Reddit and talks to its owner in
Plow chats. This directory models the parts of it whose correctness depends on the order in which
things happen, checks them with TLC on small instances and proves the most important results with
TLAPS for instances of any size.

Contents: 1 the system; 2 its hard behaviours; 3 the modules; 4 the runs; 5 the proofs;
6 assumptions and abstractions; 7 where the code and the repository's words differ; 8 what is left
out; 9 what could come next.

## 1. The system

Two operating-system processes share one SQLite database (WAL mode; multi-statement transactions
are `BEGIN IMMEDIATE`, `aha/store/db.ts:82-95`).

* The **worker** (`boot/main.ts` -> `aha/worker.ts`) runs in the boot process. `aha/scheduler.ts`
  ticks every 15 s and never runs two ticks at once, so the worker is one sequential program: every
  15 minutes ingest, retention, classification, draft notifications, promise checks, Reddit
  reconciliation and notification retries; once a day the digest and the site watch.
* The **gateway** (`boot/process.ts`) hosts the Plow plugin: `plugin/transport.ts` turns chat
  messages into agent turns, and the agent calls the tools of `plugin/aha-tools.ts`. Tool calls are
  asynchronous and interleave at every `await`, with each other and with the worker.

Either process may stop at any point; the database, files, Reddit and Plow remain.

| Component | State it keeps | Operations | Talks to | What makes it correct |
|---|---|---|---|---|
| Reddit posting (`aha/responder/*`) | `drafts`, `draft_events`, `ledger`, `flags.paused` | draft, approve (tool or autonomy), edit, ignore, claim, POST, verify, freeze, reconcile, retry | Reddit, deliveries | one reply per thread, only approved text, every reply on record |
| Chat deliveries (`aha/notify/plow.ts`) | `deliveries` | `sendToChat`, `retryUncertainDeliveries` | Plow; called by every part that notifies | one POST per key at a time, no needless duplicate, undecided messages are settled |
| Plow transport (`plugin/transport.ts`, `peer-loop.ts`, `index.ts`) | checkpoint file per chat, sets of seen and replayed ids, per-chat queues, peer counters | connect, baseline, recover, replay, frame, turn, ack | Plow socket and HTTP | no message lost or answered twice across reconnects and restarts |
| Classification (`aha/pipeline/classify.ts`) | `items.state`, leases and attempt counters, `classifications` | lease a batch, call the model, save, release, give up | language model, budget | a late answer does not overwrite a newer one, attempts are bounded |
| Ingestion (`aha/pipeline/ingest.ts`, `aha/sources/*`) | `items`, `source_runs` | page through sources, filter, insert, backfill | source APIs | no duplicates, nothing forgotten comes back |
| Retention and forgetting (`aha/store/retention.ts`) | deletes from all tables, `forget_audit` | prune, redact, forget by address or author | ingestion, posting's ledger | forgotten stays forgotten; open work is not deleted |
| Scheduler (`aha/scheduler.ts`) | last runs, in memory | tick, `dueDaily` | every stage | a daily job runs once a day |
| Digest (`aha/digest/*`) | none of its own | select, render, deliver | deliveries | no routed mention is missed by every digest; a day's digest is repeated only in doubt |
| Promises (`aha/promises/check.ts`) | `promises` | check, notify, close | deliveries | closed once, with the verdict that was announced |
| Item life and drafts (`aha/responder/drafts.ts`, tools) | `items.state`, attempts, `drafts` before approval, keys of notices | list what may be drafted, ask the model, store, announce, escalate; claim, not us, ignore | classification, posting, deliveries, forgetting | a draft stays with the post it answers and is announced |
| Autonomy (`aha/responder/autonomy.ts`) | `autonomy`: level, streak, suggestion; `drafts.edited` | record a decision, suggest, confirm, demote | approving, editing, ignoring and complaint tools; draft stage; deliveries | L2 only after the required run of approvals and a confirmation; a suggestion reaches the owner once |
| Site watch (`aha/sites/*`) | `sites`, cursors, baselines | add, remove, visit, diff | Latch browser | new blocks reported once |
| Routing, topics, trends (`aha/pipeline/*`) | `topics` | pure functions of an item and of counts | classification, digest | agreement with their definitions |
| Setup interview (`aha/setup/draft.ts`, tools) | `setup_draft`, `config` | answer, defer, next question, save | transport (setup gate) | questions in order, nothing recorded early |
| Usage and budget (`aha/usage/*`) | token ledger file | check, record, total, warn | classification, drafts, deliveries | spending stops near the budget, and the owner is told |
| Boot (`boot/*`), config, secrets, Latch bridge, store | files, configuration rows | start-up, reads and writes | everything | sequential; a stop is the crash of the models |

## 2. Hard behaviours

`PROJECT.json` lists them under "hazards", each at its line. In short: the two processes interleave
between any two statements outside a transaction; every model call, HTTP request and notice is an
`await` across which rows change; requests to Reddit and Plow may land although their caller saw a
timeout, or after it; a stop falls between the claim of a row and the record of its outcome; time
limits (grace, staleness, expiry) decide between "still running", "lost" and "never happened", and
are measured from timestamps taken at different moments.

## 3. The modules

| Module | Models | Lines of the code |
|---|---|---|
| `RedditPosting` | approval, ledger, request, verification, reconciliation, retry, pause, crash | `aha/responder/post.ts`, `reconcile.ts`, `policy.ts`, L2 path of `drafts.ts`, six tools of `plugin/aha-tools.ts` |
| `ThreadReply` | the promise that `RedditPosting` implements: a thread is answered at most once, while an attempt is on record | none: an abstract specification |
| `Delivery` | `sendToChat` and `retryUncertainDeliveries` | `aha/notify/plow.ts` |
| `Transport` | `listen` of the chat account, for one chat | `plugin/transport.ts` |
| `Classification` | passes over unclassified items | `aha/pipeline/classify.ts`, `aha/digest/deliver.ts` (lines 10-50) |
| `Items` | an item from insertion to draft and decision, forgetting, pruning, reuse of ids | `aha/store/retention.ts`, `aha/pipeline/ingest.ts`, `aha/responder/drafts.ts`, tools of `plugin/aha-tools.ts` |
| `Sources` | rounds over the sources' lists, page by page | `aha/pipeline/ingest.ts`, `aha/sources/*` |
| `SiteWatch` | the table of watched pages and the daily run over it | `aha/sites/*`, site tools |
| `Promises` | proposal, confirmation, verdict, telling it, closing | `aha/promises/check.ts`, promise tools |
| `Day` | the scheduler's tick, its three jobs and the digests of the founder and the roles | `aha/scheduler.ts`, `aha/worker.ts`, `aha/digest/*` |
| `Autonomy` | decisions, streaks, suggestions, levels, and the worker that approves by level | `aha/responder/autonomy.ts`, draft stage of `drafts.ts`, decision tools |
| `Budget` | check before and charge after a model call, warnings, clocks | `aha/usage/*`, `aha/llm/client.ts`, `aha/digest/deliver.ts` (lines 10-22) |
| `*Proofs` | theorems about the module they are named after; `WorkerProofs` about `Budget`, `Day` and `SiteWatch`, `IngestionProofs` about `Classification` and `Sources` | |
| `MC*` | instances for TLC | |

How they compose. The gateway and the worker meet in the database, and each module holds both sides of
the tables it models; a part that another module models in detail is an action there with any of its
outcomes: what `Delivery` decides is `Accepted`, `Unanswered`, `Refused`, `InDoubt`, `Duplicate` in
`Promises`, `Told`, `NotTold` or `Tell` in `Budget` and `Autonomy`, and the outcomes of `Post` in `Day`; what
`Classification` decides is `Classify` in `Items` and `Day`; what `Items` may delete is `Delete` in
`Classification` and `Take` in `Day`.

### RedditPosting and ThreadReply

State and code: `draft`, `body`, `okBody`, `approvedAt` are columns of `drafts` (`okBody` is the
version whose hash is `approved_sha256`); `retried`, `expired`, `uncertainAt` are what the code reads
from `draft_events`; `post[i][d]` and `thread[t]` are the ledger rows under `post:<day>:reddit:...`
and `thread:reddit:...`, `claimedAt` their `claimed_at` and `reservedBy` the url of a reserved thread
row. `call[c]` is the program counter and the local variables of a caller: each concurrent tool call
of the gateway, and the worker. `comments` and `limbo` belong to Reddit: what was published, and
requests whose caller has given up but which may still land.

Actions: a transaction, or a run of statements no other caller can tell apart, is one action.
`Approve`, `AutoApprove` and `Retry` are the approving transactions; `PostRefused`, `ClaimFreezes`,
`ClaimUncertain`, `ClaimRefused` and `ClaimOwned` are the exits of `claimKeys` and of the checks
before it (after the first two the event is written when a notice has been awaited, by `FinishEvent`);
`Send` to `RespUnknown` the request; `FinishPost`, `FinishThread` and `FinishEvent` the three
statements that record an outcome; `Revert` the draft stage putting a draft back;
`FreezeStale`, `StartScan`, `ScanListing` and `ScanResolve` the reconciliation stage; `Crash` stops
everything and leaves what is on the wire in `limbo`. `AutoApprove` dates an approval with the start of its
stage, however long ago that was. A thread has `lapsed` (a ghost) when `FreezeStale` froze an attempt of it
while its request was still in `limbo`.

`ThreadReply` knows of a thread only the number of its replies and whether an attempt is open. The
refinement mapping counts the comments of the account and reads the thread's ledger row: 'posting' and
'uncertain' are an open attempt, 'posted' and 'verified' an answered thread, all else (with 'ready', a
reservation that has sent nothing, and 'absent') a free one. `AnsweredOnce` says that every step of
`RedditPosting` is a step of `ThreadReply` or changes neither: no second reply, no reply without an
open attempt, and no confirmation taken back. A lapsed thread is one of which nothing is promised any more;
`ThreadReply` lets a thread lapse only while an attempt is open (`Lapse`).

### Delivery

`row[k]` is a row of `deliveries`: its status, whether its text is stored, and the ages of
`created_at` and `updated_at`. `call[c]` is a caller's `sendToChat`: `ClaimFailed`, `ClaimExpired`
and `ClaimRipe` are the UPDATE statements of `claim`, one action each because the other process may
act between them; `Accepted`, `Unanswered` and `Refused` the ways a POST ends. `clock[c]` is the clock a
caller sends with: it runs, or it stands still since the beginning of a retry pass (`StartPass`, with `todo`,
the rows that are left) or of an `aha_digest_now` (`StartDigest`), which classifies before it sends, and
`At(c)` is its age, which goes into the row. Ages saturate where no comparison distinguishes them, so time is
unbounded and the state space finite: liveness is checked on it without a bound on the clock. The ghost
`late` says of a key that some claim of it was dated so long ago that the grace could end before the POST
(`Outlived`); the safety properties are about the other keys, and `OverlappingSendsPostOnce` about all.

### Transport

`kind` is the history that Plow keeps of the chat, a sequence whose positions stand for message ids;
`file` is the checkpoint on disk, `loaded` whether the process has it in `checkpoints`. `conn` is
where the connection is: off, open, reading the baseline, writing it (`buffered`, `late`), live, or
closing while the last job ends. `frames` and `heard` are the socket's iterator and the first entry of
`bufferedChats`; `queue` and `work` the chat's promise chain and the job under way, with the recovered
list it is working through. `done` counts the turns of a message that came to their end, and `base` is
the ghost position of the first checkpoint: what lies before it is history and owed nothing.

`Listing` to `AckLate` are the awaits of the opening, `ReadFrame` is the frame loop, `StartJob`,
`ListMissed`, `NextMissed`, `BeginTurn`, `EndTurn` and `Ack` are `replay` and `consume` cut at their
awaits, `FailRead` and `FailAck` the errors that end a connection (an error while opening, or a
heartbeat that gets no answer, is `Disconnect`), `Abort` is the shutdown signal and `Crash` a stop.

### Classification

`row[i]` is a row of `items` with its row of `classifications`: `lease` is `classify_claimed_until`,
kept as who wrote it and how far off it is, `attempts` and `transport` the two counters, `age` the time
since `fetched_at`, `post` which post is stored under the id, `verdict` the post that the stored
classification is about. `call[c]` is a pass of `classifyNewItems` with the batch it holds and what it
read of it. `ClaimBatch` is the transaction of `claimClassifyBatch`; the loops of `classifyBatchOwned`
are cut into their statements (`FailNext`, `ResetNext`, `ReviewNext`, `SaveState`, `SaveVerdict`,
`ReleaseNext`), since the other process may act between them. `Insert` and `Delete` reuse ids as SQLite
does. The clock of a tool call lags by the call's age (`Skew`).

### Items

`row[i]` is a row of `items` with its draft; `told[i]` the post whose draft was announced under
`draft:<i>`, a key that outlives the row; `ledger` the threads with a row of that key; `audit` the table
`forget_audit`. `worker` goes through a round: `Check` and `Store` are the two statements of ingestion,
`SelectExpired` and `Prune` those of `pruneExpired`, `Classify` a verdict, `ListDraftable` the list that
`draftAndNotify` takes once; then each entry is given up, escalated or asked about (`Ask` reads the row
again by its id), the answer is stored by id (`StoreDraft`) and announced. `FindForgotten` and `Forget`
are the lookup and the transaction of `forgetByUrlOrAuthor`; `Backfill`, `Claim`, `NotUs`, `Ignore` and
`Answer` the tools that change an item. Insertion takes the largest id plus one, as the table does.
`slipped` and `crossed` are ghosts for the two windows the code leaves open: a post that was between
check and insertion when it was forgotten, and an item deleted while the model wrote its draft.

### Sources

`made` and `touched` place a mention in the lists of its source, `kind` is how the source pages
(`sources/*.ts`: by number, newest first, last updated first, or a fixed list), `walk` the round with
its window, the sources left and the cursor in the first of them, `degraded` the sources whose latest
`source_runs` row is not 'ok'. `ReadPage` fetches, filters, inserts and decides by the source's rule
whether there is another page (`PastWindow`, `Following`, `LastAllowed`); `FetchFails` and `StoreFails`
are the exits of the adapter and of the insertion loop; `Publish`, `Bump` and `Vanish` move the lists
between two pages.

### SiteWatch

`sites` is the table (id, page, mode, cursor, whether the page itself was visited), `page` what the pages
show, `run` the worker's list of sites, taken once, and the visit under way with the blocks still to
store. `ReadPage`, `StoreNext` and `SaveCursor` are the steps of `visitSite`, `VisitFails` and `OpenFails`
its errors and those of `withBrowser`, `RecordFails` a record of a visit that cannot be written, which ends
the run, `Add` and `RemoveSite` the tools. `silent` is the ghost of what a
visit recorded on purpose without storing it (the baseline, and what the mode filters).

### Promises

`proposal` and `status` are the tables `promise_proposals` and `promises`; `reading` is what
`windowCounts` and `relatedRole` would find; `row` the deliveries of results by promise, verdict and
chat, `told` what Plow took. `run` is `runPromiseChecks`: `Check` computes all verdicts, `Address` takes
the next result and reads its role, `Paused` to `Unanswered` are the ways one message ends, `Close` the
conditional UPDATE. `Retry` is the last stage of a round for one row.

### Day

`worker` is the scheduler: the instant of its tick, the instant of the last, and `lastDaily` of the two
daily jobs. `DueDaily` and `Skipped` are `dueDaily`; `GoTo` marks a job as run before it runs, as the code
does. An instant is an hour, and `Local` gives its local day and hour, so that a day may skip or repeat one;
the clock goes on while a tick lasts, as far as the instance goes. `item` holds when an item was fetched and
classified and whether somebody took it, `Route` the audiences `routeItem` gives it, `box` the deliveries of
the digests by local day and audience, with the list of items that a delivery in doubt still carries.
`Listed` is the selection of `buildDigest`: items of the last day for those they are routed to, those of the
day before for the founder. `SendDigest` claims and posts the digests of the day, each with one of the
`Outcomes` ("taken" and "lost" are the two things an uncertain POST may have come to), and `Retry` is the
worker's retry of one in doubt, with the text it had. `shown` (a ghost) is what a chat has been shown.

### Autonomy

`row` is the table `autonomy` by pair of source and category, `draft` the columns `state` and `edited` of a
draft, in a place that the next item may take when an item is done with. `ApproveTrusted`,
`ApproveUncounted` and `ApproveCounted` are the three ways through `recordDecision` in the transaction of
`aha_approve`; `call` holds what the last of them is to suggest until `Tell` sends it under its undated key.
`Edit`, `Ignore` and `Complain` end in `demote` (`Correct`), `Confirm` is `aha_autonomy_confirm`. `worker`
walks one draft of the draft stage through the model call, `ReadLevel` (`itemAutonomy`), `AutoApprove` (the
transaction, which asks for policy and text again but not for the level) and the post, after whose failure
the draft is put back (`PostFails`). The ghosts count approvals of drafts that nobody changed, suggestions
since the last correction, and whether the owner was told of the latest.

### Budget

`used` is the ledger's sum by UTC day, `notice` the deliveries of `budget:<day>:<mark>`. `call[c]` is a
caller in `classifyNewItems`: its clock (`Live`, or for a call of `aha_digest_now` the day it began), the
warnings it still has to send, and whether it has passed the check. `Warn` reads the ledger once for both
warnings, `AskVerdict` is the check and the call of the model, `Charge` the line that `recordUsage` appends
on the day the answer comes; the worker goes on to drafts (`AskDraft`), which are checked twice, with the
clock of the stage and with a running one, and never warn.

## 4. The runs

| Run | Checks | Result |
|---|---|---|
| `reddit` | `OneSenderPerThread`, `AnsweredOnce` (the refinement of `ThreadReply`), `RepliesAreRecorded`, `OnlyApprovedText`: two items of one thread, a tool call, the worker, four points in time, an edit | hold |
| `delivery` | `OnePostInFlight`, `DuplicatesNeedDoubt`, `TextKept`, `SentIsFinal`, and `UncertainSettles` under fairness: a key of the owner's chat or one of another chat, a tool call, the worker | hold |
| `transport` | `TypeOK`, `NothingSkipped`, `OneTurnAtRisk`, `TurnsInOrder`, `NeverBackwards`, and `EveryTurnTaken` under fairness: two messages, one repeated frame | hold |
| `classification` | `TypeOK`, `VerdictFitsPost`, `VerdictStands`, and `ItemsSettle` under fairness: one id used for three posts, the worker and one tool call | hold |
| `items` | `NothingReturns`, `DraftsFit`, `RoundsPurge`: three posts, two ids, two insertions | hold |
| `items_context` | `ContextConfirmed` on the same instance | violated, section 7 |
| `sources` | `SourcesTypeOK`, `OkRoundsComplete`, and `SourcesIndependent` under fairness: two mentions, pages of one, all four ways of paging | hold |
| `sites` | `WatchTypeOK`, `NothingSwallowed`, and `EveryBlockReached` under fairness: two pages, three blocks, cursors of two entries | hold |
| `promises` | `ClosedAsTold`, `ClosedForGood`, and `EveryPromiseCloses` under fairness: two promises, one due, two chats | hold |
| `autonomy` | `TrustIsEarned`, `SuggestedOnce`: a category that may reach L2 and one that may not, three drafts, a streak of two | hold |
| `budget` | `OvershootBounded`, and `ExhaustionIsTold` under fairness: the worker and a tool, two days, calls of two fifths of the budget | hold |
| `day` | `DayTypeOK`, `NoMentionLost`, `SitesFirst`: two days, a founder, a role, an item routed to one of them | hold |

The type invariants of `RedditPosting`, `Delivery`, `Items`, `Promises`, `Autonomy` and `Budget` are proved
(section 5) and therefore in no run; those of `Transport`, `Classification`, `Sources`, `SiteWatch` and `Day` are
proved as well as checked. The names of the last three have a prefix (`DaySpec`, `WatchNext`, `SourcesInit`),
because their proofs share a module with those of another component, each under its own names.

What each property means is said above it in its module. Every one fails when a plausible bug is put
in the code's place; the operators named after the bug (`Ripe_Early`, `WasForgotten_Address`,
`VisitFails_Repeats`, ...) stand beside the ones they would replace.

Bounds.

* `reddit`: two items of one thread are the smallest instance in which a thread can be contended; the
  tool call and the worker are the two kinds of caller (more tool calls are left to the proof, which
  holds for any number). Four points in time with a grace of two ticks, a stale limit of three and days
  of two let an attempt be made, frozen, judged absent and retried under the next day's key; a draft stage may
  last from the first point to the last. The clock ends, so deadlock is not checked.
* `delivery`: ages saturate, so that time need not end. A tool call and the worker are the two kinds of caller,
  and the proof holds for any number of either. One of the two keys is of the owner's chat, which is sent to
  during a pause and by `aha_digest_now`, the other of another chat, which a pause holds back; a behaviour uses
  one of them (`OneKeyUsed`), since keys do not affect each other but through the time they cost a pass or a
  digest, which is free here. A timeout of one tick and a grace of three make a claim that is dated two ticks ago
  the first that comes too late; a clock may stand still for three (`Longest`), the grace itself, and an age of
  four is too old, so that an expiry, a reclaim and an answer can be apart.
* `transport`: two messages in either direction, one repeated frame and any number of faults give every
  pair that can be reordered, skipped or repeated: a recovered and a live one, an inbound and an outbound
  one, one before the first checkpoint and one after.
* `classification`: a lease of two ticks, a model call of up to one and a tool call of up to two are the
  smallest numbers with which a lease can end before, during and after the call it was taken for; two
  attempts of each kind are the smallest limit at which a retry can still succeed and one counter can reset
  the other. Items do not affect each other but through the batch they share; batches of any size are in
  the proofs.
* `items`: two ids and three posts let an id be used for a second post while a list, a selection or an
  answer of the model still has it; of the posts two share a thread and one comes from the site watch,
  which does not ask what was forgotten. Two insertions are enough for one reuse; what is not inserted
  is over when its rows are, hence no deadlock check.
* `sources`: a list of two mentions, read in pages of one, is the shortest in which the second page can be
  affected by a change after the first; each is in both segments. Three pages are allowed, one less than
  two segments of two pages take, so that a round may end at the limit; four instants with windows of two
  and three put a mention before, in and after a window.
* `sites`: a cursor of two entries for a page of two blocks beside a page of one; two ids, so that a
  removed page's id comes back while a run holds it.
* `promises`: the counts stand for a topic with too few mentions, one that halved and one that turned
  urgent; one change of the count between rounds and one crash suffice for two rounds to disagree and for
  a round to be cut at any place. Promises stop when all is said, hence no deadlock check.
* `day`: days of three hours, with `DayLen` for 24, in which the digest's hour is the last; the windows (one
  and two days) and hours compare as in the code. The first day skips the digest's hour, and by the end of the
  second an item has left its role's window and come into the founder's; an hour that comes twice is left to the
  proof, which holds for any days. Jobs may take any time. One item of either route is found in a behaviour
  (`OneItemFound`), since items do not affect each other. Time ends with the last day, hence no deadlock check.
* `autonomy`: two drafts of one category let a decision about one fall between the worker's steps with the
  other, or complete the streak that the other began; the third draft belongs to a category that is counted
  and suggested but may not be confirmed. A streak of two is the shortest that can be half complete.
* `budget`: with calls of two fifths the budget is reached by the third, so that 80 per cent is passed by
  one that leaves room for another, and two callers can overspend together. A midnight and one crash may
  fall anywhere.

Fairness.

* `Delivery`. Every call of a live process runs to its end: a POST ends at the latest with its
  `AbortSignal.timeout`, and between awaits nothing can stop it but a crash. The worker's stages come
  round every 15 minutes and the retries are the last of them, whatever the earlier ones send, hence
  strong fairness of `StartPass`; the rows of a pass are read once. An `aha_digest_now` ends too, since the
  items it classifies are those there are when it begins (`deliver.ts:12`), hence strong fairness of
  `EndDigest`. Time does not stop. Nothing is assumed of Plow's answers, of the pause
  or of crashes.
* `Transport`. The connection loop, the jobs and the supervisor's restart go on by themselves; nothing
  makes the socket carry a frame. `EveryTurnTaken` is conditional on faults ceasing at some time
  (`<>[][~ Fault]_vars`), since a connection that always fails delivers nothing, and on the last
  connection's listing showing the chat, since a listing cut off by `has_more` (line 243) leaves chats
  out and only a frame of theirs, which the socket need not carry, would bring them back.
* `Classification`. A pass goes on until it ends (a model call has a timeout), the worker starts one
  every 15 minutes, and time passes. `ItemsSettle` is conditional on crashes, an exhausted budget and
  digests ordered by hand ceasing at some time. The last condition is needed: such a digest can reset an
  item's count of transport failures and lose its lease to the worker before it saves.
* `Sources`, `SiteWatch`. Rounds and runs are started by the scheduler and go on by themselves
  (`WF_watchVars(Work)`, `WF_sourcesVars(Work)`). The conditions of the two liveness properties name what must cease for the source or
  page in question only: the others may fail at every visit, which is what these properties are about.
  `EveryBlockReached` also asks that the worker's crashes, failed sessions and removals cease, and
  `SourcesIndependent` that the source's lists fit the pages a round reads.
* `Promises`. The worker's rounds go on. Strong fairness of `Duplicate \/ Accepted` for each chat says that
  no chat is refused, unreachable or paused for ever; crashes and changes of the count are bounded by the
  instance, and with endless changes a promise could indeed stay open.
* `Budget`. The worker's rounds go on, each of which warns before it classifies, and its retries of
  messages go on (weak fairness); strong fairness of `Told` for each key says that Plow takes a message that
  is sent again and again. The day may end first, and then nothing is promised of it.
* `RedditPosting`, `Items`, `Autonomy` and `Day` state no liveness: what happens there waits for people, or has a clock
  that ends.

## 5. The proofs

TLAPS checks, for any sets of items, posts, threads, keys, chats, callers, mentions, sources and blocks,
any calendar of local hours and any bounds that meet the modules' assumptions:

| Theorem | States |
|---|---|
| `RedditPostingProofs!TypeCorrect`, `!OneSender` | `Spec => []TypeOK`, `[]OneSenderPerThread` |
| `RedditPostingProofs!ApprovedTextOnly` | `Spec => []OnlyApprovedText` |
| `RedditPostingProofs!RepliesRecorded` | `Spec => []RepliesAreRecorded` |
| `RedditPostingProofs!ImplementsThreadReply` | `Spec => AnsweredOnce`, the refinement of `ThreadReply` |
| `DeliveryProofs!TypeCorrect` | `Spec => []TypeOK` |
| `DeliveryProofs!OnePost`, `!Duplicates`, `!TextIsKept` | `Spec => []OnePostInFlight`, `[]DuplicatesNeedDoubt`, `[]TextKept` |
| `DeliveryProofs!SentStays` | `Spec => SentIsFinal` |
| `TransportProofs!TypeCorrect`, `!NoneSkipped`, `!OneAtRisk` | `Spec => []TypeOK`, `[]NothingSkipped`, `[]OneTurnAtRisk` |
| `TransportProofs!InOrder`, `!NeverBack` | `Spec => TurnsInOrder`, `Spec => NeverBackwards` |
| `IngestionProofs!TypeCorrect`, `!VerdictsFit` | `Spec => []TypeOK`, `[]VerdictFitsPost` |
| `IngestionProofs!VerdictsStand` | `Spec => VerdictStands` |
| `ItemsProofs!TypeCorrect`, `!Forgotten`, `!DraftsAnswer` | `Spec => []TypeOK`, `[]NothingReturns`, `[]DraftsFit` |
| `ItemsProofs!Purged` | `Spec => RoundsPurge` |
| `AutonomyProofs!TypeCorrect`, `!TrustEarned`, `!AskedOnce` | `Spec => []TypeOK`, `[]TrustIsEarned`, `[]SuggestedOnce` |
| `IngestionProofs!SourcesTypeCorrect`, `!OkRoundsAreComplete` | `SourcesSpec => []SourcesTypeOK`, `SourcesSpec => OkRoundsComplete` |
| `WorkerProofs!TypeCorrect`, `!OvershootIsBounded` | `Spec => []TypeOK`, `[]OvershootBounded` |
| `WorkerProofs!DayTypeCorrect` | `DaySpec => []DayTypeOK` |
| `WorkerProofs!MentionsKept`, `!SitesComeFirst` | `DaySpec => []NoMentionLost`, `[]SitesFirst` |
| `WorkerProofs!WatchTypeCorrect`, `!BlocksKept` | `WatchSpec => []WatchTypeOK`, `[]NothingSwallowed` |
| `PromisesProofs!TypeCorrect` | `Spec => []TypeOK` |
| `PromisesProofs!ResultsWereTold`, `!ResultsStand` | `Spec => ClosedAsTold`, `Spec => ClosedForGood` |

**RedditPosting.** `OneSenderPerThread` speaks of two callers' program counters and is not inductive: it
follows from the ledger. The inductive invariant `IInv` (end of `RedditPosting.tla`) says that (a) of all
the post rows of one thread at most one is held (`OneHeldPost`), and a held row keeps its thread row from
looking free (`HeldThread`); (b) each caller's place in `postReply` fixes what its two rows can be
(`Progress`): for instance both are 'posting' or frozen to 'uncertain' while its request is out; (c) at
most one caller is between claim and record for a thread (`OneWriterPerThread`), and one at most for an
item; (d) the rows a reconciliation wants to declare absent are still undecided (`ScanRows`). The proof
has one lemma for each action, and a lemma of the ledger for each kind of update. The assumption it rests
on is `PatienceAssumption` (a call and the request it gives up last less than the grace and stale limits).

The other theorems go up in layers, each an invariant relative to those below it. `Steps` sums up what a step
may do to each variable (a row, a draft, a caller's job, a comment, a request), so that the later layers have
one lemma per conjunct and need not walk through the actions again.

* `TextInv` carries the approved text from the draft to the caller, to the request on the wire, to the request
  whose caller is gone (`limbo`) and to the comment. Its hard part is the draft stage, which puts an approved
  draft back to pending: it does so only where nothing of the item is out or can come out
  (`WorkerUnposted`). `OnlyApprovedText` follows.
* `DoubtInv` dates an attempt: nothing is dated in the future (`Past`), an open row has an open thread
  (`OpenRows`), and reconciliation resolves only rows that no caller is still finishing (`Undisturbed`).
* `AnswerInv` says who knows what. A comment holds a row (`CommentRows`); a request in limbo has an open row,
  a silent thread and little time (`LimboRows`); a caller that believes that nothing landed is right, and
  nothing of the thread can land any more but its own request (`CallersKnow`); so is a scan that is about to
  declare an attempt absent (`ScanKnows`). All this is said of threads that have not lapsed, and a thread that
  has lapsed stays so (`LapsedStays`). `RepliesAreRecorded` follows.
* `ImplementsThreadReply` maps each step: a comment appears only in a silent thread whose record is open
  (`Reply`), and of the ledger's updates those that open, answer or free a thread are steps of `ThreadReply`.

None of this bounds the length of a draft stage. An attempt that a long stage has dated too early may be frozen
while its request is on the wire; its thread has lapsed then, and what the theorems say of threads they say of
the others. The exception is the code's (section 7), and no wider than that: a thread lapses in `FreezeStale`
only, with a request in `limbo`.

**Delivery.** The row is the lock: while a key is young, none of its claims was late, and someone posts it, its
row is 'uncertain', has its text, and will not be ripe before that POST has ended (`Lock`): what is left of the
timeout still fits between `updated_at` and the grace. It does when the claim is made, unless it is dated too
long ago - and then the key is `late` -, and both age alike from then on. Hence nobody else finds such a row
ripe, and an answer meets the row its call claimed. Of a key that was accepted, some POST is in doubt or the row
says sent, from which `DuplicatesNeedDoubt` and `SentIsFinal` follow. Nothing is assumed of how long a clock
stands still: the bound `Longest` of the instances may be any number.

**Classification.** The invariant says that (a) a call that still has its lease on an item asked the model
about the post that is there, and the item has no classification until this call has come to it
(`LeaseFits`); (b) between the two statements of `save` the row is gone, or still leased to this call
(`SaveFits`); (c) what is in the queue or absent has no classification, and what is absent has no lease
(`RowFits`); (d) a loop over a batch always has a next item (`Loops`). A step of a pass is framed
(`Framed`): it writes rows it has leased, or rows still in the queue, so `CallerStep` settles the
invariants of all the other passes once. The proof uses neither the length of the lease nor that of a
call: a lease that runs out early costs a second question to the model, never a wrong classification.
Only `TypeCorrect` speaks of numbers. That attempts stay within their limit is the part of it that is not
obvious: the limit is read when a batch is claimed and the count is written after the answer, while other
passes may have had the item in between. A pass that still has its lease on an item it has not come to has
an attempt left (`Trials`), since nobody counts an attempt without the lease.

**Transport.** Several parts support each other: what each phase of a connection allows (`Phases`); nobody is
ahead of the history (`Ranges`); all that is owed behind the checkpoint has had its turn and at most the
next message is beyond it (`Progress`); and what a job holds while it recovers or consumes (`AtWork`). They
suffice for a recovery, which lists all that is missing, but not for a frame: a live message is compared
with the checkpoint only, so that it may be consumed only because every earlier one is surely before it.
That is `Gapless`: once the chat has been recovered on a connection, what is still to come - the job, the
queue, the unread frames, the frames the socket has yet to carry - lists every message beyond the
checkpoint, none before those that precede it. It survives repeated frames, frames that arrive while the
listing is under way, and messages that were both recovered and carried. `NothingSkipped` and
`TurnsInOrder` rest on it, for histories of any length and any number of repeated frames.

**Items.** Each property speaks of rows that one process writes between two statements of the other, so
the invariant says what the worker may still rely on at its second statement: the post it is about to
store is not forgotten, or has slipped (`MayStore`); an expired row with text is among the selected
(`MayPrune`: rows do not age during a round, and new ones are young); the item being drafted still holds
the post the model was asked about, or has crossed (`MayDraft`).

**Promises.** That a chat was told is kept only in the deliveries and in the outcomes of the round, so both
are shown to say no more than what Plow took (`SentWasTold`, `RoundFits`); a proposal is the only one of a
promise that is not open yet (`ProposalsFit`), which is why no late confirmation reaches a closed one.

**Autonomy.** A row never claims more than the ghost counted (`RowsEarned`), and a suggestion that was made
stands until it is confirmed or corrected (`AskedFits`). Both rest on the column `edited`: it must be set on
every pending draft that a person has changed (`EditsShow`), although an approval clears it and a failed
post of the worker makes the draft pending again; that draft is one nobody had changed (`WorkerFits`).

**Budget.** A bound on the tokens alone is not inductive, since calls under way will still be charged. The
invariant (`TodayBounded`) bounds the tokens of a day by the budget and the cost of the callers that have
*no* call under way: once the budget is reached nobody joins those under way, and each charge takes one of
them out. The rest is arithmetic on cardinalities (`RoomFacts`).

**Sources.** What a round has read is not in the state, so `OkRoundsComplete` needs to be said of what is
still to be read: a mention that is due of the source being read is in the store, or in a segment that is
yet to come, or in this one from the cursor on (`DueIsAhead`). For a step between two pages that means that
whoever kept their place still has what was before them (`KeptPlace`): a mention published now is too new
for the window, an updated thread has moved, and a removal moves what it was ahead of and nothing else. For
a page it means that what it leaves is behind its end (`PageFacts`), that a page that reaches past the
window leaves nothing due (`BehindPage`: a thread is never updated before it was made), and that before
what page number `p` leaves there are the entries of `p + 1` pages (`NextNumber`). These rest on the order of a list: it is
strict and total (`AheadFacts`), and of finitely many entries each has a number of its own before it
(`BeforeFacts`), so that pages and their last entries exist. That lists are finite is not assumed: only
finitely many mentions are published at any time.

**Day.** `NoMentionLost` is about what the scheduler did *not* do in an hour, so the invariant speaks of the
chances of a digest: undisturbed, there is a tick in each hour (`Ticking`), and what the scheduler remembers of
a day stands for a chance that is over (`DigestMemory`). So the first chance of a day is taken, its digests are
posted under unused keys, and list for its role, or for the founder, what was classified by then; what is
listed is in a text that is stored until it is delivered or given up. No hypothesis is needed about the
calendar, the digest's hour or the length of the jobs: what they may spoil, the property names.
`SitesFirst` follows from what the day's early tick leaves behind: a watch that is over, or one that is due by
now (`SitesKept`).

**SiteWatch.** What a visit has written down but not saved must be covered as well: known before, stored,
left out on purpose, or about to be stored (`CursorCovered`). Nothing is left to be stored when the cursor is
saved, whichever site has the id by then. The rest is about sequences: a set put in a row has its elements,
a finite set of ids can be put in order (`ByIdFacts`), and a capped cursor has old entries only.

Each invariant was checked by TLC before it was proved. With these, every safety property that a passing
run checks is proved. Liveness (`UncertainSettles`, `EveryTurnTaken`, `ItemsSettle`, `SourcesIndependent`,
`EveryBlockReached`, `EveryPromiseCloses`, `ExhaustionIsTold`) and `ENABLED` are out of the prover's reach
and stay with TLC. No theorem speaks of a recursive definition; those of the libraries that would be
unfolded (`SortSeq`) are described by their result instead (`ById`).

## 6. Assumptions and abstractions

RedditPosting
* Time is counted in ticks longer than an HTTP timeout: a call sees the clock advance at most once,
  and a request given up by its caller lands or is lost within the tick.
* A 4xx answer (after the one retry of a 401), and a 2xx that names no comment, mean that nothing was
  published; that is how the code reads them (`post.ts:342-353, 363-367`). If Reddit publishes the
  comment and answers so, the attempt counts as failed and may be repeated.
* A listing of the account's comments takes an HTTP round trip, during which no other caller stays
  between the two UPDATEs of `finish`.
* Bodies are versions, the hash of a version is the version; the two minutes of clock skew that
  reconciliation allows are left out; an item's draft is created once here (`Items` has the attempts
  before).
* Whether an item is approved automatically is a free choice, so what holds holds for every level.

Delivery
* SQLite statements take no time; a tick is at most the HTTP timeout. The pause check and the INSERT of
  a call are one action, as are the three statements that open a retry pass (of one row only one of
  them writes).
* The grace is longer than a timeout, and an age of a day longer than the grace (`DeliveryAssumption`), as in the
  code. How long a clock stands still is not assumed: a pass or a digest may take the grace and longer, and what
  is claimed with too old a clock then is excepted by the properties (`late`), not by the model.
* A key belongs to one chat, and its text is either stored or not.

Transport
* One chat. The others share its connection, the four slots and the first error: for this chat they
  are a delay or a disconnection.
* An HTTP listing shows the whole history up to the moment it is answered, and frames of one
  connection come in that order apart from repetitions.
* `seen` holds ids at or behind the checkpoint and forgets the oldest of 512; it spares requests and
  is left out. The chat stays active and accepted, and its messages come from members or the agent.
* The notice that follows a failed turn comes after its acknowledgement and changes nothing here.

Classification
* A tick is at least as long as a model call (55 s), and a call sees the clock advance at most
  `CallTicks` times, less than a lease lasts (`ClassificationAssumption`).
* Deleting a row and inserting another under its id does not fit between the two statements of `save`.
* What the model found, and which decision people took, make no difference to the queue. The budget may
  end a pass before any batch. The configuration is there (without it there are no items), and a draft
  stage acts on classified items only.

Items
* Ages are the three the code tells apart (draftable, kept, expired); they advance between rounds, never
  during one. A verdict depends on the post (`Kind`), and a published reply is one step.
* The roles that get a notice are one recipient. A failed notice of a stored draft is not repeated, as in
  the code. What a target of `aha_forget` names is given; parsing it is left out.

Sources
* One walk at a time stands for the rounds of both processes: they meet only in insertions, which the
  unique key makes idempotent. Forgotten posts are left to `Items`.
* A thread is identified with the mention in it. A GraphQL thread or an Agent Index post lists at most its
  last 50 or 100 comments; older ones beyond that number are not read by the code and not promised here.
* A list has an order in which no two entries are level (by time, then by mention), a thread is not updated
  before it was made, and a removal shifts only the entries behind it.
* GitHub's two searches and HN's terms are segments; a request that Product Hunt's adapter does not make because
  the complexity budget would not cover it is `FetchFails`. HN pages as far as its `nbPages` says, which is taken
  to be the whole list; what the API leaves out of it is not promised.

SiteWatch
* A block stands for its key; how a page is cut into blocks, and the address checks of `url.ts`, are left
  out, as is what `last_status` tells the owner. A block belongs to one page: of two pages that show the same
  content the item of one is stored. What a page has beyond its first 12,000 characters (`SITE_MAX_CHARS`) is not
  read, and is not promised. That the run stores a post that was forgotten is in `Items`.

Promises
* Of a delivery only its status is kept, and `InDoubt` may give it up at any time, which stands for its
  expiry. The topic matching of `windowCounts` is the count it leads to.

Day
* `fetched_at` is the time at which the stage began that stored an item, so that an item may be any age when it is
  classified (`Classify`). An item that somebody took, marked "not us" or had forgotten is not followed any more.
* "Listed" is what `buildDigest` selects. Which seven of the selected items the text has room for (`slice(0, 7)`)
  is left out, as are the second chat of the founder, which gets his list too, and a change of the routes,
  the time zone or the digest's hour.
* `NoMentionLost` promises nothing of items that are routed to nobody with a chat, and nothing after a
  disturbance: a stop, a tick that outlasts the next instant, a digest refused, given up or not posted, or a key
  used before, which a digest built past midnight does to the next day's.
* The ages that decide when a delivery in doubt is retried or given up are in `Delivery`; here either may happen
  at any time.

Autonomy
* A streak beyond the limit is as good as the limit. `aha_approve` runs under the policy of `RedditPosting`,
  so whether it succeeds is a free choice; of a post it matters only whether the draft goes back.
* An item has one draft and keeps its pair; ids that are used again are in `Items`.
* There is one key for a suggestion, of which only the delivery's status is kept; its expiry is `Settle`.

Budget
* The ledger can be read whenever it is asked; an answer whose tokens cannot be written is `NoAnswer`. A
  call costs at most `MaxCost`, and the budget stays what it is.
* Tokens beyond what overlapping calls can spend are not counted (`Most`). A delivery that failed is like
  none.

## 7. Where the code and the repository's words differ

One run shows a disagreement to its end.

* `items_context`: "chat context omits draft facts without a confirmed notification to that chat"
  (`tests/drafts.test.ts:282`), but `items.id` is not AUTOINCREMENT and deliveries outlive the items they name.
  After the newest item is forgotten, the next one takes its id, its notice is skipped as a duplicate, and the
  context lists the draft because of the old notice.

The other disagreements are stated as definitions of the modules that no run checks, or follow from them.
Adding the name to the INVARIANTS or PROPERTIES of the configuration shows the counterexample.

| Definition (configuration) | What the code does |
|---|---|
| `OverlappingSendsPostOnce` (`MCDelivery.cfg`) | "two overlapping sends with the same key post once" (`tests/notify.test.ts:41`). `aha_digest_now` sends with the time it was asked at (`aha-tools.ts:588-589`), after it has classified whatever was pending. After five minutes of that its claim is ripe when it is written, and the worker's retry pass, or its budget warning under the same key, claims it again and posts a second time. The two answers are recorded in any order (`plow.ts:59-61`): a 'sent' may become 'uncertain', without a text to be sent again. A retry pass does the same to the rows it comes to after more than the grace (`plow.ts:138`, about 30 messages that time out). A key that failed a day ago overlaps for another reason: it keeps its `created_at` (`plow.ts:45`), is too old when it is tried again, and is discarded in mid-flight by the next call. |
| `RecentPostingLeftAlone` (`MCReddit.cfg`) | "a recent posting ledger is left alone while its send may still be in progress" (`tests/reconcile.test.ts:181`). An auto-approval is dated with the start of its draft stage (`drafts.ts:226`), whose length nothing bounds. If the stage took about as long as the stale limit, a crash after the POST lets the next stage freeze the attempt at once. Its grace has run out as well: the attempt may be declared absent while its request can still land, and the owner may order a retry, a second reply. |
| `SitesBeforeDigest` (`MCDay.cfg`) | "The cycle runs once a day, an hour before the digest, so a new mention makes that day's digest" (`README.md:124-125`). After a tick that lasts from before the watch's hour to the digest's both are due in one tick, in which the digest comes first (`worker.ts:113-116`). `SitesFirst` says what does hold. |
| `UncertainIsPursued` (`MCReddit.cfg`) | A caller that meets a thread being posted by another item's caller returns "uncertain", and the owner is told that AHA "will check automatically" (`post.ts:66, 195`). It has no post row, so reconciliation never looks for it and the promised notice does not come. |
| `PaceKept` (`MCReddit.cfg` with `ThreadOf <- MCOwnThreads`, two threads, `PerCommunity = 1`, `MinInterval = 0`, symmetry `CallsSymmetry`) | "L2 auto-post runs checkPolicy and will not send a 4th subreddit reply" (`tests/reddit-autonomy.test.ts:371`). Auto-approval checks the limits but reserves nothing (`drafts.ts:228`), so a human approval in the other process may take the same last slot. |
| `ClaimedOnce` (`MCClassification.cfg`) | "concurrent classifyNewItems calls claim a batch only once" (`tests/classify.test.ts:285`). `aha_digest_now` passes a clock that stands still (`aha-tools.ts:589`); once the call has lasted as long as a lease, the batches it claims are free for the worker at once. `VerdictStands` shows that no classification is lost by it: the model is only asked twice. |
| `FirstVisitSilent` (`MCSiteWatch.cfg`) | The first visit is meant to record a baseline silently (`README.md:126-128`). The run takes its list once (`watch.ts:61`) and saves cursors by id: a page registered during a run under the id of a removed one may inherit the cursor of the page visited under that id, and then reports everything on its first visit. |
| `AutomaticOnlyAtL2` (`MCAutonomy.cfg`) | A complaint "Drops autonomy for that source×category to L1 immediately" (`plugin/aha-tools.ts:1113`, `tests/reddit-autonomy.test.ts:499`). The draft stage reads the level (`drafts.ts:223`) before the transaction that approves, which does not read it again: a complaint, edit or ignored draft that commits in between is too late, and the draft is posted without asking. |
| `SuggestionsReachOwner` (`MCAutonomy.cfg`) | "five unchanged approvals suggest L2 and the owner must confirm" (`tests/reddit-autonomy.test.ts:106`). The suggestion goes out under a key without a date (`aha-tools.ts:987`): after a correction a second streak sets the flag again, its message is a duplicate of the first one, and the owner does not hear of it. |
| `ExhaustedStops` (`MCBudget.cfg`) | "Token budget exhausted (100%) today … Classification and drafts stop." (`budget.ts:54`). `aha_digest_now` keeps the clock of its start (`aha-tools.ts:589`): past midnight it checks the total of the day before and goes on classifying at the cost of a day that is used up. |
| `OneResultEach` (`MCPromises.cfg`) | "promise results go to the role group and owner DM once each" (`tests/promises.test.ts:347`). If one chat could not be told and the count changes before the next round, the other chat gets a second, different verdict; an undecided message with the old verdict may even be delivered by the retries after the promise was closed with another. |

Also seen while modelling, without a definition of their own:

* `promise_proposals` reuses ids: a repeated confirmation may write a newer proposal that nobody confirmed
  (`aha-tools.ts:1311`).
* The keys `escalate:<id>` and `expire:<id>` come back with the ids like `draft:<id>` (`Items`); a draft
  under way when its row is deleted is stored with the post that takes its id (`crossed`), and a row that
  came to an id of the draft stage's list is drafted unclassified.
* An item that was marked "not us" keeps its pending draft, which can still be approved. Forgetting one
  item of a thread frees the thread's ledger row, on which another item's published reply relies.
* A crash between the approval that completes a streak and its message loses the suggestion, since the flag
  is set. A category outside the whitelist is suggested too, and its confirmation refused.
* A visit that reads an empty page is recorded as "ok", and an empty first read makes the second visit a
  baseline too.
* After an outage of more than a day mentions are lost unless someone backfills. What is classified too late for
  its role's 24 hours is in the founder's digest of the next day.
* An item that is routed to nobody with a chat (a role without one, or the category "other") is shown only
  between 24 and 48 hours after it was fetched, in the founder's digest (`build.ts:84-91`); if that is built an
  hour later on the third day than the item was fetched on the first, it is in none.
* A failed digest is not tried again on its day (`scheduler.ts:78`).
* A digest that is built past midnight takes the key of the next day, so that the next day's is a duplicate
  (`build.ts:114`). With a digest hour of 0 the site watch before it is one of the day before; on a day that skips
  the watch's hour both are due in one tick, and the digest goes first.

Hazards of the code that `PROJECT.json` does not list. Reachable in the modules, though no property speaks of
them: a crash between the two statements of `save`, which leaves a relevant item without a category
(`classify.ts:107`); the freed ledger row of a thread (`retention.ts:78`). Not told apart by any state of
the modules: the peer guard counts bursts that a pause splits (`peer-loop.ts:22`); the first checkpoint of a
chat (`transport.ts:266`); a pause that comes after the claim (`aha-tools.ts:1243`) and a crash between
approval and claim (`aha-tools.ts:969`), which leave an attempt that the owner believes stopped or lost; the
site watch, which does not ask what was forgotten (`watch.ts:42`).

## 8. Not modelled

* **Routing, topics and trends**: pure functions of words and counts with tests of their own.
* **Reply drafting and validation**, prompts and schemas: content; a model call is an await that may fail.
* **The usage ledger's files and exports**: formats. That the budget is used up is a free choice of
  `Classification` and `Items`; `Budget` says when it is.
* **The interview and tools that are single reads or writes**, the email account, attachments, the peer
  guard and what a turn does.
* **Boot, configuration, secrets, Reddit credentials, the store's migrations, the Latch bridge**:
  sequential reads and writes; a stop is the crash of the modules, a failed token or session an action.

## 9. What could come next

Modules: the peer guard of the transport; the interview's order and setup gate.
Abstract specifications that `Delivery` and `Transport` implement, as `RedditPosting` implements
`ThreadReply`.
