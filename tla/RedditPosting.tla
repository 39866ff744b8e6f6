--------------------------- MODULE RedditPosting ---------------------------
(***************************************************************************)
(* How an approved reply reaches Reddit: the draft's approval, the ledger  *)
(* that reserves the post and its thread, the HTTP request, verification,  *)
(* reconciliation of outcomes nobody saw, and the one retry a human may    *)
(* order (aha/responder/post.ts, reconcile.ts, policy.ts, the L2 path of   *)
(* drafts.ts and the approve, edit, ignore, retry, pause and resume tools  *)
(* of plugin/aha-tools.ts).                                                *)
(*                                                                         *)
(* Two processes share one SQLite file. The worker runs its stages one     *)
(* after another, so it is one caller; every tool call of the gateway is a *)
(* caller of its own, because the event loop interleaves tool calls at     *)
(* their awaits. A transaction, and a run of statements that no other      *)
(* caller's statement can tell apart, is one action; the two UPDATEs and   *)
(* the INSERT that record an outcome are three, since a crash can fall     *)
(* between them.                                                           *)
(*                                                                         *)
(* Time is counted in ticks longer than any HTTP timeout: a call that was  *)
(* approved or claimed sees the clock advance at most once before it       *)
(* returns, and a request given up by its caller lands or is lost within   *)
(* the tick. An item has one draft (unique index on active drafts), passes *)
(* the content rules of checkPolicy, and belongs to one thread and one     *)
(* community (subreddit).                                                  *)
(***************************************************************************)
EXTENDS Integers, FiniteSets, Sequences

CONSTANTS
  Items,          \* Reddit items that may get a reply
  Threads,        \* Reddit threads
  ThreadOf,       \* thread of each item (redditThreadId)
  CommunityOf,    \* subreddit of each item
  Gateways,       \* concurrent tool calls of the gateway process
  Worker,         \* the worker process, a single sequential caller
  NoItem,
  MaxTime,        \* bound on the clock
  MaxEdits,       \* bound on the versions of a draft's body
  DayLength,      \* ticks in a calendar day
  Window,         \* the rolling 24 hours of the posting limits
  Grace,          \* REDDIT_RECONCILE_GRACE_MS
  Stale,          \* REDDIT_STALE_POSTING_MS
  MaxAge,         \* REDDIT_RECONCILE_MAX_AGE_MS
  PerDay, PerCommunity, MinInterval   \* postingLimits

ASSUME ThreadsAssumption == ThreadOf \in [Items -> Threads]
ASSUME CallersAssumption == Worker \notin Gateways /\ NoItem \notin Items
ASSUME TimeAssumption ==
  /\ {MaxTime, MaxEdits, Window, Grace, Stale, MaxAge} \subseteq Nat
  /\ {PerDay, PerCommunity, MinInterval} \subseteq Nat
  /\ DayLength \in Nat \ {0}
\* A call and the request it gives up take less than the two waiting times.
ASSUME PatienceAssumption == Grace >= 2 /\ Stale >= 2

Callers == Gateways \union {Worker}
Time    == 0 .. MaxTime
Bodies  == 0 .. MaxEdits
Never   == -1                      \* no such timestamp
Day(t)  == t \div DayLength
Days    == {Day(t) : t \in Time}

LedgerStates ==
  {"none", "ready", "posting", "posted", "verified", "uncertain", "absent", "failed"}
Outcomes == {"posted", "verified", "uncertain", "failed"}

VARIABLES
  now,        \* the clock
  paused,     \* flags.paused
  draft,      \* drafts.state of each item, "none" before the draft exists
  body,       \* version of drafts.body
  okBody,     \* version whose hash is drafts.approved_sha256, Never if NULL
  approvedAt, \* drafts.approved_at, Never if NULL
  retried,    \* a 'retried' draft event exists
  expired,    \* a 'reconcile_expired' draft event exists
  uncertainAt,\* time of the latest 'uncertain' draft event, Never if none
  post,       \* ledger.state under post:<day>:reddit:<sub>:<item>
  claimedAt,  \* ledger.claimed_at of the post keys
  thread,     \* ledger.state under thread:reddit:<thread>
  reservedBy, \* ledger.url of a 'ready' thread row, as the item it belongs to
  call,       \* what each caller is doing
  scan,       \* the worker's reconciliation in progress
  comments,   \* Reddit: the comments under each item that the account made
  limbo,      \* requests without a caller that may still land
  lapsed      \* threads of which an attempt was frozen while its request was in limbo

draftVars  == <<draft, body, okBody, approvedAt>>
eventVars  == <<retried, expired, uncertainAt>>
ledgerVars == <<post, claimedAt, thread, reservedBy>>
vars == <<now, paused, draftVars, eventVars, ledgerVars, call, scan, comments, limbo,
          lapsed>>

-----------------------------------------------------------------------------
(***************************************************************************)
(* Callers. A caller in one of the Posting stages runs postReply, or is    *)
(* about to; the others are idle, or the worker between its stages.        *)
(***************************************************************************)
Waiting == {"claimed", "sent"}
Posting == {"approved", "verify", "finPost", "finThread", "finEvent", "revert"} \union Waiting
Stages  == {"idle", "drafting", "drafted", "listing", "resolving"} \union Posting

Idle == [pc |-> "idle", item |-> NoItem, day |-> 0, kind |-> "none", text |-> 0,
         at |-> 0, out |-> "failed", wire |-> "none", old |-> FALSE]

NoScan == [todo |-> {}, ripe |-> {}, found |-> {}]

\* A caller enters postReply for item i, whose approval is dated t.
Begin(i, kind, t) ==
  [Idle EXCEPT !.pc = "approved", !.item = i, !.kind = kind, !.at = t,
               !.day = Day(t)]

\* What the caller does once postReply has returned: the worker puts a failed
\* draft back or goes on drafting, a tool call ends.
AfterPost(c, failed) ==
  IF call[c].kind # "auto" THEN Idle
  ELSE IF failed THEN [call[c] EXCEPT !.pc = "revert", !.wire = "none", !.old = FALSE]
  ELSE [Idle EXCEPT !.pc = "drafting", !.at = call[c].at]

\* postReply returned "failed": nothing was sent. What is uncertain is not failed.
Unsent_OrUnknown(outcome) == outcome \in {"failed", "uncertain"}
Unsent(outcome) == outcome = "failed"

Goto(c, stage)     == call' = [call EXCEPT ![c].pc = stage]
Record(c, outcome) == call' = [call EXCEPT ![c].pc = "finPost", ![c].out = outcome,
                                           ![c].wire = "none"]
Suspect(c)         == call' = [call EXCEPT ![c].pc = "finEvent", ![c].out = "uncertain"]
Return(c, outcome) == call' = [call EXCEPT ![c] = AfterPost(c, Unsent(outcome))]

-----------------------------------------------------------------------------
(***************************************************************************)
(* Policy.                                                                 *)
(***************************************************************************)
Counted == {"posting", "posted", "ready", "verified", "uncertain"}

\* recentPostClaims: the post keys counted at time t.
RecentClaims(t) ==
  {k \in Items \X Days : /\ post[k[1]][k[2]] \in Counted
                         /\ claimedAt[k[1]][k[2]] > t - Window}

LocalClaims(i, t) == {k \in RecentClaims(t) : CommunityOf[k[1]] = CommunityOf[i]}

ThreadTaken(i) == thread[ThreadOf[i]] \in Counted

\* postingLimitReasons returns no reason.
PaceAllows(i, t) ==
  /\ Cardinality(RecentClaims(t)) < PerDay
  /\ Cardinality(LocalClaims(i, t)) < PerCommunity
  /\ \A k \in RecentClaims(t) : MinInterval > 0 => claimedAt[k[1]][k[2]] + MinInterval <= t
  /\ ~ ThreadTaken(i)

CheckPolicy(i, t) == PaceAllows(i, t) /\ ~ paused

\* Two INSERT ... ON CONFLICT DO NOTHING: rows that exist stay as they are.
RecordReady(i, t) ==
  LET d  == Day(t)
      th == ThreadOf[i]
  IN  /\ post' = [post EXCEPT ![i][d] = IF @ = "none" THEN "ready" ELSE @]
      /\ claimedAt' = [claimedAt EXCEPT ![i][d] = IF post[i][d] = "none" THEN t ELSE @]
      /\ thread' = [thread EXCEPT ![th] = IF @ = "none" THEN "ready" ELSE @]
      /\ reservedBy' = [reservedBy EXCEPT ![th] = IF thread[th] = "none" THEN i ELSE @]

-----------------------------------------------------------------------------
(***************************************************************************)
(* Approval.                                                               *)
(***************************************************************************)
\* draftAndNotify starts a pass; `now` is read once for the whole pass.
StartDrafts ==
  /\ call[Worker].pc = "idle"
  /\ call' = [call EXCEPT ![Worker] = [Idle EXCEPT !.pc = "drafting", !.at = now]]
  /\ UNCHANGED <<now, paused, draftVars, eventVars, ledgerVars, scan, comments, limbo,
                 lapsed>>

\* draftReply inserts the pending draft; at level L2 the pass goes on to
\* approve it, at L1 it announces it and takes the next item.
DraftReply(i, auto) ==
  /\ call[Worker].pc = "drafting"
  /\ draft[i] = "none"
  /\ draft' = [draft EXCEPT ![i] = "pending"]
  /\ call' = IF auto
             THEN [call EXCEPT ![Worker].pc = "drafted", ![Worker].item = i,
                               ![Worker].text = body[i]]
             ELSE call
  /\ UNCHANGED <<now, paused, body, okBody, approvedAt, eventVars, ledgerVars, scan,
                 comments, limbo, lapsed>>

\* The draft may have been edited or decided since the worker read it.
BodyUnchanged(i, text) == draft[i] = "pending" /\ body[i] = text

ApproveDraft(i, text, t) ==
  /\ draft'      = [draft EXCEPT ![i] = "approved"]
  /\ okBody'     = [okBody EXCEPT ![i] = text]
  /\ approvedAt' = [approvedAt EXCEPT ![i] = t]
  /\ UNCHANGED body

\* The L2 transaction: policy at the pass's `now`, then the conditional UPDATE.
\* It reserves nothing in the ledger.
AutoApprove ==
  LET w == call[Worker]
  IN  /\ w.pc = "drafted"
      /\ IF CheckPolicy(w.item, w.at) /\ BodyUnchanged(w.item, w.text)
         THEN /\ ApproveDraft(w.item, w.text, w.at)
              /\ call' = [call EXCEPT ![Worker] = Begin(w.item, "auto", w.at)]
         ELSE /\ call' = [call EXCEPT ![Worker] = [Idle EXCEPT !.pc = "drafting", !.at = w.at]]
              /\ UNCHANGED draftVars
      /\ UNCHANGED <<now, paused, eventVars, ledgerVars, scan, comments, limbo, lapsed>>

EndDrafts ==
  /\ call[Worker].pc = "drafting"
  /\ call' = [call EXCEPT ![Worker] = Idle]
  /\ UNCHANGED <<now, paused, draftVars, eventVars, ledgerVars, scan, comments, limbo,
                 lapsed>>

\* aha_approve: policy, approval and reservation in one transaction. The tool
\* may await a notice before it calls postReply.
Approve(g, i) ==
  /\ call[g].pc = "idle"
  /\ draft[i] = "pending"
  /\ CheckPolicy(i, now)
  /\ ApproveDraft(i, body[i], now)
  /\ RecordReady(i, now)
  /\ call' = [call EXCEPT ![g] = Begin(i, "approve", now)]
  /\ UNCHANGED <<now, paused, eventVars, scan, comments, limbo, lapsed>>

Edit(i) ==
  /\ draft[i] = "pending"
  /\ body[i] < MaxEdits
  /\ body' = [body EXCEPT ![i] = @ + 1]
  /\ UNCHANGED <<now, paused, draft, okBody, approvedAt, eventVars, ledgerVars, call, scan,
                 comments, limbo, lapsed>>

Ignore(i) ==
  /\ draft[i] = "pending"
  /\ draft' = [draft EXCEPT ![i] = "ignored"]
  /\ UNCHANGED <<now, paused, body, okBody, approvedAt, eventVars, ledgerVars, call, scan,
                 comments, limbo, lapsed>>

Pause ==
  /\ ~ paused
  /\ paused' = TRUE
  /\ UNCHANGED <<now, draftVars, eventVars, ledgerVars, call, scan, comments, limbo,
                 lapsed>>

Resume ==
  /\ paused
  /\ paused' = FALSE
  /\ UNCHANGED <<now, draftVars, eventVars, ledgerVars, call, scan, comments, limbo,
                 lapsed>>

-----------------------------------------------------------------------------
(***************************************************************************)
(* Claiming the two ledger keys. i is the item, d the day of its post key. *)
(***************************************************************************)
PostKey(c)   == post[call[c].item][call[c].day]
ThreadKey(c) == thread[ThreadOf[call[c].item]]

Claimable == {"none", "ready", "failed"}

SomeonePosting(c) == PostKey(c) = "posting" \/ ThreadKey(c) = "posting"

\* A thread reserved by another item's approval.
ReadyForeign(c) == ThreadKey(c) = "ready" /\ PostKey(c) \notin {"ready", "failed"}

\* The draft the caller read is approved and hashes to the approved text.
Sendable(i) == draft[i] = "approved" /\ body[i] = okBody[i]

\* postReply refuses an unapproved or changed draft and a paused system, and
\* gives up the reservation it holds.
PostRefused(c) ==
  LET i == call[c].item
      d == call[c].day
      t == ThreadOf[i]
  IN  /\ call[c].pc = "approved"
      /\ ~ Sendable(i) \/ paused
      /\ post' = [post EXCEPT ![i][d] = IF @ = "ready" THEN "none" ELSE @]
      /\ claimedAt' = [claimedAt EXCEPT ![i][d] = IF post[i][d] = "ready" THEN Never ELSE @]
      /\ IF thread[t] = "ready" /\ reservedBy[t] = i
         THEN /\ thread' = [thread EXCEPT ![t] = "none"]
              /\ reservedBy' = [reservedBy EXCEPT ![t] = NoItem]
         ELSE UNCHANGED <<thread, reservedBy>>
      /\ Return(c, "failed")
      /\ UNCHANGED <<now, paused, draftVars, eventVars, scan, comments, limbo, lapsed>>

\* claimKeys meets a send in progress, or what a crash left of one: it freezes
\* the keys that are 'posting'. The owner is told, and the event follows.
ClaimFreezes(c) ==
  LET i == call[c].item
      d == call[c].day
      t == ThreadOf[i]
  IN  /\ call[c].pc = "approved" /\ Sendable(i) /\ ~ paused
      /\ SomeonePosting(c)
      /\ post' = [post EXCEPT ![i][d] = IF @ = "posting" THEN "uncertain" ELSE @]
      /\ thread' = [thread EXCEPT ![t] = IF @ = "posting" THEN "uncertain" ELSE @]
      /\ Suspect(c)
      /\ UNCHANGED <<now, paused, draftVars, eventVars, claimedAt, reservedBy, scan,
                     comments, limbo, lapsed>>

\* claimKeys meets an outcome that nobody saw.
ClaimUncertain(c) ==
  /\ call[c].pc = "approved" /\ Sendable(call[c].item) /\ ~ paused
  /\ ~ SomeonePosting(c)
  /\ {PostKey(c), ThreadKey(c)} \subseteq Claimable \union {"uncertain"}
  /\ "uncertain" \in {PostKey(c), ThreadKey(c)}
  /\ Suspect(c)
  /\ UNCHANGED <<now, paused, draftVars, eventVars, ledgerVars, scan, comments, limbo,
                 lapsed>>

\* claimKeys refuses: the reply is out already, the thread is taken, or the
\* attempt was found absent and only a retry may repeat it.
ClaimRefused(c) ==
  LET done == {"posted", "verified"}
  IN  /\ call[c].pc = "approved" /\ Sendable(call[c].item) /\ ~ paused
      /\ ~ SomeonePosting(c)
      /\ \/ {PostKey(c), ThreadKey(c)} \intersect (done \union {"absent"}) # {}
         \/ "uncertain" \notin {PostKey(c), ThreadKey(c)} /\ ReadyForeign(c)
      /\ Return(c, IF PostKey(c) \in done THEN "posted" ELSE "failed")
      /\ UNCHANGED <<now, paused, draftVars, eventVars, ledgerVars, scan, comments, limbo,
                     lapsed>>

\* claimKeys takes both keys; from here on this caller owns the thread.
MayTake_PostOnly(c) == PostKey(c) \in Claimable /\ ~ ReadyForeign(c)
MayTake(c) ==
  /\ {PostKey(c), ThreadKey(c)} \subseteq Claimable
  /\ ~ ReadyForeign(c)

ClaimOwned(c) ==
  LET i == call[c].item
      d == call[c].day
      t == ThreadOf[i]
  IN  /\ call[c].pc = "approved" /\ Sendable(i) /\ ~ paused
      /\ MayTake(c)
      /\ post' = [post EXCEPT ![i][d] = "posting"]
      /\ claimedAt' = [claimedAt EXCEPT ![i][d] = now]
      /\ thread' = [thread EXCEPT ![t] = "posting"]
      /\ reservedBy' = [reservedBy EXCEPT ![t] = NoItem]
      /\ call' = [call EXCEPT ![c].pc = "claimed", ![c].text = body[i]]
      /\ UNCHANGED <<now, paused, draftVars, eventVars, scan, comments, limbo, lapsed>>

\* aha_retry: the checks of the tool and those of claimAbsentRetry, which
\* repeats them in its transaction. The retry is dated now, under today's key.
RetryAllowed(i) ==
  /\ Sendable(i)
  /\ ~ retried[i]
  /\ post[i][Day(approvedAt[i])] = "absent"
  /\ thread[ThreadOf[i]] = "absent"
  /\ ~ paused
  /\ PaceAllows(i, now)
  /\ Day(now) # Day(approvedAt[i]) => post[i][Day(now)] = "none"

Retry(g, i) ==
  /\ call[g].pc = "idle"
  /\ RetryAllowed(i)
  /\ approvedAt' = [approvedAt EXCEPT ![i] = now]
  /\ post' = [post EXCEPT ![i][Day(now)] = "posting"]
  /\ claimedAt' = [claimedAt EXCEPT ![i][Day(now)] = now]
  /\ thread' = [thread EXCEPT ![ThreadOf[i]] = "posting"]
  /\ retried' = [retried EXCEPT ![i] = TRUE]
  /\ call' = [call EXCEPT ![g] = [Begin(i, "retry", now) EXCEPT !.pc = "claimed",
                                                                !.text = body[i]]]
  /\ UNCHANGED <<now, paused, draft, body, okBody, expired, uncertainAt, reservedBy, scan,
                 comments, limbo, lapsed>>

-----------------------------------------------------------------------------
(***************************************************************************)
(* The request.                                                            *)
(***************************************************************************)
Send(c) ==
  /\ call[c].pc = "claimed"
  /\ call' = [call EXCEPT ![c].pc = "sent", ![c].wire = "sent"]
  /\ UNCHANGED <<now, paused, draftVars, eventVars, ledgerVars, scan, comments, limbo,
                 lapsed>>

\* No credential that may post, or the token is refused: nothing was sent. A
\* token request that merely fails on the network counts as uncertain.
TokenFails(c, outcome) ==
  /\ call[c].pc = "claimed"
  /\ Record(c, outcome)
  /\ UNCHANGED <<now, paused, draftVars, eventVars, ledgerVars, scan, comments, limbo,
                 lapsed>>

\* Reddit publishes the comment.
Publish(i, text) == comments' = [comments EXCEPT ![i] = Append(@, [body |-> text, at |-> now])]

Land(c) ==
  /\ call[c].pc = "sent" /\ call[c].wire = "sent"
  /\ Publish(call[c].item, call[c].text)
  /\ call' = [call EXCEPT ![c].wire = "landed"]
  /\ UNCHANGED <<now, paused, draftVars, eventVars, ledgerVars, scan, limbo, lapsed>>

\* A 2xx answer that names the comment.
RespPosted(c) ==
  /\ call[c].pc = "sent" /\ call[c].wire = "landed"
  /\ Record(c, "posted")
  /\ UNCHANGED <<now, paused, draftVars, eventVars, ledgerVars, scan, comments, limbo,
                 lapsed>>

\* 401 twice, another 4xx, or a 2xx that carries errors: Reddit refused.
RespRefused(c) ==
  /\ call[c].pc = "sent" /\ call[c].wire = "sent"
  /\ Record(c, "failed")
  /\ UNCHANGED <<now, paused, draftVars, eventVars, ledgerVars, scan, comments, limbo,
                 lapsed>>

\* A timeout, a broken connection, a 5xx or an unreadable 2xx. The request may
\* have landed, or land yet.
AfterUnknown(c, outcome) ==
  /\ Record(c, outcome)
  /\ limbo' = IF call[c].wire = "sent"
              THEN limbo \union {[item |-> call[c].item, body |-> call[c].text]}
              ELSE limbo

RespUnknown(c) ==
  /\ call[c].pc = "sent"
  /\ AfterUnknown(c, "uncertain")
  /\ UNCHANGED <<now, paused, draftVars, eventVars, ledgerVars, scan, comments, lapsed>>

LimboLands(r) ==
  /\ r \in limbo
  /\ Publish(r.item, r.body)
  /\ limbo' = limbo \ {r}
  /\ UNCHANGED <<now, paused, draftVars, eventVars, ledgerVars, call, scan, lapsed>>

LimboLost(r) ==
  /\ r \in limbo
  /\ limbo' = limbo \ {r}
  /\ UNCHANGED <<now, paused, draftVars, eventVars, ledgerVars, call, scan, comments,
                 lapsed>>

\* Recording an outcome: finish updates the post row, then the thread row, and
\* the draft event follows. No UPDATE looks at the state it overwrites.
FinishPost(c) ==
  /\ call[c].pc = "finPost"
  /\ post' = [post EXCEPT ![call[c].item][call[c].day] = call[c].out]
  /\ Goto(c, "finThread")
  /\ UNCHANGED <<now, paused, draftVars, eventVars, claimedAt, thread, reservedBy, scan,
                 comments, limbo, lapsed>>

FinishThread(c) ==
  /\ call[c].pc = "finThread"
  /\ thread' = [thread EXCEPT ![ThreadOf[call[c].item]] = call[c].out]
  /\ Goto(c, "finEvent")
  /\ UNCHANGED <<now, paused, draftVars, eventVars, post, claimedAt, reservedBy, scan,
                 comments, limbo, lapsed>>

FinishEvent(c) ==
  LET i == call[c].item
  IN  /\ call[c].pc = "finEvent"
      /\ uncertainAt' = IF call[c].out = "uncertain" THEN [uncertainAt EXCEPT ![i] = now]
                                                      ELSE uncertainAt
      /\ IF call[c].out = "posted" THEN Goto(c, "verify")
                                    ELSE Return(c, call[c].out)
      /\ UNCHANGED <<now, paused, draftVars, retried, expired, ledgerVars, scan, comments,
                     limbo, lapsed>>

\* The comment reads back as approved.
Verified(c) ==
  /\ call[c].pc = "verify"
  /\ Record(c, "verified")
  /\ UNCHANGED <<now, paused, draftVars, eventVars, ledgerVars, scan, comments, limbo,
                 lapsed>>

\* It does not, or cannot be read: the row stays 'posted'.
Unverified(c) == Return(c, "posted")

NotVerified(c) ==
  /\ call[c].pc = "verify"
  /\ Unverified(c)
  /\ UNCHANGED <<now, paused, draftVars, eventVars, ledgerVars, scan, comments, limbo,
                 lapsed>>

\* draftAndNotify puts a draft it could not post back among the pending ones.
Revert ==
  LET i == call[Worker].item
  IN  /\ call[Worker].pc = "revert"
      /\ IF draft[i] = "approved"
         THEN /\ draft' = [draft EXCEPT ![i] = "pending"]
              /\ okBody' = [okBody EXCEPT ![i] = Never]
              /\ approvedAt' = [approvedAt EXCEPT ![i] = Never]
              /\ UNCHANGED body
         ELSE UNCHANGED draftVars
      /\ call' = [call EXCEPT ![Worker] = [Idle EXCEPT !.pc = "drafting", !.at = call[Worker].at]]
      /\ UNCHANGED <<now, paused, eventVars, ledgerVars, scan, comments, limbo, lapsed>>

-----------------------------------------------------------------------------
(***************************************************************************)
(* Reconciliation, a stage of the worker.                                  *)
(***************************************************************************)
Later(a, b) == IF a < b THEN b ELSE a

\* freezeStalePosting: attempts old enough to be dead, judged by the draft's
\* approval; both keys must still be 'posting'.
IsStale(i) == draft[i] = "approved" /\ now - approvedAt[i] >= Stale

StaleKeys == {k \in Items \X Days : /\ post[k[1]][k[2]] = "posting"
                                    /\ thread[ThreadOf[k[1]]] = "posting"
                                    /\ IsStale(k[1])}

\* getPendingPosts: uncertain posts with an 'uncertain' event, not given up yet.
GraceStart(i) == Later(uncertainAt[i], approvedAt[i])

PendingKeys == {k \in Items \X Days : /\ post[k[1]][k[2]] = "uncertain"
                                      /\ draft[k[1]] = "approved"
                                      /\ ~ expired[k[1]]
                                      /\ uncertainAt[k[1]] # Never}

PastGrace_Zero(i) == now - GraceStart(i) >= 0
TooOld(i)    == now - GraceStart(i) >= MaxAge
PastGrace(i) == now - GraceStart(i) >= Grace

FreezeStale ==
  /\ call[Worker].pc = "idle"
  /\ StaleKeys # {}
  /\ \E k \in StaleKeys :
       /\ post' = [post EXCEPT ![k[1]][k[2]] = "uncertain"]
       /\ thread' = [thread EXCEPT ![ThreadOf[k[1]]] = "uncertain"]
       /\ uncertainAt' = [uncertainAt EXCEPT ![k[1]] = Later(@, approvedAt[k[1]])]
       /\ lapsed' = lapsed \union {ThreadOf[r.item] : r \in {q \in limbo : q.item = k[1]}}
  /\ UNCHANGED <<now, paused, draftVars, retried, expired, claimedAt, reservedBy, call, scan,
                 comments, limbo>>

\* The rest of the stage up to the request for the account's comments.
StartScan ==
  /\ call[Worker].pc = "idle"
  /\ StaleKeys = {} /\ PendingKeys # {}
  /\ LET old    == {k \in PendingKeys : TooOld(k[1])}
         active == PendingKeys \ old
     IN  /\ expired' = [i \in Items |-> expired[i] \/ \E k \in old : k[1] = i]
         /\ IF active = {}
            THEN UNCHANGED <<call, scan>>
            ELSE /\ call' = [call EXCEPT ![Worker] = [Idle EXCEPT !.pc = "listing"]]
                 /\ scan' = [todo |-> active, found |-> {},
                             ripe |-> {k \in active : PastGrace(k[1])}]
  /\ UNCHANGED <<now, paused, draftVars, retried, uncertainAt, ledgerVars, comments, limbo,
                 lapsed>>

\* commentMatches: same parent and text, not older than the approval.
Listed(i) == \E n \in DOMAIN comments[i] : /\ comments[i][n].body = body[i]
                                           /\ comments[i][n].at >= approvedAt[i]

\* The listing arrives. One that does not reach back to an attempt may miss
\* its comment, and proves nothing absent. It was asked for over HTTP, so no
\* caller has been between the two UPDATEs of finish all that time.
Resolvable_Blind(found, covers) == found \union scan.ripe
Resolvable(found, covers) == found \union (IF covers THEN scan.ripe ELSE {})

ScanListing(found, covers) ==
  /\ call[Worker].pc = "listing"
  /\ ~ \E c \in Callers : call[c].pc = "finThread"
  /\ \A k \in found : Listed(k[1])
  /\ covers => found = {k \in scan.todo : Listed(k[1])}
  /\ LET todo == Resolvable(found, covers)
     IN  IF todo = {}
         THEN /\ call' = [call EXCEPT ![Worker] = Idle]
              /\ scan' = NoScan
         ELSE /\ Goto(Worker, "resolving")
              /\ scan' = [todo |-> todo, ripe |-> {}, found |-> found]
  /\ UNCHANGED <<now, paused, draftVars, eventVars, ledgerVars, comments, limbo, lapsed>>

\* recordResolution sets both keys in one transaction; a notice is awaited
\* between two resolutions.
ScanResolve(k) ==
  LET state == IF k \in scan.found THEN "verified" ELSE "absent"
      left  == scan.todo \ {k}
  IN  /\ call[Worker].pc = "resolving"
      /\ k \in scan.todo
      /\ post' = [post EXCEPT ![k[1]][k[2]] = state]
      /\ thread' = [thread EXCEPT ![ThreadOf[k[1]]] = state]
      /\ IF left = {}
         THEN call' = [call EXCEPT ![Worker] = Idle] /\ scan' = NoScan
         ELSE scan' = [scan EXCEPT !.todo = left] /\ UNCHANGED call
      /\ UNCHANGED <<now, paused, draftVars, eventVars, claimedAt, reservedBy, comments,
                     limbo, lapsed>>

-----------------------------------------------------------------------------
(***************************************************************************)
(* Crash and time.                                                         *)
(***************************************************************************)
\* The container stops: every caller and the scan are gone, the database and
\* requests already on the wire are not.
Crash ==
  /\ \E c \in Callers : call[c].pc # "idle"
  /\ limbo' = limbo \union {[item |-> call[c].item, body |-> call[c].text] :
                             c \in {x \in Callers : call[x].wire = "sent"}}
  /\ call' = [c \in Callers |-> Idle]
  /\ scan' = NoScan
  /\ UNCHANGED <<now, paused, draftVars, eventVars, ledgerVars, comments, lapsed>>

\* A caller in postReply sees at most one tick; a lost request settles first.
Tick ==
  /\ now < MaxTime
  /\ limbo = {}
  /\ \A c \in Callers : call[c].pc \in Posting => ~ call[c].old
  /\ now' = now + 1
  /\ call' = [c \in Callers |-> [call[c] EXCEPT !.old = call[c].pc \in Posting]]
  /\ UNCHANGED <<paused, draftVars, eventVars, ledgerVars, scan, comments, limbo, lapsed>>

-----------------------------------------------------------------------------
Init ==
  /\ now = 0
  /\ paused = FALSE
  /\ draft = [i \in Items |-> "none"]
  /\ body = [i \in Items |-> 0]
  /\ okBody = [i \in Items |-> Never]
  /\ approvedAt = [i \in Items |-> Never]
  /\ retried = [i \in Items |-> FALSE]
  /\ expired = [i \in Items |-> FALSE]
  /\ uncertainAt = [i \in Items |-> Never]
  /\ post = [i \in Items |-> [d \in Days |-> "none"]]
  /\ claimedAt = [i \in Items |-> [d \in Days |-> Never]]
  /\ thread = [t \in Threads |-> "none"]
  /\ reservedBy = [t \in Threads |-> NoItem]
  /\ call = [c \in Callers |-> Idle]
  /\ scan = NoScan
  /\ comments = [i \in Items |-> <<>>]
  /\ limbo = {}
  /\ lapsed = {}

Caller(c) ==
  \/ PostRefused(c) \/ ClaimFreezes(c) \/ ClaimUncertain(c) \/ ClaimRefused(c) \/ ClaimOwned(c)
  \/ Send(c) \/ TokenFails(c, "failed") \/ TokenFails(c, "uncertain")
  \/ RespPosted(c) \/ RespRefused(c) \/ RespUnknown(c)
  \/ FinishPost(c) \/ FinishThread(c) \/ FinishEvent(c)
  \/ Verified(c) \/ NotVerified(c)

Reddit ==
  \/ \E c \in Callers : Land(c)
  \/ \E r \in limbo : LimboLands(r) \/ LimboLost(r)

Stage ==
  \/ StartDrafts \/ EndDrafts \/ AutoApprove \/ Revert
  \/ \E i \in Items, auto \in BOOLEAN : DraftReply(i, auto)
  \/ FreezeStale \/ StartScan
  \/ \E found \in SUBSET scan.todo, covers \in BOOLEAN : ScanListing(found, covers)
  \/ \E k \in scan.todo : ScanResolve(k)

Tool ==
  \/ \E g \in Gateways, i \in Items : Approve(g, i) \/ Retry(g, i)
  \/ \E i \in Items : Edit(i) \/ Ignore(i)
  \/ Pause \/ Resume

Next == (\E c \in Callers : Caller(c)) \/ Reddit \/ Stage \/ Tool \/ Crash \/ Tick

Spec == Init /\ [][Next]_vars

-----------------------------------------------------------------------------
(***************************************************************************)
(* Properties.                                                             *)
(***************************************************************************)
\* The items of a thread, and its comments.
ItemsOf(t)    == {i \in Items : ThreadOf[i] = t}
Replies(t)    == UNION {{i} \X DOMAIN comments[i] : i \in ItemsOf(t)}

CallType ==
  [pc : Stages, item : Items \union {NoItem}, day : Days,
   kind : {"none", "auto", "approve", "retry"}, text : Bodies, at : Time, out : Outcomes,
   wire : {"none", "sent", "landed"}, old : BOOLEAN]

\* Types: every variable keeps the shape the code gives it.
TypeOK ==
  /\ now \in Time /\ paused \in BOOLEAN
  /\ draft \in [Items -> {"none", "pending", "approved", "ignored"}]
  /\ body \in [Items -> Bodies]
  /\ okBody \in [Items -> Bodies \union {Never}]
  /\ approvedAt \in [Items -> Time \union {Never}]
  /\ retried \in [Items -> BOOLEAN] /\ expired \in [Items -> BOOLEAN]
  /\ uncertainAt \in [Items -> Time \union {Never}]
  /\ post \in [Items -> [Days -> LedgerStates]]
  /\ claimedAt \in [Items -> [Days -> Time \union {Never}]]
  /\ thread \in [Threads -> LedgerStates]
  /\ reservedBy \in [Threads -> Items \union {NoItem}]
  /\ call \in [Callers -> CallType]
  /\ scan \in [todo : SUBSET (Items \X Days), ripe : SUBSET (Items \X Days),
               found : SUBSET (Items \X Days)]
  /\ comments \in [Items -> Seq([body : Bodies, at : Time])]
  /\ limbo \subseteq [item : Items, body : Bodies]
  /\ lapsed \subseteq Threads

\* Two callers never have a request for the same thread in hand at once: not
\* two tools, not a tool and the worker, not a retry and a first attempt.
OneSenderPerThread ==
  \A c1, c2 \in Callers :
    /\ call[c1].pc \in Waiting /\ call[c2].pc \in Waiting
    /\ ThreadOf[call[c1].item] = ThreadOf[call[c2].item]
    => c1 = c2

\* A reply that is out is on record, from the moment Reddit shows it and whatever
\* its caller knows: no row says that the thread is free, that the attempt failed,
\* or that it is absent. (A human may order a retry of an absent attempt.) What is
\* excepted is a thread of which reconciliation gave an attempt up too early.
RepliesAreRecorded ==
  \A t \in Threads \ lapsed : Replies(t) # {} => thread[t] \in Counted \ {"ready"}

\* Whatever appears on Reddit is the text that was approved, and its draft
\* still says so: an edit or a revert never slips in behind a post.
OnlyApprovedText ==
  \A i \in Items : \A n \in DOMAIN comments[i] :
    draft[i] = "approved" /\ comments[i][n].body = okBody[i]

\* Posting implements a thread that is answered at most once, whatever crashes,
\* times out or is retried and however many of its posts have an approved draft:
\* in its record an attempt is open from the claim of the thread until its
\* outcome is known, whoever holds it, and a thread known to be answered stays so.
\* The record lapses, and nothing is promised any more, when reconciliation
\* freezes an attempt whose request may still land.
RecordOf(t) == CASE thread[t] \in {"posting", "uncertain"} -> "open"
                 [] thread[t] \in {"posted", "verified"}   -> "answered"
                 [] OTHER                                  -> "free"

ReplyCounts == [t \in Threads |-> IF t \in lapsed THEN 0 ELSE Cardinality(Replies(t))]
Records     == [t \in Threads |-> IF t \in lapsed THEN "lapsed" ELSE RecordOf(t)]

Thread == INSTANCE ThreadReply WITH replies <- ReplyCounts, record <- Records

AnsweredOnce == Thread!Spec

\* Whoever is told "uncertain, I will check automatically" has an attempt that
\* reconciliation can look for: a post row that was claimed.
UncertainIsPursued ==
  \A i \in Items : uncertainAt[i] # Never =>
    \E d \in Days : post[i][d] \in {"posting", "posted", "verified", "uncertain", "absent"}

\* "A recent posting ledger is left alone while its send may still be in progress":
\* an attempt is not frozen as stale before its request has landed or been lost.
\* Not so: the worker dates an approval with the start of its stage.
RecentPostingLeftAlone ==
  [][FreezeStale => \A r \in limbo : post'[r.item] = post[r.item]]_vars

\* The rolling limits hold of what was claimed, not only of what each approval
\* saw: no community has more than its share of posts in a window.
PaceKept == \A i \in Items : Cardinality(LocalClaims(i, now)) <= PerCommunity

-----------------------------------------------------------------------------
(***************************************************************************)
(* The inductive invariant behind OneSenderPerThread. A post row is held   *)
(* from its claim until it is known that nothing was posted.               *)
(***************************************************************************)
Held == {"posting", "posted", "verified", "uncertain"}

OneHeldPost ==
  \A i, j \in Items : \A d, e \in Days :
    post[i][d] \in Held /\ post[j][e] \in Held /\ ThreadOf[i] = ThreadOf[j] => i = j /\ d = e

HeldThread ==
  \A i \in Items : \A d \in Days : post[i][d] \in Held => thread[ThreadOf[i]] \in Held

\* Only an approved draft has a post row beyond the reach of a claim.
UndecidedUnposted ==
  \A i \in Items : draft[i] # "approved" => \A d \in Days : post[i][d] \in Claimable

Working(c) == call[c].pc \in Posting

\* A caller works on the approval it was given, for at most a tick, alone.
Approval ==
  /\ \A g \in Gateways : Working(g) \/ call[g].pc = "idle"
  /\ \A c \in Callers : Working(c) =>
       /\ draft[call[c].item] = "approved"
       /\ approvedAt[call[c].item] = call[c].at
       /\ call[c].day = Day(call[c].at)
       /\ (call[c].kind = "auto") <=> (c = Worker)
       /\ c \in Gateways => now <= call[c].at + 1 /\ (~ call[c].old => now <= call[c].at)

OneCallerPerItem ==
  \A c1, c2 \in Callers :
    Working(c1) /\ Working(c2) /\ call[c1].item = call[c2].item => c1 = c2

\* What the rows of a caller say at each of its stages.
Rows(c, posts, threads) == PostKey(c) \in posts /\ ThreadKey(c) \in threads

Sending(c)   == \/ call[c].pc \in Waiting
                \/ call[c].pc = "finPost" /\ call[c].out # "verified"
Confirmed(c) == \/ call[c].pc = "verify"
                \/ call[c].pc = "finPost" /\ call[c].out = "verified"
                \/ call[c].pc = "finEvent" /\ call[c].out = "posted"
AtThread(c, o) == call[c].pc = "finThread" /\ call[c].out = o
AtEvent(c, o)  == call[c].pc = "finEvent" /\ call[c].out = o

Progress(c) ==
  /\ Sending(c)   => Rows(c, {"posting"}, {"posting", "uncertain"})
  /\ Confirmed(c) => Rows(c, {"posted"}, {"posted"})
  /\ AtThread(c, "posted") => Rows(c, {"posted"}, {"posting", "uncertain"})
  /\ AtThread(c, "verified") => Rows(c, {"verified"}, {"posted"})
  /\ AtThread(c, "uncertain") =>
       Rows(c, {"uncertain", "verified"}, {"posting", "uncertain", "verified"})
  /\ AtThread(c, "failed") =>
       /\ Rows(c, {"failed"}, {"posting", "uncertain"})
       /\ \A i \in Items : ThreadOf[i] = ThreadOf[call[c].item] =>
            \A d \in Days : post[i][d] \notin Held
  /\ AtEvent(c, "verified")  => PostKey(c) = "verified"
  /\ AtEvent(c, "uncertain") => PostKey(c) \in {"uncertain", "verified"} \union Claimable
  /\ AtEvent(c, "failed")    => PostKey(c) = "failed"
  /\ call[c].pc \in {"approved", "revert"} =>
       \A d \in Days : post[call[c].item][d] \in Claimable

\* The callers whose outcome will be, or is being, written to the thread row.
Writing(c) == Sending(c) \/ Confirmed(c) \/ call[c].pc = "finThread"

OneWriterPerThread ==
  \A c1, c2 \in Callers :
    Writing(c1) /\ Writing(c2) /\ ThreadOf[call[c1].item] = ThreadOf[call[c2].item] => c1 = c2

\* An automatic reply leaves the item's rows of other days alone.
AutoRows ==
  Working(Worker) =>
    \A d \in Days : d # call[Worker].day => post[call[Worker].item][d] \in Claimable

Scanning == call[Worker].pc \in {"listing", "resolving"}

\* The posts whose absence would be believed: no caller is still at work on them.
Doubted == IF call[Worker].pc = "resolving" THEN scan.todo \ scan.found ELSE scan.ripe

ScanRows ==
  /\ ~ Scanning => scan = NoScan
  /\ Doubted \subseteq scan.todo
  /\ \A k \in scan.todo : post[k[1]][k[2]] = "uncertain" /\ draft[k[1]] = "approved"
  /\ \A k \in Doubted : \A c \in Callers : Working(c) => call[c].item # k[1]

IInv ==
  /\ OneHeldPost /\ HeldThread /\ UndecidedUnposted
  /\ Approval /\ OneCallerPerItem /\ OneWriterPerThread
  /\ (\A c \in Callers : Working(c) => Progress(c)) /\ AutoRows
  /\ ScanRows
=============================================================================
