-------------------------------- MODULE Day --------------------------------
(***************************************************************************)
(* The worker's day: the scheduler (aha/scheduler.ts) with its three jobs  *)
(* in order, ingest, digest and site watch (aha/worker.ts), and the        *)
(* digests themselves (aha/digest), over local days that may skip or       *)
(* repeat an hour.  The scheduler keeps what it ran in memory; what became *)
(* of a digest is in the table of deliveries, under a key with the local   *)
(* day, and a delivery in doubt is posted again by the worker's retry pass *)
(* or by another digest under the key.                                     *)
(*                                                                         *)
(* An instant is an hour; a tick of the scheduler takes as many as its     *)
(* jobs do.  How old a delivery is is left out: one in doubt may be tried  *)
(* again or given up at any time.                                          *)
(***************************************************************************)
EXTENDS Naturals, Sequences, FiniteSets

CONSTANTS
  Local,       \* the local day and hour of each instant
  DayLen,      \* 24 hours
  DigestHour,  \* cfg.digestHour
  Items,       \* mentions that are found relevant in the end
  Founder,     \* the owner's chat
  Roles,       \* roles with a chat of their own
  Route        \* routeItem: the audiences of an item, roles without a chat left out

Instants  == 1 .. Len(Local)
LocalDays == {Local[t].day : t \in Instants}
Audiences == {Founder} \union Roles
Keys      == LocalDays \X Audiences

DayOf(t)  == Local[t].day
HourOf(t) == Local[t].hour

\* Days go forward, and so do the hours of a day, one of which may come twice.
ASSUME DayAssumption ==
  /\ Local \in Seq([day : Nat \ {0}, hour : Nat]) /\ Len(Local) > 0
  /\ \A t, u \in Instants : t <= u => DayOf(t) <= DayOf(u)
  /\ \A t, u \in Instants : t <= u /\ DayOf(t) = DayOf(u) => HourOf(t) <= HourOf(u)
  /\ DayLen \in Nat \ {0} /\ DigestHour \in Nat
  /\ Route \in [Items -> SUBSET Audiences]

VARIABLES
  now,
  item,      \* when an item was fetched and when classified, 0 for not yet
  worker,    \* the scheduler's tick and its memory
  box,       \* the deliveries of the digests, and in doubt what they listed
  shown,     \* ghost: items that a digest listed which its chat has
  watched,   \* ghost: the last day of which the site watch ended
  early,     \* ghost: the last day with a tick no later than the watch's hour
  since      \* ghost: the last disturbance, see NoMentionLost

digestVars == <<box, shown>>
dayVars    == <<now, item, worker, digestVars, watched, early, since>>

\* at, prev: the instants of this tick and of the last; lastDigest, lastSite:
\* lastDaily, 0 for none.  A key is free before its first claim and when failed.
DayTypeOK ==
  /\ now \in Instants
  /\ item \in [Items -> [fetched : 0 .. now, verdict : 0 .. now,
                         taken : BOOLEAN]]
  /\ \A i \in Items : item[i].verdict > 0 => item[i].fetched \in 1 .. item[i].verdict
  /\ worker.pc \in {"down", "idle", "ingest", "digest", "site"}
  /\ worker.prev <= worker.at /\ worker.at <= now
  /\ box \in [Keys -> [status : {"free", "uncertain", "sent"}, list : SUBSET Items]]
  /\ \A k \in Keys : /\ box[k].status # "uncertain" => box[k].list = {}
                     /\ box[k].status # "free" => k[1] <= DayOf(now)

-----------------------------------------------------------------------------
(***************************************************************************)
(* The scheduler.                                                          *)
(***************************************************************************)
\* D4: the site watch runs an hour ahead of the digest.
SiteHour == (DigestHour + DayLen - 1) % DayLen

\* dueDaily
Skipped(prev, t, hour) ==
  DayOf(prev) = DayOf(t) /\ HourOf(prev) < hour /\ HourOf(t) > hour

DueDaily(hour, last) ==
  /\ DayOf(worker.at) # last
  /\ HourOf(worker.at) = hour \/ Skipped(worker.prev, worker.at, hour)

\* The tick goes on with the first of its jobs that is due, which counts as run
\* from then on; after the last, its instant becomes prev.
TickTime_End == now
TickTime == worker.at

GoTo(pc) ==
  worker' = CASE pc = "digest" -> [worker EXCEPT !.pc = pc, !.lastDigest = DayOf(worker.at)]
              [] pc = "site"   -> [worker EXCEPT !.pc = pc, !.lastSite = DayOf(worker.at)]
              [] pc = "idle"   -> [worker EXCEPT !.pc = pc, !.prev = TickTime]

AfterDigest == IF DueDaily(SiteHour, worker.lastSite) THEN "site" ELSE "idle"
AfterIngest == IF DueDaily(DigestHour, worker.lastDigest) THEN "digest" ELSE AfterDigest

Early(t) == IF HourOf(t) <= SiteHour THEN DayOf(t) ELSE 0

\* startAha: prev is the start, and a tick follows at once.
Started(t) == [pc |-> "ingest", at |-> t, prev |-> t, lastDigest |-> 0, lastSite |-> 0]

DayInit ==
  /\ now = 1 /\ item = [i \in Items |-> [fetched |-> 0, verdict |-> 0, taken |-> FALSE]]
  /\ worker = Started(1)
  /\ box = [k \in Keys |-> [status |-> "free", list |-> {}]] /\ shown = {}
  /\ watched = 0 /\ early = Early(1) /\ since = 0

\* The interval timer calls tick at every instant at which none is running.  A
\* worker that is down and a tick that outlasts the next instant are disturbances.
Clock ==
  /\ now < Len(Local)
  /\ worker.pc = "idle" => worker.at = now
  /\ now' = now + 1
  /\ since' = IF worker.pc = "down" \/ worker.at < now THEN now + 1 ELSE since
  /\ UNCHANGED <<item, worker, digestVars, watched, early>>

Tick ==
  /\ worker.pc = "idle" /\ worker.at # now
  /\ worker' = [worker EXCEPT !.pc = "ingest", !.at = now]
  /\ early' = IF HourOf(now) <= SiteHour THEN DayOf(now) ELSE early
  /\ UNCHANGED <<now, item, digestVars, watched, since>>

EndIngest ==
  /\ worker.pc = "ingest"
  /\ GoTo(AfterIngest)
  /\ UNCHANGED <<now, item, digestVars, watched, early, since>>

EndSite ==
  /\ worker.pc = "site"
  /\ watched' = DayOf(worker.at)
  /\ GoTo("idle")
  /\ UNCHANGED <<now, item, digestVars, early, since>>

Stop ==
  /\ worker.pc # "down"
  /\ worker' = [Started(1) EXCEPT !.pc = "down"]
  /\ since' = now
  /\ UNCHANGED <<now, item, digestVars, watched, early>>

Start ==
  /\ worker.pc = "down"
  /\ worker' = Started(now)
  /\ early' = Early(now)
  /\ since' = now
  /\ UNCHANGED <<now, item, digestVars, watched>>

-----------------------------------------------------------------------------
(***************************************************************************)
(* The items, which the worker and the gateway's tools store, classify and *)
(* take.                                                                   *)
(***************************************************************************)
Change(i, fields) ==
  /\ item' = [item EXCEPT ![i] = fields]
  /\ UNCHANGED <<now, worker, digestVars, watched, early, since>>

\* An item counts from its verdict; fetched_at is when the ingestion, the backfill
\* or the watch began that stored it.
Classify(i, fetched) ==
  /\ item[i].verdict = 0 /\ fetched <= now
  /\ Change(i, [fetched |-> fetched, verdict |-> now, taken |-> FALSE])

\* A member claims the item, says that it is not about us or has it forgotten.  It may
\* come back, escalated, which is not followed.
Take(i) ==
  /\ item[i].verdict > 0 /\ ~ item[i].taken
  /\ Change(i, [item[i] EXCEPT !.taken = TRUE])

-----------------------------------------------------------------------------
(***************************************************************************)
(* The digests, of the founder and of each role, built when the            *)
(* classification has ended.                                               *)
(***************************************************************************)
InDay(i, until) == item[i].fetched + DayLen > until

\* The founder's window reaches back two days, a role's one.
InWindow_Day(i, until) == InDay(i, until)
InWindow(i, until) == item[i].fetched + 2 * DayLen > until

\* buildDigest: items of the last day for the audiences they are routed to, and
\* those of the day before for the founder, wherever they are routed.  Which seven
\* of them a digest has room for is left out.
Listed(a, until) ==
  {i \in Items :
     /\ item[i].verdict > 0 /\ ~ item[i].taken
     /\ IF InDay(i, until) THEN a \in Route[i] ELSE a = Founder /\ InWindow(i, until)}

\* What a POST comes to: "taken" and "lost" are both seen as uncertain.
Outcomes == {"sent", "taken", "lost", "refused"}

\* claim
Claimable(k) == box[k].status # "sent"

\* finish; the list is that of the text, kept only of what is in doubt
AfterPost_KeepsText(outcome, list) ==
  [status |-> IF outcome \in {"refused", "given up"} THEN "free"
              ELSE IF outcome = "sent" THEN "sent" ELSE "uncertain",
   list |-> list]
AfterPost(outcome, list) ==
  CASE outcome \in {"taken", "lost"}      -> [status |-> "uncertain", list |-> list]
    [] outcome = "sent"                   -> [status |-> "sent", list |-> {}]
    [] outcome \in {"refused", "given up"} -> [status |-> "free", list |-> {}]

\* Some keys are claimed, and messages posted that list some items.
Post(keys, outcome, list) ==
  /\ \A k \in keys : Claimable(k) /\ (outcome[k] = "given up" => box[k].status = "uncertain")
  /\ box' = [k \in Keys |-> IF k \in keys THEN AfterPost(outcome[k], list[k]) ELSE box[k]]
  /\ shown' = shown \union
       UNION {list[k] \X {k[2]} : k \in {k \in keys : outcome[k] \in {"sent", "taken"}}}

\* deliverDigest: a key has the day on which the digest is built.
DigestKeys(until) == {DayOf(until)} \X Audiences

\* The digest job.  None is posted if it throws before, and not every role's if it
\* throws later or the flow is paused; the founder's is the first.  Anything but the
\* first digests of these keys, all posted and none refused, is a disturbance.
SendDigest ==
  /\ worker.pc = "digest"
  /\ \E keys \in SUBSET DigestKeys(now) :
       /\ keys # {} /\ box[<<DayOf(now), Founder>>].status = "free"
            => <<DayOf(now), Founder>> \in keys
       /\ \E outcome \in [keys -> Outcomes \union {"given up"}] :
            /\ Post(keys, outcome, [k \in keys |-> Listed(k[2], now)])
            /\ since' = IF /\ keys = DigestKeys(now)
                          /\ \A k \in keys : box[k].status = "free" /\ outcome[k] # "refused"
                        THEN since ELSE now
  /\ GoTo(AfterDigest)
  /\ UNCHANGED <<now, item, watched, early>>

\* retryUncertainDeliveries, the last stage of ingest.
Retry(k) ==
  /\ worker.pc = "ingest" /\ box[k].status = "uncertain"
  /\ \E outcome \in [{k} -> Outcomes \union {"given up"}] :
       /\ Post({k}, outcome, [key \in {k} |-> box[k].list])
       /\ since' = IF outcome[k] \in {"refused", "given up"} THEN now ELSE since
  /\ UNCHANGED <<now, item, worker, watched, early>>

DayNext ==
  \/ Clock \/ Tick \/ EndIngest \/ SendDigest \/ EndSite \/ Stop \/ Start
  \/ \E i \in Items, fetched \in Instants : Classify(i, fetched)
  \/ \E i \in Items : Take(i)
  \/ \E k \in Keys : Retry(k)

DaySpec == DayInit /\ [][DayNext]_dayVars

-----------------------------------------------------------------------------
(***************************************************************************)
(* Properties.                                                             *)
(***************************************************************************)
\* The scheduler's tick at t finds the job of that hour due, if it has run at
\* the instant before and not run the job on this day.
JobDue(hour, t) == HourOf(t) = hour \/ (t > 1 /\ Skipped(t - 1, t, hour))

\* Its first chance on a local day.
FirstDue(t) ==
  /\ JobDue(DigestHour, t)
  /\ \A u \in Instants : u < t /\ JobDue(DigestHour, u) => DayOf(u) # DayOf(t)

\* The tick at t, or one after it, has been through the digest.
Past(t) == t < worker.at \/ (t = worker.at /\ worker.pc \in {"site", "idle"})

\* The founder sees what is routed to him, and the rest when it is a day old.
Watching(i) == IF Founder \in Route[i] THEN {Founder} ELSE Route[i] \union {Founder}

\* Listed by a digest that a chat has or the retries still have to post.
Seen(i) ==
  \E a \in Watching(i) :
    <<i, a>> \in shown \/ \E d \in LocalDays : i \in box[<<d, a>>].list

\* When a digest's first chance on a local day has passed, every item classified
\* before it and less than two days old has been listed, by its role's digest or by
\* the founder's, although digests are built late, by the length of the jobs before
\* them, hours are skipped, and the founder's digest leaves out what is a role's until
\* it is a day old (build.ts:71-94).  Promised of items routed to a chat that nobody
\* took, and of chances that no disturbance came after: a stop, a tick that outlasts
\* the next instant, a digest that is refused, given up or not posted, or a key that
\* was used before.
NoMentionLost ==
  \A i \in Items, t \in Instants :
    /\ FirstDue(t) /\ since < t /\ Past(t)
    /\ item[i].verdict \in 1 .. t - 1 /\ t + 1 < item[i].fetched + 2 * DayLen
    /\ ~ item[i].taken /\ Route[i] # {}
    => Seen(i)

\* On a day with a tick no later than the watch's hour, the site watch has ended
\* when the digest runs after that hour, or is due in the same tick, however long
\* the ticks are (scheduler.ts:37-43, worker.ts:91).
SitesFirst ==
  worker.pc = "digest" /\ early = DayOf(worker.at) /\ HourOf(worker.at) >= SiteHour
    => watched = DayOf(worker.at) \/ DueDaily(SiteHour, worker.lastSite)

\* README.md:124: "The cycle runs once a day, an hour before the digest, so a new
\* mention makes that day's digest."
SitesBeforeDigest ==
  worker.pc = "digest" /\ early = DayOf(worker.at) /\ HourOf(worker.at) >= SiteHour
    => watched = DayOf(worker.at)
=============================================================================
