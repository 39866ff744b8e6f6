------------------------------ MODULE Sources ------------------------------
(***************************************************************************)
(* Ingestion: what runIngest reads from the sources' lists, page by page,  *)
(* while those lists move.  The worker reads the last day in every round;  *)
(* a backfill, up to thirty days.  A round visits the enabled sources one  *)
(* after the other; a source is read in segments (a term, a repository's   *)
(* issues or discussions, a slug).                                         *)
(*                                                                         *)
(* Sources page in four ways:                                              *)
(*   numbered  Hacker News: the server applies the window, pages have      *)
(*             numbers                                                     *)
(*   created   Reddit: newest first, until a page reaches past the window  *)
(*   updated   GitHub, Agent Index: threads, the last updated first, until *)
(*             a page ends with a thread not updated in the window         *)
(*   fixed     Product Hunt: every page, in the server's order             *)
(* Mentions are numbers, so that a list has an order among mentions of one *)
(* moment.  A thread is identified with the mention in it; its other       *)
(* comments show as updates.  The rounds of the two processes meet only in *)
(* insertions, which the key of the table makes idempotent, so that one    *)
(* walk at a time stands for both.                                         *)
(***************************************************************************)
EXTENDS Naturals, Sequences, FiniteSets, SequencesExt

CONSTANTS
  Order,        \* the enabled sources, in the order they are read
  Kinds,        \* the ways a source may page
  Segments,     \* how many segments a source has
  Mentions, SourceOf, SegmentsOf,  \* a mention's source and the segments listing it
  Naming,       \* mentions that name a term as a whole word
  Excluded,     \* mentions with a word the owner excluded
  Day, Backlog, \* length of a round's window, and of a backfill's
  PageSize, MaxPages,
  MaxTime       \* bound on the clock

Feeds == ToSet(Order)
Times == 0 .. MaxTime           \* 0: not yet, or removed

ASSUME SourcesAssumption ==
  /\ Order \in Seq(Feeds) /\ Kinds \in [Feeds -> SUBSET {"numbered", "created", "updated", "fixed"}]
  /\ Segments \in [Feeds -> Nat \ {0}]
  /\ Mentions \subseteq Nat \ {0} /\ SourceOf \in [Mentions -> Feeds]
  /\ \A m \in Mentions : SegmentsOf[m] # {} /\ SegmentsOf[m] \subseteq 1 .. Segments[SourceOf[m]]
  /\ Naming \subseteq Mentions /\ Excluded \subseteq Mentions
  /\ {Day, Backlog, PageSize, MaxPages, MaxTime} \subseteq Nat \ {0}

VARIABLES
  kind,      \* how each source pages
  now,       \* the clock, from 1
  made,      \* when a mention was published
  touched,   \* when it, or its thread, was last updated: its place in the lists
  items,     \* the store: a mention's origin, or "none"
  walk,      \* the round: its window, the sources left, its place in the first
  degraded   \* source_runs: the sources whose latest run is not "ok"

sourcesVars == <<kind, now, made, touched, items, walk, degraded>>

\* `moved` is a ghost: what changed its place while the source is being read
Start == [segment |-> 1, page |-> 0, pages |-> 0, moved |-> {},
          after |-> [time |-> 0, mention |-> 0]]
NoWalk  == [up |-> TRUE, left |-> <<>>, since |-> 0, until |-> 0, at |-> Start]

SourcesTypeOK ==
  /\ \A s \in Feeds : kind[s] \in Kinds[s]
  /\ now \in 1 .. MaxTime
  /\ made \in [Mentions -> Times] /\ touched \in [Mentions -> Times]
  /\ items \in [Mentions -> {"none", "live", "backfill"}]
  /\ walk.up \in BOOLEAN /\ walk.left \in Seq(Feeds) /\ walk.since \in Times /\ walk.until \in Times
  /\ walk.left # <<>> => /\ walk.at.segment \in 1 .. Segments[Head(walk.left)]
                         /\ walk.at.pages \in 0 .. MaxPages - 1
                         /\ walk.at.moved \subseteq Mentions
  /\ degraded \subseteq Feeds

SourcesInit ==
  /\ kind \in [Feeds -> UNION {Kinds[s] : s \in Feeds}]
  /\ \A s \in Feeds : kind[s] \in Kinds[s]
  /\ now = 1
  /\ made = [m \in Mentions |-> 0] /\ touched = made
  /\ items = [m \in Mentions |-> "none"]
  /\ walk = NoWalk /\ degraded = {}

-----------------------------------------------------------------------------
(* The sources (external).  A removal shifts the numbered pages after it;  *)
(* the other cursors keep their place with or without the entry.           *)

\* the order of the entries of a list
Place(m) == [time |-> touched[m], mention |-> m]

Ahead(s, a, b) ==
  IF kind[s] = "fixed" THEN a.mention < b.mention
  ELSE a.time > b.time \/ (a.time = b.time /\ a.mention > b.mention)

Moves(ms) ==
  walk' = [walk EXCEPT !.at.moved =
             @ \union {m \in ms : walk.left # <<>> /\ SourceOf[m] = Head(walk.left)}]

ClockTick ==
  /\ now < MaxTime
  /\ now' = now + 1
  /\ UNCHANGED <<kind, made, touched, items, walk, degraded>>

Publish(m) ==
  /\ made[m] = 0
  /\ made' = [made EXCEPT ![m] = now]
  /\ touched' = [touched EXCEPT ![m] = now]
  /\ UNCHANGED <<kind, now, items, walk, degraded>>

Bump(m) ==
  /\ kind[SourceOf[m]] = "updated" /\ touched[m] \notin {0, now}
  /\ touched' = [touched EXCEPT ![m] = now]
  /\ Moves({m})
  /\ UNCHANGED <<kind, now, made, items, degraded>>

Vanish(m) ==
  /\ kind[SourceOf[m]] = "numbered" /\ touched[m] # 0
  /\ touched' = [touched EXCEPT ![m] = 0]
  /\ Moves({n \in Mentions : SourceOf[n] = SourceOf[m] /\ Ahead(SourceOf[m], Place(m), Place(n))})
  /\ UNCHANGED <<kind, now, made, items, degraded>>

-----------------------------------------------------------------------------
(* One page, for a source s and a round at w.                              *)

\* the window a source applies to a mention
InWindow(s, time, w) ==
  /\ time < w.until
  /\ IF kind[s] = "numbered" THEN w.since < time ELSE w.since <= time

List(s, w) ==
  {m \in Mentions : /\ SourceOf[m] = s /\ w.at.segment \in SegmentsOf[m] /\ touched[m] # 0
                    /\ kind[s] = "numbered" => InWindow(s, made[m], w)}

Before(s, m, ms) == {n \in ms : Ahead(s, Place(n), Place(m))}

\* what the list has from the cursor on; the page is its beginning
FromCursor(s, w) ==
  {m \in List(s, w) :
     w.at.page > 0 => IF kind[s] = "numbered"
                      THEN Cardinality(Before(s, m, List(s, w))) >= w.at.page * PageSize
                      ELSE Ahead(s, w.at.after, Place(m))}

Page(s, on)   == {m \in on : Cardinality(Before(s, m, on)) < PageSize}
LastOf(s, ms) == CHOOSE m \in ms : Before(s, m, ms) = ms \ {m}

\* newest first: the last of a page is the oldest it shows
PastWindow_Created(s, on, since) ==
  /\ kind[s] \in {"created", "updated"} /\ on # {}
  /\ made[LastOf(s, Page(s, on))] < since

PastWindow(s, on, since) ==
  /\ kind[s] \in {"created", "updated"} /\ on # {}
  /\ touched[LastOf(s, Page(s, on))] < since

Found(s, on) == {m \in Page(s, on) : InWindow(s, made[m], walk)}

\* filter 1; what GitHub and Agent Index list is on topic by construction
PassesFilter1(m) ==
  m \notin Excluded /\ (kind[SourceOf[m]] = "updated" \/ m \in Naming)

Store(ms) ==
  items' = [m \in Mentions |->
              IF m \in ms /\ PassesFilter1(m) /\ items[m] = "none"
              THEN IF made[m] + Day < walk.until THEN "backfill" ELSE "live"
              ELSE items[m]]

\* nextCursor: the list goes on, or the next segment begins, or there is none
Following(s, on) ==
  IF ~ (on \subseteq Page(s, on)) /\ ~ PastWindow(s, on, walk.since)
  THEN {[walk.at EXCEPT !.page = @ + 1, !.pages = @ + 1,
                        !.after = Place(LastOf(s, Page(s, on)))]}
  ELSE IF walk.at.segment < Segments[s]
       THEN {[walk.at EXCEPT !.segment = @ + 1, !.page = 0, !.pages = @ + 1,
                             !.after = Start.after]}
       ELSE {}

-----------------------------------------------------------------------------
(* A round.                                                                *)

Begin(length) ==
  /\ walk.up /\ walk.left = <<>>
  /\ walk' = [up |-> TRUE, left |-> Order, since |-> IF now > length THEN now - length ELSE 0,
              until |-> now, at |-> Start]
  /\ UNCHANGED <<kind, now, made, touched, items, degraded>>

Round    == Begin(Day)
Backfill == Begin(Backlog)

\* recordRun, then the next source
Recorded_EndsRound(ok) ==
  /\ degraded' = IF ok THEN degraded \ {Head(walk.left)} ELSE degraded \union {Head(walk.left)}
  /\ walk' = IF ~ ok \/ Len(walk.left) = 1 THEN NoWalk
             ELSE [walk EXCEPT !.left = Tail(@), !.at = Start]

Recorded(ok) ==
  /\ degraded' = IF ok THEN degraded \ {Head(walk.left)} ELSE degraded \union {Head(walk.left)}
  /\ walk' = IF Len(walk.left) = 1 THEN NoWalk
             ELSE [walk EXCEPT !.left = Tail(@), !.at = Start]

LastAllowed_OneMore == walk.at.pages >= MaxPages
LastAllowed         == walk.at.pages + 1 >= MaxPages

ReadPage ==
  /\ walk.left # <<>>
  /\ LET s    == Head(walk.left)
         on   == FromCursor(s, walk)
         next == Following(s, on) IN
     /\ Store(Found(s, on))
     /\ IF next = {} THEN Recorded(TRUE)
        ELSE IF LastAllowed THEN Recorded(FALSE)
        ELSE /\ \E at \in next : walk' = [walk EXCEPT !.at = at]
             /\ UNCHANGED degraded
  /\ UNCHANGED <<kind, now, made, touched>>

\* a request that is refused, times out, answers with errors, or is not made
\* because what is left of the source's budget would not cover it
FetchFails ==
  /\ walk.left # <<>>
  /\ Recorded(FALSE)
  /\ UNCHANGED <<kind, now, made, touched, items>>

\* a statement fails after a part of the page
StoreFails ==
  /\ walk.left # <<>>
  /\ \E ms \in SUBSET Found(Head(walk.left), FromCursor(Head(walk.left), walk)) : Store(ms)
  /\ Recorded(FALSE)
  /\ UNCHANGED <<kind, now, made, touched>>

Stop ==
  /\ walk.left # <<>>
  /\ walk' = [NoWalk EXCEPT !.up = FALSE]
  /\ UNCHANGED <<kind, now, made, touched, items, degraded>>

Restart ==
  /\ ~ walk.up
  /\ walk' = NoWalk
  /\ UNCHANGED <<kind, now, made, touched, items, degraded>>

Work == Restart \/ Round \/ ReadPage

SourcesNext ==
  \/ ClockTick \/ Work \/ Backfill \/ FetchFails \/ StoreFails \/ Stop
  \/ \E m \in Mentions : Publish(m) \/ Bump(m) \/ Vanish(m)

\* The scheduler starts rounds, and a round goes on by itself.
SourcesSpec == SourcesInit /\ [][SourcesNext]_sourcesVars /\ WF_sourcesVars(Work)

-----------------------------------------------------------------------------

\* the round leaves the source s, with what it records of it
Leaves(s, ok) ==
  /\ walk.left # <<>> /\ Head(walk.left) = s
  /\ walk'.up /\ walk'.left = Tail(walk.left) /\ ok = (s \notin degraded')

Due(m, s) ==
  /\ PassesFilter1(m) /\ SourceOf[m] = s /\ made[m] # 0 /\ InWindow(s, made[m], walk)
  /\ touched[m] # 0 /\ m \notin walk.at.moved

\* A source that is recorded "ok" was read to the end: every mention of the
\* window that passes the filter and kept its place meanwhile is in the store,
\* however the rest of the list moved between two pages.
OkRoundsComplete ==
  [][\A s \in Feeds : Leaves(s, TRUE) => \A m \in Mentions : Due(m, s) => items'[m] # "none"]_sourcesVars

\* Sources do not depend on one another: one that has stopped failing, and
\* whose lists fit the pages a round reads of a source, is read to the end over
\* and over while the others may fail in every round.
FitsPages(s) ==
  \E ms \in SUBSET Mentions :
    /\ \A m \in Mentions : SourceOf[m] = s /\ touched[m] # 0 => m \in ms
    /\ Segments[s] <= MaxPages /\ Segments[s] * Cardinality(ms) <= MaxPages

SourcesIndependent ==
  \A s \in Feeds :
    (<>[]FitsPages(s) /\ <>[][walk'.up /\ ~ Leaves(s, FALSE)]_sourcesVars)
      => []<><<Leaves(s, TRUE)>>_sourcesVars
=============================================================================
