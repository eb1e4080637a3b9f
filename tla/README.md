# damsac-studio in TLA+

Specifications, model-checking configurations and machine-checked proofs for
damsac-studio: a Swift analytics SDK, the Go server that stores and shows its
events, and the Mercury plugin through which the studio's Claude agents talk.
Paths below are relative to the repository.

* `tlc -workers 2 -config X.cfg MCM.tla` checks a configuration,
* `tlapm MProofs.tla` checks the proofs about `M` (`DashboardProofs.tla` those about
  `Reports` and `Access`),
* `PROJECT.json` maps every definition to the lines it translates and lists
  runs, hazards, findings, theorems, and for each property a bug that breaks it.

## 1. The system

### Parts, state and operations

| Part | State | Operations |
|---|---|---|
| SDK `EventQueue.swift` | `_events` (at most 1000, drop oldest), `_isFlushing` | `enqueue`, `requestFlush`, `flushSync` on one serial work queue, the 30 s timer, the background hook |
| SDK `Persistence.swift` | batch files, 5 MB cap, oldest evicted | `writeBatch`, `loadAllBatches`, `deleteBatch`, `deleteAll` |
| SDK `NetworkClient.swift` | backoff, last failure, failure count, circuit | `sendSync`, `recordSuccess`, `recordFailure`, `resetBackoff` |
| SDK `ConnectivityMonitor.swift` | connected, was disconnected | `handlePathUpdate`, the restoration callback, `stop` |
| SDK `Session.swift` | session id, last activity, background time | `touch`, lifecycle hooks, asynchronous `session.start` |
| SDK `StudioAnalytics.swift` | the configured parts | `configure`, `track`, `flush` |
| API `handler.go` | none of its own | `POST /v1/events`: validate, insert, broadcast, answer |
| API `store.go` | table `events`, dashboard sessions; one mutex, one connection | `InsertEvents` (`INSERT OR IGNORE` in a transaction), queries, sessions |
| API `broker.go` | map of subscriber channels, buffer 16 | `Subscribe`, `Unsubscribe`, `Broadcast` (never blocks) |
| API `dashboard.go` | none | pages, filters, grouping, metrics, the SSE stream |
| API `auth.go` | key map, sessions in the store | key check, login, logout, session check |
| API `mcp.go` | read-only connection | query filter, `executeQuery` with a row cap |
| API `main.go`, `config.go` | the process | wiring, restart, ten-second shutdown |
| API `github.go`, `projects.go` | none | one GitHub request per page view |
| Mercury `plugins/mercury/server.ts` | in SQLite: messages, subscriptions, cursors; in memory: `pollCursors` | start, poll every 2 s, tools send, read, subscribe, unsubscribe, channels, log |
| `modules/`, `scripts/`, `infra/`, `skills/` | host configuration | launch agents, deploy |

### How the parts interact

`track` touches the session and enqueues. At 20 events, on the timer, in the
background, at `configure` and when connectivity returns, a block on the work
queue runs `flushSync`: resend the batch files, then, batch by batch, copy the
front of the queue, write a file, POST, and remove both on a final answer. The
POST waits with no lock held. On the server a request takes the store's mutex,
commits, gives the batch to the broker under a read lock, and answers with the
number of rows inserted. Each open dashboard is a goroutine that reads its
channel. Mercury processes share nothing but the SQLite file; within a process
callbacks run one at a time.

### What is hard here

* Work is done on a copy of the queue while the queue itself moves on.
* Requests time out on the device and still commit on the server; the app dies
  between the commit and the deletion of the file.
* Two clocks (backoff, circuit) are set, cleared and expire from three threads.
* A channel is closed outside the lock under which it is sent to.
* Two cursors, one in memory and one in the database, follow one message log;
  writes of the second may fail, and both survive restarts differently.
* Every thread that tracks, every return of the app and every silence may end a
  session, and the announcement of the next one runs on a thread of its own.
* A page of events is two queries over a table that grows between them and
  between one page and the next; the figures above it are eight more.
* A dashboard is a page and, on a second connection, a stream; batches commit and
  are published between the two.
* A query of the tool is read row by row under a deadline, and only one call after
  the loop tells an end from a break.
* The wall clock that measures backoff and pause may be set back.
* `applyGrouping` moves rows in place, one group after the other in the random
  order of a Go map, through a slice that the next group scans.

### What makes each part correct

* SDK pipeline: an event leaves the device only when the server has it or a
  documented rule discards it; order and capacity are kept; the device empties.
* Transport: it is silent for as long as documented, and no longer.
* Ingestion: each row is counted once; nothing uncommitted is shown; no
  dashboard can stop or crash a request; live dashboards are streamed what commits.
* Sessions: they end after five minutes of silence or absence, then and only then;
  each is announced once.
* Pages: rows repeat only because others arrived; the total fits the page, unless
  counting failed.
* Figures and query answers: what is shown or returned without an error or a
  warning is whole, and figures read one after the other do not contradict.
* Grouping: no row is lost, groups stand together, the order of leaders is kept.
* Access: pages go only to those who logged in less than a day ago and have not
  logged out, and to them unless the table cannot be read; a shutdown ends, after ten
  seconds at the latest.
* Mercury: no message is passed over, none is notified twice by one process,
  what was read is not unread again.

`PROJECT.json` lists the hazards one by one, at their lines.

`docs/spec.md` describes an older design of the server (Postgres and Grafana);
only its section on the SDK is compared with the code.

## 2. Modules

| Module | Models | State and actions |
|---|---|---|
| `EventQueue` | `EventQueue.swift`, `Persistence.swift`, what they see of the network, the server and the process' death | `events` is `_events`, `disk` the files, `blocks` the work queue, `pc` the place in `flushSync`, `batch`, `file`, `loaded` its locals, `request` the POST; `late` holds requests the client gave up on |
| `Outbox` | nothing: the promise in three actions | `held`, `stored`, `waived`; `Track`, `Store`, `Forget` |
| `NetworkClient` | `NetworkClient.swift`, `ConnectivityMonitor.swift`, the callback in `StudioAnalytics.swift` | the four fields of the breaker, dates kept as ages by a clock that may be set back, the flush with its two loops, the callback's two halves as separate actions |
| `Ingest` | `handler.go`, `InsertEvents`, `broker.go`, the SSE stream of `dashboard.go` and the query of the page before it, a restart | per request `pc`, `batch`, `inserted`, `todo`; the mutex `mu`; per dashboard, which is a page with its stream, `channel`, `view`, `shown`; `queried` remembers the rows there were at the page's query, `gap` what was published between it and the stream |
| `Mercury` | `plugins/mercury/server.ts` | the tables, `pollCursors`, and `work`, the callback under way |
| `Session` | `Session.swift`, the session part of `track` | `session`, `idle` and `away` are `_sessionId` and the ages of its two dates; `announcing` the blocks that emit `session.start` |
| `Pages` | `QueryEvents`, `CountEvents`, the handlers of the table of events and its links | `table` with inserts at any moment; `pc`, `want`, `page` of one browser; either query may fail |
| `Grouping` | `applyGrouping` of `dashboard.go` | `views` is the slice; one action per turn of the map loop and per pass |
| `Reports` | `buildMetrics`, `buildEngagementMetrics`, `buildHeatmap` and the aggregates of `store.go`; `executeQuery` and its tool of `mcp.go` | `table` with inserts at any moment; `pc` is the next query; `figures` what they returned, `logged` which failed; `snapshot`, `results`, `answer` of the tool |
| `Access` | dashboard logins of `auth.go` and `store.go`, the wait of `github.go`, shutdown and restart of `main.go` | `sessions` is the table; per browser `cookie`, `asked`, `serving`; `server`, and `expired` when the ten seconds of a shutdown have passed; `failed` remembers whether the last check could read the table |
| `*Proofs` | | theorems about the module of that name; `DashboardProofs` those about `Reports` and `Access` |
| `MC*` | | instances for TLC |

Granularity follows the code's own atomicity. A section under a lock, or code
between two of them that touches nothing shared, is one step. So `enqueue` is
one step, the drain loop has a step for the copy, for the file, for the POST and
for each result; `Broadcast` is one step per channel because dashboards read
their channels meanwhile; `Unsubscribe` is two steps because `close` comes after
the unlock. A SQLite transaction on the only connection is one step, since no
other query can see half of it. A Mercury callback is one step per channel:
JavaScript does not interrupt it, other processes write between its statements,
but each channel's messages are read once.

`track` is two steps, since `touch` returns before the event is enqueued. A page is
two steps, one per query; the figures are a step for each query, the tool's answer
one for each row. A pass of `applyGrouping` is one step, so that the
properties look at the slice after each. A login is one step; a request and the
check of its session are two, and logouts, expiry and shutdowns come between.

Data is abstract: an event is its number or id, a batch a sequence or set of
them, a message its rowid, a file its age and its events.

Operators whose comment begins "A deviation" are plausible bugs: each replaces
the definition below it in one mutation run, and breaks one property.

Variables marked "history" are not in the program. They remember what a
property needs: what was waived, shown, pushed, how many failures in a row.

## 3. What the runs check

| Configuration | Bounds | Checks |
|---|---|---|
| `EventQueueTight` | queue 2, batch 2, disk 3, 4 events, 1 crash, 1 abandoned request | `TypeOK`; `LossBounded`: silent losses never exceed the overflows under a batch; `OldestFirst`: the device keeps events in tracking order and none twice; `AnsweredLeaves`: what was finally answered leaves the device |
| `EventQueueRoomy` | queue 3, batch 2, disk 2, 3 events, 1 crash | `NoSilentLoss`; `ImplementsOutbox` (refinement); `Drains` |
| `EventQueueOverrun` | queue 2, 3 events | violation of `OnlyOldestDropped` |
| `NetworkClient` | backoff 1 to 20, threshold 5, pause 20, the clock set back by 2, streaks counted to 6 | `TypeOK`, `PauseRespected`, `BackoffRespected`, `Recovers` |
| `Ingest` | 2 events, 2 requests, 2 dashboards, buffer 1, 2 POSTs, 1 restart | `TypeOK`, `NeverSendsOnClosed`, `AcceptedCountsRowsOnce`, `StreamsOnlyCommitted`, `CommittedReachesLive`, `IngestNeverWaits` |
| `Mercury` | 1 process and a peer, 2 channels, 3 messages, 2 starts | `TypeOK`, `NothingPassedOver`, `PushedInOrder`, `CursorNeverBack`, `Delivers` |
| `Session` | 2 threads, timeout 2, 3 sessions, 2 events, threads interchangeable | `TypeOK`, `OneStartPerSession`, `SilenceEndsSession`, `AbsenceEndsSession`, `SplitOnlyWithReason` |
| `Pages` | pages of 2, 6 rows, two apps, equal and different timestamps | `TypeOK`, `RepeatsBoundedByArrivals`, `CountCoversPage` |
| `PagesSkip` | 4 rows | violation of `PagesSkipNothing` |
| `Grouping` | every page of up to 6 rows, 3 requests and rows of none | `NoRowLost`, `DoneGroupsTogether`, `LeadersInOrder`, `MarksFrameGroups` |
| `Reports` | 3 rows out of 6 kinds, of 2 devices and 2 entries, one unreadable timestamp; row cap 2, average limit 2, 1 failing query | `TypeOK`, `LaterFiguresCoverEarlier`, `SilenceMeansWhole` |
| `Access` | 2 browsers, 2 tokens, lifetime 2, 2 starts | `AccessTypeOK`, `CheckAgreesWithLogins`, `ShutdownEnds` |

Why the bounds suffice. `EventQueueTight` has a queue as small as a batch, so an
overflow under a batch, an eviction by the disk cap and a batch split over two
rounds all occur; `EventQueueRoomy` cannot overflow, which is the case its
properties speak of, yet evicts, crashes and abandons. In `NetworkClient` the
backoffs are those of the source in its units (1, 2, 4, 8, 16: the fifth failure
opens the circuit before the cap is reached), cap and pause are equal as in the
source, and smaller (20 for 60 seconds). The cap is reached when bursts follow each
other over a pause, at the sixth failure in a row, and there `streak` stops to count
(`StreakAssumption`). The clock may be set back at any age of a failure.
`Ingest` has two requests because the mutex, the read lock and the counts are
about pairs; a buffer of one fills at once; two dashboards load and subscribe at
different points of the same two POSTs. In `Mercury` agents meet only in the
message table, so one process and a peer that posts at any moment stand for all;
two channels make multi-channel reads and polls; two starts make a restart. In
`Session` time runs one past the timeout in every combination of silence and
absence, and the proofs cover every timeout. Six rows in pages of two make three
pages, so that an offset error shows twice and inserts shift a page that was
itself reached by a link. Six rows hold three groups of two, two of three, or one
of six, and a group's move through another needs no more; the proofs cover pages
of any length. In `Reports` three rows under a cap of two are a cut answer, two a full one, one a
short one; two edits give whole and fractional averages and one at the limit; the
inserts fall between any two queries. Two tokens let a browser log out of one session while another
session, of its own or of the second browser, goes on.

Deadlock is checked everywhere but where the system stops: `Mercury` and `Access`
have a bound on starts, after which a process stays down, and `Grouping` is an
algorithm that ends.

## 4. Fairness

* `EventQueue`: the timer fires again and again, the work queue runs what it
  holds, an outstanding POST is answered or fails (URLSession's timeouts are 30
  and 60 seconds). Nothing of the app, of outages or of late requests. `Drains`
  assumes further, in its formula, that the transport and the path stay up.
* `NetworkClient`: the same, the callback on the monitor's queue returns, time
  passes.
* `Ingest`: goroutines of requests run; Go's mutex is starvation-free, hence
  strong fairness for taking it; a transaction ends. Nothing of dashboards.
* `Mercury`: a callback runs to its end; the interval timer gets its turn among
  tool calls, hence strong fairness for starting a poll. Nothing of tools,
  peers, starts and stops.

* `Access`: the server's own code goes on, that is the check, the writing of a page
  and the return of `srv.Shutdown` when nothing is under way or the deadline has
  passed. Nothing of streams, browsers or GitHub, and nothing of the ten seconds:
  `ShutdownEnds` has them in its premise, as an alternative to streams and GitHub
  letting go. What it says is that nothing else can hold a shutdown up: requests that
  were on their way when the listener was closed become pages or streams meanwhile,
  and no new ones come.
* `Session`, `Pages`, `Reports` and `Grouping` have no liveness property and no fairness.

## 5. Where code and documentation disagree

1. `OnlyOldestDropped`. `flushSync` removes the first `batchSize` events of the
   queue as it is after the POST (`EventQueue.swift:123`). If `enqueue` dropped
   the oldest meanwhile, other, never sent, events go. `LossBounded` measures the
   damage: one event for each event dropped under a batch. It takes a full queue
   and a POST under way at once.
2. `PagesSkipNothing`. Handlers ask `QueryEvents` for `eventsPerPage + 1` rows to
   know whether there is more (`dashboard.go:278`), and `QueryEvents` takes that
   number for the page size when it computes the offset (`store.go:220`). One
   event per page is on no page, and the older link may lead to an empty page,
   although `store.go:195` calls the result paginated.

Seen while modelling, without a run of their own:

* `docs/spec.md:315` promises an immediate flush when connectivity is restored. The
  callback requests it before it resets the backoff (`StudioAnalytics.swift:97`), so
  that the work queue may run the flush in between and refuse it for a failure of
  the time before. The timer's next flush makes up for it (`Recovers`).
* `GetAvgTimeToEditMs` scans SQLite's `AVG`, a float, into an integer
  (`store.go:405`). A fraction, or a million milliseconds (some seventeen minutes)
  and more, which Go prints with an exponent, does not parse: the error is logged
  and the page shows no average, although `store.go:401` says that the average is
  returned. `SilenceMeansWhole` shows that the averages that do appear are exact.
* One `llm.request` whose timestamp passes for RFC 3339 but not for SQLite's
  `strftime` makes a group of NULLs that `rows.Scan` refuses (`store.go:368`), and the
  heat map is empty from then on. If the iteration fails later, what was read so
  far is drawn (`store.go:373`); the error is only logged.
* A result of exactly `maxRows` rows carries the warning that it was truncated
  (`mcp.go:177`), where the design
  (`docs/superpowers/specs/2026-03-21-mcp-server-design.md:93`) speaks of more.
* A row that is committed and broadcast between the page's query and the stream's
  `Subscribe` (`dashboard.go:414`) is on neither until the page is loaded again.
  `CommittedReachesLive` excludes exactly these rows.
* The stream is neither filtered nor cut, and its rows are put on top of whatever page
  and filter the table shows (`events.html:126`), while the page has at most 50 rows of
  its filter. So page and stream together are not "every row":
  `CommittedReachesLive` promises the rows since the page's query, by the stream.
* Both handlers discard the error of `CountEvents` (`dashboard.go:293`, `:342`): when it
  fails, "0 events" stands above a page of rows, which `CountCoversPage` therefore
  allows.
* `ValidSession` answers a query that failed or a date that it cannot parse like a
  session that is not there (`store.go:103`): the browser is sent to the login page
  though its session is good. `CheckAgreesWithLogins` allows such a refusal, and no
  such admission.
* A batch that cannot be serialized is not written (`Persistence.swift:38`) and yet
  posted, with an empty body (`EventQueue.swift:119`). The server refuses that, and the
  batch is dropped as any refused one.
* The comment of `resetBackoff` claims the circuit breaker
  (`NetworkClient.swift:154`); the body leaves it, on purpose by its own inner
  comment. `PauseRespected` depends on that, and its mutant is the comment's
  version.
* Duplicates of a retry are ignored by the table but broadcast again
  (`handler.go:182`), so that a dashboard shows them twice until it is reloaded.
* `server.ts:373` says that polling keeps its own state and does not interfere
  with the read tool; the poll writes the cursor that read starts from
  (`server.ts:444`). `NothingPassedOver` shows that every message is still either
  pushed or read.
* `Session.swift:10` and `docs/spec.md:291` start a session on a return after the
  timeout; an event tracked in the background has started one already, and then
  the return starts none (`Session.swift:71`). `AbsenceEndsSession` is what holds.
* Timestamps are compared as texts (`store.go:218`) and are only checked to be
  RFC 3339 (`handler.go:117`), so that "newest first" is by text and not by
  instant when clients write zones or fractions differently.
* Dashboard sessions are rows of the database and survive restarts, where the MVP
  design speaks of a map in memory and of logging in again. `Access` follows the
  code.
* Within a group `applyGrouping` does not keep the order of the query: a member
  that stands at `insertAt` is overtaken by the next one (`dashboard.go:183`).
  `LeadersInOrder` promises the first row of a group only.

## 6. What is proved

All from the named assumptions on the constants (`SizesAssumption`,
`TransportAssumption`, `StreakAssumption`, `IngestAssumption`,
`MercuryAssumption`, `SessionAssumption`, `GroupingAssumption`,
`PagesAssumption`, `ReportsAssumption`, `AccessAssumption`, and those that keep the
value for "none" apart), for every value of them. Every safety property that a run
checks and that holds is a theorem.

`EventQueueProofs`

* `TypeCorrect`. `TypeOK` is strengthened to `TypeInv`: outside a resend the
  snapshot is empty (else a later eviction could take files from under it), and
  the ranks of files are bounded (the set of files is not known finite to the
  prover, and a youngest one must exist to number the next).
* `NothingLostSilently`. `NoSilentLoss` is not inductive: that a failed batch may
  leave memory needs that its file is on disk (`FileOK`); that an answered one may
  needs that the server stored it (`AnswerOK`) and that the batch is still the front
  of the queue, which holds as long as no overflow hit it (`HandOK`). With
  `Accounted` these make `LossInv`.
* `KeptInOrder`. `OldestFirst` says nothing of the batch in hand, which is in memory
  and, from its file on, also on disk. `OrderInv` adds what connects the three: memory
  is always the last run of numbers tracked (`Dense`), the batch is a run that begins
  no later than memory does (`HandOrdered`), every file but the batch's own is older
  than both (`FilesBehind`), and nothing anywhere has a number not yet given
  (`AllTracked`).
* `AnsweredForgotten`, from the same invariant: with memory and batch known as
  intervals, `removeFirst` leaves nothing of the batch, overflows or not.
* `DamageBounded`. An overflow under a batch does no damage yet; it shifts the queue
  against the batch, and the next `removeFirst` does the damage. So what is bounded by
  `overruns` is the number of events lost plus `Shift`, how far the queue has moved
  (`DamageInv`).
* `OutboxUnlessOverrun` and `RoomyIsOutbox`, the refinement. `OutboxStep` maps every
  step to `Track`, `Store`, `Forget` or a stutter, under `OrderInv` and as long as
  `overruns` is 0. The first theorem states this for the behaviours that never overrun;
  the second replaces the condition by `MaxEvents <= MaxQueueSize`, that is, a queue
  that cannot overflow, which the run `EventQueueRoomy` has too. Without either the
  refinement is false: that is finding 1.

`NetworkClientProofs`

* `PauseKept`. `PauseRespected` from `BreakerInv`: the failure counter follows the
  burst, a full burst is either under a circuit no older than the last failure or a
  pause old, and a POST under way has a closed circuit. A clock that is set back only
  lowers the circuit's age, which is why the age is bounded by the true time since the
  failure and not equal to it.
* `TransportTypes` and `BackoffKept`, from `BackoffInv`: backoff, date of the last
  failure and streak begin and end together, the backoff is what the streak earned
  under the cap, and the date is no older than the failure, as far as `quiet` counts:
  up to a pause, hence the third bound in the property's minimum.
  `Earned` doubles from one failure to the next; that a function does is proved
  (`DoublesTo`), `StreakAssumption` only says that the streak is counted until the
  cap is reached.

`IngestProofs`

* `TypeCorrect`; `NeverPanics` (`SendInv`: what a Broadcast has still to visit is
  registered and live, what is closed is off); `OnlyCommittedStreamed` (`CommitInv`: a
  batch is committed before it is broadcast); `LiveSeesCommitted` (the rows there were
  at the query, the stream and `gap` cover the table), inductive together with the
  types: whoever commits a row carries it until each live channel was offered it.
* `AnsweredIsStored` is about steps and has no run of its own: rows enter the table as
  whole batches of the request that holds the mutex and never leave it; a batch stays
  what was posted until its answer; and at the 202 it is in the table, by `CommitInv`.
  It is what `EventQueue` takes for granted where an answer of the server adds to
  `stored`, so that `NoSilentLoss` speaks of the real table.
* `RowsCountedOnce`. `AcceptedCountsRowsOnce` is a sum over all requests. `CountInv`
  adds that `inserted` is 0 outside COMMIT to answer, so that a COMMIT adds the number
  of its new rows to the sum and an answer moves one term out of it (`SumChange`).

`MercuryProofs`

* `MercuryTypes`; `CursorsAdvance`: cursors are ids of messages of their channel or
  before all of them (`CursorInv`), and a callback reads and writes a channel in one
  step (`Moves`), so that a failed upsert leaves the stored cursor behind the poll's
  and the next successful one lifts it.
* `NotifiesInOrder` from `LifeInv`: what a process has notified is not beyond its poll
  cursor, and it has notified nothing before its first poll.
* `NoneLostBehindCursor` from `PassedInv`: only a read has a reply that is not yet
  among what was read.

`SessionProofs`: all five properties of the run. The first four rest on `DatesInv`:
in the background either the time of leaving is still known or a session began
since, and the session touched last is as idle as the app is quiet. The program
forgets both facts (a touch that starts a session clears the background time, a
return that starts one resets the activity), which is why the histories must be tied
to the dates. `AnnouncedOnce` rests on `StartsInv`, which says the same without
cardinalities: a session to be announced has no place in the log, any other exactly
one.

`GroupingProofs`: all four properties of the run.

* `RowsKept`: a pass composes the slice with a rotation, which has an inverse, so the
  slice stays a permutation (`RowsInv`).
* `GroupsStayTogether` needs `Gathered`: the members of the current group fill the
  places from the anchor to `insertAt`, none is before, and either none is behind the
  scan or every pass moved one. So no block of another group contains both the place
  before `insertAt` and a later one, and it survives the move (`BlockSurvives`); when
  the passes are used up, the pigeon hole leaves no member outside (`GatheredTogether`).
* `LeadersKept`: the leading row of a group is at its first place (`LeadersFirst`), so
  the row that a pass moves never leads, and the others keep their order.
* `GroupsFramed`: marks are set from neighbours; that they frame the groups needs
  that groups stand together when the loop has ended, and that nothing moves then
  (`MarksInv`).

`PagesProofs`: all three properties of `Pages`.

* Order is counting: a row's `Rank` is the number of rows before it, and the rows of a
  page are those of rank `Offset` and up (`PageRows`). That every rank is taken
  (`Ranked`) is what makes the page as the code slices it the page as it is meant.
* `CountCovers`: `CoverInv` holds between the two queries as well, because the table
  only grows and the page already has the filter of the request (`AskedInv`). A
  number other than 0 was counted after the page's rows were read.
* `RepeatsBounded`: rows of the trail were, among the rows of its beginning, of a rank
  below the next page (`TrailInv`); `FewRepeats` counts how many of them the arrivals
  can have pushed on to it.

`DashboardProofs`, about `Reports`: all three properties of its run, from
`ReportsInv`, which TLC also finds kept on the run's instance.

* The figures speak of a table that has grown since they were read, and the table of
  then is not kept. What is kept is `at`, its length at each query, and rows never
  change; so `ReportsInv` says that each figure is right of the rows up to its `at`
  (`CostRight`, `UsersRight`, `HeatRight`, `AverageRight`, `UniqueRight`), which an
  insert leaves true (`RightKept`, `TokensKept`) and the figure's own query makes true.
  A figure whose query may still come, or failed, is excepted: `Since` names the
  queries after which it is there, `logged` the failures.
* `ReportTypes`: its steps need that sums and counts of distinct values are natural
  numbers (the table has finitely many rows) and that no more categories are taken than
  the limit.
* `LaterCovers`. Cost per user is the cost of earlier rows by the devices of later
  ones: it needs that `at` grows from one query to the next, and that counts of distinct
  values (`DistinctGrows`) and the integer division keep the order. The entries engaged
  with are counted after views and edits, of more rows than both.
* `SilenceWhole`. The heat map is whole when no slot is unreadable; Sunday moves from 0
  to 7 and back; more tokens are never in a weaker colour, because a colour
  counts the quarters of the maximum that a cell exceeds (`ColorsGrow`); that there is
  a maximum needs that the cells are finitely many (`MaxIs`). The tool's rows are those of the
  snapshot unless it was cut, and then the answer is another.
* Sums are folds. `SumIs` unfolds the library's fold to a function on subsets, `AddedUp`
  shows that there is one and that every one adds up: to a natural number, one element
  at a time in any order. What the rest cites is `SumFacts`.

`DashboardProofs`, about `Access`: `AccessTypes` and `CheckSound`, from `TableInv`: a row
is missing only if its token was never drawn, was revoked or is too old. That holds
whether or not deletions and the cleaning at a start succeed; what a read that fails
does, `failed` excepts.

The provers cannot instantiate the library's induction theorems. Where an
induction was needed (sums over finite sets, the doubling of the backoff) it is a
least counterexample, which exists because `<` is well-founded on `Nat`
(`LeastNat` and `LeastNumber`, from `WFMin`, which takes a set and not an operator).

Only model-checked: liveness (`Drains`, `Recovers`, `IngestNeverWaits`, `Delivers`,
`ShutdownEnds`; the prover has no fairness or ENABLED).

## 7. What is not modelled, and the plan

Not modelled:

* Corrupt batch files and deletions that fail.
* A second `configure`, which `docs/spec.md:263` allows. It makes a second
  `EventQueue` over the same directory. A flush of the first that is under way goes
  on beside the second's; otherwise nothing holds the first (its blocks and its
  timer capture it weakly), and what it has in memory goes with it, as in the action
  `Crash`. Files of the first are sent to the second's server. It takes two queues
  that each flush, where `EventQueue` and its proofs have one.
* A clock that is set back between two batch files: files are ordered by creation
  date (`Persistence.swift:79`, `:168`), which the model takes to be the order in which
  they were written. `OldestFirst` depends on that; the other properties do not.
* A clock that is set forward, which shortens pause and backoff by as much.
* Power loss of the host: the database runs with `synchronous=NORMAL`, so that a
  commit may be lost with it.
* Which check refuses a batch; `validateQuery`, which looks at the text of a query
  and keeps no state; the columns of the project board; how costs, times and rows
  are printed; the detail of one event.
* API keys and `LoadConfig`: read once before anything else, never changed. Schema
  migration, done before the first request.
* The `mercury` program, which is not in the repository and is modelled by the way
  the plugin and the launcher use it; host configuration.

Next, in this order:

1. `Configure`: two queues over one directory.
2. A composition of `EventQueue` and `Ingest`: at least once on the wire, exactly
   once in the table. `NothingLostSilently`, `AnsweredIsStored` and `RowsCountedOnce`
   are its parts; what is left is one module in which both run.
