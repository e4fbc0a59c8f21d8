# TLA+ models of the dynamic QR backend

The backend (`src/app`) serves short codes: a visitor's request is redirected
to the code's current destination and the scan is logged; owners change codes
and campaigns, import campaigns from a Google calendar, and look at daily
figures. It is a FastAPI application on MySQL and Redis with separate workers.
Very little of its difficulty is in one request. It is in what happens between
requests: a row read before an `await` and used after it, a cache entry deleted
before its transaction commits, a worker that dies between two Redis commands,
a job whose window was computed before its statement ran. That is what these
modules model.

## Inventory

| Part | State | Operations | Meets the rest through | What makes it hard | What makes it correct |
|---|---|---|---|---|---|
| Scan-log queue, `workers/queue_client.py` | three Redis lists: waiting, processing, dead letters | `enqueue`, `dequeue`, `ack`, `dead_letter` | messages from the redirect endpoint to the workers | a command fails, or is applied and its reply is lost | no message is lost or doubled by an operation |
| Redirect and scan workers, `api/v1/redirect.py`, `services/scan_enqueue_service.py`, `workers/scan_log_worker.py`, `workers/dev_scan_worker.py` | the message a worker holds, `scan_logs` | enqueue; receive, persist, retry, give up, acknowledge | the queue; MySQL | worker crashes, ambiguous commits, retries through other workers, a loop that ends on the first Redis error | no accepted scan vanishes, one live copy, retries agree with failures, every scan settles |
| Short-code cache and QR rows, `core/cache.py`, `repositories/qr_codes.py`, `services/qr_service.py`, `db/session.py` | `qr_codes` row, Redis entry, open transactions | resolve; update, set status, soft delete; expiry | redirects read what owners write | entry deleted before commit, stored after a newer write, failed `DEL` | only committed rows cached, staleness has a known cause and ends, deleted stays deleted |
| Analytics aggregation, `workers/analytics_aggregator.py`, `repositories/daily_analytics_summary.py`, `services/analytics_service.py` | `daily_analytics_summary`, due times, computed windows | incremental run, daily run, reconciliation of a day | reads `scan_logs`; read by the dashboard | late scans, overlapping windows, two jobs on one row, midnight | never overcounts, exact days stay exact, a day's row is that day's |
| Job scheduler, `workers/scheduler.py` | task list, `_running`, stop event | start, stop, interval and daily loops | runs the aggregation jobs | missed due times, restarts, failing jobs | each daily job once a day |
| Campaign calendar sync, `services/campaign_calendar_sync_service.py`, `services/google_calendar_service.py`, `repositories/campaigns.py`, `services/campaign_service.py` | `campaigns` rows with link, sync status and hash; Google events | import, push, unlink; create, update, soft delete | Google, with every call before the commit | duplicates of concurrent imports, orphaned events, links overwritten by stale requests, periods at the turn of a year | one campaign per event, status agrees with link, neither store keeps what the other has lost, a repeated import changes nothing |
| OAuth integrations, `services/integration_service.py`, `repositories/user_integrations.py` | one row per user and provider | connect, two forms of callback, refresh, revoke | the provider's codes and tokens; read by calendar sync | refresh in flight while the connection is revoked or renewed, answers without refresh token, callbacks whose state or body names another user or provider than the code was begun for | both tokens of a connection are of one authorization, a connection is what was asked for, stored refresh tokens work and are not lost |
| Short-code generation, `services/short_code_service.py` | the set of codes | draw, probe cache and database, insert | unique key of `qr_codes`, the cache | probe and insert are apart; gives up after ten tries | a code stays with one row, only a race costs a creation its code, every creation ends |
| Hard-delete maintenance, `services/maintenance_service.py` | rows and their references | guarded delete of users, campaigns, codes | foreign keys and their cascades, cache | requests under way that hold ids of purged rows, cache entries of purged codes | references stay whole; a code passes on only after a hard delete |
| Access control, `core/rbac.py`, `core/security.py`, `api/v1/auth.py` | none of its own | scope checks, filters | called by every service | checks and filters must agree | what a filter lists a check admits |
| Audit, metrics, configuration, migrations, schemas, start-up | logs, bounded samples, settings | - | - | little | - |

Data stores are outside the program and modelled from its use of them: Redis
runs one command (or one `MULTI/EXEC`) at a time; MySQL's default isolation,
REPEATABLE READ, lets a plain `SELECT` see a committed snapshot and makes an
`UPDATE` work on the committed row and lock it until the transaction ends.
`get_db_session` commits after the handler has returned.

## Modules

| Module | Models |
|---|---|
| `ScanQueue` | the operations of `RedisQueueClient`, each one atomic step |
| `ScanPipeline` (extends `ScanQueue`) | redirect endpoint, workers, their faults; composes the queue with its users |
| `ScanDelivery` | what the pipeline promises about each scan, with no queue and no worker |
| `ScanPipelineProofs` | theorems about `ScanPipeline` |
| `ScanDeliveryProofs` (extends `ScanPipelineProofs`) | `ScanPipeline` implements `ScanDelivery` |
| `MCScanPipeline` | scans, workers and which of them suffer which fault, for TLC |
| `ShortCodeCache` | one row, its cache entry, writing transactions and resolving readers |
| `ShortCodeCacheProofs` | theorems about `ShortCodeCache` |
| `AnalyticsAggregation` | one code's daily rows, scan arrival and the jobs |
| `AnalyticsAggregationProofs` | theorems about `AnalyticsAggregation` |
| `MCAnalyticsAggregation` | three scans and their addresses, for TLC |
| `CalendarEvents` | periods, event lists and the conversions between campaigns and Google events, as operators |
| `CampaignCalendar` (extends `CalendarEvents`) | campaign rows, Google calendars and the requests that tie them together |
| `CampaignCalendarProofs` | theorems about `CampaignCalendar` and `CalendarEvents` |
| `MCCampaignCalendar` | a user and an admin, dates around the turn of a year, PATCH payloads, for TLC |
| `IntegrationTokens` | OAuth connections: connect, callbacks, refresh, removal, and the provider's memory of codes and tokens |
| `IntegrationTokensProofs` | theorems about `IntegrationTokens` |
| `MCIntegrationTokens` | one user's two providers, for TLC |
| `AccessControl` | `ensure_scope_access` and `scope_filter`, as operators |
| `Catalog` (extends `AccessControl`) | creation of codes, PATCH, soft and hard deletion of users, campaigns and codes, against keys and cache |
| `CatalogProofs` | theorems about `Catalog` and `AccessControl` |
| `MCCatalog` | a user and an admin with their tokens' claims, for TLC |

Definitions whose comment begins with `Mutant:` are plausible bugs of the
definition that follows them. They are not part of any specification; replacing
the definition by its mutant must violate the property that guards against it.

### ScanPipeline

`queue`, `processing` and `deadLetters` are the Redis lists. A message is a
scan and its `__retry_attempt` counter; uuid and time stamps tell nothing
apart. `served` is what `redirect_by_short_code` did with each scan: `enqueue`
succeeded, or failed and was swallowed. `pc` and `msg` place each worker
between two awaits of `process_next_scan_log_message`:

| `pc` | the worker is about to | action |
|---|---|---|
| `idle` | dequeue | `Receive` (a payload that does not validate goes to `rejecting`) |
| `persisting` | insert and commit | `Commit`, `FailToPersist` |
| `retrying` | enqueue the message with the next attempt | `Retry` |
| `burying` | dead-letter it as `retry_exhausted` | `Bury` |
| `rejecting` | dead-letter it as `invalid_payload` | `Reject` |
| `acking` | acknowledge | `Acknowledge` |
| `down` | nothing: its loop or process is over | `Restart` |

Faults are constants, per worker: `redis` (a command fails and is not applied),
`reply` (applied, reply lost), `insert` (rolled back), `commit` (committed,
reply lost), `crash`. Any queue error ends the worker's loop, which has no
handler (`Proceed`, `CommandFails`). Nothing in the code reads the processing
list back, so no action does. `failures` and `unknown` are history variables.

`ScanDelivery` is implemented under the mapping `seen` = served, `live` = some
copy is queued or held by a worker that has not decided yet, `dead` = dead
letter. Its `Strand` action is the loss that a dead worker causes; stating it
in the abstract specification keeps that visible.

### ShortCodeCache

Writers are requests: `Check` (the service finds the row and checks access),
`Write` (the `UPDATE`, which takes the row lock), `Invalidate` (`DEL`),
`Commit` or `Rollback`. Readers are `resolve_by_short_code`: `Lookup`, `Fetch`,
`Store`. `Expire` is the TTL. With `RedisFails`, any cache command may fail,
which the code swallows. `raced`, `missed` and `past` are history variables
that name the two causes of staleness and the rows ever committed. One column
stands for all that PATCH may change, one for status.

### AnalyticsAggregation

The clock counts ticks; a tick is `Window` long in the runs (five minutes in
the code), a day has `DayLength` ticks. A redirect stamps a scan (`Scan`), a
worker inserts it at any later time (`Log`). A job reads the clock in `Begin`
and runs its statement in `Upsert`, with anything in between. The statement is
one atomic step: `INSERT ... SELECT` reads with locks in one transaction.
Timers go off within the tick they are due; runs may take any time, fail, or be
cut off by a restart, after which due times are computed anew.

### CampaignCalendar and CalendarEvents

A day is a number, a month `MonthLength` days, and Google's end of an all-day
event the first day it does not cover. `CalendarEvents` holds what the services
compute: `ResolvePeriodBounds`, the event list (live, overlapping, first
`MaxResults` by start; there is no second page), the event a campaign becomes
and the campaign an event becomes, hash and derived status.

A request has up to three steps, with anything in between:

| step | import | push | unlink |
|---|---|---|---|
| reads its snapshot, checks access | `StartImport` | `StartPush` | `StartUnlink` |
| calls Google | `FetchEvents` | `CallPush` | `CallUnlink` |
| updates the committed rows, commits | `SaveImport` | `SavePush` | `SaveUnlink` |

`Abort` breaks off a request before or after its call. `view` is the snapshot of
REPEATABLE READ: lookups use it, `UPDATE`s work on the rows as committed, and one
that finds its row deleted goes unnoticed. `CreateCampaign`, `PatchCampaign`
(clients may set the calendar columns) and `DeleteCampaign` never wait for Google and are one
step; a link that PATCH sets is one of an event there is or was, an id that Google never
gave being like that of an event that is gone. `CallPush` needs an event that
ends after it starts, since Google refuses others and the code does not check.
`GoogleCreate`, `GoogleChange`, `GoogleDelete` are people editing their
calendars, `Tick` is midnight. Events are in the calendar of whoever pushed
them, so an admin's push of another's campaign ends in the admin's.

Seven history variables name causes, so that properties need not be weakened to
"most of the time": `stale` requests another has overtaken, `serial` while none
of those has written, `manual` rows whose link a client set, `pushed`, `stray`
and `gone` for where events come from and how they lost their campaign, `fresh`
rows that nothing has touched since their import.

### IntegrationTokens

`row` is `user_integrations`. A callback redeems its code (`ExchangeCode`) and a
refresh its token (`ExchangeRefresh`); each then stores what it was given
(`Save`), with anything in between. The answer may leave the refresh token out,
have a null in its place, or replace it: the code treats the three differently
in a refresh (`RefreshToStore`). The provider redeems a code once, takes the
refresh tokens in `accepted`, and drops the old one when it issues another.

The code keeps nothing between the connect URL and the callback. The state in
the URL is generated or, verbatim, the client's; `GET /callback` takes any state
with any code, and whatever has the form `provider:user:anything` names the key
(`ParseState`); `POST /callback` takes the caller, any provider and any code. So
the model keeps no state with an authorization, and `GetCallback` and
`PostCallback` range over all states and keys. An entry of `answers` tells which
authorization an answer goes back to and the key of the request that got it.

`asked`, `misnamed`, `crossed` and `cut` are history: which keys a callback was
the last to name, which codes came with another key than they were begun for,
where a refresh wrote to a row that had changed, and which refresh tokens ended
without our storing their replacement. With `misnamed`, `OwnTokens` says exactly
how far a connection can be trusted to be its user's: its tokens are always of
one authorization and were given to a request for that key, but that the
authorization was begun for that key depends on what the callback was sent.

### Catalog and AccessControl

A creation reads, draws a candidate and looks it up in the cache (`Probe`), then
in the database (`FetchCode`, which also fills the cache), and inserts (`Insert`);
its `SELECT`s share one snapshot, which the `INSERT` does not use.
All other requests are one step: `ShortCodeCache` takes the redirect and the
writes of one code apart, this module looks at many rows. `PurgeQr`,
`PurgeCampaign` and `PurgeUser` are `MaintenanceService` with the foreign keys
of the schema: scans keep a code, a campaign's codes lose their reference, a
user's campaigns go along. The cache keeps what it has, which is why a creation
may find a purged code taken. `claims`, `purged` and `moved` are history.

## Runs

| Run | Checks | Shows |
|---|---|---|
| `pipeline_faults` | types, `NoScanVanishes`, `OneLiveCopy`, `RowsAccountedFor`, `ExhaustedAfterEveryTry`, `RemovedOnlyWhenHandedOver`, `DeliverySpec` | the pipeline's safety under every fault, and that it implements `ScanDelivery` |
| `pipeline_progress` | `SettlesUnlessWorkerLost`, `QueueDrains` | while no worker is lost every accepted scan is logged or dead-lettered, however often the database fails; one surviving worker empties the queue |
| `pipeline_strand` (violated) | `EveryScanSettles` | one crash loses a scan for good even if the worker is restarted |
| `cache_race` | types, `CacheSound`, `StaleOnlyByRace`, `DeletedIsFinal`, `OneColumnPerCommit`, `EventuallyCoherent` | what the cache and the row writes guarantee with races and failing Redis commands |
| `cache_stale` (violated) | `CoherentAtRest` | one update and one redirect leave the old destination cached after both are done |
| `analytics_jobs` | types, `NeverOvercounts`, `ExactDayStays`, `DailyOncePerDay` | no order of runs overcounts, and a closed day that was reconciled stays exact |
| `analytics_full_day` (violated) | `FullDayCorrectness` | the daily job recomputes the new day, never the one that ended |
| `analytics_total_falls` (violated) | `TotalNeverFalls` | the incremental job replaces a day's total by that of its window |
| `calendar_links` | types, `OneCampaignPerEvent`, `LinkMatchesStatus`, `EventsAccountedFor`, `RepeatImportSkips`, `PeriodsAgree` | campaigns and events stay tied as the rows say and neither store keeps what the other has lost, unless a request was overtaken or broke off; repeated imports change nothing; months add up to the year |
| `calendar_duplicates` (violated) | `IdempotentLinkage` | two requests under way at once make two campaigns of one event |
| `token_connections` | types, `OwnTokens`, `ConnectedAsAsked`, `StoredRefreshWorks`, `RefreshTokenKept` | both tokens of a connection are of one authorization, its own unless a callback named another key with the code, and what overlapping callbacks, refreshes and removals can and cannot break |
| `catalog_codes` | types, `CodeKeepsItsQr`, `LosesCodeOnlyByRace`, `InOwnCampaign`, `CreationAdvances` | codes stay with their rows through every order of creation, deletion and caching, and creations end |

The five violated runs are disagreements between the code and what its
docstrings say; `PROJECT.json` quotes the lines.

### Bounds

- Pipeline: three workers, one valid and one invalid scan, `MaxRetries` = 2.
  Three workers are needed for the longest overlap: one acknowledges the first
  attempt while a second acknowledges the retry and a third holds the retry of
  that. Two retries distinguish first, middle and last attempt. The
  progress run has three scans (one invalid) and two workers, of which one
  suffers every fault and the other only the database's, with one retry: the
  retries of a scan could starve the others, and the second worker has to
  manage what the first leaves.
  `pipeline_strand` has a worker that crashes and is restarted.
- Cache: three writes by two writers and two readers: enough for a write
  between another's check and its update, a delete before an update, and a
  reader that stores across two commits.
- Analytics: three scans, two from one address and one without address, days of
  three ticks and a clock that runs into the second day: scans before, in and
  after every window, a day that closes, and a daily run on each day.
- Calendar: two rows, two events, two requests under way at once, a user and an
  admin, three requests or edits altogether (`MaxSteps`). Three suffice for an import between the
  two halves of a push, and for a change in between after a link exists. Months
  have one day and the days are the last two of a year and the first of the next,
  so that bounds, exclusive ends and midnight all meet; the event list has room
  for one event, so that it is cut off.
- Tokens: two providers of one user, two consents, three answers, two requests: a
  refresh overtaken by a callback, by a removal and by another refresh (a first
  answer and one for each of the two), and callbacks that name the other key. A
  key is a pair to the model, so a second user would add keys of the same kind;
  two users are left to the proofs.
- Catalog: one short code, so that any two creations compete for it, two
  attempts, two rows, one campaign, two creations under way.

The slots of requests are interchangeable, and so are the two providers, hence the
symmetry sets of the last three; none of their runs checks liveness.

Deadlock is checked for `catalog_codes`. Elsewhere it is not
(`CHECK_DEADLOCK FALSE`): each bounded model comes to an end, and workers that
are idle on an empty queue wait by design.

### Fairness

`ScanPipeline!FairSpec` has weak fairness of each worker's own step: the loop of
`run_scan_log_worker` takes one whenever it can. Faults are never fair.
`SupervisedSpec` adds fair restarts and at most finitely many crashes, the best
a supervisor can offer; the scan is lost all the same. `ShortCodeCache!FairSpec`
has weak fairness of a request that has been accepted and of `Expire`, which
Redis guarantees. The other modules state only safety and need none; that a creation
ends (`CreationAdvances`) is stated as a measure that every step lowers.

## Proofs

`ScanPipelineProofs` proves, for any sets of scans and workers, any retry limit
and any faults: `TypeCorrect`, `Conservation` (`NoScanVanishes`), `SingleCopy`
(`OneLiveCopy`), `RowsAccounting` (`RowsAccountedFor`), `EveryTryUsed`
(`ExhaustedAfterEveryTry`) and `HandOver` (`RemovedOnlyWhenHandedOver`). They
rest on one inductive invariant, `IInv`. None of the properties is inductive:
that at most one party acts on a scan needs to know that a queued message is
newer than every copy in the processing list (`QueueInv`), or acknowledging an
old copy could remove the message of a new one; that a dead-lettered scan used
every try needs the attempt in the message to agree with the failures counted
(`HoldInv`, `QueueInv`), and that a scan with anything final is neither queued
nor held (`Unsettled`); that an acknowledgement is safe needs the retry to have
been enqueued (`AckInv`) and no two workers to hold the same message
(`OwnerInv`). The assumptions are those of the modules: invalid scans are
scans, `MaxRetries` is a natural number, `NoMsg` is no message.

`AnalyticsAggregationProofs` proves `TypeCorrect`, `NoOvercount`
(`NeverOvercounts`) and `ExactStays` (`ExactDayStays`) for any finite set of
scans and any lengths of day, window and interval. The argument: an upsert
stores the figures of a group of the day's logged scans, figures are monotonic
in the group, and `scan_logs` only grows; and once a day is closed, every
window that begins spares it (covers it whole or not at all), because days do
not overlap and the incremental window ends after it.

`AnalyticsAggregationProofs` also proves `OncePerDay` (`DailyOncePerDay`): the
daily job's due time lies after every day on which it has started (`DailyInv`),
and every way to compute a due time, a restart's too, leads to a later day.

`ScanDeliveryProofs` proves `Implements` (`DeliverySpec`): under the mapping
given above each step of the pipeline is one of `ScanDelivery`'s or changes
nothing it sees. It needs `IInv`: that a scan stops being live when the one
party that acts on it gives up is `OneLiveCopy` and what that rests on.

`ShortCodeCacheProofs` proves `TypeCorrect`, `SoundCache` (`CacheSound`),
`StaleByRace` (`StaleOnlyByRace`), `DeletedStays` (`DeletedIsFinal`) and
`OneColumn` (`OneColumnPerCommit`) for any number of writers, readers and
writes. The inductive invariant adds to these that a writer past its `UPDATE`
holds the lock and its draft is its operation on the committed row (`LockInv`), and
that an entry no race or failure has touched is the committed row while nobody
who has invalidated is still to commit (`FreshInv`).

`IntegrationTokensProofs` proves `TypeCorrect`, `OwnTokensOnly` (`OwnTokens`),
`Connected` (`ConnectedAsAsked`), `RefreshWorks` (`StoredRefreshWorks`) and
`RefreshKept` (`RefreshTokenKept`) for any users, providers and bounds. The
invariant follows a token from the authorization through code, answer, request
and row: the credentials in a row or a request were given for its key and go
back to one authorization (`Own`), and a code that no callback has misnamed is in
callbacks and answers of its own key only (`OwnCode`). That a void refresh token
is nobody else's too needs that a replacement about to be stored is in no row and
no other request (`FreshInv`).

`CatalogProofs` proves `TypeCorrect`, `CodeForGood` (`CodeKeepsItsQr`),
`LosesCode` (`LosesCodeOnlyByRace`), `OwnCampaign` (`InOwnCampaign`) and
`CreationEnds` (`CreationAdvances`) for any principals, codes and bounds, and of
the operators alone `FilterAgrees` (a filter selects what the check admits) and
`AgencyReachesNothing` (which is what the application's missing company resolver
comes to). The invariant ties rows, snapshots and cache entries to the history of
claims: an id has one code, and an id that is claimed and not purged has its row.

The assumptions are those stated in the modules: bounds are natural numbers, and
`None` is none of the values it stands beside (`NoneAssumption`).

`CampaignCalendarProofs` proves `TypeCorrect`, `OneCampaign`
(`OneCampaignPerEvent`), `LinkStatus` (`LinkMatchesStatus`), `EventsAccounted`
(`EventsAccountedFor`), `ImportSkips` (`RepeatImportSkips`) and `PeriodsAdd`
(`PeriodsAgree`) for any users, spans, patches, periods, bounds and any number
of requests under way. Of the six only `LinkMatchesStatus` and
`RepeatImportSkips` are conjuncts of the invariant as they stand. The argument
has four parts.

- What a request knows: its snapshot is the committed table until another
  request commits (`SnapshotInv`), and every commit overtakes all others, so the
  only requests whose writes need an argument are those that write to what they
  read. `serial` is lost with the first write of any other.
- Uniqueness: such an import looked for each event among the committed rows
  themselves, and the ids of the rows it makes are new and distinct (`DenseInv`,
  and the lemma `RankFacts`: ranks in a finite set of numbers run from 1 on without
  gaps). A push that has made an event links one that no row links
  (`CreatingInv`).
- Causes: a pushed event that lives is linked or its push is about to commit
  (`KnownInv`); a dangling link is explained by somebody's deletion, a request
  broken off, or an unlink under way. This is not inductive by itself: when the
  unlink commits, the links of *other* campaigns to its event lose their
  explanation unless they had another (`OthersInv`, `UnlinkInv`), and a push or an
  import may link an event that has gone since Google answered, so that what is about
  to be linked has to be explained as well (`LostInv`).
- Soundness of what requests carry: ids in snapshots, requests and answers exist
  (`LinksExist`, `RequestInv`), and events cover at least a day (`SpanInv`), without
  which an event on the bound of two months would be in neither.

TLC finds no violation of the whole invariant (`IInv`) within the bounds of
`calendar_links`.

The assumptions are those stated in the modules: `PatchAssumption` (a PATCH
sends fields that `CampaignUpdate` has, with values of their types),
`LinkAssumption`, `CalendarAssumption` and `NoneAssumption`.

Only model-checked: liveness (`SettlesUnlessWorkerLost`, `QueueDrains`,
`EventuallyCoherent`), which is out of the prover's reach: it needs fairness and
`ENABLED`. No module uses `RECURSIVE`.

## Plan

1. An abstract connection (connected or not, with a working refresh token or
   not) that `IntegrationTokens` implements.
2. A user with two campaigns and two titles in `calendar_links`; two short codes
   in `catalog_codes`; two users in `token_connections`.

## Not modelled

- Paths that differ from a short code in case only: the row is looked up under
  the collation of MySQL, the cache by the exact string. A code is one value here.
- Encryption, password hashing, JWT: library calls; what is encrypted on the way
  in is decrypted on the way out. Registration and login are one `INSERT` and
  one `SELECT`.
- Google, Redis and MySQL themselves: modelled from their use. A 404 to a
  deletion means that the event is not in this user's calendar, as
  `google_calendar_service.py` takes it; any other error, 410 included, fails the
  request.
- What nothing in the application reaches: nothing calls `get_scheduler` or the
  `start` and `stop` of a scheduler, `MaintenanceService` or `sync_event_for_qr`,
  and no service is given a company resolver. The jobs and the hard deletions are modelled all the same;
  `sync_event_for_qr` and the QR event details are not.
- The drift of a campaign's end date by a push and an import in turn is modelled
  and listed as a hazard; nothing in the repository says it should not happen, so
  no property speaks of it. Descriptions and the `event_status` of events are
  left out.
- Listings and the dashboard's range query, which only read; settings, DDL,
  response schemas and the mapping of errors to status codes; user-agent parsing
  and URL building; audit entries and metrics, which nothing reads.
- The in-memory queue differs from the Redis queue only in raising no errors and
  in losing everything with its process.
