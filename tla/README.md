# TLA+ models of mdlbot

Models, model-checking runs and machine-checked proofs about this repository: a
Telegram service that takes links and files from users, downloads them with worker
processes, and hands them out again as direct downloads, Telegram uploads and
streams. PostgreSQL is the source of truth, Redis Streams carry work and progress,
and everything a user consumes is accounted against a quota.

All paths below are relative to the repository root. `PROJECT.json` lists the runs,
theorems, hazards and, for every definition, the lines it models.

## 1. Inventory

| component | state | operations | interacts with |
|---|---|---|---|
| job queue (`app/workers/control.py`, `app/dispatcher/service.py`, `app/background.py`) | `jobs`, `job_attempts`, `outbox_events`, streams `jobs:<type>:<lane>` | dispatch, publish, claim, heartbeat, complete, fail, recover expired leases | quota ledger (same transaction), workers (HTTP), progress stream |
| worker client (`app/workers/client.py`) | the job it works on | claim, report progress, report the end once | the API's worker endpoints (`app/api/app.py`) |
| processors (`app/workers/downloads.py`, `media.py`) | part files, objects, variants | download, scan, move, upload, probe, transcode, segment | worker client's progress callback |
| quota ledger (`app/services/quota.py`) | `quota_buckets`, `quota_reservations`, `usage_records` | reserve, top_up, touch, reconcile, reconcile_expired | admission, job queue |
| admission (`app/services/admission.py`) | creates jobs | create_job | quota ledger, settings |
| job state trigger (migration `0001`) | `jobs.status` | refuses transitions | every handler |
| direct downloads (`app/services/downloads.py`) | `download_links`, `download_sessions`, Redis counters | create_link, authorize | nginx, usage collector |
| streaming (`app/services/streaming.py`) | `stream_tokens`, `stream_sessions`, counters | create_token, authorize, manifest, segment | nginx, usage collector |
| usage collector (`app/usage.py`) | cursor per log file, `bandwidth_usage` | consume a log file | counters and sessions of both deliveries |
| webhook relay and dedup (`app/api/webhook.py`, `app/bot/server.py`) | `webhook_updates` | forward, claim, finish | Telegram's retries, bot handlers |
| bot (`app/bot/`) | dialogue | handlers, middlewares | admission, links, settings |
| progress notifier (`app/bot/progress.py`) | consumer group of `job-progress` | edit the user's message | job queue |
| runtime settings (`app/core/settings.py`, `catalogs.py`) | `settings`, versions, history | update, apply_profile, snapshot | all services |
| authorization (`app/core/permissions.py`, `bootstrap.py`) | admins, roles, overrides, scopes, use counts | evaluate, require | settings, admin handlers |
| URL policy, i18n, configuration, logging, deployment | none that changes | validation, wording, plumbing | |

### Hard behaviours

* The API runs many requests at once, in front of one dispatcher and many workers;
  only row locks order them. Clocks are read before locks are granted.
* `XADD` and the database commit are separate: entries are lost, repeated, and
  delivered before the row that records them is committed.
* A worker's reports time out, arrive late, or arrive after its lease went to
  somebody else; workers die; nobody reads pending stream entries again.
* Quota is held over hours, across window and plan changes, while several attempts of
  one job move bytes.
* Rollback is part of the design: a settlement that raises undoes the failure report,
  and one that raises in the dispatcher's cycle undoes the whole cycle.

What makes each part correct: the queue runs a job to an end, at most once at a time
by what the API accepts, and leaves one file; the ledger balances, stays within
limits and charges by outcome; links and streams stay within the limits they are sold
with; an update from Telegram is handled once; settings that are read are consistent;
permissions are only used when granted.

## 2. Modules

| module | contents |
|---|---|
| `JobStates` | job states, the sets that services test, the trigger's transition relation, the state chains handlers flush |
| `JobQueue` | the queue: dispatcher, publisher, API, workers, clock, faults |
| `JobContract` | what the queue promises the user, without leases, messages or clocks |
| `MCJobQueue` | small instances of `JobQueue` |
| `JobQueueProofs` | type correctness, the safety and action properties, and the refinement of `JobContract` |
| `QuotaLedger` | one user's buckets and reservations through the life of jobs |
| `MCQuotaLedger` | small instance with two plans |
| `QuotaContract` | what the ledger promises about a user's quota, without aggregates, plans, windows or workers |
| `QuotaLedgerProofs` | type correctness, every safety property of the ledger, and the refinement of `QuotaContract` |
| `Connections` | what downloads and streams share: session rows, Redis counters, Nginx's responses and log, the usage collector |
| `DownloadLinks` | links, download sessions and their requests; extends `Connections` |
| `StreamTokens` | stream tokens, stream sessions and players; extends `Connections` |
| `Delivery` | the composition of the two over the connections they share, and all properties |
| `DeliveryContract` | what the delivery promises, without transactions, locks, counters, log and collector |
| `MCDelivery` | small instances of `Delivery` |
| `DeliveryProofs` | type correctness and every safety invariant that holds of `Delivery` |
| `DeliveryContractProofs` | the refinement of `DeliveryContract` |
| `Authorization` | administrators, row locks and deadlocks, the evaluator, the trigger for the last super administrator, the bootstrap |
| `SettingsChanges` | updates and profiles of runtime settings; extends `Authorization` |
| `MCSettings` | small instance of `SettingsChanges` |
| `SettingsContract` | what the administration promises, without locks, transactions and versions |
| `SettingsProofs` | type correctness, every safety property of the administration that holds, and the refinement of `SettingsContract` |
| `BotUpdates` | one user's messages from Telegram's webhook to the commit of the handler |
| `MCBotUpdates` | small instances of `BotUpdates` |
| `BotUpdatesProofs` | type correctness and every safety invariant of `BotUpdates` |
| `FiniteLemmas` | sums of functions on finite sets, smallest subsets, least numbers: what the proofs need of induction |

Operators whose comment starts with "Wrong" are variants with a plausible bug; no
action uses them. They show that the properties can fail (PROJECT.json, `mutants`).

### JobQueue

One action is one database transaction, one Redis command or one worker step.

* `status`, `generation`, `attempts`, `lease` are columns of `jobs`. A lease is a
  fresh random token per dispatch, so (job, generation) stands for the token; time is
  reduced to whether `lease_expires_at` is ahead. `seen[w]` is the clock that
  `_claim_durable` samples before it waits for the row lock: a claim may succeed
  although the lease ran out while it waited.
* `reservation` is what the job's `quota_reservations` rows are: `active`, `overdue`
  (their `expires_at` has passed), `settled`. `files` counts the rows that completion
  inserts.
* `outbox`, `added`, `batch`, `stream` are the two sides of publishing. `batch` is
  the publisher's open transaction; while it is not empty the dispatcher does nothing
  else, because it is one sequential loop. A cycle transaction handles its rows one
  by one and is split into one action per row. A row that another transaction has
  locked is skipped there, which is the action not being taken.
* `phase`, `task`, `calls` are workers and the final reports on their way. The worker
  sends a completion and waits for it (`finish`), or gives up and reports a failure
  (`failing`) while the completion may still arrive; it is free again once its
  failure report is sent. `over` says that a failure reports more bytes than the job
  has reserved, which makes reconcile raise (`Raises`) and rolls the report back.
* `Heartbeat` is a request with its reply, as the worker waits for it: accepted,
  denied by the top-up (`denied`), or refused or lost (`failing`).
* The stream is a set: lanes and order only matter to fairness between users.
  `LoseEntry` covers a Redis restart, trimming at `MAXLEN`, and an API process that
  dies with an entry it has read. `XACK` only touches the pending list, which no code
  reads.

Left out: the two lanes and their counters, `job_attempts` and `job_events` rows,
progress publishing, errors of `complete` for media whose file has gone (the worker
ends in `failing` as after a lost call), workers of a type other than the job's (any
worker serves any job here, which adds behaviours).

### QuotaLedger

* A bucket is a quota of a plan and a window start; `limit`, `reserved`, `committed`
  are its columns. `amount`, `consumed` and `open` are the job's reservation rows;
  they are opened and finalised together.
* `total` (`total_bytes`, 0 for none), `bytes` (`bytes_transferred`), `maximum`
  (`max_file_size` in the policy snapshot) belong to the job; `got` and `reported` to
  the worker, which starts from 0 in each attempt.
* Admissions of one user do not overlap: the middleware locks the user's row for the
  handler's whole transaction (`app/bot/repositories.py`, `get_or_create`), and a
  refusal rolls everything back (`ErrorMiddleware` is outside `DatabaseMiddleware`).
  Changes to a bucket hold its row lock, so transactions are atomic here; deadlocks
  among those locks, which PostgreSQL ends by a failure of one transaction, are not
  shown.
* Child jobs are not admitted and hold no reservation. They do count as active jobs,
  which makes admission stricter than here.
* The abstraction of leases is `LoseWorker`: at any time a running job goes back to
  the queue or is given up. Expiry may happen whenever reservations are open, with or
  without a lease, which adds behaviours.

### Connections, DownloadLinks, StreamTokens, Delivery

* `session`, `active`, `link`, `token`, `bound`, `ranges`, `resumes` are columns of
  the link, token and session tables. `counter` is the Redis counter of open
  connections (0 when there is no key), `inflight` what Nginx is sending, `log` its
  delivery log. `lapsed` and `overdue` are the rows whose `expires_at` has passed.
* A request is a transaction of two actions: it begins when it has all its locks and
  has passed all its checks, and it commits or rolls back later. What it holds keeps
  others out (`RowsFree`, `TokenFree`). The Lua script that raises the counter runs in
  the first half, so a request that is rolled back leaves Redis higher than the row.
  Links are created by handlers of the bot, which lock the user's row first
  (`UserFree`), so two creations of one user never overlap.
* The counter's key expires (`CounterExpires`). Each acquisition sets its time to live
  to what is left of the session in whole seconds, so the key may go in the session's
  last second, while responses are under way. `restarted` are the sessions to which
  this has happened; it happens once, as an acquisition in the last second sets a
  whole minute.
* The commit of a fetch is also the `X-Accel-Redirect` on which Nginx starts. A
  response ends with a line in the log (`Finish`) or without (`Vanish`).
* The collector's cycle is four actions: read, the transaction, one Redis release per
  line, the cursor. It can fail between any two of them (`CycleFails`), and the
  cursor's key can expire (`CursorLost`). A line can be beyond storing, as the numbers
  of its Range header may exceed their columns; then the transaction fails
  (`RecordFails`), and each later cycle reads the same lines and fails in the same way.
  Only that day's file stands still, since each file has its own cycle and cursor.
  Redis is assumed to keep what it has been told: it evicts nothing (`noeviction`), and
  a crash that loses the last second of its append-only file
  (`docker/redis/redis.conf`) is left out.
* `downloads.authorize` samples its clock before it waits for the row locks. Here a
  request sees at its last lock what has lapsed; a request that waited across the end
  of a link or session is not shown.
* Left out: lines that do not parse or are too long for the reader, the change of the
  file at midnight, file offsets beyond the end (no code shortens the log), plans
  that change (the policy is copied when a link is made), and revocation, which no
  code performs. `player_view` only reads.

The session limit is exact per file only (`LimitPerFile`); over several files it is
exceeded (`SessionsWithinLimit`, section 3). What the model says about the code beyond
its properties: stream tokens are not counted against the stream limit, and playing
does not look at it.
`allowed_ips_per_session` and `maximum_ips` are stored and never compared; sessions
are bound to the client's hash instead.

### Authorization, SettingsChanges

* A transaction has a plan of rows to lock in the order in which the code locks them:
  an update locks the setting and then the admin, a profile the admin and then its
  settings in sorted order, a change of an admin the row and then the trigger's
  advisory lock. It waits at each row that somebody holds (`Take`), decides when it
  has them all (`Decides`), and commits later, so checks and writes are apart.
  `DeadlockEnds` is PostgreSQL ending one of the transactions of a circle.
* `seen` is what the admin saw of a setting: the version it must still have, and the
  value, which only `HistoryChains` looks at.
* The last super administrator is counted by the trigger at the time of its
  statement, under the advisory lock, which goes with the transaction.
* Apart from tests nothing in the repository calls `update` or `apply_profile`, and
  the panel in Telegram only reads; the changes of admins' rows (`Updates`) come from
  outside and meet the trigger. Both are modelled as any caller may use them.
* The order of settings is one pair that must rise, for the three storage thresholds of
  the code. The hard bounds of session lifetimes concern one value each and belong to
  what admins may ask for.
* `evaluate` compares an administrator's end with a clock sampled before the row lock;
  here the end is as it is when the transaction decides.
* Left out: the parser of values (what admins ask for is of what it accepts), scopes
  other than `read_only`, approvals, the triggers that protect system roles and
  separate the approver from the requester, and the outbox event of a change.

Two updates of different keys each check the order of the settings against a snapshot
that lacks the other. The order can therefore break.
From then on every update and profile fails at its snapshot, the repair included:
`OutOfOrderIsFinal` states that this is how the code behaves, not that it should.

### BotUpdates

* `row` and `recent` are the status in `webhook_updates` and whether it was claimed
  within two minutes; `call` are executions of the bot's endpoint, which go on when
  the API has given up (`waiting` is false). `acknowledged` is what Telegram knows.
* The order inside a call is that of `bot/factory.py`: aiogram's own middleware reads
  the conversation first, then the transaction begins and the user's row is locked,
  then the handler runs, writes the conversation in Redis (`Talk`) and commits.
* A message is known by its kind; menus that only show something are one kind.
  `Handler` is the order of the routers, which matters: most menus come after the
  handler of URLs, so a user who was asked for a URL and presses "my files" sends a
  URL.
* Left out: the first contact of a user (the row is there), the expiry of a
  conversation after a day, an update id that comes again with another payload (409),
  lists and keyboards. A text is either valid input or refused. Clearing a
  conversation is one step.

Two behaviours of the code that no document denies show up here. The conversation is
cleared before the transaction commits, so a commit that fails loses what the user
was in the middle of. And while a job has an idempotency key, a ticket has none: when
the finish of an update is lost and its replay meets another conversation, one
message can be the text of one ticket and the subject of the next. TLC finds this
with support menus among `Sent`; the run leaves them out to stay small and states the
limit on tickets rather than one ticket per message.

## 3. Runs

| run | instance | question |
|---|---|---|
| `queue_race` | 1 download, 2 workers, 2 attempts, 2 dispatches, each published up to twice, 2 reports under way | do attempts, leases, reports and reservations stay consistent under every interleaving, do ended jobs stay ended, does the queue keep its contract |
| `queue_live` | a download and the media job it may schedule, 1 worker, 1 report under way, fairness | do the handlers' chains pass the trigger, is the contract kept with child jobs, does every job end and every reservation come back |
| `queue_unrecorded_copy` | as `queue_race` | can the holder of a valid lease always report (no) |
| `queue_duplicate_execution` | as `queue_race` | does one worker at a time work on a job (no) |
| `quota_ledger` | 2 jobs, files of 1 or 2 units, 2 plans, 2 hours of one day | do the aggregates balance, limits hold, charges follow outcomes; is the contract of the quota kept |
| `quota_failure` | as `quota_ledger` | is a broken transfer charged for what it received (no) |
| `delivery_downloads` | 2 links of one file, one of them one-time, 2 sessions, 2 requests, 1 log line | do limits on links and sessions hold, does a one-time link open once; is the contract of the delivery kept for links |
| `delivery_streams` | 1 token for 2 connections, 2 clients, 2 stream sessions, 2 players, 2 log lines, 1 failure of the collector; fairness of the collector | does a shared token keep one session, do counters cover the responses under way, is the limit of connections kept up to an early expiry, is every line charged unless one cannot be stored; is the contract of the delivery kept for streams |
| `delivery_two_files` | 2 links of 2 files, 2 requests | is the session limit of a user kept (no) |
| `administration` | 2 super administrators, 2 settings in order and one of a profile, 2 transactions | are updates and uses lost, is an administrator lost, who can commit, which transactions deadlock; do overlapping changes have the effects of changes made one at a time |
| `bot_updates` | 2 messages, 2 calls, 2 failures or time-outs, fairness | is a message handled once, is one lost, does Telegram get rid of each |
| `bot_failed_acknowledged` | as `bot_updates` | is a message whose handler failed delivered again (no) |

Bounds. Two attempts are the first number at which "requeue", "last attempt" and
"exhausted" differ, two workers and two copies of an entry the first at which claims
race and an older copy meets a newer dispatch; two dispatches let a report of the
first meet the second. Two reports at once let a completion and the failure report
that followed it race. The publish limit of 1 (20 in the code) makes "given up"
reachable at once. In the ledger, two jobs compete for one bucket, the hour changes
within the day and the second plan has smaller limits, one window more and a smaller
job count, so that a bucket is written with a lower limit, reservations straddle
windows, and top-ups hit a closed window. The weekly quota and egress are absent from
the instance; the weekly window is no different from the daily.

In the deliveries limits are 1, the smallest at which a second link, session or
connection must be refused while a transaction for the first is open; streams have two
connections, so that a counter expires with responses under way and is raised again.
Two log lines let a cycle fail between two releases, and one failure makes a second
cycle meet the lines of the first. Links and tokens, which share the log and the
collector, are in different runs; the proofs are about both together. In the
administration run one setting can change twice and both admins have few uses, so that
a use limit is hit, an older version is refused, and a suspension races a change; two
transactions are the fewest that deadlock, and the proof of `DeadlocksMixChanges` is
for any number. In the bot two calls let a retry meet its first call; two troubles are
a time-out and a failure after it, which is what the lost message takes.

Deadlock is not checked: the systems
come to rest once the finite jobs, links, log lines or messages have been used up.
Symmetry (workers, jobs, requests, sessions) is used in runs without liveness properties only.

Fairness (`JobQueue!Fairness`). The dispatcher and the API are endless loops, so
their actions are fair; time passes, so leases and reservations expire; a worker that
has a job ends it, as each processor has a time limit. Row actions of the dispatcher
are disabled while a publisher batch is open, and a worker's report while the bounded
number of calls is under way: both need strong fairness. Nothing is assumed of
faults, heartbeats or admission, so a worker may crash each time. `EveryJobEnds`
admits one more end: a job back in the queue after `MaxGen` dispatches. Dispatches
nobody claimed do not count as attempts, so without workers the code dispatches a job
again and again until a download's reservation runs out; a child job has none and
waits as long as there are no workers. Fairness of the
dispatcher also presumes that its cycles succeed. Each begins with a snapshot of the
settings, which fails for ever once the settings are out of order (see below); in that
state no job is dispatched and `EveryJobEnds` says nothing.

In `Delivery` only the collector is fair, as its container is restarted whenever it
ends; Nginx and clients may stop at any time. In `BotUpdates` Telegram goes on
delivering what it has no answer for, and a call in the bot goes on, as neither the
loop nor the lock waits for ever; no fairness is asked of anything that goes wrong.
The administration has no fairness: `DeadlocksMixChanges` is a safety property that
says which transactions can wait for each other in a circle. Those PostgreSQL ends.

### Disagreements with the documentation

1. `AnyCopyCanReport`. `docs/STAGE-6-QUEUE-WORKERS.md:28` says reports "must match the
   published outbox message ID", and `docs/STAGE-1-ARCHITECTURE.md:60` that leases and
   transitions "make repeated delivery safe". If `XADD` succeeded and the publisher's
   commit did
   not, the batch is published again and the row records the second entry id. The
   claim does not look at the outbox, so the first copy can be claimed;
   `_transport_matches` then refuses each final report of that worker. The job
   recovers by its lease running out, at the cost of an attempt.
2. `NoDuplicateExecution`. `docs/STAGE-6-QUEUE-WORKERS.md:24` says "Attempts and
   dispatch generations prevent duplicate execution". They prevent duplicate effects
   on the row (`OneSettledFile`, `EndedForGood`, `OneValidHolder`), while a
   worker whose lease ran out keeps working next to its successor.
3. `FailureChargesIngress`. `docs/STAGE-1-ARCHITECTURE.md:252` says a failure after
   transfer charges actual ingress. Failures other than `WorkerFailure` are reported
   with 0 bytes, and the ledger is settled with that figure.
4. `FailedIsRetried`. `docs/STAGE-5-BOT.md:24` says a failed handler marks its update
   failed for retry. If the API's twelve seconds are over, Telegram's next call finds
   the update in progress and is told that it is a duplicate; when the handler fails
   after that, nobody calls again.
5. `SessionsWithinLimit`. `docs/STAGE-7-DOWNLOADS.md:9` says the limit of active
   sessions is checked atomically. It is counted over all links of the owner under the
   locks of one link and one file, so first requests for two files exceed it together.

In four more places the code does less than a document or its own check asks for. Here the
runs and proofs check the most that does hold:

* `docs/STAGE-1-ARCHITECTURE.md:159` has the scheduler increment "a bounded attempt
  counter" for an expired lease. The code increments it at the claim only
  (`control.py:177`), so dispatches that nobody claims have no bound. `AttemptsBounded`
  bounds those that are claimed; `EveryJobEnds` allows a job to be queued after its
  last dispatch of the model.
* `docs/STAGE-7-DOWNLOADS.md:10` has each request checked against the connection limit.
  The counter's time to live is cut to whole seconds, so the counter can expire in the
  session's last second and start again (`ConnectionsBounded`: at most once, so at most
  twice the limit).
* `docs/STAGE-1-ARCHITECTURE.md:286` has the collector charge actual bytes. A line
  whose Range numbers exceed `BIGINT` fails every cycle at the same place; the lines of
  its batch and after it are never charged (`LinesCharged` holds without such a line).
* `app/core/settings.py:164` demands "warning < stop < emergency". Two updates of
  different thresholds at once are each in order and not together
  (`OutOfOrderIsFinal`: then nobody can change a setting any more).

## 4. Proofs

tlapm proves the theorems below for all values of the constants that satisfy the
named assumptions of the modules; TLC evaluates the assumptions in the runs.

* `TypeCorrect`. `TypeOK` is inductive once it includes that an event in the
  publisher's open transaction has publish attempts left.
* `OneSettledFileHolds`, `ReservationFollowsJobHolds`: the two are inductive together
  with `TypeOK` (`Life`). A completion is accepted in a running state, a running job
  holds its reservation, and the transaction settles it.
* `AttemptsBoundedHolds`: strengthened (`Attempts`) by relating the attempts, the
  generation and the state of a job, as a claim spends the attempt that its dispatch
  allows.
* `OneValidHolderHolds`: strengthened (`Holders`): what a worker holds is a dispatch
  of the job up to the present one, nobody holds a dispatch that can still be
  claimed, and no two workers ever hold the same one.
* `EndedForGoodHolds`, `TriggerNeverRefusesHolds`: both rest on `StatusMoves`, that a
  step moves only jobs that have not ended, and that a job that runs is in the state
  of its type; for the second, `PathsPermitted` follows the trigger's relation along
  the chains of states that the handlers flush.
* `WithinLimitHolds`, `SettlingNeverRaisesHolds`: the inductive invariant is `Typed
  /\ Covered /\ WithinLimit`. `Covered` says that each byte reservation of an open
  job covers the bytes and the total its row records, and that the row records all
  the bytes of an accepted report; a report grows all reservations or none.
  `ChargesMatchOutcomeHolds` adds that a completed job has no active reservation, so
  nothing bills it again.
* `DeliveryProofs`. Three inductive invariants, each resting on the one before.
  `Ownership`: types, that two transactions never hold rows of one file, and that
  what an open transaction found under its locks is still so; from it
  `OneTimeOpensOnceHolds` (a one-time link that is not exhausted has no session) and
  `OneSessionPerTokenHolds`. `Limits`: the live sessions of a file and the
  transactions about to open one are together within the limit. The links of all files
  and the one that the holder of the user's row may be about to make are together
  within theirs (`LinksFit`, with `UserHeldOnce`); hence `LimitPerFileHolds` and
  `LinksWithinLimitHolds`. `Covered`: the row of a session counts at least its open
  responses and the lines not yet recorded, and Redis at least the row, the releases
  still to come and the one request that has raised the counter and not committed,
  less the connection limit once the counter has expired early; hence
  `CountersCoverHolds` and `ConnectionsBoundedHolds`. Failures of the collector keep it
  because they only take releases away.
* `BotUpdatesProofs`. `HeldByOne` and `CallsSound` say that the user's row is held by
  exactly the call in its transaction, and that a call that will commit a job or a
  ticket has read under that lock that there is none, or room for one. With it
  `OneJobPerUpdateHolds` and `TicketsWithinLimitHolds` are inductive, and
  `AcceptedWasHandledHolds` and `ProcessedWasHandledHolds` follow from what a call in
  its last stages has done.
* `SettingsProofs`. `TxnSound` says what the rows in the plan of a transaction give
  it: until the lock is taken nothing, from then on that the version, the status and
  the uses it has compared stay as they are, and for a removal that there is another
  super administrator whom only time can take. `HistoryChainsHolds` and
  `UsesCountedHolds` are conjuncts of the invariant, `SuperAdminRemainsHolds` and
  `OutOfOrderIsFinalHolds` are action properties from it.

* `LedgerBalancesHolds`, `TypeCorrect` of the ledger. The aggregates of a bucket are
  sums over the jobs' rows; `BooksBalance` says that a step which changes the rows of
  one job changes both aggregates by the same amounts, and `SumUpdate` that a sum then
  changes by the difference at that job. An open job must not have been charged
  before (`NotCharged`). That the aggregates are never negative is not inductive by
  itself: it follows from their being sums of numbers that are not (`SumNat`).
* `DeadlocksMixChangesHolds`. Rows have two rankings. In `AdminsAfter` settings come
  before administrators and those before the advisory lock; in `AdminsBefore` come
  administrators, then the settings of the profile in their order. `Climbing`: the
  rows that a transaction has still to lock rise in the first ranking, above all that
  it holds, unless it is a profile, and in the second unless it is an update. In a
  circle without profiles, or without updates, whoever waits for the lowest row blocks
  somebody who waits for a lower one (`CircleFalls`), so there is none.

### Refinements

Each of the four larger components implements a contract whose steps are atomic.

* `KeepsContractHolds`: every step of the queue is a step of `JobContract` or a
  stutter, under the mapping `Stage`, `Tries`, `Quota`; it uses the invariants above
  and `Reached`: the states a job is ever in, and that an absent one has no
  reservation.
* `KeepsQuotaContractHolds`: `QuotaContract` compares the sum of all claims and charges
  in a bucket with its cap; the ledger compares three of its columns. That the two
  agree is `LedgerBalances` with `SumPlus` (`UsedFits`), and that each job is charged
  once, within its claim, is `Covered` and `NotCharged`.
* `KeepsSettingsContractHolds`: the transactions of `SettingsChanges` look and act at
  different times, a step of `SettingsContract` does both. `ReadyTrusted` carries the
  permission from the check to the commit, `TxnSound` the versions, the status and
  the uses of whoever makes the change, and the other super administrator. So nobody
  is suspended between the check and the commit of a change. The end of an administrator's time is not carried: it
  may pass in between, and the contract allows that.
* `KeepsDeliveryContractHolds`: the contract compares with a limit in the step that
  makes the link, opens the session or sends the response. `Limits` carries the
  comparison of a transaction to its commit, `Covered` the comparison in Redis
  (`RoomForOne`, and `RoomIsAllowed` for the last second after an early expiry), and
  `TokensAlive` says that a stream under way has a token that was made, and that no
  session outlives its token. A session whose counter has expired early is `late` in
  the contract, which then allows it twice its connections. A request for a session
  that ends while its transaction is open is still answered, in the code and in the
  contract.

### What the proofs assume, and what is left to TLC

The assumptions on constants are those of the modules: bounds and limits are natural
numbers, `Jobs` and the administration's `Requests` are finite (rows of a table, open
connections), keys and sessions of different tables differ, the settings of a
profile are listed once each (they are the keys of a mapping). The provers have no
induction over data with an operator as parameter; `FiniteLemmas` therefore takes
smallest counterexamples, as sets, from the well-foundedness of the naturals.

Model-checked only are the liveness properties `EveryJobEnds`, `QuotaComesBack`,
`LinesCharged` and `EveryUpdateAccepted`, which are claims under fairness, and the
five properties that the code violates, which are false.

## 5. Not modelled

* Clocks sampled before row locks, but for the claim of a job: `downloads.authorize` and
  `permissions.evaluate` decide with a time up to a lock wait old.
* The order in which transactions of the ledger lock buckets. PostgreSQL ends one of
  two that wait for each other, and each operation of `QuotaLedger` and `JobQueue`
  may fail as a whole.
* The choice of lane with its in-memory counters: it decides who is served first, not
  whether; `JobQueue` leaves it open.
* The progress notifier: it reads a stream and edits messages, nothing reads what it
  does.
* Object storage: a file moved before a completion that is then refused stays on disk
  without a row, and nothing collects it.
* Effective plans, the arithmetic of quota windows, maintenance mode.
* Wording, keyboards, lists, validation of URLs (stateless), probing and transcoding
  (external programs), configuration, logging, secrets and deployment (no program
  logic), and tables that no modelled operation writes.
