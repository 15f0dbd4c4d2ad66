# A formal model of the affiliate platform

TLA+ modules, TLC configurations and TLAPS proofs for the affiliate-marketing
platform of this repository: a Fastify API on PostgreSQL (Prisma) and Redis, a
redirect service, five background workers and a Next.js front end.

## 1. The system

| Component | State it keeps | Operations | Hard behaviour |
|---|---|---|---|
| **Commission ledger** (`services/conversion`, `services/payout`, `routes/admin`, `workers/lock-expiry`, `analytics/payout-lifecycle`) | `Conversion`, `Commission`, `Payout`, `BalanceAdjustment`, `FraudReview` rows | report, review, reverse, fraud decision, request payout, move payout, promote expired locks | handlers read outside their transaction and write by id; two advisory locks with different keys; partial refunds; retry of failed payouts |
| **Conversion report and subscriptions** (`services/conversion` report, `services/subscription`) | `Conversion.externalOrderId`, `Subscription` | report an order, start a recurring subscription, record a billing period, cancel | duplicate check outside the transaction; unique constraints; LINEAR splits suffix the order id; cancel races a period |
| **Outbound webhooks** (`services/webhook`, `workers/webhook-delivery`, `analytics/circuit-breaker`, `analytics/backoff`) | `WebhookEndpoint` with its breaker, `WebhookDelivery` | enqueue in the caller's transaction, deliver a batch, replay, register, delete | at-least-once; the breaker is a snapshot threaded through a pass; crash between admission and result; 410 |
| **Notification outbox** (`services/notification`, `workers/notification`) | `Notification` | enqueue, deliver a batch with backoff | the oldest 50 PENDING rows are fetched even when they are backed off |
| **Scheduler lease** (`lib/lease`) | one Redis key per job | acquire, renew, release | expiry while the job still runs |
| **Click pipeline** (`workers/click-event`, `analytics/bisect`) | Redis list, dead-letter list, parked list, `ClickEvent` | push, pop a batch, bisect a failing batch, dead-letter, replay | pop before insert; crash between the two; duplicate replay |
| **Redirect and link cache** (`apps/redirect`, `services/tracking`) | Redis cache of tracking links, negative entries | resolve, toggle, invalidate | stale fill after invalidation; campaign end does not invalidate |
| **Import jobs** (`services/import`, `workers/import`) | `ImportJob`, chunks | upload, claim, process a chunk, finish | crash leaves PROCESSING; re-import |
| **Idempotency keys** (`plugins/idempotency`) | `IdempotencyKey` | claim, replay, store, release | concurrent retries; response not stored |
| **Sessions** (`services/auth`, `repositories/refresh-token`) | refresh tokens in families | login, rotate, reuse detection, logout | claim and create are two statements |
| **Rate limiter** (`lib/rate-limiter`, `plugins/rate-limit`, `analytics/token-bucket`) | token buckets in Redis or memory | take | fallback when Redis is down |
| **Campaigns and relationships** (`services/campaign`, `services/relationship`, `analytics/campaign-lifecycle`) | campaign status, brand-affiliate status | create, pause, end, apply, approve, set commission | check then act |
| **Commission arithmetic** (`analytics/commission-calc`, `attribution`, `refund-math`, `payout-math`) | none | compute | rounding and boundaries |
| **Fraud scoring** (`services/fraud`) | `FraudReview` | score a conversion after its transaction, open a review | two conversions of a cookie scored at once; the score's counts are read one after the other |
| **Profiles and API keys** (`services/profile`, `services/api-key`, `lib/postback-*`, `SettingsForm`) | `User`, `ApiKey`, a form's state | register, change address or password, save payout details, mint, rotate and revoke keys, accept a signed postback | check then write; a refetch replaces what is being typed; late and repeated postbacks |
| **Analytics and exports** (`services/analytics`, `services/breakdown`, `shared/pagination`, `lib/csv`, `analytics/periods`, `analytics/csv-parse`) | none | series, breakdowns, pages, exports, CSV in and out | fan-out of joins; rows inserted between pages; characters at chunk boundaries |
| **Creatives and storage** (`services/creative`, `lib/storage`, `lib/image-sniff`) | `CreativeAsset`, files | upload, approve, remove, serve | row and file are written by two steps that fail separately |
| **Observability** (`services/system`, `lib/heartbeat`, `lib/metrics`) | heartbeats in Redis, a cached report, metric series | beat, report, probe, record, scrape | overlapping slow reports; series cap; overlapping scrapes |
| **Webhook transport and guards** (`lib/webhook-transport`, `lib/ssrf`) | one exchange | resolve, dial, read, time out | a deadline over the whole exchange; what arrives after it |
| **Web front end** (`web/lib/api`, `web/lib/store`, settings form, links page, conversions page) | tokens in `localStorage`, query cache, the fields of a dialog | call, refresh, optimistic switch, reject and reverse | tabs that share tokens; optimistic writes that overlap; one dialog for all rows and answers that come to another one |
| **Everything else** (server wiring, configuration, request context and logs, secret box, schema and seeds) | none | start-up, formatting | |

PostgreSQL at READ COMMITTED and Redis are the only shared state. Components
call each other inside one transaction in two places: review, reverse and
transition enqueue a notification and a webhook event with the state change
(an outbox), and the ledger's writes share a transaction. Otherwise they
interact through rows: `report` creates what the worker promotes and what
`requestPayout` claims.

What makes each component correct, and what a unit test hardly reaches, is
listed as the hazards of `PROJECT.json`, each at its line.

## 2. Plan

The money first, then the delivery of its consequences, then what feeds it.

| Order | Module | Abstract specification | Worth proving |
|---|---|---|---|
| done | `CommissionLedger` | `CommissionLifecycle` | vetting, settlement, one pending payout, final rejection |
| done | `WebhookDelivery` | `EventOutbox` | breaker and outbox safety |
| done | `SchedulerLease`, in the worker's pass | one request per endpoint | that the lease's holder is the only pass at work |
| done | `ClickPipeline` (with `Bisection`) | | that no click vanishes or is stored twice (done) |
| done | `OrderIntake` | orders and periods recorded once | that the periods match the counter, that an order is recorded once (done) |
| done | `IdempotencyKeys` | one response per key | that the work of a key is done once |
| done | `ImportJobs` | rows imported once | that every row is counted by one job |
| done | `NotificationOutbox` | | bounds on the tries |
| done | `RateLimiter`, `TokenBucket` | the pure functions | burst plus rate |
| done | `Sessions` | one successor per token | at most one unrotated token of a family |
| done | `LinkCache` | the database, once entries have expired | |
| done | `Programs` (with `CampaignLifecycle`) | promises kept to partners | |
| done | `SaleMoney` | books that balance to the cent | |
| done | `FraudScoring` | | |
| done | `PostbackKeys`, `Accounts`, `Settings`, `LinkToggles` | | |
| done | `Paging`, `CsvFiles`, `Reports` | every row once; what was written reads back | |
| done | `Creatives` | | |
| done | `SystemHealth`, `Readiness`, `Metrics`, `WebhookTransport` | | |
| done | `ConversionDesk` | | |
| done | proofs of the ledger, the money of a sale, the webhooks, order intake, clicks, the keys, imports, notifications, the limiter, sessions, programs, postbacks, accounts, settings, switches, banners, fraud scores, the conversions page, what operators see | the two refinements | section 5 |
| next | proofs | | a cursor's reader sees each row once |

The modules come first, so that TLC has seen every statement before it is
proved; the proofs of the second half of the table follow them.

Small components share runs (a module that checks them side by side), because
they ask small questions.

## 3. The modules

### The commission ledger

**`CommissionLedger`** is the money path. A *handler* is split at every read
that other requests can invalidate before its write: what it read is kept in
`request[r]` (for the worker, `tick[w]`) and the writes of one transaction are
one action, since they become visible together. Advisory locks are the
predicates `PayoutLocked` (per affiliate) and `ReverseLocked` (per conversion);
`Abandon` and `TickFails` are an error or a crash before the commit.

| Action | Code |
|---|---|
| `Report`, `Evaluate` | `conversion.service.ts` report: the transaction, then `fraud.evaluate` after it |
| `ReviewRead`, `ReviewCommit` | review: the PENDING check, then the conditional claim |
| `DecideOnly`, `DecideBlocked`, `Block` | `admin.routes.ts` decide: the decision, then the block's own transaction |
| `ReverseRead`, `ReverseReadCommission`, `ReverseCommit` | reverse: lock and re-read, the commission read, the writes by id |
| `PayoutRequest`, `PayoutReadBalance`, `PayoutCommit` | requestPayout: lock and open check, the balance, the claim |
| `TransitionRead`, `TransitionCommit` | transition: the state machine outside the transaction, the writes by id |
| `TickSelect`, `TickFilter`, `TickPromote` | `promoteExpiredLocks`: its three queries |
| `LockExpires` | the clock |

Data is abstracted to whole units of commission: a refund is a number of units,
so the proportional rounding of `calculateRefund`, the platform fee and the
payout's own `idempotencyKey` are left out. The two balance reads of
requestPayout are one step. Notifications other than the review's, webhook
events, payout events and imported conversions are not part of this module.

**`CommissionLifecycle`** is what the ledger promises about one commission: it
is earned locked, unlocked, committed to a payout with everything else its
affiliate is owed, then paid or owed again; PAID, REJECTED and CLAWED_BACK are
final. `CommissionLedger` implements it while requests do not overlap.

**`MCLedger`** instantiates the ledger for TLC: one affiliate, since locks,
balances and payouts are per affiliate, and the symmetry of the identifiers.
**`CommissionLedgerProofs`** holds its proofs, **`SumTheorems`** the lemmas about
sums over a set, and about counting the entries of a sequence, that these and
others cite.

### Outbound webhooks

**`SchedulerLease`** is `lib/lease.ts` as a small vocabulary: one Redis key that
names a *process*, `Acquire` (SET NX), `Release` (compare and delete),
`ReleaseFails`, `Lapse` (the TTL). A renewal that reaches Redis in time changes
nothing the model keeps; one that does not is `Lapse` under a running pass.

**`WebhookDelivery`** composes it with the delivery worker. A pass reads its
batch once; `drain[p][e]` is the coroutine of pass `p` for endpoint `e`, with
the deliveries and the breaker *it read*, and every `await` between two writes
is a step boundary, so that crashes, throws and other requests fall in between.

| Action | Code |
|---|---|
| `Register`, `Delete` | createEndpoint, deleteEndpoint (cascade) |
| `EmitRead`, `EmitCommit`, `EmitAbort` | `enqueueWebhookEvent` and its caller's transaction |
| `ReplayRead`, `ReplayWrite` | replayDelivery: the checks, then the write by id |
| `Begin`, `List`, `Finish` | tick, `listDue` and `byEndpoint`, the release in `finally` |
| `Take`, `GroupDone` | the runners of `mapWithConcurrency` |
| `Park`, `Admit` | drainEndpoint: refused and parked, or admitted, a new probe being persisted |
| `Unreadable`, `Send`, `Receive` | openSecret throws; the request leaves; the endpoint processes it |
| `Succeed`, `Close` | 2xx: the delivery, then the breaker |
| `Fail`, `Trip` | anything else: the delivery, then the breaker |
| `Gone`, `GoneDelivery`, `Purge` | 410: the endpoint, the delivery, the backlog |
| `Throw`, `ListFails`, `Settled` | a query that throws: `Promise.all` rejects and the lease goes, the other runners go on until they are done |
| `Crash`, `LeaseLapses` | a process dies; the key expires |
| `Due`, `Cools` | the clock: `nextAttemptAt` comes, the cooldown has passed |

Time appears only as the two comparisons the code makes with it. Event types
and brands, the order of `listDue`, signatures, SSRF checks and the transport
are left out: a request is what its outcome is.

**`EventOutbox`** is the abstract outbox: a message owed stays owed until its
receiver has it or the sender gives up. `WebhookDelivery` implements it.

**`MCWebhooks`** instantiates it with one pass per process;
**`MCWorkers`** runs the two components' workers side by side for liveness.
**`WebhookDeliveryProofs`** holds its proofs.

### The click pipeline

**`ClickPipeline`** is the way of a click from the redirect service to
PostgreSQL. `drain[w]` is a call of `drainClickEvents`, of which any number run
at once: a tick may overlap the next one and no lease guards them. Each Redis
command and each transaction is a step; what has been popped is only in
`drain[w]` or `replaying[r]`, where a crash loses it. The recursion of
`bisectCommit` is the stack `work` of slices still to be committed.

| Action | Code |
|---|---|
| `Visit`, `VisitLost`, `WindowCloses` | the redirect's SET NX and LPUSH, the LPUSH that fails, the key's expiry |
| `Produce` | anything else that writes to the list |
| `Pop`, `PopFails` | the RPOP loop: malformed dropped, schema failures buried, the rest batched; RPOP throws |
| `Flush`, `Commit`, `CommitFails` | `bisectCommit` and `flushBatch`: a slice commits, or is halved, or is given up on |
| `Bury`, `DrainDone` | `deadLetter` to the dead-letter or the parked list, whose failing write is only logged |
| `ReplayPop`, `ReplayPush` | `replayDeadLetters` |
| `Crash` | a process dies with what its drain or replay holds |

What a message is (malformed, schema-invalid, a dangling foreign key, good) is
a property of the click, since the code only looks at that. Bots, which are
never counted, and the deduplication that fails open while Redis is down are
left out. **`Bisection`** is `bisect.ts`, which imports use as well.

### Order intake

**`OrderIntake`** is `report` and `subscription.service.ts`: how an order becomes
conversions and how a billing event becomes one more. Each handler reads before
its transaction, so `request[r]` holds what it read, and an order id is a record
of the order and what is appended to it (`:affiliate` for a share, `:m2` for a
period): `startsWith` is equality of the first part.

| Action | Code |
|---|---|
| `ReportCheck`, `ReportAttribute`, `ReportCommit` | report: the campaign and the duplicate check, the clicks and `attribute`, the transaction |
| `StartSubscription` | `startIfRecurring`, once per share and in any order |
| `BillingRead`, `BillingCommit` | recordBillingPeriod: its checks, its transaction |
| `Cancel` | cancel |
| `CountClick`, `ClickAges`, `EndCampaign` | what other components change under them |
| `Abandon` | a crash or an error before the next commit |

**`IntakeProofs`** holds its proofs.

### Idempotency keys

**`IdempotencyKeys`** is the plugin around a handler: `Claim` is the insert,
`Lookup` the read after the insert has failed, `Handle` the handler, which
commits its work, refuses or throws, and `Send`, `Release`, `Store` and
`SendUnrecorded` the `onSend` hook. `Expire` and `Sweep` are the TTL and the
clean-up. A handler that answers 4xx is taken to have committed nothing.

### Import jobs

**`ImportJobs`** follows a file from the spool directory to its last row, with
any number of workers. A file is a sequence of lines; what a line is (bad,
without a link, refused by the database) and which order it carries are
constants. `Find` takes the oldest waiting job and `Claim` moves it if it still
waits. `ReadRow` is `handle`, `Flush`, `Insert`, `InsertFails` and
`FlushDone` are `flush` with its bisection, `Complete`, `ImportFails`, `Fail` and
`Discard` the end of a job. A crash leaves its job PROCESSING for ever.

### Notifications

**`NotificationOutbox`** is `deliverPending` under the worker's lease, of which
every `await` ends a step: `Begin` reads the batch, `CheckPreference`, `Send`,
`MarkSent` and `RecordFailure` handle one row after another with the attempts
that were read. `SwitchOff` and `SwitchOn` are setPreference. What the proof of its
budget needs to count is kept beside it: passes that lost their lease, and
tries.

### The rate limiter

**`TokenBucket`** is `token-bucket.ts` in exact fractions: a balance is counted in
units of which a token has `Minute`, so that a millisecond refills `PerMinute`
of them. **`RateLimiter`** is the Lua script on one bucket, run with times that
may be up to `MaxSkew` apart, and the bucket's expiry by the clock of Redis.

**`MCServices`** extends `OrderIntake` and instantiates the click pipeline and
the modules above, for runs in which the initial state chooses the component that moves. They share
nothing but the database server, so a product of their states would tell no
more than their sum. The assumptions on their constants are definitions
(`ClickAssumption`, ...), which `MCServices` assumes; the other MC modules do the
same. **`IntakeProofs`** holds the proofs of the orders and the clicks, and
**`ServicesProofs`**, which extends it, those of the keys, the imports, the notifications
and the limiter, for any value of those constants.

### The link cache

**`LinkCache`** is one tracking link with its campaign, in the database and in
Redis. `Miss`, `Fetch`, `Fill` and the two that fail are a resolver of the
redirect service, whose single flight makes the others of its process wait;
`CheckCampaign`, `Create`, `CacheCreated` and `CreatedUncached` the creation of
the link, `Toggle`, `CacheToggled` and `ToggledUncached` a switch, which writes
the row and then the entry; `MoveCampaign` is a transition, which writes no
entry; `Expire` the time to live. What a link is in the cache is what
`Redirect` looks at. `MCWorkers` runs it beside the workers for liveness.

### Sessions

**`Sessions`** is the refresh-token families of one user and the tabs of one
browser that share its `localStorage`. A pair of tokens is one element.

| Action | Code |
|---|---|
| `Load`, `Call`, `Answered`, `AnsweredAgain` | hydrate; `api()`: a call, its 401, its repetition |
| `StartRefresh`, `Find`, `Judge`, `PunishReuse`, `Claim`, `CheckUser`, `Mint`, `Store` | `sharedRefresh` and `refresh`: the row is read, a rotated one is a race or reuse, the claim is conditional, the user is read, `issueTokens` inserts, the tab stores |
| `Redirect`, `Lose` | redirectToLogin; the answer or the process is lost |
| `Login`, `LogOut`, `LoggedOut`, `RevokeSession`, `LogOutAll`, `BumpVersion`, `ChangePassword` | auth.service and profile.service; logoutAll is two statements |
| `AccessExpires`, `RefreshExpires`, `Sweep` | the clock and the clean-up |

### Programs

**`CampaignLifecycle`** is the state machine of `campaign-lifecycle.ts`.
**`Programs`** is a campaign with its partners and links: `EditTerms` and
`TermsWritten`, `Transition` and `StatusWritten`, `Apply`, `Applied` and
`AutoApproved`, `SetRate` and `RateWritten`, `CreateLink` and `LinkCreated` are
the handlers of `campaign.service`, `relationship.service` and
`tracking.service` split between the check and the write by id; `Review` and
`EditFreely` are one step. Terms are told apart by a version.

### The money of a sale

**`SaleMoney`** is the arithmetic in cents: `Report` splits a sale among its
earners and computes every commission, `Approve`, `Reverse` (with
`calculateRefund`) and `PayOut` (with `calculatePayoutBreakdown`) follow. Where
the code rounds a binary fraction that may lie on either side of half a cent,
the model takes both cents. Requests do not overlap here; that is the ledger's.
**`SaleMoneyProofs`** holds its proofs, of the instance in `MCMarketplace`.

### Pages, exports and files

**`Paging`** reads the conversions of a brand by cursor (`SeekStart`,
`SeekPage`) and, as the exports do, by offset (`ExportStart`, `ExportPage`) while
others `Insert` and `Review`. **`CsvFiles`** writes a file as `lib/csv.ts` does and
feeds it to the parser of `csv-parse.ts` in chunks cut anywhere (`Push`, `End`),
character by character, since its hazards are characters. **`Reports`** holds the
queries of `breakdown.service` and `analytics.service` as operators over a
traffic of clicks and conversions (`Visit`, `Convert`, `Review`, `Deactivate`).

### Banners

**`Creatives`** is `creative.service` over its table and its directory: `Upload`,
`Put`, `Create` (the file, then the row), `Remove`, `DeleteRow`, `DeleteFile` (the
row, then the file), `Download`, `Get`, with a failure of each and a crash.
A file's content is its real type, and its declared type may differ.

### Fraud scoring

**`FraudScoring`** reports conversions of one browser and scores them:
`ScoreLatency`, `ScoreClicks` and `ScoreDuplicates` each read what is there at
their time, `Evaluate` opens a review and `Dies` loses a scoring.

### Accounts, keys and settings

**`Accounts`** is register and changeEmail, each `Look` and then `Write` under the
unique index, over spellings of an address. **`PostbackKeys`** mints and revokes
keys, and takes signed postbacks: `Arrive`, `Resolve`, `Verify`, `Touch`, while
messages are sent late, again, and of a body that is not the signed one.
**`Settings`** is the affiliate's profile and payout details with the form that
saves them: the query, the effects that fill the form from it, the two
mutations, another tab, and requestPayout's `assertCanReceive`.
**`LinkToggles`** is the optimistic switch of the links page: `Mutate` cancels the
query and writes the list, `Patch` and `PatchLate` are the server, `Success` and
`Error` the answer with its rollback and refetch.

### The brand's conversions page

**`ConversionDesk`** is `brand/conversions/page.tsx` over what review and reverse
make of its requests: one dialog for all rows, whose two fields stay when it
closes. `OpenReject`, `OpenReverse`, `TypeReason`, `TypeRefund` and `Cancel` are the
brand at the dialog, `Approve`, `Reject` and `Reverse` a button pressed, `Serve` and
`Refuse` the server, `Success` and `Error` the mutation's callbacks, of which the
first closes whatever dialog is open; `Lose` and `ServeLate` are a request given up
that the server has done or will do, and `List` a refetch. Of the ledger it keeps
a status and what was refunded, since a reversal's own steps are there.

**`MCMarketplace`** extends `Sessions` and instantiates the modules from
`Programs` to here, like `MCServices`. **`MarketplaceProofs`** holds the proofs about
sessions, programs, banners, fraud scores, postbacks, accounts, settings, switches
and the conversions page.

### What operators see

**`SystemHealth`** is `Beat` (`lib/heartbeat.ts`) and the report of
`system.service.ts`: `Begin` misses the cache, `AskDatabase`, `AskRedis`,
`AskWorker` and `AskDomain` are its awaits, `Cached` the answer from the cache.
Ages are kept up to where no comparison tells them apart. **`Readiness`** is the
probe with its timeout. **`Metrics`** is `Respond` (`observability.ts`: counter and
histogram under the series cap) and a scrape: `Scrape`, `Read`, `Collected`,
`Render`. **`WebhookTransport`** is one attempt: parse, look up, refuse blocked
addresses, dial, the response, its body, and the deadline over all but the
lookup. They run in `MCWebhooks`; **`OperatorsProofs`** holds their proofs.

## 4. What is checked

| Run | Instance | What it shows |
|---|---|---|
| `ledger_concurrent` | 1 conversion of 2 units, 2 payouts, 2 requests and a tick, two operations at once | `PayableIsVetted`, `ReviewedOnce`, `ClawbackBounded`, `RejectionIsFinal` under every overlap of two operations |
| `ledger_payouts` | 2 conversions, 2 payouts, 2 requests, no tick | `IncludedIsInOpenPayout`, `PaidThroughPaidPayout` under every overlap of two requests |
| `ledger_serial` | 2 conversions, 3 payouts, one operation at a time, at most one conversion with a fraud review (`OneFraudReview`) | `PayoutOwnsItsItems`, `SettledOnce` and the refinement of `CommissionLifecycle` |
| `webhooks`, delivery | 1 endpoint, 2 events, 2 processes, MaxAttempts 3, Threshold 2, one crash or failed query, one replay, endpoint deletion | `OneRequestPerEndpoint`, `BreakerCutsOff`, the refinement of `EventOutbox` |
| health report | 1 worker under a lease that ticks once a tick of time, 2 overlapping reports, heartbeat of 4 ticks, report kept for 2 | `OutageIsTold`: no stopped worker is called well once its time is over |
| readiness | a probe of two dependencies with a timeout of 2 | `OutageIsTold`: an instance said to be ready had both within the timeout |
| metrics | 2 routes, one series per metric, 2 durations and 2 buckets, 2 responses, 2 scrapes, a queue of at most 1 | `MetricsAddUp` |
| transport | 2 public addresses and a blocked one, a lookup of any length, timeout 2, 2 status codes, bodies of up to the limit and beyond | `AttemptIsTrue` |
| `workers_liveness` | ledger: 2 conversions, 1 request, 1 tick; webhooks: 1 endpoint, 2 events, 2 processes, one crash; link cache: 2 resolvers, 2 switches, 3 changes | `LocksArePromoted`, `EventuallySettled`, `CacheCatchesUp` |
| `services`, clicks | a good, a dangling, a schema-invalid and a malformed message, one visitor, 2 drains and a replay, batches of 2, 2 attempts, one loss, one replayed message | `ClicksAccountedFor` (none vanishes or is doubled, poison is isolated, nothing is given up on too late, one count per window), `ClicksAreStored` |
| order intake | 1 order, 3 links of 2 affiliates, all three models, 3 periods, 1 billing event that may come again, 2 requests, 2 clicks, one crash | `PeriodsMatchTheCounter`, `OrderRecordedOnce` |
| idempotency keys | 1 key, 3 requests, one with another body, one crash or failing update | `RetryIsReplay` (the work is done once, a replay is the answer) |
| imports | 3 files, one without its header, with a good, a repeated, a bad, an unlinked and a poison line, batches of 2, 2 workers, one crash or failing statement | `ImportsAccountedFor` (every row is counted once, only bad ones fail) |
| notifications | 2 notifications, one optional, batches of 1, 2 attempts, 2 processes, one loss | `NotesReceived` (SENT was received, tries are bounded) |
| rate limiter | burst 2, 2 tokens in a minute of 3 ticks, clocks 1 tick apart, 8 ticks | `LimitIsKept` (burst plus rate, the script is the pure function, retry-after is exact) |
| `marketplace`, sessions | 2 tabs, 1 login, 3 pairs of tokens, one bump of the version, lost answers | `OneTokenPerFamily` |
| programs | 1 campaign, 1 partner, 2 overlapping requests, 1 edit, 2 links | `PromisesAreKept` |
| sale | 2 orders of ten cents, 2 affiliates, a bounded percentage, tiers and a flat custom rate, refunds of 3, 5 or all, 2 refunds, fee 5 % | `MoneyAddsUp` |
| pages | 4 rows at 2 times, pages of 2, 1 review | `ExportsAreWhole`: a reader by cursor sees each row once |
| files | 2 rows of 2 cells out of an empty one, a quote, a formula with a comma, a line end; both line ends, a byte-order mark, blank lines, chunks of 1 or 2 characters | `ExportsAreWhole`: what was written reads back |
| reports | 2 brands, 2 links of one affiliate, 2 clicks, 1 conversion, 2 days | `ReportsAgree` |
| banners | 2 names, one banner, each failure and a crash | `BannersAccountedFor` |
| fraud | 2 sales of one browser, latencies at each boundary, 2 days | `DuplicateIsSeen` |
| postbacks | 1 key of 2 campaigns, 2 bodies, 2 handlers, tolerance 1 of 4 times, each message as often as it comes | `AcceptedAsSigned` |
| accounts | 2 users, 2 mailboxes in 2 spellings, 2 requests | `AccountsAreKept`: a mailbox is one account's |
| settings | 1 form, another tab, a payout request, all methods | `AccountsAreKept`: details are the method's |
| switches | 2 links, 2 switches under way, a failing write, a lost answer | `AccountsAreKept`: a page at rest shows what is stored |
| desk | 2 conversions of price 2, refunds of 1 or of what is left, 2 requests that overlap, 2 reversals pressed, answers lost | `AccountsAreKept`: what is sent was typed for that conversion, and a reversal is taken once unless an answer was lost |

The other runs show a violation each, listed as findings below.

**Bounds.** Two overlapping operations are the smallest overlap and the one all
the findings need; a third operation only matters when it comes in between, which
serial steps already allow. Two units let a refund be partial. Three payouts in
the serial run allow fail, pay elsewhere, retry. `Batch = 2` in the ledger and
`BatchSize = 2` in the webhooks are as large as the table, or smaller than it,
so that a full batch and an incomplete one both happen. `Threshold = 2` and
`MaxAttempts = 3` let the breaker open before the attempts are exhausted; real
values are 5 and 6. `MaxLosses` and `MaxReplays` bound crashes and replays,
which the system does not. In `services` a batch of two is the smallest that can be
halved; for the limiter two tokens in three ticks make fractions, the bucket
fills in three ticks and expires after five, and eight ticks see it expire;
three requests are two retries of one, or one and a retry with another body; and one replay brings a message to its last attempt. In `webhooks` there is one endpoint: a throw then
leaves no other runner behind, which is why `OneRequestPerEndpoint` holds there
with deletions and failed queries; the theorem for any number of endpoints
assumes none, and with two endpoints and a deletion the run `webhooks_overlap`
violates it.

In `marketplace` three pairs of tokens are a login and two
rotations, so that a replay of a token whose successor has moved on is reuse;
ten cents of which a share is odd are what two roundings disagree about; four
rows in pages of two make a full last page; two characters are the longest
sequence that means something across a chunk's end; of a price of two a refund of
one leaves room for a second, and two presses are a wish and its repetition. In the health report a heartbeat
outlives three ticks, as in the code, and a report is kept for less than that;
one worker is enough since no check looks at two.

**Fairness.** Assumed of what schedules itself: `setInterval` keeps starting
ticks (weak on `TickSelect` and on starting any webhook pass), an expired lock
is seen by a tick that does not fail for ever (strong on `TickFilter` and
`TickPromote`, whose tick may fail in between), a query returns, a request
returns by its deadline (`webhook-transport.ts`), TTLs and `nextAttemptAt` come,
and every drain that can go on does. In `services` only the click drains are
assumed to be scheduled, since only clicks have a liveness property.
A resolver that missed fetches and fills, a request that wrote a row goes on to
its cache entry, and Redis drops what has expired: fetches have a timeout and
entries a time to live (`link-resolver.ts`). A fill or a cache write that fails
counts as done.
Nothing is assumed of requests, registrations, events or replays, and a pass of
a given process may lose the race for the lease for ever: only *some* pass is
sure to begin.

**Deadlock** is not checked: identifiers run out, and every module may stop: an attempt is settled, a file
is read, nobody clicks.

## 5. What is proved

Eight modules hold theorems, for every number of rows, requests, processes and
ticks, and every value of the bounds that TLC's runs fix. Each argument has the
same form: an inductive invariant, stated at the end of the component's module
and checked by TLC before it was proved, a lemma for each action, and the
property as a consequence. The assumptions on constants are the `*Assumption`
definitions of the modules; a theorem that assumes more says so here.

**Ledger** (`CommissionLedgerProofs`; 8 theorems). `TypeOK` is inductive. What a
commission may be is tied to what its conversion was when read: `VettingInv`
relates each request in progress to the rows it will write, so that the
conditional updates of review, block and the tick preserve it; from it follow
that a payable commission was approved and unlocked, and that a rejection is
final. `PayoutInv` and `SettlementInv` relate each payout to the commissions and
adjustments that name it and to the requests that hold its affiliate's lock;
`PayoutFrame` states once what an action that leaves payouts alone preserves.
From them follow `OnePendingPayout`, `IncludedIsInOpenPayout`,
`PaidThroughPaidPayout` and `SettledOnce`. (`VettingInv`, `PayoutInv`, `SettlementInv`
and `OnePendingPayout` are proved and need no run of their own.)

**Money of the ledger** (in the same module).
- `ClawbacksBounded`: what is clawed back of a conversion and what is still to be
  earned of it never exceed what was earned. `ClawbackInv` adds that a reversal
  in progress is alone with its conversion and has room for what it will claw
  back. The clawbacks are a sum over a set of rows. The community modules define
  sums by a recursive function that picks an arbitrary element at each step;
  `SumTheorems` derives what a sum needs (empty, one more, one changed, all equal,
  in Nat) by looking at a smallest set that would be a counterexample, which is
  induction over finite sets without an operator as parameter. From it follow the
  `Occurs` lemmas, how often a sequence, or a sequence of slices, has an entry
  of a set, and what appending, splitting, popping and halving do to that number.
- `PayoutOwnsItems`, assuming that requests do not overlap (`MaxInFlight = 1`) and
  that requests and ticks are finitely many: an open or paid payout lists
  exactly the commissions attached to it. The condition is needed: a reversal
  that overlaps a payout request edits the amount of a commission the request has
  already read. `OwnershipInv` says that what the one request in progress has
  read is still so.
- `ImplementsTheLifecycle`, under the same condition: every step maps to a step
  of `CommissionLifecycle` or to none of its variables. `EarnedInv` says why: a
  commission that was earned waits for its conversion's review, a reversal finds
  its conversion approved, and a payout request has read all that is owed.

**Webhooks** (`WebhookDeliveryProofs`; 5 theorems). `TypeInv` adds to `TypeOK`
that a coroutine past the breaker holds a delivery. `LeaseInv` says that two
passes at work are the same pass: the lease names a process, a process runs one
tick, and the lease is kept while its pass runs. With it, what a coroutine has
read stays what the row says: `BreakerInv` relates the row's breaker, the
coroutine's copy and the failures in a row (`streak`), with one unrecorded
failure between `Fail` and `Trip` and one lost with each crash; `QueueInv`
relates attempts in the row, in the copy and the requests made. Neither bound is
inductive alone: what bounds the requests is the attempts *read*, which the
invariant must tie to the row.

| Theorem | Assumes of `Faults` |
|---|---|
| `TypeCorrect` | nothing |
| `OneRequest`, `BreakerProtects` | renewals and queries do not fail, endpoints are not deleted |
| `RetriesAreBounded`, `ImplementsTheOutbox` | the same, and replays of one delivery do not overlap |

Crashes are always included. The `Faults` conditions are those under which the
statements are true: the violation runs and the section on findings show what
happens without them.

**Orders** (`IntakeProofs`; 2 theorems, from `IntakeAssumption`). The
counter of a subscription is written by id with the period that was read, so
what keeps it from going back is the unique order id of that period's
conversion. `MatchInv` says which period ids exist, `BillingInv` that the period
a request has read is at most the one after the counter: if it is less, its id
is taken and the transaction fails. `CounterAgrees` follows, and
`OrderIsRecordedOnce` from `SaleInv`, which counts the reports committed by the
id that a sale to one click gets.

**Clicks** (`IntakeProofs`; 1 theorem, `ClicksAreAccounted`, for any drains, replays,
batch size, attempts and clicks; the visits are those to one deduplication key).
`ClickInv` counts: how many messages
of a set are in the lists of Redis, in the memory of each drain and in a replay's
hands. A step moves, adds or loses a few, and lemmas of `SumTheorems` (`OccursSplit`,
`SumPlus`) say what that does to the count of every set at once. Taking the
messages of one click gives `NoneDoubled`; those not as old as their click's
tries, `AttemptsAreCarried`; those that count, `CountedOncePerWindow`; the good ones
given up on, `SetAside`. `DrainsHold` says that a drain holds at most what it popped,
so that a crash loses at most a batch; as the clicks that are missing were each one
of the messages lost, and the sets of messages of two clicks are disjoint, there
are at most that many (`Spread`).

**Services** (`ServicesProofs`; 5 theorems).
- `RetryIsAnswered`: `KeyInv` says that while its row has not vanished a key belongs
  to its first claimant (`OwnerInv`), that a row holds a response only once its
  claimant is over (`RowInv`), and that an answer is the outcome of its claimant
  (`AnswerInv`).
- `NotesAreReceived`: a notification is sent at most `MaxAttempts` times and once
  for every pass that lost its lease, crashed or failed. Each such loss is a
  credit that is spent by a send no row records; `BudgetInv` weighs the sends of
  a notification against what its row says and the credits left.
- `TheLimitIsKept`: `BucketInv` says that what was spent in a window and what is
  left in the bucket are at most a burst and what the rate added up to the
  bucket's own time; that the hash outlives the time that fills it makes losing it
  harmless. The decision of the Lua script is that of `TokenBucket` by
  arithmetic alone.
- `ImportsAreAccounted`, for any workers, crashes, batch size and progress interval
  and the files of `MCServices`. `JobsAreOwned` says that a claimed job has one worker
  and that nobody else writes to its row: the conditional claim is what a second
  worker that found the same job runs into. `LinesAccountedFor` says of that worker
  that every line read is counted, in a batch, in a slice to insert or among the
  failed, and that a line that can be imported is at hand or in the table. Other
  workers only add conversions and losses, which keeps it. `RowsFollowWorkers` ties
  the counts a job's row had last to those of its worker, so that what all jobs
  imported, a sum, grows with the table by the same number and a crash can only
  take from it.
- `ServicesAreTyped` joins the invariants of the six services; `IntakeInv` is that of
  the orders. The losses, which all of them count, are in each.

**Money of a sale** (`SaleMoneyProofs`; 1 theorem, `MoneyIsAccountedFor`, for sales and
refunds of any amounts and a fee up to a half). `RowsAgree` says of each conversion
that a commission to be paid is that of an approved sale and amounts to what is
left of it; `BooksBalance`, that an affiliate was paid and is to be paid what is
owed and what stands, is a sum over the orders in which each action changes one
term. `OneRounding` is the arithmetic behind `KeepsItsShare`: a refund rounds to a
cent that is at most half a cent off, so that after n of them the commission left
is within n halves of the share of the amount left. Products of amounts are compared by a few lemmas
(`ProductGrows`, `OneMore`, `CentsWithin`) since the solver does not multiply unknowns.

**Marketplace** (`MarketplaceProofs`; 8 theorems about `MarketplaceSpec`, in which a
step is one component's and leaves the others alone; the instances fix a few names,
like two brands and two campaigns).
- `OneSuccessor`: of each family of tokens at most one is unrotated, or one request
  has claimed it and will make the next, and never both (`OneOf`).
- `PromisesKept`: `ProgramInv` ties what a request has read of a campaign to the
  campaign, so that terms a link was made under stay, and a partner's rate is the
  last one recorded.
- `BannersHaveTheirFiles`: `BannerInv` says of every file and row in whose hands it is.
- `PostbacksAreSigned`: `PostbackInv` follows a postback from its signature
  through a rewritten body to the check, and a key to its revocation.
- `WhatPeopleKeep`: one account per mailbox (`AccountInv`), payout details of their
  method (`SettingsInv`), a links page at rest that is true (`ToggleInv`: what an
  answer or the page says differs from a row only while a switch is under way),
  and reversals sent as typed and taken once (`DeskInv`: while no answer was lost,
  the one reversal outstanding is the one waited for, and there is room for it in
  what was asked).
- `ASecondSaleIsSeen`: `FraudInv` says that a conversion counts after its commit, so
  that of two the later one counted the other, and that its score, a sum, is
  no less than that rule's.

**What operators see** (`OperatorsProofs`; 4 theorems about `OutboundSpec`).
`OutboundInv` joins `HealthInv` (a report that is kept tells of every worker that
had been silent for too long when it was made), `ProbeInv`, `MetricsInv` and
`AttemptInv`.

**Model-checked only.**
- Liveness, out of the prover's reach: `LocksArePromoted`, `EventuallySettled`,
  `CacheCatchesUp`, `ClicksAreStored`.
- What reads a sequence character by character, for which the prover has no
  induction: the files' part of `ExportsAreWhole` (`Files!FileReadsBack`).
- The joint type invariant `MarketplaceTypeOK`; the types of the components that
  `MarketplaceProofs` is about are parts of their invariants.


## 6. Findings

Where the code departs from what the repository says, as runs whose property
TLC violates:

| Run | Disagreement |
|---|---|
| `ledger_paid_twice` | a failed payout releases its commissions, they are paid through another one, and the first may still be retried and paid |
| `ledger_netted_off` | an adjustment settled through a payout that fails |
| `webhooks_overlap` | one group of a pass throws, the lease is released, and another pass sends what the first is still sending |
| `webhooks_backlog` | an event whose row is committed after the 410's clean-up stays PENDING for ever |
| `billing_pays_once` | a billing event delivered again after it succeeded records the next period, and pays for it |

Other disagreements have a statement in a module and no run of their own; TLC
violates each under the constants of `MCMarketplace`, `MCLedger` or `MCWorkers`,
with sales of 15 cents for the split and, for the ranking, two sales of 9 and 10
in two campaigns of one brand and a row limit of 1:

| Statement | Disagreement |
|---|---|
| `CommissionLedger!IncludedIsNotEdited` | reverse edits a commission that a payout request has claimed since it was read, which `conversion.service.ts:407-410` calls "the one case we refuse" |
| `SaleMoney!SplitConservesMoney` | the shares of a LINEAR split are rounded one by one, so that those of 15 cents between two links do not add up to it; `api/test/attribution.test.ts:135` says "The split must not invent or lose money", `fabledocs/02-user-stories.md:1292-1293` "the linear split sums to the original order value" |
| `Sessions!EndedStaysEnded` | a family revoked between the claim of a token and the insertion of its successor (`auth.service.ts:291-299`) authorises again; `lib/auth.ts:41` says "The family check is what makes logging out take effect immediately" |
| `Sessions!RedirectedOnlyWhenOver` | the tab that loses a refresh to another one drops the tokens the other has just stored (`web/lib/api.ts:103`) |
| `Programs!EndedIsFinal` | a transition that was checked before the campaign ended writes ACTIVE over ENDED (`campaign.service.ts:109`); `campaign-lifecycle.ts:13-15` says ENDED is terminal |
| `Programs!ApprovedWereNotRejected` | the automatic approval of an open program, by id, lands after the brand's rejection (`relationship.service.ts:56-60`) |
| `LinkCache!InvalidatedOnWrite` | the end of a campaign writes no cache entry, a late fill or a crossed toggle leaves a stale one for up to 24 hours; `link-resolver.ts` says the time to live "is not what keeps the cache correct" |
| `Paging!ExportedOnce` | the exports page by OFFSET and repeat or skip rows, whereas `lib/csv.ts:75-77` says "Keyed on an opaque cursor rather than OFFSET" |
| `Reports!RankedByRevenue` | breakdowns are ordered by revenue as text, so that the limit cuts off rows that earned more (`breakdown.service.ts:104`) |

Of the same kind, seen while modelling:

- *Programs and links.* An edit of the terms that was checked while the campaign
  was a draft is written after its activation (`campaign.service.ts:57`); links made
  meanwhile are the exception in `LinksKeepTheirTerms`. Two overlapping custom rates
  record the same previous value. A toggle rewrites its entry without the
  campaign's status, so that links of an ended campaign are served again.
- *Sessions.* `store.ts:53` says logout bumps tokenVersion, which it does not, and
  `auth.service.ts:314` that logoutAll is the only thing that does, while changePassword
  does too. A logout with an expired access token is refused, and the tokens are
  dropped all the same. The 401 of hydrate's `/api/auth/me` is not refreshed past.
- *Money.* A flat commission is paid in full for every share of a LINEAR sale.
  The shares of one split look like a cookie's duplicates to the fraud rules.
- *Reports.* The series count REJECTED conversions, the breakdowns do not.
- *Operators.* `check()` rejects when the database is down, since `domainChecks`
  catches nothing. A late heartbeat is only told from an absent one where the key
  outlives three ticks. The `skipped` beat of a standby replaces the `lastError` of the
  leader. The webhook and import workers are in neither `check()` nor `leases()`.
  `metrics_series_dropped_total` counts refused calls where its help says label
  combinations. Of two overlapping scrapes the later page may show the older gauge.
- *Files and rows.* An upload whose row cannot be created leaves its banner on
  disk; an enqueued import whose answer is lost is told as failed and its file
  removed under the job. The unique violation of two registrations is a 500.
- *Transport.* The deadline covers the body too (`webhook-transport.ts:171`), where line 16
  lists connect, TLS, request and headers, and a status that came with a slow body is
  recorded as a timeout, where lines 157-158 say "A body we abandoned is still a
  response"; the DNS lookup is not under any deadline.
- *Settings and switches.* Saving the payout details asks for the profile again and
  drops unsaved edits of the other form; two tabs overwrite each other's fields;
  details may be cleared between requestPayout's check and the transfer. A write
  that lands after its connection broke is not seen until the next visit.

In passing: `lock-expiry.worker.ts:22-23` says only
approved conversions are promoted, while the promotion is an `updateMany` by id
(56-59) after the filter; `payout.service.ts:100-101` says the amount is that of
the rows claimed, while it is summed from an earlier read (143-151, 193-200);
commissions that are not promotable fill the batch of `lock-expiry.worker.ts:35-37`
and starve the rest; two overlapping replays can queue a delivered webhook
again (`webhook.service.ts:425-445`); `circuit-breaker.ts:86-87` says admission
stamps `openedAt` so that a lost probe costs one cooldown, while
`webhook.service.ts:341` writes the stamp only when the state changes: the
second probe lost in a row costs none; an RPOP that throws in the middle of a
drain loses the events popped before it (`click-event.worker.ts:109`), where
26-30 says that a failing flush no longer does; `PopFails` models it and
`ClicksAccountedFor` bounds it; two transitions of one payout, each checked
against what it read, both commit, so that a PAID payout may move on
(`payout.service.ts:251-270`), where `payout-lifecycle.ts:12` says it is terminal;
a billing period read before a cancellation writes ACTIVE over it
(`subscription.service.ts:117-124`), where line 136 says of cancel "Stops future
commissions": `OrderIntake!CancelIsFinal` states it, and TLC violates it under the
constants of `MCServices`; a partial refund whose answer is lost and which the
brand sends once more is taken twice, because the advisory lock orders the two
and tells neither from a second refund (`conversion.service.ts:378-416`), where 371 says
"A retried request was enough." of what the lock was added against:
`ConversionDesk!TakenOnce` states it, and is why `TakenAsAsked` excepts a lost answer; an order that is split LINEAR can be recorded
in two shapes by reports that see different clicks, because each share has an
order id of its own (`conversion.service.ts:170-172`, whereas
`conversion.routes.ts:75-77` says a duplicate "could never create a second
conversion"), which is why `OrderRecordedOnce` leaves LINEAR out; a LINEAR sale with
two links of one affiliate repeats an order id and is always refused; of a split
order only one share gets the subscription (`externalReference` is unique); a
notification pass that has lost its lease sets back the attempts another one
has counted, which is the factor in `TriesAreBounded`; a key whose response is a
5xx is gone when a retry that collided with it looks again, and that retry
then runs without a claim beside the next one (`idempotency.ts:139-143`); an
import whose worker died stays PROCESSING and its file stays on the disk.

## 7. Not modelled

The payout's idempotency key, the wording of anything, listings that only
filter, brand profile fields and event types; backoff delays (a retry that is
due is due); cryptography: hashing, signing and the secret box are what they
guarantee, and what is signed is compared as a whole. Query timing, request
contexts and logs are written and never read back. Server wiring, configuration
and the error handler act before or outside of the components' steps; of the
front end, the pages that only render a query's answer. The schema gives the
modules their types; seeds and tests are data.

A module keeps to one of what it is about where two would share nothing: one
link, one campaign, one user, one probe. Interference between components goes
through rows, and where it matters the other component's write is an action of
the module (`EndCampaign` in `OrderIntake`, `MoveCampaign` in `LinkCache`,
`Deactivate` in `Reports`).

## 8. Running

`tlc -config MCLedgerConcurrent.cfg MCLedger`, and likewise for the runs of
`PROJECT.json`. The proofs are checked by `tlapm` on `SumTheorems.tla`,
`CommissionLedgerProofs.tla`, `SaleMoneyProofs.tla`, `WebhookDeliveryProofs.tla`,
`IntakeProofs.tla`, `ServicesProofs.tla`, `MarketplaceProofs.tla` and
`OperatorsProofs.tla`.
