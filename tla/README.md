# Verification of the order lifecycle backend

TLA+ modules, TLC configurations and TLAPS proofs for the NestJS service in
`src/`: a shop whose orders travel through PostgreSQL, a transactional outbox
and RabbitMQ consumers until they are completed, failed or cancelled.

Paths below are relative to `src/src/modules/` unless they start with `src/`.

## 1. The system

| component | state | operations | talks to |
|---|---|---|---|
| order state machine (`orders/order-state-machine.ts`) | – (a table) | `isTransitionAllowed`, `isTerminalStatus` | every writer of `orders.status` |
| orders service (`orders/services/orders.service.ts`) | `orders` rows: `status`, `paymentInitiatedAt` | `createOrder`, `initiatePayment`, `cancelOrder`, `transitionOrder`, reads | outbox, products, cache |
| products (`products/products.service.ts`, `stock-replenishment.service.ts`) | `products.stock` | `reserveStock`, `restoreStock`, `replenishLowStock` (cron) | called by inventory and orders |
| inventory, payment, completion, email consumers | the delivery in hand | `reserve`, `authorizeAndAdvance`, `complete`, `notify` | inbox, orders, products, gateway |
| payment gateway (`payment/payment.gateway.ts`) | `payment_authorizations` (one claim and decision per order) | `authorize` | the provider |
| inbox (`messaging/inbox`, `process-event-once.ts`) | `processed_messages` | `runOnce` | wraps each consumer's work in one transaction |
| outbox and relay (`messaging/outbox`) | `outbox_messages`, `draining`, `drainAgain` | `enqueue`, `nudge`, `relay`, `drainOnce` | writers of events; the broker |
| retry and dead-lettering (`messaging/retry-error-handler.ts`) | the `x-attempts` header, wait queues | the error handler | the broker |
| cart (`cart/cart.service.ts`) | `carts`, `cart_items` | `getOpenCart`, `setItem`, `removeItem`, `checkout` | `createOrder`, `findByIds`; `retireOldProducts` at boot |
| read cache (`cache/cache.service.ts`, users in orders service) | Redis keys | `get`, `set`, `del` | order reads and writers |
| refresh tokens (`auth/services`) | `refresh_tokens` | `rotate`, `login`, reuse revocation, `setDisabled` | – |
| metrics buffer (`metrics/metrics-persistence.service.ts`) | an array, a timer, `flushing` | `record`, `flushNow`, `onModuleDestroy` | every collector |
| metrics history (`metrics/metrics-history.service.ts`) | – (reads `metric_events`) | `queryRaw`, `queryBucketed` | the buffer's rows |
| live gauges (`metrics/live-gauges.service.ts`) | `cached`, `channel` | `snapshot`, `queues`, `queueChannel`, `onModuleDestroy` | the broker, the database |
| sampler, counters (`metrics/*`) | – | `sample`, `record…` | the buffer |

How they interact: a request writes a row and an outbox row in one
transaction; the relay publishes outbox rows and marks them; the broker hands
each message to one consumer, at least once and in no order worth relying on;
the consumer does its work, enqueues the next event and records the message in
the inbox, all in one transaction. `Created` is handled by inventory,
`InventoryReserved` (enqueued by *Pay*, not by inventory) by payment,
`PaymentProcessed` by completion, `Completed` and `Failed` by email.

What is hard:

* **interleaving** – pay, cancel and three consumers write one status column;
  reservations, cancels and the cron write one stock row;
* **atomicity** – reads come before the compare-and-set or claim they justify;
  `cancelOrder` is not a transaction at all;
* **delivery** – the relay republishes after a crash, the retry handler copies a
  message before acknowledging it, the broker redelivers;
* **partial failure** – the provider is called outside any transaction; stock
  runs out in the middle of an order;
* **time** – bounded retries against a claim that must age before takeover;
* **caching** – a value read before a write is stored after it, and the deletion
  meant to drop it may come before the commit or never;
* **row locks** – reservations lock products in the order of their lines;
* **liveness** – an event, once committed, must be handled or be found in the
  dead-letter queue.

The properties that make each part correct are stated in section 4; the places
where each hazard bites are listed in `PROJECT.json` under `hazards`.

## 2. Modules

| module | what it is |
|---|---|
| `OrderFSM` | the transition table, constant level |
| `OrderLifecycle` | abstract specification: what the whole pipeline promises about an order |
| `OrderPipeline` | the orders service, products, outbox, relay, broker, inbox and the four consumers, composed |
| `MCOrderPipeline` | constants for TLC |
| `OrderPipelineProofs` | frame lemmas, type correctness of `OrderPipeline` |
| `OrderPipelineInvariance` | every step preserves the parts about events, charges, inbox and handlers |
| `OrderPipelineSafety` | the parts about cancels, stock, rows and mail; the theorems and the three refinements |
| `ChargeOnce` | abstract specification: what the payment gateway promises one order's callers |
| `PaymentGateway` | `authorize` with its claim row, takeover, retry backoff and time |
| `PaymentGatewayProofs` | theorems about `PaymentGateway` |
| `RelayPromise` | abstract specification: what the outbox promises about a row |
| `OutboxRelay` | the relays of several app instances over one outbox table |
| `OutboxRelayProofs` | theorems about `OutboxRelay` |
| `StockLedger` | abstract specification: a reservation takes all its lines at once, or none |
| `StockReservation` | `reserveStock` line by line, with row locks, compensation and lock cycles |
| `OrderCache` | the cached reads of a user's orders against the writers that delete the keys |
| `MetricsBuffer`, `MetricsHistory` | the buffer of samples up to shutdown; the query over what it wrote |
| `Cart` | the carts of a user: open, set, remove, check out; the retirement of products |
| `RefreshTokens` | login, rotation, reuse detection and revocation for one account |
| `LiveGauges` | the loads behind the queue gauges and the channel they share |
| `MCSharedServices` | `StockReservation`, `MetricsBuffer`, `MetricsHistory` and `PaymentGateway` for TLC, with `OrderCache` and `OutboxRelay` for their liveness |
| `MCConcurrentUse` | `Cart`, `RefreshTokens`, `LiveGauges`, `OrderCache` and `OutboxRelay` for TLC |
| `OrderCacheProofs` | theorems about `OrderCache` |
| `SharedServicesProofs` | theorems about `StockReservation`, `MetricsBuffer`, `MetricsHistory` and `MCSharedServices` |
| `ConcurrentUseProofs` | theorems about `Cart`, `RefreshTokens`, `LiveGauges` and `MCConcurrentUse` |

The parts fit together by their promises. `OrderPipeline` assumes the gateway's:
`Answers` is one decision per order, or an error. `PaymentGateway` shows that the
code keeps it, stated on its own as `ChargeOnce`. The relay is `RelayPublish` and
`RelayCommit` (send while pending, mark what was sent), which `OutboxRelay` has in
detail; a reservation takes all its lines in one step, which `StockReservation`
has line by line. Detail and pipeline both implement `RelayPromise` and
`StockLedger`. The modules share these interfaces and are not composed: nothing
here runs `PaymentGateway`, `OutboxRelay` or `StockReservation` inside
`OrderPipeline`.

The other components share no state with each other. The two MC modules that hold
them choose one at the start of a behaviour (`focus`) and leave the others at
rest: interleaving components that share nothing multiplies states and shows
nothing. Where `Cart` and `OrderCache` meet the pipeline is a step each:
`PlaceOrder` of `Cart` is `createOrder`, and the writers of `OrderCache` are the
operations of `OrderPipeline` reduced to what the cache sees of them.

### How `OrderPipeline` corresponds to the code

State: `status`, `paymentInitiated`, `stock`, `outbox`, `inbox` are the columns
and tables of those names; `emitted` counts inserts into `outbox_messages` per
event and order; `held` is history: the net quantity an order has taken.
`at`, `tries`, `saw` and `to` describe each delivery: `"queued"` is in a queue
or a wait queue, `"charged"` is a payment delivery with the provider's answer in
hand, `"working"` is inside the inbox transaction between the read of the
order's status and the compare-and-set, `"done"` is committed but not
acknowledged, `"dead"` is in the dead-letter queue. `relaying` are the rows the
relay's open transaction has published. `paying` and `cancelling` are HTTP
requests past their first read; `left` are the lines a cancel has still to give
back; `restocking` are the products a replenishment run read as low.

A transaction is one step unless something it read may change before it
commits. It is cut where that can happen:

* `transitionOrder` is `TransitionRead` (status read, table check) and
  `TransitionCommit` (compare-and-set, outbox row, inbox row). A compare-and-set
  that matches nothing is `TransitionConflict`.
* `cancelOrder` is `CancelRead`, `CancelClaim`, one `CancelRestore` per line,
  `CancelEnd`: it runs without a transaction.
* `initiatePayment` is `PayRead` and `PayClaim`.
* `replenishLowStock` is `ReplenishRead` and one `ReplenishProduct` per product.
* `drainOnce` is `RelayPublish` per row and `RelayCommit`.
* The email consumer sends (`NotifySend`), then commits the inbox row.

Row locks: a reservation that has decremented its products holds their rows
until it commits. `HoldsRows` and `RowLocked` say so, and every other writer of
those rows waits; an UPDATE that finds too little stock matches no row and waits
for none. `reserveStock` takes all lines in one step here. `added` is history: what
replenishments have added.

Failures: `HandlerThrows` is any exception (database, provider, broker,
`PaymentInFlightError`); the retry handler's answer is `Retry`. `HandlerCrash`,
`RetryCrash`, `RelayCrash`, `PayCrash`, `CancelCrash` lose the process in the
middle of one activity; a process that dies with several activities open is
several of these steps. The broker may hold up to `MaxCopies` copies of a
message and delivers in any order. A pay request is always allowed to be
repeated after it ends, and so is a cancel.

Abstractions: a message is named by its routing key and its order, since no
event is enqueued twice for an order (`EventsMatchStatus` checks exactly that).
The provider keeps one decision per idempotency key (`Answers`), which is what
`PaymentGateway.authorize` hands to its caller or an error. Ownership checks
(404), logs and metrics are left out. `UPDATE ... SET stock = stock + n` is
atomic. The top-up amount is one constant.

### How `PaymentGateway` corresponds to the code

One order's row: `ledger` is `authorized` (`"undecided"` for NULL), `claimAge`
is `now() - createdAt` in seconds, counted up to one more than `StaleAfter`
since nothing distinguishes older claims. `provider` is what the provider has
decided for the idempotency key and `calls` how often it was called. Each copy
of the message has a place `pc`: `"queued"`, then `Claim` (the insert), and for
the loser `ReadDecision` and `TakeOver` or `InFlight`, one step per statement
of `authorize`; `Charge` and `ChargeReturns` are the two ends of the provider
call, `RecordDecision` the conditional update, `Finish` the consumer's own transaction.
`xAttempts` and `wait` are the retry header and what is left of the wait queue's
TTL. `HandlerThrows` is any exception, `Crash` a lost handler, both in any place. `Tick`
is a second; handlers, broker and provider may take any number of ticks.

A provider that takes longer than a claim's life may be called by two handlers
at once; it answers both alike, which is the contract the class comment states.

### How `OutboxRelay` corresponds to the code

`row` and `sent` are the table and the broker. A row's number is its place by
`createdAt`, and rows commit in any order, as transactions do. Of each
instance, `owed` are commits whose subscriber callback has not run, `woken`
relay calls handed to `setImmediate`, `drain` says whether it is draining (any
value but `"idle"`), and `locks` are the rows its transaction holds. `OldestOf` is
ORDER BY with LIMIT, `Free` what SKIP LOCKED leaves. `Publish` and
`PublishFails` take the rows of a batch in order; a publish that rejects may
have reached the broker. `EndDrain` is the `finally` block with the re-run it
may schedule. `DrainFails` rolls the transaction back, `RelayCrash` also loses the
callbacks. `left` is history: the rows such a failure leaves to the timer.

### How `StockReservation` corresponds to the code

`phase` is where the inventory handler's transaction is: `"taking"` in the loop
of `reserveStock`, `"restoring"` after a line affected no row. `Send` issues the
UPDATE of a line and `awaits` is its row until the row is free; `Take` and
`Short` are its two outcomes; a line whose committed stock is too low is short
whoever holds the row. The transaction sees its own decrements
(`taken`) and holds their rows (`locked`) to the end; `stock` is what is
committed. Lines come in any order, which covers every pair of orders.
`PutBack` is `restoreStock(applied, manager)` line by line. `AbortDeadlocked` is the
database breaking a cycle of waiting transactions (`Deadlocked`, over `WaitsFor`:
a transaction behind a cycle is not in it and goes on waiting), `HandlerFails` any
other error; both roll back and count an attempt. `AddStock` is a cancel or the
replenishment, a statement of its own that waits for the row.

### How `OrderCache` corresponds to the code

`db` is the committed status, `wrote` what a consumer's open transaction has
written. `Miss`, `Query` and `Store` are the three awaits of `getOrderForUser`
and `listOrdersForUser`; a hit changes nothing. Only terminal orders are stored,
and the empty list is (`Cacheable`). `createOrder`, `cancelOrder` and `initiatePayment`
delete keys after their commit (`due`, `Drop`), `transitionOrder` before its
caller's (`TxDrop`). `DropFails` is a failed `del` or a process that died before
it. `missed` is history for the property.

### How `MetricsBuffer` and `MetricsHistory` correspond to the code

`MetricsBuffer` counts samples. A step is one turn of the event loop: `Collect` is
`record` with the flush it may start, `TimerFires` the timer's callback, `FlushEnds`
the end of an insert with the `finally` of `flushNow` and whatever awaited its
promise; a failed insert is logged and its rows dropped, so it ends like one that
succeeded. `awaited` says that `onModuleDestroy` waits for the promise that was in
`flushing` then; the next flush has another promise, and `refilled` remembers that
there was one. `Drain` is a turn of `onModuleDestroy`'s loop, entered from `Destroy`,
`FlushEnds` or the end of its own insert (`DrainBatchEnds`). `MetricsHistory` writes samples with any times and
answers one query at a time, raw (`width` 0) or in buckets. `Grouped` are the rows
of the SELECT, `Descending` every order of them that ORDER BY admits, `Newest` the
LIMIT and the turn for the response; a row is its start, its count and its sum.

### How `LiveGauges` corresponds to the code

`cached` says that the snapshot is younger than `SNAPSHOT_TTL_MS`; `SnapshotAges` may
come before the load has ended, and then the next scrape begins another one.
`place` is where a load's loop over the queues is: at `"open"` it awaits
`createChannel`, at `"check"` the answer of `checkQueue`. `Closes` is everything a
closing channel does in one turn: the close handler and the `catch` of every check
under way on it, after which each of these loads asks for a channel for its next
queue. `Declare` is another instance booting. `onModuleDestroy` is one step, taken
when the broker confirms the close. The two gauges that are one query each are left
out.

### How `Cart` corresponds to the code

One statement is one step: `Find` and `FindNone` are `findOpenCart`, `Insert` and
`InsertRejected` the insert under `UQ_carts_open_per_user`, `WriteLine` the upsert or
delete by cart id, `Claim` the conditional update of `checkout`, `PlaceOrder` the
`createOrder` after it. `RequestDies` is a crash or a failed statement, in any
place. `Hide` and `DropLines` are the two statements of `retireOldProducts` on a
booting instance, `BootDies` its death between them. `raced`, `late` and `lost` are
history: the races that the properties have to admit.

### How `RefreshTokens` corresponds to the code

`Present` is the read of the presented token and its user, after which `rotate`
goes for the claim, for the revocation or away; `ClaimToken` is the conditional
update, `Issue` the insert of the next token, `RevokeFamily` `revokeFamilyOnReuse`.
Any token handed out may come back, at any time and in several tabs. `CallDies`
is a failure between two statements. `Expire` and `SetDisabled` are the clock
and the administrator.

## 3. Runs

| run | question | instance |
|---|---|---|
| `PipelineFaults` | do the safety properties, the abstract lifecycle and the promise of the outbox survive every fault? | 1 order, 1 product, a pay and a cancel session, 2 copies of each message, 1 retry, 1 crash |
| `PipelineContention` | is stock right, is every unit accounted for, and does it change hands as the ledger says, when orders compete? | 2 orders (one wants p1, one p1 and p2), 1 unit of each, 2 cancel sessions per order, replenishment of exhausted products |
| `PipelineLiveness` | does everything enqueued get handled, or parked? | 1 order, a pay and a cancel session, 1 retry, 1 crash, `FairSpec` |
| `PipelineCancelRace` | (violation) does a cancelled order keep no stock? | 1 order, 1 cancel session, no crash |
| `PipelineMailText` | (violation) does the mail tell the outcome? | 1 order, 1 pay session, 1 retry, no crash |
| `GatewayStuckClaim` | (violation) is a claim decided with the production times? | 1 copy, 3 retries, claims stale after 30 s, 1 fault, `FairSpec` |
| `SharedServices` | is a reservation atomic, what may it wait for, and does it end; does the buffer keep its samples; does the history keep the newest points; is an order charged once, and a claim always decided; is a list complete in the end, and every committed row published? | 2 reservations on 2 rows, 2 attempts; batches of 2 in a buffer of 5; 3 samples at times 0..3, 2 points; 2 copies of the message, 3 retries after 1, 2 and 4 s, claims stale after 6 s, 1 fault; 1 order, 1 reader, 1 failed deletion; 2 relays, 2 rows, batches of 1, 2 faults; `FairSpec` |
| `ConcurrentUse` | one open cart, one order per cart; one live token per session; what may a snapshot of the queues lack; is the cache truthful; is a row sent once, and no nudge lost? | 2 requests, 2 carts, a sold and a retired product; 2 tabs, 3 tokens, 2 logins; 2 loads, 2 queues, 2 channels; 2 orders, 1 reader, 1 failed deletion; 2 relays, 3 rows, batches of 2, 1 fault |
| `CacheListStale` | (violation) is the list current once `createOrder` has returned? | 2 orders, 1 reader, no failure |
| `TokenReuse` | (violation) does reuse end the whole family? | 1 login, 2 tabs, 3 tokens |
| `CartClosedWrite` | (violation) is a checked-out cart left alone? | 2 requests, 2 carts, 2 products |
| `CartRetiredLate` | (violation) can a retired line still be checked out? | as `CartClosedWrite` |

Why the bounds are enough. Two copies are what a republish or an interrupted
retry makes of one message, and two deliveries are what it takes for one to
overtake the other at any point. One retry distinguishes a first attempt, a
later attempt and exhaustion. One crash reaches each crash point once in every
state; the proofs hold for any number. Two orders are what row contention
needs, and they differ in lines so that a shared and an unshared product exist.
Two cancel sessions let one claim while the other is between read and claim.
`StockCap` bounds what the replenishment may add, `MaxCopies` the copies,
`MaxRetries` is the code's parameter (3 in production).

In `SharedServices` two reservations and two rows make a lock cycle and every
partial reservation (`WaitsEndCorrect` has cycles of any length), with needs of 0
and 1 and stocks of 0 to 2 units; two attempts are a retry and an exhaustion. The
buffer of 5 holds two full batches and a rest, which the drain needs to loop.
Three samples and two points cut the answer in raw and in bucketed resolution, for
widths that do and do not divide the window. A claim must go stale within the retry
backoff (here 6 s against 1 + 2 + 4 s); otherwise the liveness property fails,
which is what `GatewayStuckClaim` shows for the production values. The same
relation holds in a deployment with `RABBITMQ_RETRY_BASE_DELAY_MS` = 5000, at five
times the scale. Two copies are an owner and a rival; a second copy is published,
or not, at any time. A list needs one order to lack; two relays need a failure
each, since the other one would make up for a relay that stopped for good.

In `ConcurrentUse` two requests are what each race of `Cart` and `RefreshTokens`
takes (a loser and a winner, a reader and a writer); a second cart is opened only
after the first is checked out, and `OneOut` ends its life before its own checkout,
which is the first one's over again; three tokens are a login and two rotations. Two
loads meet on one channel, a queue before and one after a failed check exist, and
when both channels have been used no more can be had, which is a broker that fails.
One reader is enough for a read that spans a write; the second order is what a list
can lack beside one it has. Three rows are one more than a batch, so that a full
batch, a partial one and a backlog all occur; two instances are what locks need; the
fault is a rejected publish, a failed transaction or a crash, at every point.
The two actors of each component are interchangeable, and so are its two carts,
families, channels or orders; they are declared symmetric, and since only one
component moves, the permutations of all components are taken along with each
other. The run checks no liveness.

Deadlock checking is off: when every request has ended and every message is
handled, the pipeline rests. So do the gateway, once its messages are
acknowledged or dead, and the relays' rows (the relays themselves poll on), a
buffer once closed, reservations once settled, loads after shutdown, and carts and
tokens when the identifiers of the instance are used up.

Fairness (`PipelineLiveness`). The relay polls every second
(`outbox-relay.service.ts`, `@Interval`), so publishing a pending row and
committing the drain are weakly fair. The broker delivers what is queued and an
awaited statement returns, so each delivery's `HandlerStep` is weakly fair.
Nothing obliges users, faults or crashes. `SharedServices`: each reservation's
next step happens, since statements return, a lock is granted when it is free,
PostgreSQL detects its deadlocks, and the broker delivers; time passes, the
payment provider answers, and each payment delivery's next step happens; queries
and Redis answer a reader, and the cached list expires (`SET … EX`); each relay's
timer fires whenever it is idle, its callbacks run and its awaited calls return.
Requests, writers, commits, deletions and failures are free.

### What the violation runs show

* `PipelineCancelRace`: `cancelOrder` decides from the status it *read* whether
  stock must be restored, but its claim also matches an order that has become
  RESERVED since. The comment at `orders.service.ts:353` ("a PENDING cancel has
  nothing to give back") is then wrong and the units stay taken.
* `PipelineMailText`: `email.consumer.ts:53` recognises a failure by the
  delivery's routing key. A retried delivery comes back from its wait queue
  through the default exchange, where the routing key is the queue name, so the
  mail about a failed order says "completed".
* `GatewayStuckClaim`: a handler crashes between claiming the row and recording
  a decision. The message is redelivered, finds the claim live, and is retried
  after 1, 2 and 4 seconds; after 7 seconds it is out of attempts and goes to
  the dead-letter queue, while `payment.gateway.ts:22` lets a claim be taken
  over only after 30. The takeover that the class comment (lines 48-53) calls
  what makes a crash mid-charge safe is then reached by no delivery: the row
  stays undecided until an operator replays the message.
* `CacheListStale`: the comment at `orders.service.ts:119` says the list key "is
  invalidated whenever the user's set of orders changes (create / transition)",
  and line 127 that caching terminal orders has no race with a transition. A set
  of orders also changes by growing. A read that found only terminal orders, or
  none, is stored (line 146) after `createOrder` has committed and deleted the key
  (line 112); the list lacks the new order until another one changes or the
  entry expires. `EventuallyListed`, in `SharedServices`, is what remains true.
* `TokenReuse`: a rotation has claimed its token when another request presents the
  same one; the family is revoked, and the rotation then inserts a live successor.
  The comment at `token.service.ts:90` and both guides say that reuse revokes the
  whole family. `SessionEndExplained` is what remains true (`overtaken`).
* `CartClosedWrite`: a set finds the cart open, a checkout closes it, the set writes
  its line. `UI-INTEGRATION-GUIDE.md:246` calls a checked-out cart "permanently
  closed". `OrderMatchesCart` is what remains true (`raced`).
* `CartRetiredLate`: `seed.service.ts:121` says lines for retired products cannot be
  checked out any more. A set that is on its way puts one back into a cleaned cart,
  and `checkout` does not look at `active`. `RetiredLinesGone` is what remains true
  (`late`).

Four more weaknesses show in the model and are admitted by its properties, without a
run of their own (`hazards` in `PROJECT.json` has their lines): a cancel that dies
between its claim and its last `restoreStock` leaves a CANCELLED order with lines
taken (`StockMatchesStatus`); `onModuleDestroy` does not await the flush that the
awaited one starts (`refilled`); a checkout that dies between its claim and
`createOrder` leaves a closed cart without an order (`lost`); a boot that dies
between the two statements of the retirement leaves retired lines for good
(`RetiredLinesGone` speaks of retirements that have ended).

## 4. Properties

* `TypeOK` – types, and attempts never above `MaxRetries`.
* `EventsMatchStatus` – every status change is announced exactly once.
* `ChargeMatchesStatus` – a confirmed order is never cancelled, an authorized
  charge is never left with a FAILED or CANCELLED order, PAID needs a charge.
* `InboxMatchesStatus` – a consumer's inbox row is there exactly when its effect is.
* `StockMatchesStatus` – stock is taken once, returned at most once.
* `UnitsAccounted` – shelf and orders together have what there was and what was
  added: a replenishment that read the stock some statements ago loses nobody's write.
* `NoEventLost` – published rows reached the broker; acknowledged means recorded.
* `MailAfterOutcome` – no mail before the outcome, no false failure notice.
* `LifecycleSpec` – refinement of `OrderLifecycle`.
* `LedgerSpec` – refinement of `StockLedger`: redelivered, cancelled or declined, an
  order takes its lines once and together, and stock is otherwise only added.
* `RelaySpec` – refinement of `RelayPromise`: enqueued once, at the broker only while
  pending, marked only after that.
* `EventuallyHandled`, `ConfirmedEventuallySettles` – liveness.

Three more are proved and have no run of their own, since a refinement implies
them: `NeverOversold` (by `LedgerSpec`), `StatusFollowsFSM`, no interleaving leaves
the table (by `LifecycleSpec`), and `LedgerTruthful`, whatever is stored or
answered is the provider's decision (what is answered, by `PromiseSpec` of `PaymentGateway`).

Of `PaymentGateway`:

* `LiveClaimChargedOnce` – no second provider call beside a live claim.
* `PromiseSpec` – refinement of `ChargeOnce`: nobody is answered what the provider did
  not decide.
* `ClaimEventuallyDecided` – a claim whose owner died is decided in the end.

Of `OutboxRelay`:

* `SentOncePerFault` – concurrent instances send a row once; each failure costs
  at most one copy more.
* `NudgeNotLost` – a committed row is held or awaited by a relay, unless a
  failure left it to the timer.
* `RelayPromiseSpec` – refinement of `RelayPromise`.
* `EventuallyPublished` – liveness.

Of `StockReservation`:

* `LedgerSpec` – refinement of `StockLedger`: with locks, compensation, aborts and
  retries, all lines or none.
* `WaitsEnd` – following the locks from a reservation that waits leads to a transaction
  still at work or to a cycle, which the database breaks: no lock is left behind.
* `EventuallySettled` – every reservation begun commits or is parked, in whatever
  order rows are locked.

Of `OrderCache`:

* `CacheTruthful` – no cached order has a status it no longer has.
* `ListMissesExplained` – a cached list lacks an order only after a failed deletion
  or the race of `CacheListStale`.
* `EventuallyListed` – and not for ever.

Of `MetricsBuffer` and `MetricsHistory`:

* `SampleAwaited` – a sample always has a timer or a flush to take it, never both.
* `ShutdownAwaitsFlush` – no insert is under way when shutdown returns, but one that the
  awaited flush started.
* `HistoryNewest` – the answer has the newest points, whole buckets, in order.

Of `LiveGauges`:

* `GaugesExplained` – a snapshot lacks a queue that was there only where another load
  or the broker closed the channel under its check, or none was to be had; a
  channel is leaked only where loads overlapped (one that a load opens after shutdown
  stays `this.channel` and is not counted).

Of `Cart`:

* `OneOpenCart` – however many requests open one.
* `OrderedOnce` – a cart is ordered once or its one claimer died.
* `OrderMatchesCart` – the order has the cart's lines, unless a write overlapped the
  checkout: `setItem` does not ask whether the cart is still open.
* `RetiredLinesGone` – the retirement leaves a retired line only where a set was
  already past its check.

Of `RefreshTokens`:

* `OneLivePerFamily` – one live token, or one about to be inserted, per session.
* `SessionEndExplained` – a session ends only by a repeat or a request that died,
  and outlives its revocation only behind a rotation that was under way.

Several of these admit a race that the code has, through a history variable
(`lost`, `raced`, `late`, `overtaken`, `missed`, `refilled`): they bound what the race
may do and do not catch it. Four of them have a violation run that shows the race
itself, because a comment or a guide denies it: `overtaken` (`TokenReuse`), `raced`
(`CartClosedWrite`), `late` (`CartRetiredLate`) and `missed` (`CacheListStale`).

The definitions commented "Seeded fault" are single-definition mutations of the
model. Each listed property is known to fail under one of them.

## 5. Proofs

All theorems are `Spec => ...` for every value of the constants: any number of
orders, products, requests, deliveries, instances and rows, any bounds. The
assumptions are the modules' named ASSUMEs: quantities, stock and bounds are
natural numbers, a batch holds at least one row, reservations are finitely many.

**`OrderPipeline`.** `Invariance` proves `IInv`, the conjunction of `TypeOK`, the
seven safety invariants and four parts that make them inductive:

* `Messages` – what is in the outbox or at the broker was enqueued; without it a
  delivery could appear for an order that never announced it.
* `Handlers` – what a handler between its read and its commit has seen and
  decided; the compare-and-set then yields a move of the table.
* `Restores` – a cancel that gives stock back claimed a RESERVED order, is the
  only one, and the lines it has left are still held; this is what excludes a
  second return.
* `Rows` – a reservation about to commit has its stock, and no other reservation
  holds the same rows; this is what excludes overselling.

One lemma per conjunct has a step for each group of actions that touches the
same state. `EventsMatchStatus` carries the weight: since each status is
announced once, a message is named by its event and order, and a repeated
delivery meets either its inbox row or a status that its compare-and-set
refuses. From `IInv` follow the invariants (`EventsCorrect`, `ChargeCorrect`,
`InboxCorrect`, `StockCorrect`, `StockNeverOversold`, `EventsKept`,
`MailCorrect`), the action property (`StatusCorrect`) and the refinement
(`ImplementsLifecycle`).

The promises of stock and outbox follow from the same `IInv`. `ImplementsLedger`
reads an order's outcome off its inbox row and its status (`Outcome`);
`OutcomeSteps` shows that only the commit of its one handler decides it, and
`Rows` that the stock is there when it does. `ImplementsRelay` counts a message as
sent once it has reached the broker (`ReachedSteps`: only `RelayPublish` brings it
there); `EnqueuesAbsent` needs `EventsMatchStatus`, without which a row already
published could be enqueued again. That all handlers of a payment act on one decision is assumed here and proved of
`PaymentGateway` (`KeepsPromise`).

**`PaymentGateway`.** `GatewayInv` adds `Claims` (a live claim has at most one handler
that has still to call, and then nobody has called) and `Recorded`. `ChargedOnce`,
`Truthful` and `KeepsPromise` follow. `GatewayTypesCorrect` adds the type of `wait`, which no
other property reads: it needs that `retryDelayMs` is a natural number for every
attempt. `Backoff` is a recursive function, so that has to be shown to exist before
it can be shown to have a type. `SetInduction` is induction over a set of numbers,
from `WFMin`; `Prefixes` builds a table of the delays up to each attempt,
`PrefixesAgree` makes them one function, `BackoffDoubles` and `BackoffType` say what
it does. `WaitStep` is the step of the type.

**`OutboxRelay`.** `RelayInv` adds `Batches` (a batch is pending rows, locked once),
`Outcomes` (a publish that returned reached the broker or is left to the timer) and
`Copies` (a row nobody is about to mark was sent only where something failed).
`SentOnce`, `NudgeKept`, `RelayTypesCorrect` and
`RelayKeepsPromise` follow. For `NudgeKept`
each step names the relay a pending row is now waiting for; the cases that
matter are the SELECT, which takes every free row or fills its batch, and the
end of a drain, which either re-runs or leaves only rows that failed.

**`StockReservation`.** `StockInv` adds `Held` (what a transaction has taken it
has locked, nobody else has, and it was there) and `Running` (a statement is under
way only for a line not taken yet; a message that is not parked has attempts
left; locks are those of open transactions). `HeldShrinks` covers every step that only gives back. `LedgerCorrect` maps a
commit to the ledger's one step, by `CommitTakes`, and everything else to a
stutter. It needs `Held`: a line's stock, seen by its UPDATE, is still there at the
commit only because its row is locked. `WaitsEndCorrect` is about groups of
reservations of any size: `SomeCycle` takes, of the sets in which everyone waits
for someone of the set, a smallest one (`WFMin` over the subsets of a finite set),
and shows that in it everyone is also waited for.

**`OrderCache`.** `OrderCacheInv` says that every snapshot, cached or in a reader's
hands, holds only orders in the terminal status they still have (`Snapshots`), that
an open transaction writes a move the table allows (`Writing`; with
`isTransitionAllowed` no terminal order is ever written), and that a list without
an announced order is in `missed` (`Explained`). `CacheTruthfulCorrect` and
`ListMissesCorrect` follow.

**`MetricsBuffer`.** `BufferInv` adds that `awaited` and the drain belong to their states,
that a batch belongs to a flush (`OneTaker`), and that the drain's own insert meets no
other but one the awaited flush started (`DrainedAlone`); `ShutdownCorrect` follows.

**`MetricsHistory`.** `HistoryInv` says that an answer is what its query would get
now, since a write clears it. `RowsDivideWindow` shows that the rows before
ORDER BY divide the window into the samples of one time each, `RowsFinite` and
`NewestOfRows` that the answer is the first rows of any admissible order turned
round, and `AnswerIsNewest` puts the two together for raw and bucketed answers
(`HistoryCorrect`).

**`LiveGauges`.** `GaugesInv` adds `Channels` (what is current or in use is open),
`Answers` (an undisturbed load has answered every expected queue it came past) and
`Alone` (while no two loads have met, the one under way works on `this.channel`, and
nothing else is open). `ClosesKeeps` is the step all closings share.

**`Cart`.** `CartInv` adds `Holding` (a request past `getOpenCart` has a cart that
exists), `Claimed` (a cart being ordered is out, without an order, and not lost),
`Fresh` (a checkout's lines are the cart's unless the cart is in `raced`) and `Early`.
The four properties follow for any number of requests, carts and products.

**`RefreshTokens`.** `TokenInv` adds `Rows` and `Shown` (what the table and a request
say about each other), `Reuse` (a revoked token was presented before, or its family
saw a repeat) and `Outlived`. `OneLivePerFamily` is itself part of the induction:
the claim takes the live token away before its successor is inserted.

**The compositions.** `ActorsRunAlone` and `ServicesRunAlone` prove that
`MCConcurrentUse` and `MCSharedServices` implement the specifications of their
components, so that what is proved of a component holds where it is checked;
`ActorsTypesCorrect` and `ServicesTypesCorrect` are the types of all of their
variables together.

Every invariant and every refinement that a passing run checks is thus a theorem,
but for `UnitsAccounted`: its sum over all orders would need induction over the set
of orders with the sum as a parameter. Only model-checked, besides: the liveness
properties (`EventuallyHandled`,
`ConfirmedEventuallySettles`, `ClaimEventuallyDecided`, `EventuallyPublished`,
`EventuallySettled`, `EventuallyListed`), which need fairness and ENABLED, beyond
the prover; and the violations, which are counterexamples. The proofs use no
theorem of the library that takes an operator: where an induction is needed it is
over a set, by `WFMin`.

## 6. Not modelled

* Ownership checks, DTOs, guards, controllers, correlation ids, tracing,
  configuration: no state the properties speak of.
* A message without an id (dead-lettered at once): the outbox never makes one.
* RabbitMQ, PostgreSQL, Redis and the provider appear as the code uses them.
* `register` (one insert under a unique index), password hashing and the signing
  of access tokens.
* The system sampler, the counters and the two gauges that are one query each:
  nothing reads back what they keep.
* `seedProducts` and the admin account: single inserts before the service takes
  traffic. The migrations appear as the constraints they leave.
* Load-test scripts and the web client.
* The rate at which a relay loops while every publish of a full batch fails:
  `EventuallyPublished` says the backlog drains once the broker recovers, and
  nothing is said of the time before, nor of rows that fail for good and keep newer
  ones waiting.
* Replenishment by several instances at once, and products taken off sale while one
  runs: `ReplenishRead` starts one run at a time, over the products on sale.

## 7. Plan

1. `createOrder` of `OrderPipeline` as the step `PlaceOrder` of `Cart`, so that a
   session runs from the cart to the mail in one instance.
2. A reservation that implements `ReserveRead` of `OrderPipeline` itself, in
   place of the ledger the two have in common.
3. The safety halves of the remaining liveness properties as theorems, as
   `WaitsEnd` is for `EventuallySettled`.
