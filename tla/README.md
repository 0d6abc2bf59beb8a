# A TLA+ model of SovEcom

SovEcom is a self-hosted shop: a NestJS API over PostgreSQL and Redis (`src/apps/api`), with
an admin, a setup wizard and a storefront as clients. The specifications here are about the
part of it where concurrent actors meet over money, stock, carts, fiscal documents, deliveries
and worker processes. Everything is translated from `src/apps/api/src`; paths below are
relative to it.

## 1. Inventory of the system

| component | state it keeps | operations | hard because |
|---|---|---|---|
| cart store (`cart/`) | the cart blob in Redis, a dirty set, the `carts` row in Postgres | `mutate` (WATCH/EXEC loop), `findById`, `flushDirty` | two stores, an asynchronous flush, side effects in Postgres before the Redis write, eviction |
| cart logins (`cart/cart-associate.service.ts`) | the owner in the row and in the blob | claim, adopt, merge, `abandon` | two customers and one guest cart; a login that dies between two stores |
| inventory (`inventory/`) | `product_variants.stock_quantity`, `inventory_reservations` | `reserve`, `release`, `consumeLineInTx`, `consumeBundleComponent`, `restockInTx`, `deleteExpired` | holds that expire, a sweeper that lags, stock sold without a hold |
| checkout (`orders/`) | `orders`, `order_counters`, `carts.status`, `discounts.used_count` | `createFromCart`, `createOrLoadFromCart`, `transition` | one long transaction with row locks taken one at a time; double submits; a retrying client |
| restock listener (`orders/order-restock.listener.ts`) | none | `onOrderCancelled` | runs after the commit, from an in-memory event |
| payments (`payments/`) | `payments` | `createPaymentIntentForCart`, `recordManualPayment` | calls to Stripe between reads and writes |
| payment webhooks (`payments/payment-webhook.service.ts`) | `payment_events` | `processWebhook` and its handlers | at-least-once, unordered, concurrent delivery; handlers that crash half way |
| stale-order sweeper (`orders/`) | none | `sweep` | races with a payment that lands |
| refunds and credit notes (`payments/refunds/`) | `refunds`, `refund_line_items`, `orders.refunded_amount` | `create`, `reconcileGatewayRefund`, deferred refunds | the gateway call inside a transaction; asynchronous refunds confirmed by webhooks |
| disputes (`payments/disputes/`) | `disputes`, `orders.fulfillment_frozen` | `onDispute`, `unfreezeFulfillment` | events out of order, against shipping and a manual unfreeze |
| returns (`returns/`) | `returns` | `request`, `approve`, `reject` | a compare-and-swap around a refund that may fail |
| invoices (`invoices/`) | `invoices`, `invoice_counters` | `issueForOrder`, `issueCreditNote` | gapless numbers, one invoice per order, a back-issue from inside a refund |
| outbound webhooks (`webhooks/`) | `webhook_subscriptions`, `webhook_deliveries` | `enqueue`, `processDue`, `retry` | a lease and an advisory lock against double delivery |
| module runtime (`modules/`) | `installed_modules`, the modules' files, role and schema; the worker map and the event bus in memory | `install`, `enable`, `disable`, `uninstall`, `checkLiveness` | nothing serialises the admins; exits that arrive late, workers that hang, a restart that forgets the map |
| discounts (`discounts/`) | `discounts`, `discount_usages` | evaluation, redemption | evaluated unlocked, redeemed later |
| catalog, customers, auth, setup, themes, taxes, shipping, search, stats, emails, front ends, packages | their own tables | CRUD, external lookups, rendering | mostly request-local; see section 8 |

`PROJECT.json` lists every component with what of it is modelled.

How they interact: the storefront edits a cart (blob in Redis, reservations in Postgres); a login
claims it or merges it into the customer's own; `POST /checkout` or the payment-intent endpoint
turns it into an order, which decrements stock, confirms the reservations, redeems the discount and
converts the cart row, all in one transaction; the payment-intent endpoint then mints a Stripe
intent; Stripe's webhook drives the order to `paid`, and `order.paid` issues the invoice; the
sweeper cancels orders nobody pays, and the restock listener gives their units back. A paid order is
fulfilled, shipped, frozen by a dispute, returned and refunded; a refund issues a credit note. Domain
events are also fanned out to subscribers' webhooks and to the worker processes of modules.

## 2. Modules

| module | what it is | small instances | proofs |
|---|---|---|---|
| `OrderBook` | the abstract promise about stock: an order takes all its units at once or none, and gives back exactly those, once | with `Checkout` | |
| `Checkout` | cart, reservations, checkout transaction, restock, flush | `MCCheckout` | `CheckoutProofs` |
| `Payments` | the payments of one order: endpoint, manual record, sweeper, webhook handlers, Stripe | `MCPayments` | `PaymentsProofs` |
| `Refunds` | the refunds of one paid order: admin requests, dashboard refunds, deferred refunds, refund events | `MCRefunds` | `RefundsProofs` |
| `Fulfilment` | one paid order among staff, disputes and returns | `MCFulfilment` | `FulfilmentProofs` |
| `Invoices` | the invoices and credit notes of a tenant | `MCInvoices` | `InvoicesProofs` |
| `RefundLedger` | the abstract promise of `RefundService`: one ledger, a refund reserves its money once and is credited or released for good | with `Refunds` | |
| `CartRegister` | the abstract promise of `mutate`: one register, every edit at once on the latest cart | with `CartStore` | |
| `CartStore` | one cart in Redis, in Postgres and in its stock holds | `MCCarts` | `CartProofs` |
| `CartLogin` | guest carts, their customers and the logins that bring them together | `MCLogins` | `CartProofs` |
| `WebhookDelivery` | fan-out and drain of outbound webhooks, with time | `MCWebhooks` | `WebhookDeliveryProofs` |
| `ModuleRuntime` | one module: registry row, files, worker processes, admins and watchdog | `MCModules` | `ModuleRuntimeProofs` |

How they divide the work:

- `Checkout` composes cart status, inventory, orders and the restock listener, because a checkout
  transaction writes the tables of all of them. The contents of a cart are fixed there; how they get
  into Redis, Postgres and the holds is `CartStore`, and who owns them `CartLogin`, where an edit is
  one step.
- `Payments` starts where `Checkout` ends (one order, `pending_payment`); `Refunds`, `Fulfilment` and
  `Invoices` where `Payments` ends (an order that is paid). `Fulfilment` and `Refunds` both contain
  refunds: in `Refunds` a handler is many steps and its sums are state, and the question is whether
  they agree; in `Fulfilment` a refund event is one step and the question is what happens to the
  return, the freeze and the order's status around it. `Invoices` has a refund only as far as its
  invoice and its note.
- `WebhookDelivery` and `ModuleRuntime` stand on their own: nothing in the order's life waits for them.

## 3. How the models correspond to the code

### Transactions and turns

The API runs PostgreSQL at READ COMMITTED. A transaction that locks several rows one after the
other is several actions, one per lock it may wait for; its writes stay in variables of its own
(`taken`, `locked`) until `Commit` puts them into the committed tables (`stock`, `hold`,
`order`). A transaction that takes one row lock is one action. A read outside a transaction, or
before the lock, is an action too, and what it saw is kept in the actor's state. When the process
dies or a query fails, Postgres rolls back: `Crash`, `RequestDies`, `DeliveryDies`, `RollBack`, `Die`.
Node runs what lies between two awaits in one go, so in memory that is one action; several API
processes are several actors.

### Checkout

| state | code |
|---|---|
| `stock`, `bundles` | `product_variants.stock_quantity`, `products.is_bundle` |
| `hold` | `inventory_reservations`: `live` (reserved, not expired), `expired` (past `expires_at`, not swept), `confirmed` |
| `cartRow`, `blob`, `dirty` | `carts.status`, the status in the Redis blob, the Redis dirty set |
| `order`, `lastNo`, `used` | `orders`, `order_counters`, `discounts.used_count` |
| `pc`, `kind`, `lines`, `todo`, `locked`, `taken`, `asBundle`, `redeem` | the local state of a request inside `createFromCart` |
| `toRestock` | `order.cancelled` events on the in-process event bus |

| actions | code |
|---|---|
| `LoadExisting`, `LoadCart` | `createOrLoadFromCart` and `createFromCart` up to the transaction: the blob is read unlocked |
| `LockCart` | the `carts` row `FOR UPDATE`, the status check, the discount's evaluation |
| `ConsumeStep` | one line: the variant row `FOR UPDATE`, the stock check, the decrement; for a bundle one component |
| `Commit`, `DiscountGone`, `Resolve` | order number, insert, redemption, `markCartConverted`; the 409s; the winner's order for a payment intent |
| `DeadlockVictim`, `Crash` | PostgreSQL's deadlock detector; a dead process |
| `Pay`, `Cancel`, `RestockBegin`, `RestockStep`, `RestockCommit` | `transition()`, then the listener's own transaction, line by line |
| `Reserve`, `Release`, `Expire`, `Sweep` | `InventoryService` |
| `EditCart`, `Abandon`, `Flush` | `CartRepository.mutate`, `CartService.abandon`, `CartFlushRepository.flushDirty` |
| `SetStock`, `ToggleBundle` | an admin's stock count, a product becoming a bundle or back |

### Payments

`status`, `rows` and `manualRow` are `orders.status` and `payments`; `log` is `payment_events`;
`jobs[w]` is what a running handler has read (`seen` is the order status of its unlocked read).
`CheckPayable`, `Mint`, `StoreIntent` are the three parts of `createPaymentIntentForCart` that
other actors can run between; `PayManually` and `RecordManual` the two of `recordManualPayment`;
`Claim`, `ReadOrder`, `RecordPayment`, `MarkPaid`, `Reconcile`, `RecordFailure`, `MarkProcessed`
the statements of `processWebhook` and its handlers. Stripe is `intent`, `key`, `offered`,
`sent`. `alerts` stands for the error log lines that ask for a manual reconciliation, the only
trace the code leaves of them.

### Refunds

`status` and `refunded` are the order's; `row` is `refunds` with its line items (`plan.units`)
and its deferred payload (`deferred`, `target`, `drive`); `notes` counts credit notes, `shelf`
the units put back. The name of a gateway refund is the idempotency key of the request that makes
it. `LockForRefund`, `CallGateway`, `Commit` are `RefundService.create` for an admin: the order
row stays locked over the gateway call, and every other transaction waits (`lock = Nobody`).
`FindRefund` is `reconcileGatewayRefund`'s unlocked read, `ReadRefund` the second read in the
transaction but before the lock, `ApplyDeferred`, `BackOut`, `Restate`, `CreateExternal` the four
things it may do. `Dashboard` and `Decide` are the gateway and the bank.

### CartStore

| state | code |
|---|---|
| `blob`, `dirty` | the cart's key and its entry in the dirty set |
| `row` | `carts` and `cart_items`, as `rowsToState` reads them |
| `hold` | the cart's live `inventory_reservations` |
| `req[w]`, `flush[f]` | where a `mutate` or a flush stands, and the state it has read |

A cart state is its lines, its status and the set of the edits in it; `updatedAt` is the latest of
them. `Ask` and `Watch` begin an attempt; `ReadMiss`, `Load` and `Warm` are the lazy refill of an evicted
blob; `Mutate` runs the mutator with its `reserve` or `release`; `Refuse` is its exception; `Commit` and
`ExecAborts` are EXEC; `Reconcile` is the compensation after the last attempt and `GaveUp` the 409;
`Fail` is an error in Redis or Postgres. `FlushFind`, `FlushFill`, `Upsert`, `Compare` and `Clear`
are the statements of `flushDirty`, `FlushFails` its catch. `Evict` and `Lapse` are Redis and the
sweeper of reservations.

### CartLogin

`blobs`, `rows` and `toFlush` are `blob`, `row` and `dirty` of several carts, with the owner (the names differ
so that `CartProofs` can extend both modules); `copy` is a blob a flush has read; `login[l]` is one
login. `Begin` reads the guest's cart; `Claim` is the conditional UPDATE of `claimCustomer` and `Adopt` its
copy in Redis; `FindWinner` and `CheckWinner` look for the customer's own cart; `TryAbandon`,
`Capture` and `Join` are the merge: the row is abandoned in Postgres, the blob is emptied, the
items are added to the winner. `Add`, `Abandon`, `FlushRead` and `FlushWrite` go on meanwhile; `Die` is a
login cut short.

### WebhookDelivery

`sub` and `row` are the two tables; `fan` is an event on its way through its process's memory;
`lock` is the session that has the advisory lock; `job[n]` is a `processDue`; `receiver` is what the
subscriber saw. `Emit`, `ListActive` and `InsertMany` are `enqueue`; `TryDrainLock`, `ClaimDue`, `Abandon`
(a subscription that is gone), `Send`, `Answer`, `RecordResult` and `Release` are `processDue`; `Retry`
is the admin's. Time is relative: a row knows how far its `next_retry_at` is away, and `Tick` is
held up while a POST is at its deadline or the batch has used up its `Work`, which is what `leaseMs()`
is computed from. `LoseSession`, `RecordFails`, `Crash` and `ChangeKey` are the faults.

### Fulfilment

`order` is the status and `fulfillment_frozen`, `lock` its row's `FOR UPDATE`, `task[s]` a staff
request, `job[w]` a delivery of a dispute event; `case`, `sent` and `gw` are Stripe; `dispute`, `ret` and
`refund` are tables. `BeginMove` and `Move` are `transition()`: the checks under the lock, then the
update. `BeginDispute` is `onDispute` up to its reads under the lock, `HandleDispute` its writes. `Claim` is
the compare-and-swap of `approve`, `LockOrder`, `CallGateway` and `Book` are `RefundService.create` inside
it, `Revert` and `Finalise` its two ends; `Settle`, `RecordRefund` and `SettleRefund` are the
gateway's news. `DieStaff`, `RollBack` and `DieWorker` are the faults.

### Invoices

`docs` and `next` are `invoices` and `invoice_counters`; `held` is the lock on a counter, `row` the lock on
an order, `work[p]` a running issue, `stage[r]` a refund. `Check` is the unlocked look for an
invoice, `Recheck` the one in the transaction, `LockCounter` and `CreateCounter` the number,
`Insert` the wait on the unique index, `Commit` the end of the transaction. `LockOrder`, `Note`, `Defer`,
`Confirm` and `Resolve` are a refund: its credit note at once, or deferred until it is confirmed, and
the back-issue when there is no invoice yet. A process that issues inside another's transaction is a
process of its own, since `issueForOrder` takes another connection. `Fail` rolls back, `Die` kills.

### ModuleRuntime

`row`, `enabled`, `files` and `home` (role and schema) outlive the process; `pool` (the module's database
client), `host` (the map of `WorkerHost`), `bus`, `op` and `watch` do not; `child` are the forked
processes. `Insert`, `ClearDir`, `PlaceDir` and `Unclaim` are `install` and its catch; `FindToEnable`,
`Provision`, `RotateCredential`, `Start` and `FlagOn` are `enable`; `StopToDisable` and `FlagOff` `disable`;
`FindToUninstall`, `StopToUninstall`, `Unflag`, `DeleteRow`, `RemoveDir` and `Deprovision` `uninstall`; `Ping`,
`Answered`, `PingTimeout` and `WatchdogFlagsOff` `checkLiveness`. `Subscribe`, `Hang`, `Crash`, `Exit`
(the last message of a child) and `Leave` are the workers, `Restart` the API.

## 4. What the runs check

| run | properties | what it shows |
|---|---|---|
| `checkout_holds` | `NoOversell`, `NewHoldsCovered` | stock is not oversold and no unit is promised twice, whatever expires, is swept or is counted by an admin |
| `checkout_ends` | `OrdersMatchConversions`, `IntentsAgree`, `RedemptionsWithinLimit`, `PlainLinesNeverDeadlock`, `RequestsEnd`, `ImplementsOrderBook` | the row locks do their work under double submits, flushes and crashes; requests and restocks end; the locked transactions implement `OrderBook` |
| `payments` | `CaptureNotForgotten`, `PaidIsCaptured`, `CapturesSettle` | no capture is left without its effect |
| `refunds` | `ReservationsBalance`, `CreditNoteIsConfirmed`, `ReturnedWithinOrder`, `EventsSettle`, `ImplementsLedger` | reserved money, credit notes and units agree with what the gateway confirmed; a refund is settled once and for all (`RefundLedger`); no refund event is poison |
| `fulfilment` | `TypeOK`, `DisputeFollowsStripe`, `OneFreezePerDispute`, `ReturnMatchesMoney`, `NoFrozenShipment` | what is frozen does not ship, a dispute row keeps up with Stripe, a return ends refunded only with its money; nobody waits for ever on the order's lock |
| `invoices` | `BooksInOrder`, `IssuersEnd` | numbers without a gap, notes that correct an invoice, and every issuer ends unless a confirmation hangs on itself |
| `carts` | `AckedEditsKept`, `HoldsFollowCart`, `UnsavedIsFlagged`, `EditsReachPostgres`, `ImplementsRegister` | while Redis keeps the blob no acknowledged edit is lost and the cart is one register (`CartRegister`); holds follow lines, edits reach Postgres |
| `logins` | `OwnersAgree`, `AdoptedNotCaptured`, `ItemsInOnePlace` | the claim of a cart has one winner, an adopted cart is not taken over, merged items are in one cart |
| `webhooks` | `TypeOK`, `SentByOne`, `LogIsTrue`, `DeliveredStays`, `DeliveriesSettle` | one drain sends a delivery at a time, its log is true, what is queued settles |
| `modules` | `WorkersAgree`, `FilesMatchRow`, `ClientKept`, `HungWorkersEnd` | no stray worker, no client closed behind a later enable, no row without its files, no hung worker for ever; no deadlock |
| `credit_note_twice` | `CreditNoteOnce` (violated) | section 6 |
| `units_restocked_twice` | `RestockedOnce` (violated) | section 6 |

The type invariants of `Checkout`, `Payments`, `Refunds`, `CartStore`, `CartLogin`, `Invoices` and `ModuleRuntime` are in no run
because they are proved (section 5).

### Bounds

- `checkout_holds`: two carts and requests, two variants; a bundle takes two units, the stock is
  two, so that a hold, a checkout and a restock compete for the same units and a count of one
  undercuts them. One admin count and one bundle flip. Variant 1 may be backordered.
- `checkout_ends`: two carts, two requests (on the same cart or not), three variants of which one is a
  bundle of another, two units each, one edit before the flush, both outcomes, a discount for one
  order. No holds: they are the other run's. No bundle flip: with one, the restock may return other
  units than were taken, which `OrderBook` does not allow (section 6). Three requests on two carts, two
  of which meet on one while the third works on the other, were checked for the safety properties with
  the same configuration and `Requests = {r1, r2, r3}` (540k states with symmetry).
- `payments`: one intent, two deliveries at once, one that dies, one client. A second intent
  matters only for the double collection (section 6), which a manual record finds too.
- `refunds`: two refunds of one unit and its shipping, asked for by line or made on the dashboard, one
  delivery at a time, one death. Two refunds are what it takes for one to reserve what another computes from,
  and the second need not fit. Two deliveries at once and asks for a line or the whole order over two units
  were checked by hand (4.4M states with symmetry), together with the inductive invariants of `RefundsProofs`,
  which hold for every size.
- `units_restocked_twice`: three refunds, because one must be rejected to let two others fit.
- `fulfilment`: two staff, two deliveries, one dispute that is lost, two returns that compete for two
  units, one fault. With all three verdicts it is 10.0M states and holds.
- `invoices`: two orders, one issuer, two refunds (each may become an issuer), two faults. Two issuers and one
  refund were checked by hand.
- `carts`: two requests with two attempts each, one flush, one variant, two edits, one fault. Two
  flushers at once were checked by hand (5 minutes), and so were, with one attempt each and the inductive
  invariant of `CartProofs`, two flushers (12.1M states) and three edits (6.9M states), where a compensation meets a hold
  that ran out. Two variants with one attempt each, so that an edit might touch the wrong line, are 3.1M states.
- `logins`: three logins of two customers, two carts, two items, a crash. The properties compare two carts or
  two logins; three carts, four logins and one customer were checked by hand (1.4M states).
- `webhooks`: one event for two subscriptions, two instances, a batch of two, one backoff: a full batch
  whose second POST starts when the first has used up its time is what the lease is sized for.
- `modules`: two admins, two workers (a predecessor and its successor), two installs, a fault, a restart.
  Three workers were checked by hand (1.6M states).
- A client sends each request once; `MaxEdits`, `MaxCounts`, `MaxToggles`, `MaxCrashes`, `MaxTries`, `MaxItems`,
  `MaxFaults`, `MaxRetries`, `MaxInstalls`, `MaxRestarts`, `MaxWorkers` bound what would go on for ever;
  `Unflushed` says which carts were edited just before the run.

Interchangeable values are symmetry sets where no liveness is checked. `CHECK_DEADLOCK FALSE` is said where an
instance comes to an end when its requests are answered, and in `invoices` because of the one hang that is
known. `fulfilment` and `modules` are checked for deadlock.

### Fairness

- `Checkout`: weak fairness of `Serve(r)`, the server's own steps of a request. Postgres runs a
  statement whose locks are free and aborts one transaction of a deadlock, so a step that stays
  possible is taken. Clients, admins, the clock and the flush are not fair.
- `Payments`: weak fairness of `Claim` for each event (Stripe repeats an event until it is
  answered with 200) and of `Handle(w)` (a statement that was issued returns). Customers,
  admins and the sweeper are not fair.
- `Refunds`: the same two, and `Request(r)`: a gateway call returns or times out, so the order's
  lock is not held for ever. Lock queues in Postgres are first come, first served, and requests are
  repeated a bounded number of times, so weak fairness is enough.
- `Invoices`: weak fairness of the steps of a process that has begun. No order need be paid, no refund
  asked for or confirmed.
- `CartStore`: weak fairness of the flush, which a timer repeats. No request need go on.
- `WebhookDelivery`: weak fairness of time, and of `DrainStep(n)`: the cron fires every 30 s and a POST has a
  deadline. Nobody need subscribe, emit or retry.
- `ModuleRuntime`: weak fairness of the watchdog (an interval of 30 s, a timer of 5 s, an update that
  returns) and of a killed child's exit (SIGKILL after 2 s). No admin and no worker is fair.

## 5. What is proved

Every theorem holds for all values of the constants that satisfy the module's one named assumption
(`CheckoutAssumption`, `CartAssumption`, ...), which states the types of the constants and the finiteness of
the sets that are counted.

**`CheckoutProofs`**: `TypeCorrect`, `LocksProtectStock`, `NeverOversold` (`Spec => []NoOversell`). `NoOversell` is
not inductive: `Commit` subtracts what the transaction took some steps earlier, and nothing in the stock
says that it is still there. `LockInv` does: no two transactions lock a variant (`LockExclusive`), units
are taken only of locked variants (`TakenIsLocked`), only running transactions lock (`OnlyWorkLocks`), and a
checkout has taken no more than the committed stock (`TakenIsCovered`). The last is kept because
everyone else who writes `stock[v]` has to hold the lock of `v`.
Four more results stand on it:

- `StoryAlways`, `OrdersAreCounted` (`OrdersMatchConversions`), `LimitRespected` (`RedemptionsWithinLimit`),
  `IntentsAlwaysAgree` (`IntentsAgree`). In `StoryInv` a checkout works on an active row that no
  other checkout works on (`CartHeld`, `CartExclusive`), an answer is an order of the cart that was asked about
  (`Answered`), and the orders, a finite set, are as many as the conversions (`CountInv`).
- `WorkAlways`, `PlainLinesCannotDeadlock` (`PlainLinesNeverDeadlock`). `WorkInv` says that a
  transaction does its steps in order (`InOrder`), and has taken exactly what the steps it has done ask for
  (`Counted`). Without bundles the order of the steps is that of the variants: who waits for one has locked only smaller
  ones, so a circle of waiting requests has no least variant among those waited for.
- `HoldsAlwaysCovered` (`NewHoldsCovered`), an action property: what `Reserve` counts under the variant's lock is
  a cardinality, and the step adds at most what is left.
- `ImplementsTheOrderBook`: every step of `Checkout` is a step of `OrderBook` or a stutter, one lemma per action, if
  `MaxToggles = 0`; a product that becomes a bundle in between breaks it (section 6). `BookInv` says that an
  order which may still come back to the shelf took what its lines ask for (`UnitsKept`), and that it comes back
  once (`OwedOnce`).

**`RefundsProofs`**: `KnownAlways`, `RefundsTyped` (`TypeOK`), `NotesAlwaysConfirmed` (`CreditNoteIsConfirmed`) hold
whatever the deliveries do: an answer or an event tells of what the gateway has sent, a handler touches recorded
refunds only, and what an admin computed under the order's lock still fits when it is committed (`KnownInv`).
`OnceAlways`, `BalanceKept` (`ReservationsBalance`), `CreditedOnce` (`CreditNoteOnce`) and `UnitsReturnedWithin`
(`ReturnedWithinOrder`) hold if `Overlap = FALSE`; `credit_note_twice` shows that they need it. `OnceInv` says that
the refund a handler has read is still open when it gets the order, so that each reservation is settled once, and
that the money reserved and the units on the shelf are the sums over the rows (`Ledger`). A sum over refunds is the
cardinality of a set of pairs (a refund, a unit of its share): so one lemma, `SumChanges`, says what becomes of a sum
when one share changes, without an induction.

`ImplementsTheLedger` (`ImplementsLedger`), if `Overlap = FALSE` too: every step of `Refunds` is one of `RefundLedger`
or a stutter. A refund's entry is read off its row and its notes (`EntryOf`). `Commit` and `CreateExternal` reserve it
or credit it at once, `ApplyDeferred` credits and `BackOut` releases what is reserved; a retry, a second event and a
status restated are stutters. That `BackOut` gives back exactly what was reserved, although the code floors it at 0, is
where the sums are needed (`ReservedEntry`). The ledger does not say which answer of the bank ends a reservation:
`CreditNoteIsConfirmed` does, for the credits.

**`PaymentsProofs`**: `PaymentsTyped`, `CapturesHaveEffect` (`CaptureNotForgotten`), `OnlyCapturesPay`
(`PaidIsCaptured`). The handlers read the order without a lock, so the invariant of
`StaleReadsHold` says why that is enough: an order does not return to `pending_payment`, its payer stays, and
a capture is final, so what a delivery saw, other than `pending_payment`, is still true when it acts.

**`CartProofs`**, of logins: `PostgresArbitrates`, `LoginsTyped`, `LosersNeverOwn` (`OwnersAgree`),
`StrangersNeverCapture` (`AdoptedNotCaptured`), `ItemsKept` (`ItemsInOnePlace`). Redis has no condition that would keep two
logins apart. The invariant follows a login from the row it has claimed or abandoned to the blob it has
yet to change, and shows that between the two no other login can pass the row.

Of the store: `StoreTyped` (`TypeOK`), `NoEditIsLost` (`AckedEditsKept`), `HoldsAreTheLines` (`HoldsFollowCart`),
`UnsavedStaysFlagged` (`UnsavedIsFlagged`), all from `StoreInv`, whose parts say:

- `WorkFits`: a WATCH that still stands is of the state the attempt read, so EXEC puts one edit on top of all the
  others (`AckInv`);
- `HoldInv`: a hold is its line unless an edit still at work has moved it, and an edit about to commit will list
  what it reserved, unless another at work has moved the same hold since. Committing then gives the hold back to
  the line; giving up makes what was moved `astray`;
- `Histories`: of all the copies of the cart (the blob, the row, what requests and flushes have read or made), two
  with the same latest edit contain the same edits. That is what the comparison of `updatedAt` in `flushDirty`
  relies on, and why a flush that goes on to clear the flag has saved the blob, or passes over an edit that is
  `unseen` (`FlagInv`).

`ImplementsTheRegister` (`ImplementsRegister`): every step of `CartStore` is one of `CartRegister` or a stutter, until Redis
drops the blob, after which the register is `Lost`. An edit about to commit is its operation on the state it read
(`EditInv`), and line ids are unique (`LinesInv`), so an operation on an id is an edit of one line. A commit is the
only step that is not a stutter (`CartStays`).

The proof corrected the model. `Reconcile` used to end the exception for a hold that had run out, but a compensation
that finds the other carts have taken the stock restores less than the line asks for, so `HoldsFollowCart` does not hold
of that variant again before an edit reserves it; the bounds of `carts` never reached the state.

**`FulfilmentProofs`**: `RowLockProtects`, `DisputesFollow`, `FreezesOnce`, `NothingFrozenShips`,
`ReturnsMatchMoney`, `NeverRefundedPastTotal` (`TypeOK`). The first says that who is about to ship has the order
locked and saw it unfrozen; the second and third that what a delivery read under the lock is still the dispute's row;
`ReturnsMatchMoney` follows a return from its claim to its refund and needs that one request at a time works on it.
The last adds `MoneyInv`: whoever has checked a refund under the order's lock (`Planning`) still finds it to fit
when he books it, because a delivery books only when the order is free and a new request for a return touches
none that is being worked on.

**`InvoicesProofs`**: `NumbersAreLocked`, `InvoicesTyped`, `BooksStayInOrder` (`BooksInOrder`). Who carries a number
holds its counter, and the number is the first free one; so the commit adds the next number and nothing
else. An invoice is never deleted and stays the only one of its order, so the number a refund resolved
is still that of its order's invoice when the note is issued.

**`ModuleRuntimeProofs`**: `TurnsAreAtomic`, `RuntimeTyped`, `NoStrayWorker` (`WorkersAgree`), `RegistryMatchesDisk`
(`FilesMatchRow`), `WorkerKeepsItsClient` (`ClientKept`). Nothing locks here: the invariant says what every turn of the
event loop leaves behind, in particular that a worker is out of the map before it is told to die, and that the
ping of a disposed handle is rejected in the same turn. So the watchdog cannot disable the successor of the
worker it pinged.

**`WebhookDeliveryProofs`**: `LeasesOutlastBatches`, `NoDoubleSend` (`SentByOne`), `NoLateResult` (`DeliveredStays`),
`LogTellsTheTruth` (`LogIsTrue`). While the session of the drain lock lives, one instance works (`Alone`). When it
dies the lease does the lock's work: a claimed row waits longer than its batch can still take (`Leased`: the unsent
deliveries times the deadline, what is left of the POST in flight, and the rest of the work), because a full batch fits
into the lease with slack to spare, so that no other claim finds the row due; only an admin's retry shortens the wait.
Hence nobody else holds the delivery (`OneHand`), and who records a result records it over a row that is still
claimable (`Unsettled`). The log is true by a second invariant (`LogInv`) on top of it: every attempt a row counts was
sent, or the subscription has no readable secret, and so for every claim and every POST in hand. `WebhooksTyped`
(`TypeOK`) is a third (`BoundInv`): an attempt beyond the schedule takes an admin's retry, and nobody waits
longer than the lease or the longest backoff.

Only model-checked:

- liveness (`RequestsEnd`, `CapturesSettle`, `EventsSettle`, `IssuersEnd`, `EditsReachPostgres`, `DeliveriesSettle`,
  `HungWorkersEnd`): fairness is defined by ENABLED, which is out of the prover's reach.

Every other property of a passing run is a theorem.

## 6. Where the code and its comments disagree

Two runs find one each.

`credit_note_twice`: two deliveries that confirm one deferred refund
both pass the check that precedes the order lock (`payments/refunds/refund.service.ts:521`); both issue the
credit note and restock, although the comment promises that the effects are replayed once. `Overlap` says
whether two deliveries about one refund may run at once: the other runs of `Refunds` say no, to show that the
code is right then.

`units_restocked_twice`: a full refund restocks all the units of the order that no earlier refund has returned, but
records no line items (`payments/refunds/refund.service.ts:757`). If its remainder was only part of the price, since
another refund was still pending, and the bank rejects that one later, the next full refund finds no unit recorded and
restocks them all again. It came up in the attempt to prove that units never exceed the order: the step of a full
refund could not be proved. `ReturnedWithinOrder` says what does hold: it is so as long as every recorded
refund stands, that is, none was rejected.

The others were found while modelling. The models contain the behaviour; where a property would be
violated, it names the exception, so that it still holds of everything else.

Orders and payments:

- A cart edited just before its checkout is flushed after it; the upsert (`cart/cart.repository.ts:385`)
  writes `active` over `converted`, and the cart can be ordered again, against
  `orders/order.repository.ts:288` ("at most one order exists"). `OrdersMatchConversions` counts the conversions.
- Lines are locked in the order of their ids, a bundle's components at the bundle's place
  (`orders/orders.service.ts:243`); two such orders can wait for each other, which `:228` calls impossible. Postgres ends
  one of them, so nothing is lost. `PlainLinesNeverDeadlock` is what the comment's argument does give.
- A manual record is paid before its payments row exists; a card capture in between, or after the insert
  failed, is taken for a replay and not reported (`payments/payment-webhook.service.ts:209`), against `:211` ("surface
  it LOUDLY").
- Events that arrive after the success write `failed`, `processing` or `pending` over it (`:268`).
- The restock listener expands bundles as they are at cancellation, so a flip in between returns other
  units; a restock is lost with the process that holds its event.

Refunds, returns, disputes, invoices:

- Of two deferred refunds that make up the total, the one confirmed first drives the order to `refunded`, which
  is terminal; the bank rejects the other, and no admin can refund it again (`refund.service.ts:174`).
- A late `pending` event takes a settled refund's row back to `pending`; a dashboard refund reported before the
  rejection that frees its money is dropped as "already covered"; a confirmation that arrives while the
  admin's own transaction is open finds no row, then a duplicate, and is lost.
- `approve` gives the return back to `requested` when `create()` failed, also when the gateway had already paid
  ("The refund did NOT happen", `returns/returns.service.ts`); the webhook then records the refund, and
  every later `approve` ends in 409. A crash leaves it `approved`; a pending refund that the bank rejects leaves
  it `refunded`. `ReturnMatchesMoney` names the torn ones.
- A dispute whose `updated` or `closed` is heard before `created` never freezes its order; a
  `warning_closed` leaves the dispute open; one flag is shared by all disputes of an order; a partially refunded
  order cannot be fulfilled or shipped any more.
- `applyDeferredRefund` (`refund.service.ts:538`) holds the order `FOR UPDATE` and, when there is no invoice yet,
  awaits `issueForOrder`, which inserts on another connection and waits for that very lock (its foreign key).
  PostgreSQL sees no deadlock, since the first connection is idle; it holds the counter meanwhile, so no
  invoice of the tenant is issued. `IssuersEnd` names this case (`Hung`).

Carts:

- A refill that was read before an edit and an eviction is written by an unconditional SETEX (`cart.repository.ts:88`)
  over the edit (`AckedEditsKept` holds until an eviction).
- An edit between the flush's comparison and its SREM, or two flushers, leave an edit that nothing flags as
  unsaved (`unseen`). After an EXEC that aborted, the compensation reconciles to the state of the attempt
  that read last (`astray`); an error after a reserve leaves a hold without its line.
- A flush makes an abandoned row active again (`reopened`); without that exception `AdoptedNotCaptured` is violated. A cart
  adopted in another login of the same customer can be captured by a merge whose winner was abandoned in the
  meantime: its items are lost with a 409.

Webhooks and modules:

- The fan-out happens after the commit, in memory: a crash, or a subscription deleted between the list and the insert, loses
  the event for every subscriber, where `database/schema/webhook_deliveries.ts:17` speaks of a
  transactional outbox.
- Enabling a module that runs rotates its credential and opens a client, `start` throws, and the catch closes the
  client: the worker goes on without a database, against "so `tables.*` works the moment the worker
  runs" (`modules/runtime/module-runtime.service.ts`). An enable that overlaps an uninstall leaves the worker of a module
  that is gone; the uninstall's removal of files can hit the next install's; a crash in the middle of
  an install leaves a row without files, against "so the registry never references a module whose files were
  never written" (`modules/modules.service.ts`). After an install or a restart a module is enabled without a
  worker. A `setEnabled(false)` that is late leaves the flag off beside a running worker.

## 7. Plan

Built: all modules of section 2. What is left, in this order:

1. Proofs: that the refunds of `Fulfilment`, where an event is one step, keep the ledger (`RefundLedger`) that those
   of `Refunds` are proved to keep.
2. Larger instances for the refunds: a second order line, a third delivery.
3. Models: the category tree (the depth read at a create is not under the lock that a move takes), the search
   index (asynchronous updates that may overtake each other), the installation of themes (as the module's), the
   installation flow of the setup wizard, the rotation of refresh tokens.

## 8. Not modelled, and why

- Amounts: prices, tax, shipping, rounding and currencies. No control depends on them in checkout and
  payments; in `Refunds` and `Fulfilment` a unit costs 1, so the cumulative rounding of `lineRefundAmounts` and the
  tax of credit notes are left out.
- Checkout: availability events, low-stock reads, guest tokens, shipment states. `allow_backorder`
  is a constant although an admin may change it. The sweeper deletes expired rows in one step, and
  skips no busy ones. Deleting a bundle under a reservation is left out. `Flush` is one step per
  pass: its reads, upsert, comparison and dirty-flag removal have the same effect on the status;
  their effect on contents is in `CartStore`.
- Payments: one event per type and intent, so a second decline sends nothing; amounts that do not
  match; the age threshold and the batch size of the sweeper.
- Refunds: `charge.refunded` and `refund.updated` with the same news are one event. One order line. A refused
  request is not asked again under its key. A manual payment's refund is one without gateway, and a
  provider reply that changes under a key is left out.
- Fulfilment: one order line; a refund event is one step; photos, reasons and e-mails.
- Invoices: snapshots, tax, PDF and e-mail; legacy orders; one tenant.
- Carts: two edits never fall into one millisecond; the other carts that share a stock are a nondeterministic amount;
  `deleteExpiredCarts`, the item cap and the age of a blob; two logins of one customer submitted twice, which
  leave the session token in Postgres and in Redis different.
- Webhooks: signing, SSRF checks, the list of deliveries; the events of one tenant.
- Module runtime: the archive's verification, migrations, the HTTP proxy, event payloads; the limit on deliveries in
  flight, which a repeated subscribe resets; the children of a crashed API, which notice only when
  their channel closes.
- Everything listed as `not_modelled` in `PROJECT.json`: CRUD with single-statement updates (catalog,
  customers, tax and shipping configuration, users and roles), request-local checks
  (authentication, permissions, validation), external lookups (VIES), rendering (invoices as PDF,
  e-mails), read models (search, statistics), file storage, the setup wizard, and the front ends and
  SDKs, which are most of the repository's lines. But for the parts that item 3 of section 7 names, they keep no
  state that concurrent actors change in several steps.

## 9. Running

`tlc -config CheckoutEnds.cfg MCCheckout.tla` (and so on, the module and configuration of a run are in
`PROJECT.json`); `tlapm CheckoutProofs.tla`. The runs take from ten seconds to three minutes, the proofs a few minutes.
