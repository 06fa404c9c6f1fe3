# Formal model of the ORE delivery platform

TLA+ specifications of the ORE backend, model-checked with TLC and, in part,
proved with TLAPS. The repository is a TypeScript monorepo (`src/apps`,
`src/libs`) of fourteen NestJS services, an admin console, and Flutter front
ends. This project models the services' core logic: how an event gets from one
service's database into another's, what the life of an order is when requests,
timers and event handlers run concurrently, how it finds a rider, how a cart
becomes orders and a charge, and what becomes of the money.

All source references below are relative to `src/`.

## Contents

| Module | Kind | Models |
|---|---|---|
| `Outbox` | component | `libs/core/src/outbox.ts` |
| `ConsumerDelivery` | component | `libs/bus/src/nats.bus.ts`, `libs/core/src/consumer-dedupe.ts` |
| `OrderMachine` | abstract specification | `apps/order/src/state.ts` |
| `OrderLifecycle` | component | `apps/order/src/order.service.ts`, `order.consumers.ts`, its partners in catalog, payment and dispatch |
| `OrderProofs` | proofs | about `OrderLifecycle` and `OrderMachine` |
| `DispatchOffers` | component | `apps/dispatch/src/dispatch.service.ts`: attempts, offers, assignments, riders |
| `DispatchProofs` | proofs | about `DispatchOffers` |
| `CheckoutSaga` | component | `apps/cart/src/checkout.service.ts` behind `libs/core/src/idempotency.ts` |
| `CheckoutProofs` | proofs | about `CheckoutSaga`, `CatalogStock`, `CheckoutPayment` and `LedgerPosting` |
| `CustomerMoney` | component | `apps/ledger/src/ledger.service.ts`: customer credit, loyalty, disputes, chargebacks; `apps/referral/src/referral.service.ts` |
| `CustomerMoneyProofs` | proofs | about `CustomerMoney` |
| `CatalogStock` | component | `apps/catalog/src/catalog.service.ts`: stock reservations, promotion redemptions |
| `CheckoutPayment` | component | `apps/payment/src/payment.service.ts`, `webhook.service.ts` |
| `LedgerPosting` | component, composed with `CheckoutPayment` | `apps/ledger/src/ledger.service.ts`, `tax-engine.service.ts`: captures, releases, refunds, reviews |
| `VendorPayout` | component | `apps/ledger/src/ledger.service.ts`: vendor earnings, settlements, reserve, withdrawals |
| `RiderWallet` | component | `apps/ledger/src/ledger.service.ts`: rider earnings, cash, withdrawals |
| `DualControl` | component | `apps/auth/src/approval.service.ts`, `libs/core/src/approval-gate.ts` |
| `PayoutProofs` | proofs | about `RiderWallet`, `DualControl` and `VendorPayout` |
| `IntervalLock` | component | `libs/jobs/src/inprocess.scheduler.ts`, `libs/core/src/leader-lock.ts` |
| `CoreProofs` | proofs | about `Outbox`, `ConsumerDelivery` and `IntervalLock` |
| `CallBreaker` | component | `libs/core/src/breaker.ts`, `libs/core/src/http.ts` |
| `SupportThread` | component | `apps/comms/src/comms.service.ts`, `ai/support-ai.service.ts`, `ai/ai.agent.ts`, `support-admin.service.ts` |
| `Onboarding` | component | `apps/onboarding/src/onboarding.service.ts`, the document verification and its webhook, the store or rider an approval creates |
| `FrontDeskProofs` | proofs | about `SupportThread` and `Onboarding` |
| `SumTheorems` | proofs | sums over finite sets, for the books of the components |
| `MC...` (`.tla`, `.cfg`) | instances | one module per run or pair of runs |

Run a model with `tlc -config X.cfg M`, check proofs with `tlapm M.tla`.
`PROJECT.json` maps every definition to the lines it translates and lists runs,
mutants, findings, hazards and theorems.

## The system

Every service has its own Postgres database. Services talk in two ways:
synchronous internal HTTP calls (`internalFetch`) and events over NATS
JetStream. A request enters through the gateway; timers are BullMQ jobs on
Redis; repeating jobs take a leader lock.

```
  checkout (cart) --HTTP--> order --HTTP--> catalog (stock, promotions)
        |                     |  ^
        |      order.* events |  | payment.charge_succeeded, dispatch.rider_*
        v                     v  |
     payment <--- bus ---> dispatch, ledger, notification, analytics, referral
        |                     |
     Paystack              ledger --HTTP--> payment (transfers), auth (approvals)
```

One trait of the code decides most of what can go wrong, and most of the
modules are built around it: **a handler reads an entity, awaits something, and
saves the whole entity**. TypeORM's `save` writes every column in which the
entity differs from the stored row, so a save from a stale read puts old
columns back. Rows are locked in a few places only, `@VersionColumn` is
incremented and compared nowhere, and a conditional `UPDATE` protects the row
it claims, not the rows read before it. A module takes such an operation in two
steps (or as many as there are awaits that matter), and records a stale save in
a history variable, so that its properties say exactly what holds without one
and what holds regardless.

### Components

For each: its state, its operations, what is hard, and what makes it correct.

**Outbox** (`libs/core/src/outbox.ts`). State: rows of `ore_outbox` (status,
attempts, age). Operations: enqueue in the business transaction, claim a batch,
publish, mark sent or failed, copy to the dead-letter subject. Hard: cycles
overlap (an interval timer per replica that does not wait), old claims are taken
over, any statement can fail, the process can die anywhere. Correct: nothing is
lost as sent; every row settles; duplicates only after a failure; a buried event
has used its attempts. *Modelled, proved.*

**Event bus and consumer dedupe** (`libs/bus`, `libs/core/src/consumer-dedupe.ts`).
State: the stream, the durable consumer's deliveries, each process's loop, the
dedupe table and its in-process cache. Operations: subscribe, deliver, verify the
signature, take the claim, handle, acknowledge or nak, give the claim back,
dead-letter. Hard: redelivery during handling, acknowledgements lost, two
processes binding one durable, claims outliving their process. Correct: effects
once, no envelope acknowledged unhandled, forged envelopes never handled.
*Modelled, proved (the in-process bus, which does not redeliver, is not).*

**Order lifecycle** (`apps/order`). State: the order row (status, rider), jobs,
its stock reservation. Operations: vendor, customer, rider and admin requests,
three jobs, seven event handlers. Hard: handlers interleave at every await
without a lock; jobs race payments; rider events are unordered; some handlers
fail half way. Correct: statuses change along the table; no confirmation without
payment; no stock held by a dead order; events published once and never
contradictory; no wait without a timeout. *Modelled in part: gifts, laundry legs,
errand shopping and substitutions, wrong OTPs and forced admin transitions are
not.*

**Dispatch** (`apps/dispatch`). State: offers, assignments, rider status, jobs.
Operations: an attempt sends a wave of offers; accept, decline, expire, next wave;
release, pickup, delivery; pause, availability, admin assignment. Hard: competing
accepts, expiry against accept, a release racing a pickup, riders saved from
stale reads. Correct: a ready order is always with somebody or waiting for
something; a rider is OFFERED or ASSIGNED only with a reason; every offer ends.
*Modelled in part: grouped orders, rider blocks, prefetch, handoffs, penalties
and statistics are not.*

**Dispatch scoring and eligibility.** Pure scoring over distances; the order of
candidates is a nondeterministic choice. *Not modelled.*

**Cart and checkout** (`apps/cart`). State: the cart; the orders, redemptions,
credit and payment it causes elsewhere. Operations: checkout, a chain of remote
calls with one compensation. Hard: any call may fail, or succeed and not answer;
orders may end while the checkout still works on them. Correct: one purchase per
idempotency key, discounts only with a redemption, the charge is the price.
*Modelled in part: editing the cart, prices and their validation, gifts are not.*

**Idempotency keys** (`libs/core/src/idempotency.ts`). State: a row per key.
Operations: find, insert, poll, complete, clear. Hard: a handler that fails late,
a completion that cannot be stored, a process that dies. *Modelled.*

**Catalog inventory** (`apps/catalog`). State: stock counts, reservations,
promotion counters, redemptions. Operations: reserve, release, consume, redeem,
give back, each a transaction. Hard: two calls of one order. Correct: counters
agree with rows. *Modelled.* Menu, search, ratings, vouchers are not.

**Payment** (`apps/payment`). State: payments, refunds, webhook rows. Operations:
webhook ingestion and background processing, retry sweep, charge reconciliation,
refunds. Hard: webhooks before rows, the sweeper racing a slow processor, refunds
computed from a read before a remote call. Correct: a charge is noticed and
announced; refunds never exceed it. *Modelled in part: refund requests,
subaccounts and reports are not.*

**Ledger postings** (`apps/ledger`). State: journal entries by business key, tax
review cases, vendor and rider balances, settlements, withdrawals, transfers.
Operations: capture, release, abort, refund, reversal, review and replay; accrue,
settle, pay, finalise, reverse, withdraw, remit, adjust, approve, reject,
reconcile. Hard: events repeated and early, balance rows without a lock, transfer
results that overtake their row. Correct: posted once and in order; books agree
with rows, rows with transfers. For customers: credit and its log, points, disputes
and chargebacks; the same ref must not pay twice, an order's money goes back once.
*Modelled in part: guarantees and milestones, vendor statements and reports are
not; a locked period is a posting that fails.* Accounting and tax reports:
arithmetic over decimals, not modelled.

**Referral** (`apps/referral`). State: a row per claim. Operations: claim, qualify
on the first delivered order (two credits at the ledger, then the row), block.
Hard: two remote credits that repeat after any failure, a block in between.
Correct: both sides are paid once; a blocked claim is not. *Modelled in part: codes,
velocity and self-referral checks, the monthly cap are not.*

**Dual-control approvals** (`apps/auth/src/approval.service.ts`,
`libs/core/src/approval-gate.ts`). State: the approval row. Operations: submit,
sign, refuse, cancel, expire, claim, work, complete. Hard: signatures and claims
saved over each other. Correct: an executable approval is signed by others; a
decision stands. *Modelled, proved.*

**Comms and support** (`apps/comms`). State: the customer's thread (status, owner,
assignee, flagged teams), its participants, the messages. Operations: a message of
the customer's, the assistant's run in the background, and the console's claim,
invite, remove, reassign, reply, hand back, resolve, close, reopen. Hard: the run
outlives the request that started it and works on the row that request read; the
model, its tools and the process fail. Correct: every message ends in an answer or
a person; the owner keeps the conversation to its end. *Modelled in part: order
threads, voice, Telegram, content and service levels are not.*

**Onboarding** (`apps/onboarding`). State: the application, verification jobs,
webhook events; the store or rider in another service's database. Operations:
stages, document submission, callbacks, manual decisions, approval. Hard: results
come while the submission is under way, break off and come again; an approval is
two databases' work without a transaction. Correct: nobody goes live unvouched, an
approved application has one live row with its identifier, a result is not lost.
*Modelled in part: files, payout checks and statistics are not.*

**Scheduler and leader lock** (`libs/jobs`, `libs/core/src/leader-lock.ts`). State:
the advisory lock, which a transaction holds as long as the job runs. Operations:
a tick asks, runs, ends. Hard: the connection or the job fails while it runs.
Correct: one run at a time, but where the lock had failed. One-off jobs are the
timeouts of the order and dispatch modules; `DispatchOffers` has both backends'
rule for a job id that is used again. *Modelled, proved (BullMQ's repeated jobs are
not).*

**Circuit breaker** (`libs/core/src/breaker.ts`, `http.ts`). State: failures, opening
time, the half-open flag. Operations: attempts, answers, failures, retries. Hard:
calls from before it opened end during the probe. Correct: it closes again.
*Modelled.*

## Outbox

*State.* `status` and `attempts` are the columns of each row; `pc`, `todo`,
`cur`, `seen` are the locals of each running `relay()` (`batch`, `row`,
`row.attempts`); `stream` and `dlq` are the bus. `retried`, `stolen` and `faults`
are history.

*Actions.* Each database statement and each publish of `relay()` is a step:
`Claim`, `Publish`, `MarkSent`, `MarkFailure`, `PublishDlq`, and a failing
version of each. `Crash` ends a cycle at any point.

*Abstractions.* The age of a claim is not a number. A claimed row no cycle works
on may be taken over (it gets old); one a live cycle works on only if that cycle
is slow, which is a counted fault. `BATCH_SIZE` exceeds the number of events.

*Run* `outbox` (`MCOutbox`; with `IntervalLock` and `CallBreaker`, see there): two events, two cycles, MAX_ATTEMPTS = 2 and any two faults of
five kinds. Two cycles are what a take-over needs, and two attempts separate a
retry from the last one.

*Fairness.* `WF(RelayStep(r))`: the interval timer keeps starting cycles and a
cycle that does not crash runs on. A crash is not fair and is counted.
`Settles` depends on it.

*Proved* (`CoreProofs`, for all events, cycles, attempts and bounds): `TypeOK`,
`SentWasPublished`, `AttemptsDecide`, `DuplicatesExplained`, and the action
property `SentIsFinal` (a sent row stays sent unless its claim was taken from a
live cycle), which no run repeats. Where a type invariant is proved no run checks it again;
elsewhere it is the first conjunct of an invariant. The properties are not inductive alone.
`OutboxInv` adds what each cycle knows at each step: a published row is in the stream
(`PublishedInStream`), what it read is a lower bound of the column
(`SeenIsOld`), a row being buried is exhausted (`BuryingExhausted`), a row nobody
stole has one worker (`OneWorker`), and a row published by nobody's retry is
published once (`PublishedOnce`). *Model-checked only:* `Settles`.

## ConsumerDelivery

*State.* The stream and the durable consumer (`stored`, `acked`,
`inflight`, `count`, `bound`, `gone`), each process's loop (`buffer`, `loop`,
`current`), its cache of taken envelopes, the dedupe rows (`claims`), and what
became of each envelope (`applied`, `deadLetters`). History variables name each way an envelope may be lost or
applied again.

*Actions.* One per await of the `for await` loop: `Receive`, `RejectUnsigned`,
`Take` (and its false and its error), `Apply`, `Return`, `Release`, `Exhaust`,
`Nak`, `Ack`. The broker (external) delivers again after a nak or a late
acknowledgement, MAX_DELIVER times at most. `Rebind` is `subscribeWithRetry`,
which deletes and recreates the durable.

*Abstractions.* The business part of a handler is one database transaction that
may be followed by a failure; handlers that commit in several steps are a matter
of their own component. The retention sweep removes only rows the broker is done
with, since retention exceeds the redelivery window.

*Runs.* `consumer_delivery`: one signed envelope published up to twice and a
forged one, two processes (a replica, or old and new at a deploy), MAX_DELIVER
= 2, any two of nine kinds of faults. `consumer_claim_lost`: a finding about
`take()` and its release.

*Fairness.* `WF` of each process's loop, of some process subscribing, and of the
broker delivering each message it has. None is assumed of crashes, redelivery or
the relay. `EventuallyResolved` depends on it.

*Proved* (`CoreProofs`): `DeliveryTypeOK`, `AppliedOnce`,
`DeadLetterJustified`. `DeliveryInv` says who holds a claim: a running handler has a row
(`HandlerClaims`), no two processes run one envelope (`OneHandler`), what was
applied keeps its row unless it relapsed or expired (`AppliedKept`), and an
expired envelope is quiet (`ExpiredIsQuiet`). `NoSilentLoss` needs `LossInv` beside
it: what the broker is done with was applied, buried or lost in a named way
(`AckedIsDone`), and that in turn what is committed, what the cache says was taken,
what a claim stands for and what the sweep forgot (`CommittedIsApplied`,
`CacheIsHandled`, `ClaimIsHandled`, `OldIsGone`), since `take()` answers from the
cache and the claims. *Model-checked only:* `EventuallyResolved`.

## OrderMachine and OrderLifecycle

`OrderMachine` is the transition table as a specification: an order's status
changes along it, or (`confirmOtp`, one transaction) from anywhere on the way to
the customer to DELIVERED. `OrderLifecycle` instantiates it with
`status <- order.status`.

*State.* The row (`order`), the reservation (`stock`), scheduled jobs, published
events, events on their way (`mail`), and the part of dispatch and payment the
order talks to (`paid`, `offered`, `assigned`). A handler is a `plan`: the
sequence of awaited operations that its method performs after its first read and
guard. `Accept` for example is reserve, cancel the timeout, move, move,
schedule, publish. Handlers run their plans one operation at a time and
interleave. `transition()` is three steps, because it is: read and check
(`MoveRead`), catalog call (`MoveStock`), save (`MoveSave`).

*Saves.* `happened` records a save from a stale row as `"overwrite"`. Nothing in
the code prevents it; the properties therefore come in two forms: what holds as
long as no stale row was saved, and (`FollowsTheMachine`) what the table
promises outright.

*Failures.* `Throw` ends a handler: an event goes back to be delivered again,
`accept` gives the stock back, a job is lost (jobs are added without attempts).
`Crash` drops the rest of a plan. Each kind of fault happens once per behaviour.

*Abstractions.* `confirmOtp` is a transaction: its moves commit together
(`DeliverSave`); the row lock its first write takes is left out, which adds
interleavings and removes none. Notifications, audit rows, promotions and
addresses are data. Dispatch offers and waves are a choice (`Offer`);
`DispatchOffers` has them. Each catalog call is one step; `CatalogStock` has its
statements. A transition that ends an order calls the catalog twice, for the stock
and for the promotion: one step here, which may have given the stock back and fail
all the same; `CheckoutSaga` has the promotion's. `reported` bounds a rider to one
report of each kind. The failing removal of a job that is being processed is not
modelled. After a pickup the handler of a parcel reads the row once more and saves
it with the parcel's state; that is left out, and it is one more place for a stale
save, of which the properties say nothing.

*Runs.* `order_lifecycle`: two concurrent handlers (every race of the code is
between two) and one rider. The constraint `OneConcern` splits one order's life
where vendor and rider handlers would only multiply each other's states: a vendor
order is followed with a crash and a catalog failure until a rider is assigned;
an errand or parcel (paid, then READY_FOR_PICKUP) is followed with its rider to
the end, without faults and until a stale row was saved, after which the
properties about riders say nothing. 1.8 million states. `order_overwritten`: a
finding. Handlers are symmetric in the safety runs.

*Proved* (`OrderProofs`, for any handlers, riders and faults): `WaitIsTimed`,
`AbortIsSettled`, `AnnouncedOnce`, and `LegalUnlessOverwritten`, which says that
`OrderLifecycle` implements `OrderMachine` step by step as long as no stale row was
saved. None is inductive: each is about the row while the cause is in a handler's
plan. `OrderInv` therefore says which operation may follow which in a plan
(`PlansInv`), and then who will do what the order is owed: nobody who has an unpaid
order in hand will confirm it (`PaidInv`); the job that ends a wait is scheduled, or
a handler is about to schedule it or to end the wait (`TimedInv`); reserved stock of
an ended order has a handler that returns it (`StockInv`); an abort is announced or
about to be (`EndedInv`); an event published once has no second handler that will
publish it, because the status is past what it announces (`OnceInv`). What a handler
has read is no later than the row as long as nothing was overwritten (`RankInv`),
which is why a vendor's handlers cannot take the order back. The run's constraint
`OneConcern` is no hypothesis of the theorems: they hold of all the behaviours it
leaves out.

## DispatchOffers

*State.* Orders as dispatch sees them, offers by number with their expiry jobs,
dispatch jobs (`retry`), rider statuses, ACTIVE assignments, exclusions, the
events to and from the order service, and the handlers under way with what they
have read.

*Actions.* A handler is taken in as many steps as another may fall between:
`AttemptDispatch`, `CreateOffer`, `ScheduleExpiry` for a wave; `Accept` (checks),
`ClaimOffer` (the conditional update), `MarkAssigned`, `InsertAssignment` (the
unique index), `SupersedeOthers` for an accept; `OfferExpiry`, `SaveExpired`,
`ReleaseExpired` for the job; `MaybeNextWave`, `NextWave`; releases, declines,
pauses, availability, location updates (`ReadLocation`, `SaveLocation`, a save of
a rider read before), pickups, deliveries, admin assignments. `AddRetry` is
`schedule` of both backends: in one process a retry replaces the one that waits;
BullMQ drops an add whose id it knows, and every retry of an order has the same id
(`dispatch.service.ts:204`). A retry job that finds the pool empty schedules its
successor (2508) while it is itself the active job of that id, so the successor is
dropped, and nothing else will look for a rider: `forgotten` notes it as "dropped",
and `OrderIsWaitedFor` names it. `scheduler.ts:12` says of both backends that the
same id replaces.

*Abstractions.* Riders are eligible for both orders but for exclusions and their
own status; which of them a wave takes is a choice. READY_FOR_PICKUP and
WAITING_FOR_RIDER are both "ready". A retry job that is done keeps its id: BullMQ
keeps the last thousand (`removeOnComplete`), so fewer than a thousand are done
between two retries of an order.

*Runs.* `dispatch`: six scopes, each of which lets one mix of moves go deep (see
`MCDispatch`): a wave of two with two moves of riders and an admin; answers with
one fault (a crash, a location's stale save, an order that cannot be read); one
rider asked for two orders; every kind of move of one rider in three moves, or two
and a fault; answers against releases, pickups and cancellations; two scopes with
the jobs in one process, four with BullMQ. Three offers are a wave and the first of
the next; two attempts are the least in which a retry schedules its successor. `released_forgotten`: a finding.

*Fairness.* Jobs that are due run and handlers that have begun go on
(`registerJobs`); riders, customers and admins owe nothing. `OfferEnds` depends
on it.

*Proved* (`DispatchProofs`, for any orders, riders, handlers and scopes):
`OrderIsWaitedFor` and `RiderMeansIt`. `DispatchInv` says for each place a handler
may be at what it knows of its offer, its order and its rider (`Knows`), that a
PENDING offer has its job or a handler that will add it or was begun by it
(`Timed`), and which of all these keeps an order that is ready going (`Waited`). A
handler about to claim does not: it ends when it comes too late, and relies on the
one that was faster. The rider's half is `OfferedInv` and `AssignedInv` (his status
has its offer, task, handler or named excuse) and `OneTask` (of a rider no admin
pressed, one accept is under way or one task active: the unique index decides, after
the status was saved). *Model-checked only:* `OfferEnds` and the finding.

## CheckoutSaga and CatalogStock

*State.* A checkout is named by the request that makes it: `request` has its
key, how far it is, what it knows. `keyRow` is `idempotency_keys`; `order`,
`redemption`, `balance`, `spent`, `charge` are the rows the checkout causes in the
order, catalog, ledger and payment services; `saving` the statuses a transition of
the order service is about to save. `trouble` is history: what went wrong for which
checkout.

*Actions.* `Arrive`, `CreateKey`, `Poll`, `Complete`, `Clear` are `intercept()`;
`ReadCart`, `CreateOrders`, `RedeemPromotion`, `ClearPromotion`, `SpendCredit`,
`SaveCredit`, `InitializePayment`, `ConfirmByCredit`, `Undo`, `SaveCart` are
`checkout()`, one per remote call (the credit is two: the ledger reads the balance
and saves it; the confirmation and the compensation go order by order). Each call
may fail without an effect, with one (the answer is lost), or throw where the code
tells these apart: `internalFetch` returns a 5xx as a response and throws on a
timeout or an open circuit, and never retries a POST. Orders may be cancelled
(`EndOrder`), or confirmed by their payment (`ConfirmOrder`), in between. A
transition of the order service is two steps, since `transition()` reads the order,
gives the redemption back (`Release`) and saves the status later (`SaveStatus`): the
release may fail and be passed over, or be done and the transition break off, and the
status is saved over whatever another transition stored. `Dies` ends the process.

`CatalogStock` has the catalog's transactions: each reads its order's rows, then
writes. Counters change by conditional updates, rows are saved as read. `crossed`
is history: an order whose rows changed between a call's read and its writes.

*Abstractions.* Each order has one price and one discount; a vendor is an order.
The SQL fragments of promotions (`MAX(0, ...)`, unquoted camel case) are taken as
they work on SQLite, the only database whose dialect has them.

*Run* `checkout`: a behaviour is a checkout, catalog calls or the customer's money
(`side`), because the saga takes a call to the catalog or the ledger as one step
and no row is shared. The baskets: two requests, with one key or none, with equal
or different bodies, for one discounted prepaid order paid in part or in full by
credit; one request for such an order, which others may end while its checkout goes on
(`ended`), with two faults, so that a release that fails may meet a second call that
does; and one request for that and a discounted cash order, which others may end too.
But for the second basket one fault of any kind: another one only adds its own
exception. Four catalog calls of two orders, two items, stock and promotion for one:
two calls race, the other two prepare them.

*Fairness.* `WF(Step(r))`: a request that is handled goes on, await by await; and so
does a transition that has begun (`WF` of `SaveStatus`), for which the checkout waits.
`KeySettles` depends on both.

*What they show.* `OnePurchasePerKey`: the key's insert decides; what can still
leave two purchases of one key is a checkout that ended without undoing its
orders (only a refused payment is compensated; `abandoned`), or a confirmation that
was saved over an order's cancellation (`overwritten`). It is no statement about requests
without a key, and no client in the repository sends one. `DiscountIsRedeemed`,
`ChargeMatchesOrders`: the named troubles are the only ways to a discount without
its redemption, a redemption without its order, or a charge that is not the
price. Among them are the cancellation's own: the release failed and the order was
cancelled all the same (`unreleased`), the redemption was released and the
cancellation not saved (`unsaved`), a confirmation was saved over it (`overwritten`). `CatalogBooks`: two calls of different orders cannot corrupt the counters;
two calls of one order can.

*Proved* (`CheckoutProofs`, for any requests, keys, baskets and faults):
`OnePurchasePerKey`, `DiscountIsRedeemed`, `ChargeMatchesOrders`. The key of a request
that is handled, or whose process died, is in flight, and no other request of that key
is handled (`KeyInv`); an answer is that of a checkout that was made (`AnswerInv`); and
a request whose orders live and were not abandoned is that one, or the cart is checked
out and a later request gets no further than reading it (`BoughtOf`, `OnePurchase`).
For the discount, `DiscountOf` says of each order what its checkout still has to do
with it: a redemption that was refused (`now`) is followed by the order's discount being
cleared, one that was given up by neither. What the order service does to an order in
the meantime only lets it slide towards its end (`Slides`, `SlideKeeps`), whichever
transition saves first. For the charge, a checkout that has
not yet paid reckons with the prices its orders have, and what it spends is what the
balance loses (`ChargeInv`).

*Proved* (`CheckoutProofs`, for any orders, items, quantities and calls):
`CatalogBooks`. Unless two calls of one order crossed, one call at most holds rows for
it, its rows are written together, and a call that is about to write still knows what
is stored (`CatalogInv`); each write then moves between stock and rows what the rows
say. *Model-checked only:* `KeySettles`.

## CustomerMoney

*State.* The balance, the refs that have a row in the log, the points, the journal's
net credit of `customer_wallet_credit`, the referral rows, the dispute and the
chargeback of each order, refunds asked of the payment service, losses posted to
the bank, and `clerk`: the requests, jobs and handlers under way with what they
have read. History variables name what an operation left behind: a save over a
newer balance (`stale`), an operation cut off between two statements (`undone`), a
failed insert taken for a clash (`swallowed`), cases that overlapped or went on
unanswered (`tangled`), claims sent at once (`twins`). `landed` counts how often the
amount of each ref is in a balance, `ownMoney` is what of the balance no attribution
calls a referral's, and `lent` says that something was spent while a credit might yet
be taken out again, by its expiry or by the rollback of a copy of it (`MayBeTaken`).

*Actions.* `creditCustomerWallet` runs outside a transaction and is taken statement
by statement: `CreditRead` (log, then balance), `CreditSave`, `CreditLogged` (the
insert under the unique ref), `CreditUndo` (the rollback after a clash),
`CreditPost`. Its callers are `Grant`, `Spend`, `BeginRedeem` and `TakePoints`, the
referral's `BeginQualify` and `Mark`, each with what it does between the calls. A
delivery and the resolution of a case are transactions: they read when they begin
and write when they commit, except that a case settled by the payment provider
asks it first (`AskPayment`), and that refund stays when the commit fails. The
expiry job (`BeginExpire`, `Lapse`, `Stamp`, `WriteOff`) works on one row after
another.

*Abstractions.* Amounts are one number per kind of credit. A dispute gives back all
or nothing. The debts of the party at fault are `VendorPayout`'s and
`RiderWallet`'s. An order is delivered once; the referral service hears of it once
for each claim.

*Bounds.* A `Story` says which kinds of work a behaviour may contain, on which
orders, with how many operations begun (`MaxOperations` at most) and how many faults: all kinds at once
would only multiply each other's states. Each of the seven lets some kinds meet
that share a row: referral, spending, granting and expiry of one wallet; referral
under a fault; referral and blocking over two orders; referral and a dispute of
its order; deliveries, points and spending, with and without a fault; disputes and
chargebacks of one order under a fault. Two clerks: every race is between two.

*What they show.* `CreditBooks`: balances are what the journal owes, but for a stale
save, an operation cut off, or a journal post that failed and that a retry does not
make up for; and the unique ref decides who pays, whoever repeats a credit and
when: `landed` is one or none, and the only way to pay a ref twice is a process that
ends between the balance and the log row. `referral.service.ts:185` says a retry cannot credit twice; with
that death it can. `RewardsAsPromised`: a claim is CREDITED only
when both sides have their credit, or the `catch` of the insert took any failed
statement for a clash. `OwnMoneyKept`: the expiry takes no other credit, as long
as nothing was spent while a credit might yet be taken out: once the reward is spent,
`min(reward, balance)` takes what came in later. So does the rollback of a credit that
was applied twice, when its copy was spent: two credits that bring the balance back to
what the clerk wrote hide the spending from it.
`NoDoubleRefund`: the dispute looks for a lost
chargeback and the chargeback for a refunded dispute, each without a lock, so only
cases decided at the same time, or a provider's refund whose commit failed, pay
twice.

*Proved* (`CustomerMoneyProofs`, for all orders, claims, clerks, stories, amounts and
faults): `NoDoubleRefund`, `RewardsAsPromised`, `CreditBooks` with the type invariant,
and `OwnMoneyKept`. For the first, the invariant needs, of every order that is not
tangled, that one case at most is being decided (`OneCase`), what has been given back for
it (`Given`: a row says so or a case under way has asked), and that what a case has
read still holds when it commits (`DisputeKnows`, `ChargebackKnows`). Everything
else the ledger does is one lemma, `OtherWork`: a step that leaves the cases' rows
and the disputes' refs alone. For the second, `RewardInv` says of each clerk at work
on a referral which of its two credits are in the log by now (`QualifyKnows`), that
no clerk has a credit of a claim in `barred` in hand, and that claims not sent at
once are one per phone.

`CreditBooks` speaks of the moments when nothing is under way, so its invariant
(`BooksInv`) says what is open in between, as sums over the clerks: what each has put in
a balance and not yet in the journal (`Unposted`), the points it has taken whose credit
is not logged (`Unlogged`), and the credits that are in a balance and not in the log
(`Brings`). One lemma, `BooksStep`, moves the three sums by the one clerk whose step it
is; what is left for each action is that its rows move by as much.

`OwnMoneyKept` follows from `KeptInv`: what of the balance is not the customer's own is at
least the reward times the referral credits that have landed and are neither lapsed nor
taken out and about to be stamped (`KeptBook`), and what is his own covers every credit
of his that may yet be rolled back (`RiskBook`: this is why `AtLeast0` cuts nothing off).
A spend is harmless when nothing can be taken out any more: then both sums are zero
(`NothingTaken`).

## CheckoutPayment and LedgerPosting

*State.* The payment's status, refund rows, webhook rows (`hook`), the attempts
that process them (`runner`), refund calls under way (`asking`), Paystack's side
(`charged`, `pspRefund`, `notified`: external), and the events published
(`topic`). The ledger: how often each posting was made for each order, refunds
posted, reversed or under review, the tax holds and review cases, handlers under
way (`posting`).

*Actions.* `HandleWebhook` stores the row and starts an attempt; `RunCharge`,
`CommitCharge`, `RunRefund`, `SaveRefund`, `PublishRefundFailed`,
`MarkEventProcessed`, `RecordFailure` are its statements. A refund's notification is
matched by its reference, or else with any row of the payment that has its amount
(`RunRefund`): of two refunds of the same amount one may get the other's result, which
`mistaken` records. `RetryStuckWebhook` and `SweepCharge` are the sweepers; `BeginRefund`, `CallRefund`, `CommitRefund` one
`refundOrder`. The ledger's handlers take an event that is on `topic` and
acknowledge it or leave it (`Ack`, `Nak`); a posting is one step, as it is one
transaction that inserts its business key, and what was read before it (`Verdict`,
`ReadHeld`) is a step of its own.

*Abstractions.* A row of `hook` is a notification. The code makes up the id of one
that has none from its event and reference, so that two may have one id; the second
is then dropped, like one that never comes.

*Runs.* `money`: two orders of one checkout, six scopes (see `MCMoney`): the
charge with its capture and a tax review under one fault and two attempts; a
refund under one fault; the same with a review; two refunds of one order; a refund
while the charge is coming in; the reviews of both orders, one more than the
replay reads. MAX_ATTEMPTS = 1 separates the retried from the abandoned.
`replay_starved`: a finding; the replay's batch of 200 is 1 here, with two cases.

*Fairness.* Sweepers and replays run again and again, events are delivered again
until they are acknowledged, a call under way goes on (`MoneyFairness`).
`MoneyArrives` depends on it. Nothing is assumed of Paystack's webhooks.

*What they show.* `EscrowBooks` has the two safety halves: an order's money is
captured and then released, once, and reversals and refunds never take more than
was held (`CaptureThenRelease`, `RefundsCovered`). `MoneyArrives` has the two
liveness halves: a charge that was made is noticed whatever becomes of its
webhooks, and a delivery whose tax review is decided is posted. `RefundsFollowRows`
relates the ledger's refunds to the payment service's rows: a refund whose notification
was spent on another row, or came before its own row was there (`overtook`), may wait for
ever, and a row that was given another's result (`mistaken`) is exempted where only its
own result would have settled it.

*Proved* (`CheckoutProofs`, for any orders, refunds, attempts and faults):
`RefundsFollowRows` and `EscrowBooks`. Both are about the ledger and depend on what
the payment service can have published, so `MoneyInv` has two halves. `PaymentInv`: a
webhook comes only once its refund is decided, an attempt knows what it read, and the
call of an order that is under way asks for no more than the others left of the charge;
`crowded` names the orders whose calls overlapped. `LedgerInv`: an event on the bus says
what happened, a refund that was posted and failed is on its way to be reversed, and
what is held for an order that has not ended is not overdrawn. *Model-checked only:*
`MoneyArrives`.

## VendorPayout, RiderWallet and DualControl

*State.* `VendorPayout`: the vendor's one balance row, earnings, settlements,
withdrawals, the net credit of the journal's vendor accounts, each transfer's
state at the provider, reports on the bus, what each worker has read.
`RiderWallet`: the wallet row, the cash of each trip, withdrawals, the journal's
`payout_pending`, transfers and reports. `DualControl`: the approval row, what
each admin's handler has read, the executor.

*Actions.* An operation is a start, which reads, and an end, which commits (a
worker holds what it read between the two): `BeginSettle` and `Settle`, `PayChunk`
and `PayDone`, `BeginAdjust` and `adjustWallet`. An approval's is three: the read
with its refusals (`ReadApproval`), the comparison a save makes with the stored row
(`CompareApproval`), and the update of the columns that differ (`SaveApproval`), so
that one save's columns may land beside another's (`mixed`). A request that locks its row is one step. Transfers end, and their
reports come, when the provider likes; the rider's reconciliation job asks.

*Run* `back_office` (`MCBackOffice`; with `SupportThread` and `Onboarding`, see
there): the components share no row, so a behaviour is one of them (`part`, chosen
in the first state). Vendor: one order, two settlements, one withdrawal,
two Mondays, two workers, four operations and one fault (a call that throws is one: it
leaves the settlement READY, as a worker that ends there does); the daily cap splits a
settlement in chunks. Rider: two trips, one withdrawal, two handlers, four
operations and one fault. A withdrawal's approval begins once: executed again, as
`approval_twice` shows it may be, it waits for the row and saves over what was decided,
which `overlapped` names. Approval: three admins, one of them super, both tiers,
one fault. `approval_twice`: a finding.

*Fairness.* Only `RiderWallet`'s: the reconciliation job runs again and again, and
a handler that has begun goes on (`WalletFairness`). `InFlightSettles` depends on
it.

*Proved* (`PayoutProofs`, for all trips, withdrawals, handlers and faults):
`PaidOrRefunded`. A withdrawal is paid or given back, never both, because one
transfer is sent for it at most and only while it is approved: `OneApproval` and
`OneHolder` (one handler works on it, since its row is locked), `HolderKnows`
(what that handler read still holds), `UnsentUntilCalled`, and `ReportsAreTrue` (a
report on the bus says what the transfer became, which is final). `WalletBooks`, with
the same invariant beside what each handler knows of its row (`WorkInv`): the balance,
the journal's `payout_pending` and the cash owed agree with trips and withdrawals
(`TotalBook`, `JournalBook`, `CashBook`), each until one of its named causes.

*Proved* (`PayoutProofs`, for any orders, settlements, withdrawals, workers, amounts
and faults): `VendorBooks` and `OutcomeIsTransfers`. `VendorInv`: a settlement's row is
made once, by a run that has its number (`FreshRows`); each worker knows what it read,
and one at most works on an order, a claimed settlement or a locked row (`JobsInv`);
reports and final statuses say what the transfers did (`ReportsKnow`,
`WithdrawalsTell`, `SettlementsTell`). Between a claim and its posting the books are
open by what is `Pending`, so that is what the equation about the vendor's account
counts (`OwedBook`). The attempt to prove it found a cause the runs are too small for:
a failed settlement's save does not look at the row, so a report that was read before a
reversal writes FAILED over REVERSED, and the settlement can be reversed again
(`clobbered`). `VendorBooks` now names it.

*Proved* (`PayoutProofs`, for all admins, tiers and bounds): `ApprovalTypeOK`,
`SignedByOthers`, `DecisionStands`. Neither property is inductive: a row read
before may be saved at any time. `RowsInv` says what every row carries, whether
stored or in a handler's or the executor's hands: never a signature of the maker,
whatever saves did to each other, because every save writes signatures that some
handler has read and added its own to; and in an executable status enough of them
(`Sound`), as long as no save was `mixed`. With a tier of two signatures that
exception is real: two checkers who sign at once may leave APPROVED, which the one
reached with the other's signature in hand, beside the signatures of the other alone.
`ClaimInv` says who executes in each status while no save has undone another
(`overwrote`): nobody before the claim, one executor in EXECUTING, nobody after;
`DecisionStands` follows.

## IntervalLock and CallBreaker

*IntervalLock.* `tick` says where each tick of one job is, on any replica: asking,
running under the lock, running after its connection broke (`cut`), running without
it (`alone`). `pgIntervalRunner` runs the job inside the lock's transaction, and its
`catch` runs it again whatever the error was: a database that is away, as the
comment says, but also a job that threw and a commit that failed after the job was
done. `OneRunner` says that two runs of a job overlap, or one tick runs it twice,
only then. Three ticks, four firings, two faults: one tick without the lock, one
that has it, one that is refused, and a second firing. *Proved*
(`CoreProofs`, for any ticks): the lock has one owner (`OneOwner`), a tick
that runs and is not `unguarded` has it (`RunnerOwns`), and such a tick has run
once at most since it fired (`RunsCounted`).

*CallBreaker.* The breaker of one host, the calls through it with their retries, and
an upstream that goes down and comes back. Time is whether the window since
`openedAt` is over (`WindowElapses`). `BreakerRecovers`: whatever late failures are
taken for the probe's, the breaker closes for good after the last outage. Three
calls, of which two open it (THRESHOLD = 2) and one is older; one retry; two
outages, so that the second may find it closed, open or due. *Fairness:* each
call's steps (callers keep calling, a call ends at its timeout) and the window.
Without callers nothing would probe. *Model-checked only.*

They share no state with the outbox; each behaviour of `MCOutbox` is one of the
three (`part`).

## SupportThread and Onboarding

*SupportThread.* `thread` is the row, `joined` the participants, `posting` and `desk`
the requests under way with the row each has read, `run` the assistant's run for a
message. A request is a read and a save (`ReadForPost`, `SavePost`; `ReadForDesk`,
`SaveForDesk`); a run is turns of the agent's loop (`ToolTurn`), an answer that is
saved as a message (`Answer`) or one of the ways out that escalate (`Escalate`), and
the save of the thread as the run was given it (`SaveRun`). What the model says is a
choice. `undone` records a save from an old row, `returned` that the staff handed
the thread back.

`CustomerIsHeard`: when all is quiet and the assistant has the thread, every message
has an answer, but for the named reasons; the loop's limit, a model that fails or
a promise of a colleague end with a person. It is said of a deployment that has the
model's key (`enabled`): without one `shouldRespond` starts no run, the thread stays
the assistant's, and a message is neither answered nor escalated. `OwnedToResolution`: as long as no save
undid another, an owner loses the thread only to a super admin, and only the two
may end it, whoever was invited.

Two parts of `back_office`: one message and the assistant beside two requests of the
console that may overlap (every race is between the run and one other, or two
requests), and four requests of three admins one after the other, which is what it
takes to claim, invite, reassign and end. One turn of the loop (`MAX_TOOL_TURNS` is
6 in the code: the last turn is what matters), one fault.

*The assistant and a person together.* `thread.entity.ts:36` says that the AI and a
human must never both be speaking. The run asks `shouldRespond` once, before it
starts; a reply of the staff while the model thinks is followed by the assistant's
answer, and `SaveRun` then puts the status of before the takeover back. No property
states it, since the model breaks it in four steps and every other property here is
about what holds beside it (`undone`).

*Onboarding.* `app` is the row, `request` the requests under way with what they read,
`smileJob`, `smileResults`, `callback` and `processed` the verification jobs, the
provider's results, their handling and the events marked processed, `live` the
stores or riders of this person with their public identifiers. A stage or a
decision is a read and a save; a submission is the read, the provider's acceptance,
our job's row and the application's save (`Accepted`, `SaveJob`, `SaveSubmission`); a
callback is read, saved and marked; an approval draws an identifier and looks for a
live row, writes it in the other service, and saves the application (`FindLive`,
`SaveLive`, `SaveApplicationApproved`). Each may break off in between. A request of
the model is the work it causes: an approval that gave up waiting for the other
service (`internalFetch` aborts after 8 s) ends when the call that goes on has written
its row, and until then counts as under way.

`LiveAsApproved`: nobody is live whom neither the provider nor an admin vouched for,
and an approved application has exactly one live row, with the identifier the
applicant was told, however often an approval was repeated; two approvals at once
are named (`together`), because neither the store nor the rider has a unique index
on its user and both then find none. `VerdictIsTaken`: an application that still
waits has a job without a conclusive result, unless a save put the waiting back;
the submission's own save does when the result is faster than it.

Two parts: the documents, one request at a time and two in all beside the
provider's results, and the decisions, with two requests that overlap and three in
all. One job, one fault.

They assume no fairness.

*Proved* (`FrontDeskProofs`, for any messages, admins, requests, jobs and bounds): all
four. Both components save whole rows, so each invariant says what is true of every
row in a request's hands, and what the stored row owes to it. `SupportInv`: a request
of the console was within its rights by the row it read (`DeskInv`), and a message
whose request is over has its answer, a run that will end in one or in an escalation,
or the thread has left the assistant (`HeardInv`). `ApplicationInv`: any row that
says APPROVED was vouched for (`VouchInv`); while approvals come one after the other,
what one has found is what is live (`OneLiveInv`); a result whose handling broke off
is not marked processed, so the job still has it (`ResultsInv`, `WaitInv`).

## Findings

| Run | What |
|---|---|
| `consumer_claim_lost` | A failed `take()` deletes the claim of an earlier successful delivery, against `event-delivery.spec.ts:86-88`. |
| `order_overwritten` | A stale save moves an order along no transition, against `state.ts:1`. |
| `released_forgotten` | An order its rider gave back is offered to nobody, against `state.ts:21`. |
| `replay_starved` | A resolved tax review beyond the oldest 200 is never posted, against `ledger.service.ts:489`. |
| `approval_twice` | Two checkers' saves let one approval's work run twice, against `approval-gate.ts:159`. |

`CHECK_DEADLOCK` is off everywhere: an order that is done, an outbox that has
settled and a stream that is handled are states the system may stay in.

## What is proved, what is only checked

Proved for every value of the constants, from the assumptions named in each
module:

| Module | Theorems |
|---|---|
| `Outbox` | all safety properties and the type invariant |
| `ConsumerDelivery` | `AppliedOnce`, `DeadLetterJustified`, `NoSilentLoss`, the type invariant |
| `OrderLifecycle` | `WaitIsTimed`, `AbortIsSettled`, `AnnouncedOnce`; `OrderMachine` implemented (`LegalUnlessOverwritten`); `OrderInv` |
| `DispatchOffers` | `OrderIsWaitedFor`, `RiderMeansIt`; `DispatchInv` |
| `CheckoutSaga` | `OnePurchasePerKey`, `DiscountIsRedeemed`, `ChargeMatchesOrders` with the type invariant; `SagaInv` |
| `CatalogStock` | `CatalogBooks` |
| `CheckoutPayment`, `LedgerPosting` | `RefundsFollowRows`, `EscrowBooks` with the type invariants |
| `DualControl` | `SignedByOthers`, `DecisionStands`, the type invariant |
| `RiderWallet` | `PaidOrRefunded`, `WalletBooks` with the type invariant |
| `VendorPayout` | `VendorBooks` with the type invariant, `OutcomeIsTransfers`; `VendorInv` |
| `CustomerMoney` | `NoDoubleRefund`, `RewardsAsPromised`, `CreditBooks` with the type invariant, `OwnMoneyKept` |
| `SupportThread` | `CustomerIsHeard`, `OwnedToResolution` |
| `Onboarding` | `LiveAsApproved`, `VerdictIsTaken` |
| `IntervalLock` | `OneRunner` |

The books are sums over finite sets. `SumTheorems` has what their proofs need of
`SumFunctionOnSet`, which the community modules define by a fold over the set: a sum
over no elements, over one element more, over a function that changes in one place,
and comparisons. They are proved from the definition by taking a smallest set for which
the claim fails, since an induction theorem cannot be instantiated here. The books are
why the sets of orders, rows, handlers, clerks, claims and items are assumed finite (tables are), why
the ids of settlements, withdrawals and the words that stand for no settlement are
assumed different, and why the vendors with a prepaid or a discounted order are assumed
to be among the vendors of the basket.

Everything else is model-checked on the instances above, and so is each of these,
but for the type invariants. What stays with TLC: liveness under fairness
(`Settles`, `EventuallyResolved`, `OfferEnds`, `KeySettles`, `MoneyArrives`, `InFlightSettles`, `BreakerRecovers`) and whatever
depends on ENABLED, which are out of the provers' reach.

## Plan

Next, in this order:

1. `EventPipeline`: the outbox's stream as the consumer's, with one abstract
   specification of delivery that both implement together.
2. Orders with an errand's shopping, a gift's acceptance or a laundry's second
   leg; grouped dispatch, blocks, prefetch and handoffs.
3. Refund requests and their approval, with `DualControl`; voice calls and their
   timeouts; login codes and refresh tokens.

## Not modelled

*Filters, proxies and displays*: rate limits, standing and guards, the gateway,
tracking, notification, analytics, the front ends. A request's fate is a function of
the request and one counter or row, or the work is I/O.

*Rows that one actor edits*: auth and customers, menus and profiles. Their statuses are moved by an administrator or their owner
behind a guard.

*Arithmetic*: dispatch scoring, accounting, tax and vendor performance compute over
decimals, distances and times; the modules take their results as choices.

*Shared infrastructure*: configuration, entities, migrations, clients, tracing.
