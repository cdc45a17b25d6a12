# Formal models of the multitenant storefront

TLA+ models of the Django storefront in `src/`: carts, coupons, the catalog and its
inventory ledger, the checkout saga, the life of an order under webhooks, sweeps,
cancellations and admins, payment methods and gateway configurations, the invoice task on
its broker, and the isolation of tenants. TLC checks them on small instances; TLAPS proves
most of what it checks for any number of requests, workers, products and tenants.

    tlc -workers 2 -config saga_safety.cfg MCCheckoutSaga.tla
    tlapm OrderLifecycle_proofs.tla

`PROJECT.json` ties every definition to the source lines it models, every run to its
properties, and every property to a variant of the code (the definitions commented
"Variant:") under which TLC finds it violated.

## 1. The system

### Components

| Component (source under `src/apps`) | State | Operations | Hard behaviour | What makes it correct | Here |
|---|---|---|---|---|---|
| Inventory ledger (`catalog/models/product.py`, `orders/models/inventory_reservation.py`, `catalog/views/admin/product_detail.py`) | `stock_quantity`, `reserved_quantity` per product; reservation rows | reserve, release, commit, give back, PATCH stock | five callers end the same holds, with F-expressions | reserved = what active rows hold; stock covers it; units conserved | `Inventory`, proved |
| Checkout saga (`orders/services/checkout_service.py`, `checkout_helpers.py`) | order, items, reservations, cart status, coupon uses, locks | `checkout` in seven phases | row locks, retries with one key, compensations that commit, rollback after gateway effects | one order per key, no oversell, failures hold nothing, the order is the cart | `CheckoutSaga`, proved |
| Order cancellation (`cancel_order`) | order, payment, rows | `cancel_order` | races with webhook, reconcile, mark-paid | cancelled order keeps no stock | `OrderLifecycle`, proved |
| Payment service (`payments/services.py`) | `Payment` rows | authorize, capture, purchase orders, mark paid | gateway calls inside the request's transaction; configurations that change between them | paid means captured; a call is made with the credentials its token was saved for | `CheckoutSaga`, `OrderLifecycle`, `Wallet` |
| Webhook view and task (`payments/views/payment_webhook.py`, `payments/tasks.py`) | dedupe rows, payment, order | `process_webhook_event` | lost, repeated, reordered deliveries | no order revived, holds ended once | `OrderLifecycle`, proved |
| Reconcile sweep (`payments/tasks.py`) | the same rows | pick the oldest pending payments; unknown intent, known intent | the gateway's answer is old when applied; a batch that is full of older payments | stuck payments get settled | `OrderLifecycle`, `TenantAccess` (its tenants), `Wallet` (its calls) |
| Expiry sweep (`orders/tasks.py`) | rows, carts | batches with SKIP LOCKED | a constraint may refuse the whole batch | every hold ends | `OrderLifecycle` |
| Purchase orders, mark-paid (`orders/views/admin/order_mark_paid.py`) | order, payment | check unlocked, write locked | customer cancels in between | settled together | `OrderLifecycle`, proved |
| Gateway adapters (`payments/gateways`) | the SDK's `api_base`, global to a process | authorize, capture, retrieve, parse_webhook | idempotency keys outlive transactions; two adapters share one SDK | status maps, the right host | as seen by callers; gateway external |
| Payment methods and gateway configurations (`payments/views`) | method and configuration rows, two "one default" constraints | save, choose, delete; create, PATCH, delete | concurrent choices, full-row saves, rows dropped while payments use them | one default, no lost default, no circular wait | `Wallet`, proved |
| Cart service (`carts/services`) | cart status, version, currency, items, applied coupons | add, update, remove, clear, coupons, addresses, payment method | edits while a checkout waits; one active cart per customer | version counts edits, currency lock-in | `CartService`, proved |
| Cart abandonment (`carts/tasks.py`) | cart status | hourly sweep | `updated_at` is not set by a version bump | only idle carts | `CartService`, idleness abstracted |
| Coupons (`coupons/models/coupon.py`, `coupons/views/admin/coupon_detail.py`) | terms, `uses_count` | create, PATCH, switch off; validate, preview, apply, count | terms that change between preview, apply and sale; half cents | one price rule everywhere, sold on terms that were checked for it, limit | `CouponTerms`, proved |
| Catalog and its files (`catalog/views/admin`, `files/services`) | product rows, objects of the media bucket | create, PATCH, switch off, image upload and removal | full-row saves beside sales; an object store without transactions | no column taken back, the row's image is there | `Catalog`, proved |
| Invoice task (`orders/tasks.py`) | invoice row, number sequence, stored PDF | `generate_invoice` | duplicate runs, enqueued before commit | one invoice per order, never forgotten | `InvoiceTask`, proved |
| Celery bases and dead letters (`core/celery_helpers.py`, `config/celery.py`) | messages, contexts of a worker | retry, redeliver, dead-letter | dead workers, context left on a pooled connection | every failure leaves a record | `InvoiceTask`, proved |
| Tenant isolation (`core/middleware`, `core/models/tenant_manager.py`, RLS migration) | ContextVar, `app.current_tenant` twice | resolve, set, clear | pooled connections, a sweep run inside a request | no row of another tenant | `TenantAccess`, proved |
| Customer authentication, accounts, memberships, provisioning (`core/middleware/customer_auth.py`, `iam`, `tenants`) | customers, tokens, memberships, tenants | login, logout, assign, revoke, block, deactivate | rights revoked while requests are on their way | refused from the next request on | `TenantAccess`, proved |
| Request transaction, error handler (`core/middleware/tenant_db_session.py`, `core/exceptions/handler.py`) | one transaction per request | commit, roll back | a `DomainError` commits | failures are compensated | in every module |
| Serializers' formats, envelopes, logging | - | formatting | little | - | not modelled |

### How they interact

- A tenant request runs inside **one** transaction: `ATOMIC_REQUESTS` and
  `TenantDBSessionMiddleware` open it and the `transaction.atomic()` blocks of the
  saga are savepoints in it. Row locks are held until the request answers and nothing
  is visible before. (The repository's README says "each phase commits in its own
  transaction"; the models follow the code.)
- `custom_exception_handler` turns a `DomainError` into a response, so Django commits.
  What a failed phase compensated is therefore committed, and what it did not
  compensate stays. Any other exception, or a dead worker, rolls back.
- The gateway, the broker and the object store know nothing of transactions. The gateway's
  record survives a rollback and answers a repeated idempotency key with its first
  answer; a task that was enqueued by a request that rolls back finds no order; an object
  that was deleted stays deleted.
- Isolation is READ COMMITTED. A blocked `SELECT ... FOR UPDATE` or `UPDATE` evaluates its
  predicate again on the row it gets, and tries no other row. A `save()` without
  `update_fields` writes every column it read.
- The webhook task, both sweeps, `cancel_order` and mark-paid each run in their own
  transactions and meet the checkout only through committed rows. The webhook finds a
  payment by `gateway_transaction_id`, so never one of an unfinished checkout.
- Celery workers run in autocommit. `acks_late` keeps a message until its task has ended.
- A request passes `TenantResolverMiddleware`, `TenantDBSessionMiddleware`, the customer
  or token authentication and the permission class before its view. Tenant, customer and
  membership may change between any two of them.

### Hazards

Listed at their lines in `PROJECT.json`, with the property that would notice. The
main groups are: several actors ending one hold; answers, events and checks that are
old when applied; full-row saves; failures whose compensation is incomplete; retries with
one key; the last unit and the last coupon use; rights that end while they are used;
messages that are copied or whose worker dies; sweeps that must make progress.

## 2. Modules

    Inventory                   the ledger; LedgerSpec is the abstract specification
      Inventory_proofs
      OrderLifecycle            EXTENDS Inventory; committed transactions of every actor
        OrderLifecycle_proofs   EXTENDS OrderLifecycle and Inventory_proofs
      CheckoutSaga              EXTENDS Inventory; statements, locks, rollbacks
        CheckoutSaga_proofs     EXTENDS CheckoutSaga and Inventory_proofs
    Accounts                    a tenant's customers
      CartService               EXTENDS Accounts; the cart before its checkout
      Wallet                    EXTENDS Accounts; payment methods, gateway configurations, gateway calls
        Customer_proofs         EXTENDS CartService and Wallet
    CouponTerms                 coupons, discounts, and the terms an order is sold on
      CouponTerms_proofs
    Catalog                     product rows and their pictures
      Catalog_proofs
    InvoiceIssue                what an invoice is: the abstract specification
      InvoiceTask               INSTANCE InvoiceIssue; broker, workers, contexts
        InvoiceTask_proofs
    TenantAccess                the middleware stack and who may pass it
      TenantAccess_proofs
    MC<module>                  instances for TLC, one for each module that is run

**Inventory.** A row `<<c, p>>` is the reservation of checkout `c` for product `p` (a
cart has one line per product). Its operations are the net effect of one transaction:
`Insert` (phase 3 and what the request did with the rows before it committed),
`Release`, `Commit`, `Unwind` (`cancel_order`), `PatchStock`. Quantities held by a set
of rows are the cardinality of the set of their units, which stands for a sum and can
be reasoned about without recursion. `supplied` is a history variable: what the admin
ever put on the shelf.

**OrderLifecycle.** One action is one committed transaction. A checkout appears as
its outcome: `Captured`, `Async` (3DS), `CaptureRaised`, `Declined`, `GatewayError`,
`Unconfigured`, `Unexpected` (an authorisation that comes back CAPTURED or CANCELLED:
phase 6 is done and the `PaymentFailed` at the end of `checkout` is caught by nobody),
`Invoiced`. A request that fails before phase 5 leaves nothing behind here.
Two operations are split where others interleave: mark-paid (`MarkPaidCheck`,
`MarkPaidWrite`) and reconcile. `ReconcilePick` reads the ids of a batch, the
`ReconcileBatch` PENDING payments with the oldest `updated_at` (`older`); then, row by row,
`ReconcileSkip` passes over one that is not PENDING any more, `ReconcileUnknown` ends one
the gateway never answered for, and `ReconcileStart` holds the row and has the gateway's
answer, which `ReconcileFinish` applies. In between every action that needs the payment
row is blocked, and `recon[c] # None` stands for that lock. A row that stays PENDING is not
saved and keeps its place among the oldest, as in the code.

`sent` is the set of events the gateway has emitted. `Webhook(e)` takes any of them that
has not been processed, so they arrive in any order, late or never; a redelivery of a
processed event is a stuttering step because the unique dedupe row rolls it back.
`payment.status` is overwritten by whatever event comes, as in the code. `Announced` is
`parse_webhook`: the four event types Stripe's adapter knows, and `payment.unknown` for
every other, with the status of the intent or, for `charge.*` events, of the charge, which
reads CAPTURED even when the charge is only authorised. `UnknownReports` bounds which of
those are followed. The Stripe and the mock adapter disagree on the status of a failure
event (`FailureStatus`).

| Variable | In the code |
|---|---|
| `order`, `payment` | `Order.status`, `Payment.status` of a checkout's order |
| `older` | `Payment.updated_at` of the PENDING payments, as an order |
| `txn` | the payment has a `gateway_transaction_id` |
| `linked` | `InventoryReservation.order` is set (phase 6 and the invoice path) |
| `lapsed` | `expires_at` has passed |
| `cart`, `cartOf` | `Cart.status`, the cart of the reservation rows |
| `processed` | `ProcessedWebhookEvent` |
| `intent`, `sent` | external: the gateway |
| `picked`, `recon`, `marking` | the batch of the running sweep, the open reconcile transaction, the open mark-paid request |
| `overclaimed` | history: the checkouts whose capture call returned without having captured |

**CheckoutSaga.** `checkout` statement by statement. Committed rows are variables of
their own; `work[r]` is what request `r` has written and not committed; `cartLock`,
`prodLock`, `coupLock` are the rows it has FOR UPDATE. The actions follow `pc`:
`Lookup` -> `FindCart` -> `LockCart` -> `Validate` -> `LockProduct`* -> `Reserve` ->
`TakeCoupon`* -> `InsertOrder` -> (`Invoice` | `Authorised` | `ActionRequired` |
`Declined` | `AuthorizeRaised` | `Unexpected` | `NotConfigured`) -> (`CaptureDone` |
`CaptureRaised`) -> `CommitRequest`. A failing phase goes to the commit with `Compensated(work[r])`.
`Rollback` is possible at every statement. `NewCart`, `EditCart`, `SetStock` and
`Settle` are the other transactions; `Settle` stands for what webhooks, sweeps and
cancellation do to the stock of earlier checkouts, which `OrderLifecycle` has in full.
Capturing without success (a capture that reports another status) is in
`OrderLifecycle` only.

**CartService.** Every mutator locks the active cart in its first statement and holds it
to the end of the request, so most are one step. `add_item` and `apply_coupon` read a
product or a coupon they do not lock, so they are two (`AddBegin`/`AddEnd`,
`ApplyBegin`/`ApplyEnd`), with what was read in `op[s]`; a cart is locked while an `op`
names it (`Held`). `Refuse` is every error path. `TakenCart` is `get_or_create` with the
partial unique index behind it. `Checkout` is one step here, because it reads all it
needs when it has the cart; `CheckoutSaga` has its statements. Currencies stay, amounts
go to `CouponTerms`: a line is a quantity and its currency snapshot, a coupon the currency
it is fixed in (`None` for a percentage). `seen` is what a client of the customer remembers
of a GET, for If-Match. `PatchProduct` and `PatchCoupon` test committed rows only, as a
query in another transaction does. `CheckoutSaga` and `OrderLifecycle` have the rest of the
cart's life (`checking_out`, reverted, expired), which is why `status` has no such value
here.

**CouponTerms.** Amounts are cents and percentages hundredths of a percent, so
`compute_discount`'s `quantize` to even is exact integer arithmetic (`Cents`). A coupon is
its row, with every term `Coupon.validate` looks at; a cart is its subtotal, currency,
country and customer type. The admin's PATCH is two steps under the coupon's row lock
(`ReadForPatch`, `SavePatch`, with the serializer's and the view's rules in `Allowed`);
`now` moves by `Tick`. A checkout is `LockCart` (which prefetches the coupons' rows into
`seen`), `Revalidate` (the day it runs is kept in `checked`), `CountUse` per coupon (lock
and limit), `InsertOrder`, and one of three ends: `Converted` (phase 6 has run), `Stranded`
(an unconfigured gateway, which nothing compensates: the order and its coupon uses are
committed and the cart stays CHECKING_OUT), `NotPaid` (compensated except for the uses, or
rolled back). `preview_coupon` is `Projected`. `placed` records an order with the rows that
priced it; `byHand` the coupons whose `uses_count` an admin wrote.

**Catalog.** A request is the statements of its view: `CheckSku`, `InsertProduct`; for
PATCH `LockProduct`, `SavePatch`; `ReadProduct`, `Deactivate`; for images `ReadProduct`,
`Upload` or `RemoveObject`, `SaveKey`, `DropOld`, `CommitImage`; and a checkout's or
settlement's `Hold` and `Settle`. `bucket` is the object store, which no rollback
reaches; `Fail` may end a request before any of its statements. `spoilt` remembers the
products whose image requests overlapped or failed after they had touched the bucket.

**Wallet.** One action is one statement of a payment-method or gateway-configuration
endpoint, or one gateway call of a checkout or of the sweep. `Scan` and `Clear` are
`filter(is_default=True).update(is_default=False)`: the snapshot finds the rows, and each
is locked and tested again. `Commits` has the two partial unique constraints on defaults;
the deferred foreign keys are checked at a commit. A `Seats` value is an account at a
gateway: the `gateway_name` of a configuration and whose `credentials` it holds, which is
where `build_credentials` sends a call. POST and PATCH write both. A card is recorded with
the seat it was saved for, an intent with the one it was made with; whether a token the
client sends was issued there is checked nowhere in the code and not claimed here. `sdk` is
`stripe.api_base` of a process, which `Aim` sets and `CallGateway` uses; `call` is the last
call made, `on` the gateways that were active at some time since the request came
(bookkeeping), `moved` the configurations that a PATCH gave another seat or that were
deleted.

**InvoiceTask.** `request` is the transaction that pays the order, `queue` counts the
copies of each message `acme.default` holds, `dlq` and `logged` the orders whose failure
left a record. Enqueueing is early inside the request (`EnqueueEarly`, then `EndRequest`
commits or not) or on commit (`EnqueueOnCommit`). A worker goes `Deliver` (with the
request-id signal), `Enter` (`TenantAwareTask.__call__`), `ReadOrder`, `NextNumber`,
`InsertInvoice`, `Upload`, `SaveUrl`, with `Raise` at each of them, then `Retry`
(autoretry), `Leave` (the `finally` blocks) and `Settle` (`on_failure`, acknowledge or
reject). `Killed` loses a worker with its statement half done, `Disconnected` its
connection only, so the message runs twice at once. In `InvoiceIssue`
an order's invoice takes three steps, each once: draw a number that is nobody else's,
upload, save the URL of what was uploaded. The refinement mapping reads the stage an
invoice has reached off its row and the object store (`Reached`), hides broker and
workers, and lets whatever a second run repeats stutter.

**TenantAccess.** A request passes `Arrive` -> `Resolve` -> `OpenSession` -> `AuthCustomer` or
`AuthToken` -> `Permit` -> its view's statements -> `Leave`; the middlewares' exits are in
`Leave`. `ctx[w]` is the contextvar, `local[w]` what `SET LOCAL` put into the
transaction, `session[w]` what `SET` put on the connection; a row is visible if the
manager's filter and the policy let it pass (`Visible`). The reconcile trigger runs the
sweep in the request: `SweepEnter`, `SweepLeave` per tenant. The endpoints change the
rows that the stack looks at: customers, tenants, memberships, tokens. `had` is
bookkeeping: which of the grants its request needs were in force at some moment since it
arrived.

**Composition.** `OrderLifecycle` and `CheckoutSaga` contain the ledger's variables and use
its operators, and both implement `LedgerSpec`, by proof and `CheckoutSaga` by TLC as well:
a request's uncommitted rows are invisible and its commit is one `Insert`; that
`EnoughStock` still holds at the commit, although it was tested many statements earlier,
is what the product locks are for. The mapping is the identity on the ledger's variables;
every other variable is hidden. `Catalog` has the same counters beside a product's other
columns, for the full-row saves; `CouponTerms` has the prices of what `CartService` and
`CheckoutSaga` have as lines and coupons.

## 3. Runs

| Run | Instance | Shows |
|---|---|---|
| `lifecycle_safety` | 2 checkouts, 2 carts of one customer, one product, every outcome, captures that return without capturing, charge events, a batch of one | `TypeOK`, `ReservedIsHeld`, `StockConserved`, `StockFollowsOrder`, `PaidWasCaptured`, `InvoiceSettledTogether`, `CheckingOutRecoverable`, `OrderMoves` |
| `lifecycle_liveness` | 2 checkouts, 1 cart, 2 products, Stripe's failure status, events of unknown type, a batch of one, no symmetry | `HoldsEnd`, `StuckPaymentResolved` under `WorkersRun` |
| `saga_safety` | alice twice with one key (once with If-Match), bob once; 2 products with one unit, one coupon use | `TypeOK`, `OneOrderPerKey`, `CouponUses`, `FailureHoldsNothing` |
| `saga_liveness` | alice and bob, cart edits up to version 2 | `ConvertedAsOrdered`, `AllAnswered` under `FairSaga`; refinement of `LedgerSpec` |
| `cart_safety` | one customer on two devices, 2 carts, 2 products, 2 currencies, a coupon, a slot | `TypeOK`, `OneActiveCart`, `CurrencyLock`, `SoldInOneCurrency`, `VersionTells` |
| `coupon_terms` | a coupon of 12.5 % and one of fixed 5, 2 carts that differ in currency, country and customer type, 8 PATCH bodies | `TypeOK`, `PricesAgree`, `SoldOnTerms` |
| `catalog` | 2 products (one yet to be created), 2 picture formats, 3 workers, 4 requests | `ImageServed`, `ColumnsKept` |
| `wallet` | 2 customers, 3 methods, 2 configurations with the credentials of one of two merchants, one payment, 2 processes, 3 requests | `WalletTypeOK`, `PaidWhereItBelongs`, `NoCircularWait`, `DefaultKept` |
| `invoice_task` | one order, 2 workers, one retry per copy, 2 losses | `TypeOK`, `OwnContext`, `NotForgotten`, `Settled` under `FairSpec`; refinement of `IssueSpec` |
| `tenant_access` | 2 tenants (one or both provisioned), one admin, a superuser, 2 threads, 3 requests | `TypeOK`, `Isolated`, `Admitted`, `B2BHasPapers` |
| `paid_without_stock` | 1 checkout, 3DS | violates `PaidHasStock` |
| `hold_never_ends` | 1 checkout with no gateway, a second cart | violates `HoldsEnd` |

Deadlock is not checked: a shop whose requests are answered and whose bounded inputs
are used up does stop. A deadlock between requests is excluded by `AllAnswered` for
checkouts and by `NoCircularWait` for payment methods and configurations.

Twelve more configurations are kept to be run by hand. Each is a short counterexample to
something one might expect, and is discussed in section 5:

    paid_without_capture        MCOrderLifecycle   PaidOnlyIfCaptured
    failed_capture_forgotten    MCOrderLifecycle   FailedCaptureReconciled
    charge_event_hides_payment  MCOrderLifecycle   PendingPaymentConverges
    payment_starved             MCOrderLifecycle   SweepReachesEvery (three minutes)
    same_key_storm              MCCheckoutSaga     SameKeyConverges
    coupon_spent_on_failure     MCCheckoutSaga     FailureRestoresCoupons
    failure_keeps_hold          MCCheckoutSaga     EveryFailureReverts
    terms_changed_in_checkout   MCCouponTerms      ValidUnderLock
    call_to_other_host          MCWallet           CallsOwnHost
    if_match_other_cart         MCCartService      OrderAsSeen
    blocked_again_active        MCTenantAccess     BlockStays
    image_lost                  MCCatalog          ImageAlwaysServed

### Bounds

- `MaxQty`, `InitialStock`, `MaxStock` = 1: with one unit per product two checkouts
  compete for it, and the admin's PATCH moves the stock between 0 and 1. The
  arithmetic for other quantities is the subject of the proofs.
- Two products, in `lifecycle_liveness` and the saga runs: a checkout of several rows,
  batches of the sweep that take one row of it, and lock orders. `SweepBatch` = 1 is the
  smallest batch and the one that interleaves most. `lifecycle_safety` has one product
  and two carts, where what matters is who ends the hold and which cart comes back; what
  it checks holds for any number of products by the theorems below.
- Two checkouts of one customer (one cart or several) suffice for one to hold what the
  other wants; the third request of `saga_safety` adds another customer to a retry.
- `ReconcileBatch` = 1 makes a second pending payment wait behind the first, which 100 do in
  the code. `UnknownReports`: CAPTURED on an unknown event is the one that matters to money
  and to the sweep, AUTHORIZED is the other status that takes a payment out of its sight;
  a PENDING one rewrites what is there and makes the payment younger.
- One admin: mark-paid races with the customer, and two admins would only repeat an
  idempotent write.
- `MaxVersion` caps `Cart.version`: 1 means no edits after creation, 2 means one edit.
- `CartService` is run with two rows for one customer (a cart and its successor) and
  versions up to 3: enough to add, apply and take away, or to add, fill the slot and check
  out while an admin changes the coupon. `MaxQty` 1 makes every POST to an existing line
  exceed the bound and be refused, as it is for lack of stock. Merging a line is covered
  by the proofs, which have no bound.
- `Baskets` are the contents a cart may have: by card with both products and the coupon,
  by invoice without, and one without a payment method.
- Each outcome of a checkout and each kind of event occurs; `lifecycle_liveness` leaves
  `declined`, `unconfigured` and `unexpected` out: the first because it holds nothing, the
  second because it breaks `HoldsEnd` once the customer has two carts (`hold_never_ends`),
  the third because its payment is not PENDING and its hold is that of `async`. It has one
  cart so that the batch cannot be refused.
- `coupon_terms`: subtotals 4 and 12 of 12.5 % are half a cent on the way to an even and
  to an odd cent, so `quantize` rounds down once and up once. `MaxTime` 1 lets a coupon
  begin or end between two statements, `MaxPatches` 2 lets the admin change a term and
  change another, `MaxUses` 1 makes the second checkout take the last use. `SomeBodies` has
  one body for each term that a sale could miss.
- `catalog`: `MaxStock` 2 tells a hold from a sale and a PATCH; 4 requests on 3 workers are
  a creation, two images and something that fails or overlaps them.
- `wallet`: three methods are one more than two customers need, so that a default can be
  passed on and lost; 3 requests are two that collide and one that set them up. Two merchants
  are enough for a PATCH of `credentials` to send a call to another account, beside the one
  of `gateway_name`. Each worker has a process of its own, like Celery's `-P solo` (Makefile);
  `call_to_other_host` has both in one process, like the threaded `runserver` of Dockerfile
  and Makefile.
- `invoice_task`: two workers hold the two copies that can be of one message;
  `MaxRetries` 1 gives a first and a last attempt; `MaxLosses` 2 loses both.
  The theorems have no bound on any of these.
- `tenant_access`: `AllRequests` lists the requests that change what the middleware stack
  reads and those that it protects. Three of them are one that is under way, one that takes
  its right away and one that comes after. The theorems have no bound.

### Fairness

`WorkersRun` is weak fairness of the clock (`Lapse`), of the expiry sweep and of
`ReconcilePick`: `beat_schedule` starts the tasks every 30 seconds and 5 minutes. What
follows a pick has strong fairness: of a payment that is picked again and again, one look
is reached and one answer arrives before the worker dies, though any single batch may be
cut short. Nothing makes the sweep pick a payment that is not among the oldest, so
`StuckPaymentResolved` is conditional: for a payment that is not `Crowded` again and again.
Its conclusion leaves out payments that are `OutOfSight`. Both provisos are what the code
gives, and a run by hand shows that it fails without either. Customers, admins, webhooks
and the gateway's own moves have no fairness.

`FairSaga` is weak fairness of each request's next statement. It assumes no rollback,
so a deadlock would show up as a violation. PostgreSQL would abort one of the
requests; that abort is `Rollback`. The instances have one coupon. With two, coupons
are locked in no defined order and two requests can wait for each other until one is
aborted (see the hazards).

`FairSpec` of `InvoiceTask` is weak fairness of the request's end, of the broker's
delivery to each idle worker and of each worker's next step. A dead worker (`Killed`) and
a dropped connection (`Disconnected`) are never required and at most `MaxLosses` of them
happen; an exception may be raised every time, since `Step` is fair and not its success.
`Settled` holds because retries are counted: in the end there is an invoice with its PDF or
a record of the failure.

## 4. Proofs

| Module | Theorem | Says |
|---|---|---|
| `Inventory_proofs` | `LedgerSafe` | the ledger's three invariants, for `LedgerSpec` |
| `OrderLifecycle_proofs` | `LifecycleTyped` | `[]TypeOK` |
| | `LifecycleImplementsLedger` | `LifecycleSpec => LedgerSpec` |
| | `LifecycleKeepsStock` | the ledger's three invariants |
| | `StockFollows`, `InvoiceSettled` | `[]StockFollowsOrder`, `[]InvoiceSettledTogether` |
| | `OrderMovesForward` | `OrderMoves` |
| | `PaidIsCaptured` | `[]PaidWasCaptured` |
| | `CartsAreRecoverable` | `[]CheckingOutRecoverable` |
| `CheckoutSaga_proofs` | `SagaTyped`, `OneOrder`, `CouponsCounted`, `FailureIsEmpty`, `SoldAsConverted` | the invariants of `saga_safety` and `ConvertedAsOrdered` |
| | `SagaImplementsLedger` | `SagaSpec => LedgerSpec` |
| `Customer_proofs` | `CartTyped`, `CartIsOne`, `CurrencyIsLocked`, `SaleIsInOneCurrency`, `VersionIsTelling` | everything in `cart_safety` |
| | `WalletTyped`, `OneDefault`, `NoDeadlock` | `[]WalletTypeOK`, `DefaultKept`, `[]NoCircularWait` |
| | `PaidToItsGateway` | `[]PaidWhereItBelongs` |
| `CouponTerms_proofs` | `CouponsTyped`, `OnePrice`, `CouponsSellOnTerms` | everything in `coupon_terms` |
| `Catalog_proofs` | `EveryColumnKept`, `ImagesServed` | `ColumnsKept`, `[]ImageServed` |
| `InvoiceTask_proofs` | `TypeCorrect`, `OwnContextHolds`, `NeverForgotten` | the invariants of `invoice_task` |
| | `Implements` | `Spec => IssueSpec` |
| `TenantAccess_proofs` | `TypeCorrect`, `RequestsIsolated`, `RequestsAdmitted`, `B2BCanBeInvoiced` | everything in `tenant_access` |

**Inventory.** `LedgerInv` (types, `ReservedIsHeld`, `StockCoversReserved`,
`StockConserved`) is inductive for `LedgerNext`. Each step lemma argues per product on
numbers (`LedgerNumbers`, `LedgerFromNumbers`); `AmountSplit` and `AmountUnion` give
the sums, `SetStatusMoves` and `InsertAdds` say what a change of rows does to them.

**OrderLifecycle.** The inductive invariant is `LifecycleInv`: `LedgerInv`, `TypeOK`,
`Bookkeeping` of every checkout and `Marked`. `Bookkeeping` is needed because no
transaction looks at everything it relies on. The webhook's commit of linked ACTIVE rows
is right only if a pending gateway order has no COMMITTED ones; `cancel_order` gives back
COMMITTED rows, which must be those of a purchase order; `_reconcile_unknown_intent` takes
the order for cancelled already, because only a request whose `authorize` raised leaves
such a payment. `Marked` says that what mark-paid has checked stays a purchase order.
`PaidIsCaptured` needs `Money` besides: whoever can tell this code that an order was
captured (a capture event under way, an answer a reconcile holds) says so only after the
gateway has captured, whatever status an event of unknown type carries. There is no
assumption on what capture calls report: the checkouts that took a report for more than
it said are in `overclaimed`, and the theorem is about all others. That these are excepted
is what `paid_without_capture` is about. `CartsAreRecoverable` strengthens
`CheckingOutRecoverable` to `Recoverable`: every CHECKING_OUT cart has an ACTIVE row of no
order (`Stranded`), which nobody but the expiry sweep ends, and the sweep brings the cart
back with it.

**CheckoutSaga.** `SagaInv` is `TypeOK`, `LedgerInv`, `RequestInv` of each request, `Taken`,
`KeysApart` and `CouponUses`. `RequestInv` says what a program counter implies: which locks
the request has (`LocksOf`), what it has written (`Unfinished`, `Answered`), that a product it
has tested still has the stock (`HasStock`), that the cart is as it read it (`CartAsRead`),
and that it will commit an order or its compensation and never half of either (`Whole`).
`Taken` says that a cart which is not active any more is some live order's, `KeysApart` that
one request per key has inserted its order, committed or not. `FailureIsEmpty` is about every
answer but success: the two failures that nothing compensates are not left out, what is proved
of them is that they leave a whole pending order (`LeftPending`). The refinement needs
`HasStock` at the commit.

**CartService.** `Requests` of `CartInv` is what the row lock and the unique index give: a
request between its read and its write still has the cart it took (`Took`) and has it
alone (`Apart`), also when the cart is yet to be created. `Locked` is `CurrencyLock` for
those carts too, and `Told` adds to `VersionTells` that versions only grow. The last
theorem says how far If-Match can be trusted: within one cart it always tells an edit, and
`if_match_other_cart` shows that nothing ties it to the cart.

**Wallet.** `WalletInv` is `ShapeInv`, `FreshInv` and `LockInv`. `ShapeInv` is types and what
a view has read by each of its stages (`HasRead`): its configuration's row as it was, the
token of its card, the rows its UPDATE found. `FreshInv` says that the id of a row that no
transaction has committed is known to the one request that will insert it, and to no other
row. `LockInv` says who holds a row's lock: the request that selected it FOR UPDATE or cleared
its default; that what a request has cleared is still what it found, until it commits; and
that the two partial unique constraints hold. `OneDefault` follows, since a request that
cleared the default, or found none, either sets one or is refused by the constraint. For
`NoDeadlock` the strengthening is `Acyclic`: who holds a row that is a default waits for
nobody (`DefaultWaitsNot`: it writes its own row next, which nobody else can have locked), and
who locks a row that is none has nobody waiting for it yet, so no step closes a circle.
`PaidToItsGateway` needs four invariants more. `NameInv` says that everything that speaks of a
configuration which was not moved says the same seat: its row, the methods and payments that
refer to it, and what requests in progress have read of it (`Says`); the deferred foreign keys
keep a row that is referred to, and `FreshInv` keeps its id from being given again.
`NamesApart` (one configuration per gateway name) and `Chosen` say that the configuration a
charge resolved by name is the one its method names, as long as that one was not moved, and
that it was on. `CallInv` carries this to the call, and says that between `Aim` and the call
the SDK of a process with one worker (`Still`) points where it aimed.

**CouponTerms.** `TermsInv` is types (`Typed`) and: the rows a checkout prefetched hold for
its cart once it has validated them (`Prefetched`); a coupon it has taken is locked and below
its limit (`Counting`); an order's rows passed every rule of `Valid` at its subtotal, on the
day phase 2 ran (`Sale`); a count that only checkouts have written covers the orders and is
within its limit (`Limited`); and the orders are finitely many (`Ordered`), which is proved
along the way and not assumed of the carts. A PATCH between prefetch and count is not seen by
the sale, which is on the rows prefetched (`terms_changed_in_checkout`); only its limit is.
`OnePrice` is about the arithmetic: `Nearest` defines rounding as the cent within half a cent
of the share, the even one of two, and the proof shows that there is exactly one and that the
quotient and remainder of `Cents` compute it; a sum over coupons is the cardinality of a set
of marks (`Sum`), so that the preview, which adds one coupon to the others, can be compared
with the discount of all without recursion.

**Catalog.** `RowsInv` (types and, per request, what its stage implies) says that a PATCH
saves under the lock it read with. `ImageInv` (`Pictures`, `ImageStage`) says which objects of
an unspoilt product are in the bucket: the row's and no other, or those that the stage of the
one request at work on its image accounts for. `ImagesServed` is for products whose image
requests neither overlapped nor failed after an upload; `image_lost` shows that both
exceptions are needed.

**InvoiceTask.** `InvoiceInv` is types, `Numbering` (numbers are drawn once), `Halves` (a
PDF is of a number, a URL of a PDF), `Contexts` (a worker inside a task has the tenant of
its order, one outside has none) and `AllAnswered`: for every order there is an invoice
with its URL, a record of the failure, or a `Carrier`, which is a copy of the message
that still can be delivered or a worker that has it.

**TenantAccess.** `Layered` says what each stage of the stack has set on its thread,
connection and transaction, and what an idle thread must not have; `Placed` that an
address and its customer are of one tenant; `Vouched` that each grant a stage has tested
(`Passed`) was in force at some time since the request came. `Isolated` and `Admitted`
follow for any set of tenants, threads and requests.

Assumptions are the ones named at the constants. `InventoryAssumption`: finitely many
checkouts, natural bounds. `LifecycleAssumption`: types; a basket has at least one line,
which phase 2 checks. `SagaAssumption`: finitely many products, whose ids differ.
`CartAssumption`, `InvoiceAssumption`, `AccessAssumption`: types, and `None` is none of the
values. `CouponAssumption`: types, and PATCH bodies passed the serializer.
`WalletAssumption`: types, the ids of methods, configurations and payments differ, and the
tables a tenant starts with obey their constraints. `CatalogAssumption`: a body merged with
a row is a row, and no product starts with more reserved than in stock. There
is no assumption on the number of products, carts, customers, workers, tenants or orders
beyond that.

Only model-checked: liveness under fairness (`HoldsEnd`, `StuckPaymentResolved`,
`AllAnswered`, `Settled`), which like ENABLED, induction over data and RECURSIVE operators
is out of the prover's reach. Every other property of a passing run is a theorem.

## 5. Findings

Runs that end in a counterexample:

1. `paid_without_stock`: a capture webhook after the hold lapsed makes the order PAID
   and commits nothing, because the rows are RELEASED by then.
2. `hold_never_ends`: `GatewayNotConfigured` in phase 5 is compensated by nobody and
   commits a CHECKING_OUT cart with live holds; when the customer has opened another
   cart, the expiry sweep's batch fails on `one_active_cart_per_customer` at every run.

Counterexamples to be run by hand:

3. `paid_without_capture`: `checkout` marks the order PAID after any `capture_payment`
   that does not raise, whatever status it returned (`stripe.py:225` and `services.py:242`
   pass it on, `checkout_service.py:198` does not look).
4. `failed_capture_forgotten`: a payment whose capture raised is AUTHORIZED; the sweep
   selects PENDING only, so "left for reconciliation" is never reconciled.
5. `same_key_storm`: the second of two simultaneous requests with one key is told that
   there is no cart, instead of getting the order.
6. `coupon_spent_on_failure`: a declined checkout keeps the coupon uses it counted.
7. `if_match_other_cart`: If-Match names a version but no cart, and every cart counts from
   0. After a `clear_cart`, an abandonment or a checkout on another device, the new cart
   passes at the version the client saw in the old one.
8. `blocked_again_active`: the PATCH of a customer saves the row it read without a lock, so
   one that changes another field takes a concurrent block back.
9. `image_lost`: two image requests for one product, or one that fails after it removed the
   old object, leave a row whose picture is gone.
10. `charge_event_hides_payment`: the adapter reads `charge.succeeded` as `payment.unknown`
    with status CAPTURED, and the webhook task writes it while the order stays PENDING. If
    the `payment_intent.succeeded` event is lost, the sweep, which looks for PENDING payments
    "stuck" that way (`payments/tasks.py:185-188`), never looks at this one.
11. `payment_starved`: a payment whose row stays PENDING keeps its `updated_at`, so the sweep's
    batch is the same oldest payments every time. Abandoned challenges that fill it keep
    a younger payment, which the gateway has settled, from ever being asked about.
12. `failure_keeps_hold`: the checkout's view says "any phase failure reverts earlier
    side-effects" (`carts/views/cart_checkout.py:31`). An unconfigured gateway leaves order,
    hold and a CHECKING_OUT cart; an authorisation that comes back CAPTURED or CANCELLED is
    answered with a failed payment and leaves order, hold and a CONVERTED cart.
13. `terms_changed_in_checkout`: `checkout_service.py:81` says that coupons are "re-validated
    under reservation lock". Phase 4 reads only the limit again, so a coupon that a PATCH
    switched off, or whose terms it changed, between phase 1 and the lock is still sold.
14. `call_to_other_host`: `_configure_sdk` sets the SDK's target before every call so that the
    last gateway does not win "for whoever runs second" (`stripe.py:114-121`). Two threads of
    one process, as under the `runserver` of Dockerfile and Makefile, interleave between the
    setting and the call, and a call of one goes to the host of the other.

Met while reading, and not checked by a run:

- `tenant_resolver.py:70-72` says that the leftmost label names the tenant; the code takes
  the label next to the suffix.
- `config/celery.py:93-97` has the dead-letter exchange take messages of lost workers; with
  `acks_late` and `reject_on_worker_lost` they are delivered again.
- `coupon_detail.py:67-68` compares a new `max_uses` with the old `uses_count`. A PATCH of
  `uses_count` alone, or of both, can leave more uses than the limit, which its docstring
  and `serializers_admin.py:10-12` exclude.
- `coupons/serializers_admin.py:52-55` says that codes are found whatever their case; the
  lookup is `get(code=code)`.
- `product_image.py:36-38` says that the old picture goes asynchronously. It goes inside the
  request and before its commit.
- `product_detail.py:70-73` means to keep a product's currency while a live cart has it, but
  sees committed lines only, so an `add_item` in progress ends with a line in the old
  currency (the cart itself stays consistent, `CurrencyIsLocked`).
- `customer_payment_method_detail.py:24-29` says that the cart's slot is `PROTECT` where the
  model has `SET_NULL`.
- A PATCH of a configuration's `credentials` or `gateway_name` moves every saved token and
  open intent to another account (`gateway_config_detail.py:43`): nothing ties the rows that
  refer to it to what it was. `PaidWhereItBelongs` excepts the configurations it happened to.
- A client's token is stored for whatever gateway the request names
  (`customer_payment_method_list_create.py:103-110`); that the gateway issued it shows at the
  first charge.
- The price a preview or a cart showed is not kept: a PATCH of the coupon before the checkout
  changes what is charged.
- Two logins of one account at once: the second token violates the one-to-one constraint
  and the request ends with an error instead of a token.
- An account is looked up by e-mail in any case when a membership is made, and by username
  when it is created, so two accounts can differ in case; `login.py:56` then finds both.
- Checkout never looks at `Product.is_active`: a line of a product that was switched off is
  sold.
- The abandonment sweep goes by `updated_at`, which a version bump does not set.

## 6. Not modelled, and the plan

- `refund_payment`: nothing calls it. Tokenisation, webhook signatures, the
  public list of gateways: pure or read-only.
- Labels and defaults of addresses, address snapshots, the order number's sequence, PDF
  layout, serializer formats, envelopes, logging, throttling: no property here tells their
  values apart.
- Delays of retries and the idleness clock of the abandonment sweep: a retry or a sweep may
  come at any time.
- A task of the webhook and of the sweeps is taken to have committed once or not at all,
  which is what late acknowledgement and retries give them; the broker is in `InvoiceTask`.

What is left, in this order:

1. Lock orders of two coupons, and of webhook, sweep and cancel against checkout: today
   they are hazards without a property, because PostgreSQL aborts one of the two and both
   sides are retried or answered with an error.
2. An abstract checkout with one outcome per key (nothing, a pending order, an answer), and
   the theorem that `CheckoutSaga` implements it, as `InvoiceTask` implements
   `InvoiceIssue`.
