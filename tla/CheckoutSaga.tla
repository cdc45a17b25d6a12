----------------------------- MODULE CheckoutSaga -----------------------------
(***************************************************************************)
(* CheckoutService.checkout, statement by statement, with concurrent       *)
(* requests, cart edits, stock patches and the transactions that settle    *)
(* earlier checkouts.                                                      *)
(*                                                                         *)
(* Under ATOMIC_REQUESTS a checkout request is ONE transaction: its row    *)
(* locks are held until it answers and its writes are seen by nobody       *)
(* before.  So the variables of this module are the committed database,    *)
(* the row locks, and for every request a workspace of uncommitted writes. *)
(* A DomainError is answered by the exception handler without a rollback,  *)
(* so the compensations a failed phase wrote are COMMITTED; any other      *)
(* exception and a dead worker roll everything back.  The gateway knows    *)
(* nothing of transactions: what it did stays done.                        *)
(*                                                                         *)
(* The Checkouts of Inventory are the requests here; two requests with one *)
(* idempotency key are a client's retry, in sequence or at the same time.  *)
(***************************************************************************)
EXTENDS Inventory

CONSTANTS
  Carts, Customers, Coupons, Keys,
  Owner,        \* [Carts -> Customers]
  Client,       \* [Checkouts -> Customers]: who sends the request
  KeyOf,        \* [Checkouts -> Keys]: its Idempotency-Key
  IfMatch,      \* [Checkouts -> Nat \cup {None}]: the cart version it expects
  MaxUses,      \* [Coupons -> Nat]: Coupon.max_uses
  Rank,         \* [Products -> Nat]: the order of the products' UUIDs
  Baskets,      \* bound: the contents a cart may have
  MaxVersion,   \* bound: Cart.version
  None

Basket == [lines : Lines, coupons : SUBSET Coupons, method : {"none", "card", "invoice"}]

ASSUME SagaAssumption ==
  /\ IsFiniteSet(Products)
  /\ Owner \in [Carts -> Customers] /\ Client \in [Checkouts -> Customers]
  /\ KeyOf \in [Checkouts -> Keys] /\ IfMatch \in [Checkouts -> Nat \cup {None}]
  /\ MaxUses \in [Coupons -> Nat]
  /\ Rank \in [Products -> Nat] /\ \A p, q \in Products : Rank[p] = Rank[q] => p = q
  /\ Baskets \subseteq Basket
  /\ MaxVersion \in Nat \ {0}
  /\ None \notin Carts \cup Checkouts \cup Nat

VARIABLES
  pc,         \* the statement each request is at
  target,     \* the cart row its phase 1 found
  work,       \* what its transaction has written so far; after the answer, what it installed
  cartLock, prodLock, coupLock,    \* the request that has the row FOR UPDATE
  order, payment,                  \* committed Order and Payment status, per checkout
  cart, version, basket,           \* committed Cart status, version and content
  uses,       \* Coupon.uses_count
  intent      \* the gateway's record, per idempotency key

requests == <<pc, target, work>>
locks    == <<cartLock, prodLock, coupLock>>
shop     == <<order, payment, cart, version, basket, uses>>
vars     == <<ledger, requests, locks, shop, intent>>

NoLines == [p \in Products |-> 0]
Blank == [lines |-> NoLines, rows |-> "none", coupons |-> {}, order |-> "none",
          payment |-> "none", cart |-> "active", reply |-> None]

IntentStatus == {"none", "requires_action", "requires_method", "requires_capture", "succeeded", "canceled"}

Running(r) == pc[r] \notin {"idle", "done"}
Needed(r)  == {p \in Products : work[r].lines[p] > 0}
UsedUp(q)  == uses[q] >= MaxUses[q]
Ready(b)   == b.method # "none" /\ \E p \in Products : b.lines[p] > 0

\* The requests whose order is committed, and those that have inserted it and may
\* still roll back.
Ordered   == {r \in Checkouts : order[r] # "none"}
Inserted  == {r \in Checkouts : pc[r] \in {"pay", "capture", "commit"} /\ work[r].order # "none"}
SameKey(r) == {s \in Checkouts \ {r} : KeyOf[s] = KeyOf[r]}

Freed(lock, r) == [x \in DOMAIN lock |-> IF lock[x] = r THEN None ELSE lock[x]]
FreeLocks(r) ==
  /\ cartLock' = Freed(cartLock, r)
  /\ prodLock' = Freed(prodLock, r)
  /\ coupLock' = Freed(coupLock, r)

GoTo(r, l) == pc' = [pc EXCEPT ![r] = l]

\* The request answers with nothing written.
Answer(r, reply) ==
  /\ GoTo(r, "done")
  /\ work' = [work EXCEPT ![r].reply = reply]
  /\ UNCHANGED <<ledger, target, locks, shop, intent>>

\* Variant: the compensation of the phases before phase 4 only.
CompensatedCart(w, reply) ==
  [w EXCEPT !.cart = "active",
            !.order = IF @ = "pending" THEN "cancelled" ELSE @,
            !.reply = reply]

\* The end of every other request: its workspace as it is now is to be committed.
Finish(r, w) ==
  /\ GoTo(r, "commit")
  /\ work' = [work EXCEPT ![r] = w]
  /\ UNCHANGED <<ledger, target, locks, shop>>

\* The compensations a failed phase runs, for what has been done so far: the cart is
\* reverted, reservations are released, the order cancelled.  uses_count is not.
Compensated(w, reply) ==
  [w EXCEPT !.cart = "active",
            !.rows = IF @ = "active" THEN "released" ELSE @,
            !.order = IF @ = "pending" THEN "cancelled" ELSE @,
            !.reply = reply]

SagaInit ==
  /\ LedgerInit
  /\ pc       = [r \in Checkouts |-> "idle"]
  /\ target   = [r \in Checkouts |-> None]
  /\ work     = [r \in Checkouts |-> Blank]
  /\ cartLock = [k \in Carts |-> None]
  /\ prodLock = [p \in Products |-> None]
  /\ coupLock = [q \in Coupons |-> None]
  /\ order    = [r \in Checkouts |-> "none"]
  /\ payment  = [r \in Checkouts |-> "none"]
  /\ cart     = [k \in Carts |-> "absent"]
  /\ version  = [k \in Carts |-> 0]
  /\ basket   = [k \in Carts |-> [lines |-> NoLines, coupons |-> {}, method |-> "none"]]
  /\ uses     = [q \in Coupons |-> 0]
  /\ intent   = [i \in Keys |-> "none"]

------------------------------------------------------------------------------
(* Before phase 1 and phase 1: the cart *)

\* _find_existing_checkout: an order with this key is returned as it is.
Lookup(r) ==
  /\ pc[r] = "idle"
  /\ IF \E s \in Ordered : KeyOf[s] = KeyOf[r]
       THEN Answer(r, "replayed")
       ELSE /\ GoTo(r, "find")
            /\ UNCHANGED <<ledger, target, work, locks, shop, intent>>

\* The SELECT ... FOR UPDATE picks the customer's active cart in its snapshot.
FindCart(r) ==
  /\ pc[r] = "find"
  /\ LET mine == {k \in Carts : Owner[k] = Client[r] /\ cart[k] = "active"} IN
     \/ mine = {} /\ Answer(r, "cart_not_found")
     \/ /\ \E k \in mine : target' = [target EXCEPT ![r] = k]
        /\ GoTo(r, "lock")
        /\ UNCHANGED <<ledger, work, locks, shop, intent>>

\* Once it has the row's lock it looks at the row again: a cart that was converted
\* while it waited no longer matches, and no other row is tried.
LockCart(r) ==
  LET k == target[r] IN
  /\ pc[r] = "lock" /\ cartLock[k] = None
  /\ \/ cart[k] # "active" /\ Answer(r, "cart_not_found")
     \/ cart[k] = "active" /\ IfMatch[r] \notin {None, version[k]} /\ Answer(r, "version_conflict")
     \/ /\ cart[k] = "active" /\ IfMatch[r] \in {None, version[k]}
        /\ cartLock' = [cartLock EXCEPT ![k] = r]
        /\ work' = [work EXCEPT ![r].lines = basket[k].lines, ![r].cart = "checking_out"]
        /\ GoTo(r, "validate")
        /\ UNCHANGED <<ledger, target, prodLock, coupLock, shop, intent>>

(* Phase 2: preconditions, with the coupons' limits read without a lock *)

Validate(r) ==
  LET b == basket[target[r]] IN
  /\ pc[r] = "validate"
  /\ \/ ~Ready(b) /\ Finish(r, Compensated(work[r], "not_ready"))
     \/ /\ Ready(b) /\ \E q \in b.coupons : UsedUp(q)
        /\ Finish(r, Compensated(work[r], "coupon_exhausted"))
     \/ /\ Ready(b) /\ \A q \in b.coupons : ~UsedUp(q)
        /\ GoTo(r, "reserve")
        /\ UNCHANGED <<ledger, target, work, locks, shop>>
  /\ UNCHANGED intent

(* Phase 3: stock *)

\* Variant: the product rows are locked in the order the cart lists them.
LockAnyProduct(r, p) ==
  /\ pc[r] = "reserve"
  /\ p \in Needed(r) /\ prodLock[p] = None
  /\ prodLock' = [prodLock EXCEPT ![p] = r]
  /\ UNCHANGED <<ledger, requests, cartLock, coupLock, shop, intent>>

\* The cart's product rows are locked one after the other, sorted by id.
LockProduct(r, p) ==
  /\ pc[r] = "reserve"
  /\ p \in Needed(r) /\ prodLock[p] = None
  /\ \A q \in Needed(r) : Rank[q] < Rank[p] => prodLock[q] = r
  /\ prodLock' = [prodLock EXCEPT ![p] = r]
  /\ UNCHANGED <<ledger, requests, cartLock, coupLock, shop, intent>>

\* Variant: what was available when the item was added is taken for granted.
ReserveUnchecked(r) ==
  /\ pc[r] = "reserve"
  /\ \A p \in Needed(r) : prodLock[p] = r
  /\ work' = [work EXCEPT ![r].rows = "active"]
  /\ GoTo(r, "coupons")
  /\ UNCHANGED <<ledger, target, locks, shop, intent>>

\* With all of them locked, the lines are compared with what is available.
Reserve(r) ==
  /\ pc[r] = "reserve"
  /\ \A p \in Needed(r) : prodLock[p] = r
  /\ \/ ~EnoughStock(work[r].lines) /\ Finish(r, Compensated(work[r], "insufficient_stock"))
     \/ /\ EnoughStock(work[r].lines)
        /\ work' = [work EXCEPT ![r].rows = "active"]
        /\ GoTo(r, "coupons")
        /\ UNCHANGED <<ledger, target, locks, shop>>
  /\ UNCHANGED intent

(* Phase 4: the order *)

\* Variant: the limit that phase 2 has seen is not looked at again.
TakeCouponAsSeen(r, q) ==
  /\ pc[r] = "coupons"
  /\ q \in basket[target[r]].coupons \ work[r].coupons
  /\ coupLock[q] = None
  /\ coupLock' = [coupLock EXCEPT ![q] = r]
  /\ work' = [work EXCEPT ![r].coupons = @ \cup {q}]
  /\ UNCHANGED <<ledger, pc, target, cartLock, prodLock, shop, intent>>

\* Each coupon is locked, in no particular order, and its limit read again.  When one
\* is used up the savepoint takes the increments of the others back.
TakeCoupon(r, q) ==
  /\ pc[r] = "coupons"
  /\ q \in basket[target[r]].coupons \ work[r].coupons
  /\ coupLock[q] = None
  /\ \/ /\ UsedUp(q)
        /\ Finish(r, [Compensated(work[r], "coupon_exhausted") EXCEPT !.coupons = {}])
     \/ /\ ~UsedUp(q)
        /\ coupLock' = [coupLock EXCEPT ![q] = r]
        /\ work' = [work EXCEPT ![r].coupons = @ \cup {q}]
        /\ UNCHANGED <<ledger, pc, target, cartLock, prodLock, shop>>
  /\ UNCHANGED intent

\* The transaction is rolled back: an exception that is no DomainError, or the worker
\* died.
Rollback(r) ==
  /\ Running(r)
  /\ GoTo(r, "done")
  /\ work' = [work EXCEPT ![r] = [Blank EXCEPT !.reply = "error"]]
  /\ FreeLocks(r)
  /\ UNCHANGED <<ledger, target, shop, intent>>

\* Variant: no UNIQUE constraint on idempotency_key, only the lookup at the start.
InsertOrderUnchecked(r) ==
  /\ pc[r] = "coupons"
  /\ basket[target[r]].coupons \subseteq work[r].coupons
  /\ work' = [work EXCEPT ![r].order = "pending"]
  /\ GoTo(r, "pay")
  /\ UNCHANGED <<ledger, target, locks, shop, intent>>

\* The INSERT waits for another transaction that has inserted the same key; if that
\* one commits, this one raises an IntegrityError.
InsertOrder(r) ==
  /\ pc[r] = "coupons"
  /\ basket[target[r]].coupons \subseteq work[r].coupons
  /\ SameKey(r) \cap Inserted = {}
  /\ \/ SameKey(r) \cap Ordered # {} /\ Rollback(r)
     \/ /\ SameKey(r) \cap Ordered = {}
        /\ work' = [work EXCEPT ![r].order = "pending"]
        /\ GoTo(r, "pay")
        /\ UNCHANGED <<ledger, target, locks, shop, intent>>

------------------------------------------------------------------------------
(* Phase 5: the payment *)

\* A purchase order: no gateway; the stock is committed now.
Invoice(r) ==
  /\ pc[r] = "pay" /\ basket[target[r]].method = "invoice"
  /\ Finish(r, [work[r] EXCEPT !.payment = "invoice_pending", !.rows = "committed",
                               !.cart = "converted", !.reply = "ok"])
  /\ UNCHANGED intent

\* The gateway's answer to authorize(): a key it has seen gets the answer of the
\* first call, whatever became of the transaction that made it.
Asked(r, from, to) ==
  /\ pc[r] = "pay" /\ basket[target[r]].method = "card"
  /\ intent[KeyOf[r]] \in {"none"} \cup from
  /\ intent' = [intent EXCEPT ![KeyOf[r]] = IF @ = "none" THEN to ELSE @]

\* Authorised; phase 6 converts the cart and links order and rows.
Authorised(r) ==
  /\ Asked(r, {"requires_capture", "succeeded"}, "requires_capture")
  /\ work' = [work EXCEPT ![r].payment = "authorized", ![r].cart = "converted"]
  /\ GoTo(r, "capture")
  /\ UNCHANGED <<ledger, target, locks, shop>>

\* 3DS: phase 6 runs, the rest is up to the webhooks.
ActionRequired(r) ==
  /\ Asked(r, {"requires_action"}, "requires_action")
  /\ Finish(r, [work[r] EXCEPT !.payment = "pending", !.cart = "converted", !.reply = "ok"])

Declined(r) ==
  /\ Asked(r, {"requires_method"}, "requires_method")
  /\ Finish(r, Compensated([work[r] EXCEPT !.payment = "failed"], "payment_failed"))

\* The gateway answers that the payment is captured already, or cancelled: neither a
\* decline nor one of the statuses phase 7 knows.  Phase 6 has run, and the PaymentFailed
\* raised at the end is caught by nobody in the saga: order, rows and converted cart are
\* committed, and the customer is told that the payment failed.
Unexpected(r) ==
  \/ /\ Asked(r, {"succeeded"}, "succeeded")
     /\ Finish(r, [work[r] EXCEPT !.payment = "captured", !.cart = "converted",
                                  !.reply = "unexpected_status"])
  \/ /\ Asked(r, {"canceled"}, "canceled")
     /\ Finish(r, [work[r] EXCEPT !.payment = "cancelled", !.cart = "converted",
                                  !.reply = "unexpected_status"])

\* authorize() raised: no answer, or a card the Stripe SDK reports by an exception.  The
\* gateway may have made any intent of it.
AuthorizeRaised(r) ==
  /\ \E made \in IntentStatus : Asked(r, IntentStatus, made)
  /\ Finish(r, Compensated([work[r] EXCEPT !.payment = "pending"], "payment_failed"))

\* GatewayNotConfigured, GatewayUnsupportedCurrency: raised before the Payment row
\* exists, caught by nobody in the saga, and committed like any DomainError.
NotConfigured(r) ==
  /\ pc[r] = "pay" /\ basket[target[r]].method = "card"
  /\ Finish(r, [work[r] EXCEPT !.reply = "gateway_not_configured"])
  /\ UNCHANGED intent

(* Phase 7: capture *)

CaptureDone(r) ==
  /\ pc[r] = "capture"
  /\ intent' = [intent EXCEPT ![KeyOf[r]] = "succeeded"]
  /\ Finish(r, [work[r] EXCEPT !.payment = "captured", !.order = "paid", !.rows = "committed",
                               !.reply = "ok"])

\* capture() raised: swallowed, everything stays as phase 6 left it.
CaptureRaised(r) ==
  /\ pc[r] = "capture"
  /\ intent' \in {intent, [intent EXCEPT ![KeyOf[r]] = "succeeded"]}
  /\ Finish(r, [work[r] EXCEPT !.reply = "ok"])

(* The end of the request *)

CommitRequest(r) ==
  LET w == work[r] IN
  /\ pc[r] = "commit"
  /\ IF w.rows = "none" THEN UNCHANGED ledger ELSE Write(r, w.lines, w.rows)
  /\ order'   = [order EXCEPT ![r] = w.order]
  /\ payment' = [payment EXCEPT ![r] = w.payment]
  /\ cart'    = [cart EXCEPT ![target[r]] = w.cart]
  /\ uses'    = [q \in Coupons |-> IF q \in w.coupons THEN uses[q] + 1 ELSE uses[q]]
  /\ GoTo(r, "done")
  /\ FreeLocks(r)
  /\ UNCHANGED <<target, work, version, basket, intent>>

------------------------------------------------------------------------------
(* The others; each of these is a transaction short enough to be one step *)

NewCart(k, b) ==
  /\ cart[k] = "absent"
  /\ \A j \in Carts : Owner[j] = Owner[k] => cart[j] # "active"
  /\ cart' = [cart EXCEPT ![k] = "active"]
  /\ basket' = [basket EXCEPT ![k] = b]
  /\ version' = [version EXCEPT ![k] = 1]
  /\ UNCHANGED <<ledger, requests, locks, order, payment, uses, intent>>

\* Variant: a mutator that does not lock the cart row.
EditCartUnlocked(k, b) ==
  /\ cart[k] = "active" /\ version[k] < MaxVersion
  /\ basket' = [basket EXCEPT ![k] = b]
  /\ version' = [version EXCEPT ![k] = @ + 1]
  /\ UNCHANGED <<ledger, requests, locks, order, payment, cart, uses, intent>>

\* Any cart mutator: _lock_active_cart, the change, _bump_and_return.
EditCart(k, b) ==
  /\ cart[k] = "active" /\ cartLock[k] = None /\ version[k] < MaxVersion
  /\ basket' = [basket EXCEPT ![k] = b]
  /\ version' = [version EXCEPT ![k] = @ + 1]
  /\ UNCHANGED <<ledger, requests, locks, order, payment, cart, uses, intent>>

\* Variant: the PATCH reads the product without FOR UPDATE.
SetStockUnlocked(p, n) == PatchStock(p, n) /\ UNCHANGED <<requests, locks, shop, intent>>

\* The admin's PATCH of a product's stock, under the row's lock.
SetStock(p, n) ==
  /\ prodLock[p] = None
  /\ PatchStock(p, n)
  /\ UNCHANGED <<requests, locks, shop, intent>>

\* What the webhook task, the sweeps and cancel do later to the stock of a checkout:
\* its active rows are committed or released.  Their UPDATEs wait for the products.
Settle(c) ==
  LET S == {x \in RowsIn("active") : x[1] = c} IN
  /\ S # {} /\ \A x \in S : prodLock[x[2]] = None
  /\ Release(S) \/ Commit(S)
  /\ UNCHANGED <<requests, locks, shop, intent>>

------------------------------------------------------------------------------
\* What a request does of its own accord.
Step(r) ==
  \/ FindCart(r) \/ LockCart(r) \/ Validate(r)
  \/ (\E p \in Products : LockProduct(r, p)) \/ Reserve(r)
  \/ (\E q \in Coupons : TakeCoupon(r, q)) \/ InsertOrder(r)
  \/ Invoice(r) \/ Authorised(r) \/ ActionRequired(r) \/ Declined(r) \/ AuthorizeRaised(r)
  \/ Unexpected(r) \/ NotConfigured(r) \/ CaptureDone(r) \/ CaptureRaised(r)
  \/ CommitRequest(r)

SagaNext ==
  \/ \E r \in Checkouts : Lookup(r) \/ Step(r) \/ Rollback(r) \/ Settle(r)
  \/ \E k \in Carts, b \in Baskets : NewCart(k, b) \/ EditCart(k, b)
  \/ \E p \in Products, n \in 0..MaxStock : SetStock(p, n)

SagaSpec == SagaInit /\ [][SagaNext]_vars

\* A request that is not blocked goes on: the worker runs it, PostgreSQL grants locks
\* and gateway calls end, if only by their timeout.  No rollback is counted on.
FairSaga == SagaSpec /\ \A r \in Checkouts : WF_vars(Step(r))

------------------------------------------------------------------------------
Replies == {None, "replayed", "cart_not_found", "version_conflict", "not_ready", "insufficient_stock",
            "coupon_exhausted", "payment_failed", "gateway_not_configured", "unexpected_status",
            "ok", "error"}

PaymentStatus == {"none", "pending", "failed", "authorized", "captured", "cancelled", "invoice_pending"}

Work == [lines : Lines, rows : RowStatus, coupons : SUBSET Coupons,
         order : {"none", "pending", "paid", "cancelled"},
         payment : PaymentStatus,
         cart : {"active", "checking_out", "converted"}, reply : Replies]

TypeOK ==
  /\ LedgerTypeOK
  /\ pc \in [Checkouts -> {"idle", "find", "lock", "validate", "reserve", "coupons", "pay",
                           "capture", "commit", "done"}]
  /\ target \in [Checkouts -> Carts \cup {None}]
  /\ work \in [Checkouts -> Work]
  /\ cartLock \in [Carts -> Checkouts \cup {None}]
  /\ prodLock \in [Products -> Checkouts \cup {None}]
  /\ coupLock \in [Coupons -> Checkouts \cup {None}]
  /\ order \in [Checkouts -> {"none", "pending", "paid", "cancelled"}]
  /\ payment \in [Checkouts -> PaymentStatus]
  /\ cart \in [Carts -> {"absent", "active", "checking_out", "converted"}]
  /\ version \in [Carts -> 0..MaxVersion]
  /\ basket \in [Carts -> Basket]
  /\ uses \in [Coupons -> Nat]
  /\ intent \in [Keys -> IntentStatus]

\* A client's retries, in sequence, at the same time, after a decline and after the
\* customer has opened another cart, make one order: between the lookup that found
\* none and the INSERT, another request with the key may have come and gone.
OneOrderPerKey ==
  \A r, s \in Ordered : KeyOf[r] = KeyOf[s] => r = s

\* No coupon is used more often than max_uses, although phase 2 reads the count without
\* a lock, and each use is an order's: a request that rolled back, or found another of
\* its coupons used up, has used none.
CouponUses ==
  \A q \in Coupons :
    /\ uses[q] <= MaxUses[q]
    /\ uses[q] = Cardinality({r \in Ordered : q \in work[r].coupons})

\* A converted cart is the record of what was sold: the order has the lines and the
\* coupons the cart holds for ever after, at the version the client asked for.  No
\* edit slips in while the request waits for stock, coupons or the gateway.
ConvertedAsOrdered ==
  \A r \in Ordered :
    LET k == target[r] IN
    cart[k] = "converted" /\ order[r] # "cancelled" =>
      /\ basket[k].lines = work[r].lines /\ basket[k].coupons = work[r].coupons
      /\ IfMatch[r] \in {None, version[k]}

\* The two failures no phase compensates: GatewayNotConfigured and its like, and a
\* payment status nobody expected.
Uncompensated == {"gateway_not_configured", "unexpected_status"}

HoldsNothing(r) ==
  /\ \A p \in Products : resv[<<r, p>>].status \in {"none", "released"}
  /\ order[r] \in {"none", "cancelled"}
  /\ target[r] # None /\ cart[target[r]] # "active" =>
       \E s \in Ordered : target[s] = target[r] /\ order[s] # "cancelled"

\* The order stays for the sweeps and the customer to end, its cart out of reach.
LeftPending(r) ==
  /\ order[r] = "pending"
  /\ cart[target[r]] = IF work[r].reply = "unexpected_status" THEN "converted" ELSE "checking_out"

\* A request refused by the cart, the stock, a coupon or a declined or failing card, or
\* rolled back, holds nothing once it is answered: no stock and no live order, and its
\* cart is as it was, unless another request has taken it since.  Of the other failures
\* the two of Uncompensated leave a whole pending order, never part of one.  No refusal
\* keeps a lock.
FailureHoldsNothing ==
  \A r \in Checkouts :
    pc[r] = "done" /\ work[r].reply # "ok" =>
      /\ \A p \in Products : prodLock[p] # r
      /\ IF work[r].reply \in Uncompensated THEN LeftPending(r) ELSE HoldsNothing(r)

\* Every request is answered: no two checkouts wait for each other's rows.
AllAnswered == \A r \in Checkouts : Running(r) ~> pc[r] = "done"

\* "Any phase failure reverts earlier side-effects": the uses of a coupon are those of
\* orders that are not cancelled.
FailureRestoresCoupons ==
  \A q \in Coupons :
    uses[q] = Cardinality({r \in Ordered : order[r] # "cancelled" /\ q \in work[r].coupons})

\* "Any phase failure reverts earlier side-effects", said of every failure.
EveryFailureReverts ==
  \A r \in Checkouts : pc[r] = "done" /\ work[r].reply # "ok" => HoldsNothing(r)

\* "Exactly one order gets created and every other request returns the same order":
\* of two requests with one key that both found the cart, none is told that there is
\* no cart because the other one has checked it out.
SameKeyConverges ==
  \A r \in Checkouts : \A s \in SameKey(r) :
    ~(work[r].reply = "ok" /\ work[s].reply = "cart_not_found" /\ target[s] = target[r])

==============================================================================
