--------------------------- MODULE OrderLifecycle ---------------------------
(***************************************************************************)
(* What happens to an order between the end of its checkout request and    *)
(* its last status, with every actor that touches it: the customer's       *)
(* cancel, the gateway and its webhooks, the reconcile sweep, the          *)
(* reservation expiry sweep and the admin who marks a purchase order paid. *)
(*                                                                         *)
(* One action is one committed database transaction.  A tenant request is  *)
(* one transaction (ATOMIC_REQUESTS and TenantDBSessionMiddleware), so a   *)
(* checkout is seen by the other actors only as its final outcome; the     *)
(* phases inside the request are the subject of CheckoutSaga.  Two         *)
(* operations are split because other transactions do interleave with      *)
(* them: mark-paid checks the order before it locks the payment, and the   *)
(* reconcile sweep picks its batch first and then, row by row, holds the   *)
(* payment while it waits for the gateway.                                 *)
(***************************************************************************)
EXTENDS Inventory

CONSTANTS
  Carts,
  Customers,
  Owner,            \* [Carts -> Customers]
  Baskets,          \* bound: the line quantities carts are checked out with
  Outcomes,         \* which outcomes of phases 5 to 7 may happen
  CaptureReports,   \* the statuses a capture call that does not raise may report
  FailureStatus,    \* the status a payment.failed event carries: Stripe "pending", mock "failed"
  UnknownReports,   \* bound: the statuses followed on events the adapter has no type for
  Admins,
  SweepBatch,       \* rows released per transaction of the expiry sweep
  ReconcileBatch,   \* RECONCILE_BATCH_SIZE: payments one reconcile sweep picks
  None

OutcomeKinds  == {"captured", "async", "capture_raised", "declined", "gateway_error",
                  "unconfigured", "unexpected", "invoiced"}
PaymentStatus == {"none", "pending", "invoice_pending", "authorized", "captured", "failed",
                  "refunded", "cancelled"}
OrderStatus   == {"none", "pending", "paid", "cancelled", "refunded"}
CartStatus    == {"absent", "active", "checking_out", "converted"}

ASSUME LifecycleAssumption ==
  /\ Owner \in [Carts -> Customers]
  /\ Baskets \subseteq {lines \in Lines : \E p \in Products : lines[p] > 0}
  /\ Outcomes \subseteq OutcomeKinds
  /\ CaptureReports \subseteq {"pending", "captured", "failed"}
  /\ FailureStatus \in {"pending", "failed"}
  /\ UnknownReports \subseteq {"pending", "authorized", "captured"}
  /\ SweepBatch \in Nat \ {0} /\ ReconcileBatch \in Nat \ {0}
  /\ None \notin Carts \cup Checkouts \cup PaymentStatus

VARIABLES
  order,      \* Order.status of the order of each checkout
  payment,    \* status of its Payment row
  older,      \* pairs of PENDING payments: the first has the earlier updated_at
  txn,        \* checkouts whose Payment row has a gateway_transaction_id
  linked,     \* checkouts whose reservation rows point to the order (phase 6)
  lapsed,     \* checkouts whose reservation rows are past expires_at
  cart,       \* Cart.status
  cartOf,     \* the cart each checkout took
  intent,     \* the gateway's own record of the payment
  sent,       \* webhook events the gateway has emitted; it may deliver them in any order
  processed,  \* ProcessedWebhookEvent rows
  picked,     \* payments a running reconcile sweep has picked and not yet looked at
  recon,      \* what the gateway answered a reconcile transaction that is still open
  marking,    \* the order an admin's mark-paid request has checked and not yet written
  overclaimed \* history: checkouts whose capture call returned without having captured

purchase == <<order, payment, older, txn, linked, cart, cartOf, overclaimed>>
gateway  == <<intent, sent>>
workers  == <<lapsed, processed, picked, recon, marking>>
vars     == <<ledger, purchase, gateway, workers>>

GatewayReport == {"pending", "authorized", "captured", "failed", "refunded", "cancelled"}
Event == [co : Checkouts, type : {"captured", "failed", "cancelled", "refunded", "unknown"},
          status : GatewayReport]

IntentStatus == {"none", "requires_action", "requires_method", "requires_capture", "succeeded",
                 "canceled", "refunded"}

\* Variant: an authorised intent is taken for a captured one.
RetrievedAsPaid(i) ==
  CASE i \in {"requires_action", "requires_method"}             -> "pending"
    [] i \in {"requires_capture", "succeeded", "refunded"}       -> "captured"
    [] i = "canceled"                                            -> "cancelled"

\* _STATUS_MAP over retrieve_payment: what a reconcile transaction is told.
Retrieved(i) ==
  CASE i \in {"requires_action", "requires_method"} -> "pending"
    [] i = "requires_capture"                       -> "authorized"
    [] i \in {"succeeded", "refunded"}              -> "captured"
    [] i = "canceled"                               -> "cancelled"

\* The webhook events the gateway has for a payment that reaches state i, as
\* parse_webhook reads them: those it knows a type for, and "payment.unknown" with the
\* status of the intent (requires_action, amount_capturable_updated) or, for charge
\* events, of the charge, which reads "succeeded" when it is only authorised.
Announced(c, i) ==
  LET known == CASE i = "succeeded"       -> {<<"captured", "captured">>}
                 [] i = "canceled"        -> {<<"cancelled", "cancelled">>}
                 [] i = "refunded"        -> {<<"refunded", "refunded">>}
                 [] i = "requires_method" -> {<<"failed", FailureStatus>>}
                 [] OTHER                 -> {}
      other == CASE i \in {"requires_action", "requires_method"} -> {"pending"}
                 [] i = "requires_capture"                       -> {"authorized", "captured"}
                 [] i = "succeeded"                              -> {"captured"}
                 [] OTHER                                        -> {}
  IN {[co |-> c, type |-> m[1], status |-> m[2]] :
        m \in known \cup ({"unknown"} \X (other \cap UnknownReports))}

\* updated_at: a payment that leaves PENDING leaves the order of age, one saved as
\* PENDING becomes the youngest.
Gone(c) == older' = {x \in older : c \notin {x[1], x[2]}}

Youngest(c) ==
  older' = {x \in older : c \notin {x[1], x[2]}}
             \cup ({d \in Checkouts \ {c} : payment[d] = "pending"} \X {c})

Saved(c, status) ==
  \/ status = "pending" /\ Youngest(c)
  \/ status # "pending" /\ Gone(c)

\* The query of the reconcile sweep: the first RECONCILE_BATCH_SIZE by updated_at.
Ahead(c) == {d \in Checkouts : <<d, c>> \in older}
Oldest   == {c \in Checkouts : payment[c] = "pending" /\ Cardinality(Ahead(c)) < ReconcileBatch}

\* Variant: the rows of an order without the filter on their status.
AllLinkedRows(c, st) == {r \in Rows : r[1] = c /\ c \in linked}

LinkedRows(c, st) == {r \in RowsIn(st) : r[1] = c /\ c \in linked}

\* Carts still CHECKING_OUT go back to ACTIVE.
Reverted(ks) == [k \in Carts |-> IF k \in ks /\ cart[k] = "checking_out" THEN "active" ELSE cart[k]]

\* The constraint one_active_cart_per_customer.
OneActive(carts) ==
  \A j, k \in Carts : j # k /\ Owner[j] = Owner[k] => ~(carts[j] = "active" /\ carts[k] = "active")

LifecycleInit ==
  /\ LedgerInit
  /\ order     = [c \in Checkouts |-> "none"]
  /\ payment   = [c \in Checkouts |-> "none"]
  /\ older     = {}
  /\ txn       = {}
  /\ linked    = {}
  /\ lapsed    = {}
  /\ cart      = [k \in Carts |-> "absent"]
  /\ cartOf    = [c \in Checkouts |-> None]
  /\ intent    = [c \in Checkouts |-> "none"]
  /\ sent      = {}
  /\ processed = {}
  /\ picked    = {}
  /\ recon     = [c \in Checkouts |-> None]
  /\ marking   = [a \in Admins |-> None]
  /\ overclaimed = {}

------------------------------------------------------------------------------
(* The customer *)

\* add_item's get_or_create: a new cart when the customer has no active one.
NewCart(k) ==
  /\ cart[k] = "absent"
  /\ cart' = [cart EXCEPT ![k] = "active"]
  /\ OneActive(cart')
  /\ UNCHANGED <<ledger, order, payment, older, txn, linked, cartOf, overclaimed, gateway, workers>>

\* A checkout request as the others see it: the rows it inserted with their status
\* at commit, and the order, payment and cart statuses it leaves.  A request that
\* fails before phase 5 compensates everything and leaves no trace but the spent
\* coupon uses, which CheckoutSaga has.
Place(c, k, lines, rowStatus, orderStatus, paymentStatus, cartStatus) ==
  /\ order[c] = "none" /\ cart[k] = "active"
  /\ Insert(c, lines, rowStatus)
  /\ order'   = [order EXCEPT ![c] = orderStatus]
  /\ payment' = [payment EXCEPT ![c] = paymentStatus]
  /\ Saved(c, paymentStatus)
  /\ cart'    = [cart EXCEPT ![k] = cartStatus]
  /\ cartOf'  = [cartOf EXCEPT ![c] = k]
  /\ UNCHANGED workers

\* The gateway's record of a new payment, and the events it emits on the way.
Reaches(c, i, events) ==
  /\ intent' = [intent EXCEPT ![c] = i]
  /\ sent' = sent \cup events

\* Authorized and captured in the request.  The order becomes PAID whatever status
\* the capture reported; only an exception is treated as a failed capture.
Captured(c, k, lines) ==
  \E report \in CaptureReports :
    /\ "captured" \in Outcomes
    /\ Place(c, k, lines, "committed", "paid", report, "converted")
    /\ txn' = txn \cup {c} /\ linked' = linked \cup {c}
    /\ \/ /\ report = "captured"
          /\ Reaches(c, "succeeded", Announced(c, "requires_capture") \cup Announced(c, "succeeded"))
          /\ UNCHANGED overclaimed
       \/ /\ report # "captured"
          /\ Reaches(c, "requires_capture", Announced(c, "requires_capture"))
          /\ overclaimed' = overclaimed \cup {c}

\* 3DS: the payment stays PENDING, webhooks are to move it forward.
Async(c, k, lines) ==
  /\ "async" \in Outcomes
  /\ Place(c, k, lines, "active", "pending", "pending", "converted")
  /\ txn' = txn \cup {c} /\ linked' = linked \cup {c}
  /\ Reaches(c, "requires_action", Announced(c, "requires_action"))
  /\ UNCHANGED overclaimed

\* Authorized, but the capture call raised; it may have reached the gateway.
CaptureRaised(c, k, lines) ==
  /\ "capture_raised" \in Outcomes
  /\ Place(c, k, lines, "active", "pending", "authorized", "converted")
  /\ txn' = txn \cup {c} /\ linked' = linked \cup {c}
  /\ \/ Reaches(c, "succeeded", Announced(c, "requires_capture") \cup Announced(c, "succeeded"))
     \/ Reaches(c, "requires_capture", Announced(c, "requires_capture"))
  /\ UNCHANGED overclaimed

\* The gateway refused the card: PaymentFailed, compensated, and committed because
\* the exception handler turns a DomainError into a response.
Declined(c, k, lines) ==
  /\ "declined" \in Outcomes
  /\ Place(c, k, lines, "released", "cancelled", "failed", "active")
  /\ txn' = txn \cup {c}
  /\ Reaches(c, "requires_method", Announced(c, "requires_method"))
  /\ UNCHANGED <<linked, overclaimed>>

\* authorize() raised: compensated the same way, but the Payment row stays PENDING
\* and has no gateway_transaction_id.
GatewayError(c, k, lines) ==
  /\ "gateway_error" \in Outcomes
  /\ Place(c, k, lines, "released", "cancelled", "pending", "active")
  /\ UNCHANGED <<txn, linked, overclaimed, gateway>>

\* GatewayNotConfigured or GatewayUnsupportedCurrency: DomainErrors the saga does not
\* catch, raised before the Payment row exists.  Nothing is compensated.
Unconfigured(c, k, lines) ==
  /\ "unconfigured" \in Outcomes
  /\ Place(c, k, lines, "active", "pending", "none", "checking_out")
  /\ UNCHANGED <<txn, linked, overclaimed, gateway>>

\* authorize() answered that the payment is captured already, or cancelled.  The saga
\* commits phase 6 and then raises PaymentFailed outside the try: the customer is told
\* that the payment failed, and order, rows and converted cart stay.
Unexpected(c, k, lines) ==
  /\ "unexpected" \in Outcomes
  /\ txn' = txn \cup {c} /\ linked' = linked \cup {c}
  /\ \/ /\ Place(c, k, lines, "active", "pending", "captured", "converted")
        /\ Reaches(c, "succeeded", Announced(c, "succeeded"))
     \/ /\ Place(c, k, lines, "active", "pending", "cancelled", "converted")
        /\ Reaches(c, "canceled", Announced(c, "canceled"))
  /\ UNCHANGED overclaimed

\* The purchase-order path: stock is committed now, the money comes later.
Invoiced(c, k, lines) ==
  /\ "invoiced" \in Outcomes
  /\ Place(c, k, lines, "committed", "pending", "invoice_pending", "converted")
  /\ linked' = linked \cup {c}
  /\ UNCHANGED <<txn, overclaimed, gateway>>

\* Variant: cancel knows the card path only and leaves committed rows alone.
CancelCardOnly(c) ==
  /\ order[c] = "pending"
  /\ recon[c] = None
  /\ Unwind(LinkedRows(c, "active"))
  /\ order' = [order EXCEPT ![c] = "cancelled"]
  /\ payment' = [payment EXCEPT ![c] =
                   IF @ \in {"authorized", "pending", "invoice_pending"} THEN "cancelled" ELSE @]
  /\ Gone(c)
  /\ UNCHANGED <<txn, linked, cart, cartOf, overclaimed, gateway, workers>>

\* Variant: cancel takes committed rows out of reserved_quantity like active ones.
CancelAsHeld(c) ==
  /\ order[c] = "pending"
  /\ recon[c] = None
  /\ Release(LinkedRows(c, "active") \cup LinkedRows(c, "committed"))
  /\ order' = [order EXCEPT ![c] = "cancelled"]
  /\ payment' = [payment EXCEPT ![c] =
                   IF @ \in {"authorized", "pending", "invoice_pending"} THEN "cancelled" ELSE @]
  /\ Gone(c)
  /\ UNCHANGED <<txn, linked, cart, cartOf, overclaimed, gateway, workers>>

\* Variant: the payments cancel voids are those of the card path.
CancelKeepsInvoice(c) ==
  /\ order[c] = "pending"
  /\ recon[c] = None
  /\ Unwind(LinkedRows(c, "active") \cup LinkedRows(c, "committed"))
  /\ order' = [order EXCEPT ![c] = "cancelled"]
  /\ payment' = [payment EXCEPT ![c] = IF @ \in {"authorized", "pending"} THEN "cancelled" ELSE @]
  /\ Gone(c)
  /\ UNCHANGED <<txn, linked, cart, cartOf, overclaimed, gateway, workers>>

\* cancel_order.  Its UPDATE of the open payments waits for whoever holds the row.
\* The gateway is not told, and the cart is left alone.
Cancel(c) ==
  /\ order[c] = "pending"
  /\ recon[c] = None
  /\ Unwind(LinkedRows(c, "active") \cup LinkedRows(c, "committed"))
  /\ order' = [order EXCEPT ![c] = "cancelled"]
  /\ payment' = [payment EXCEPT ![c] =
                   IF @ \in {"authorized", "pending", "invoice_pending"} THEN "cancelled" ELSE @]
  /\ Gone(c)
  /\ UNCHANGED <<txn, linked, cart, cartOf, overclaimed, gateway, workers>>

------------------------------------------------------------------------------
(* Shared by the webhook task and the reconcile sweep, under the order row's lock *)

\* _apply_order_paid
ApplyOrderPaid(c) ==
  IF order[c] = "pending"
    THEN /\ order' = [order EXCEPT ![c] = "paid"]
         /\ Commit(LinkedRows(c, "active"))
         /\ UNCHANGED cart
    ELSE UNCHANGED <<order, ledger, cart>>

\* _apply_order_cancelled
ApplyOrderCancelled(c) ==
  IF order[c] = "pending"
    THEN /\ order' = [order EXCEPT ![c] = "cancelled"]
         /\ Release(LinkedRows(c, "active"))
         /\ cart' = Reverted({k \in Carts : c \in linked /\ cartOf[c] = k})
    ELSE UNCHANGED <<order, ledger, cart>>

\* The admin's PATCH of a product's stock.
SetStock(p, n) == PatchStock(p, n) /\ UNCHANGED <<purchase, gateway, workers>>

(* The gateway's side: external, driven by the customer and the merchant *)

GatewayMoves(c, from, to) ==
  /\ intent[c] \in from
  /\ Reaches(c, to, Announced(c, to))
  /\ UNCHANGED <<ledger, purchase, workers>>

\* The customer passes the challenge.
GatewayAuthorises(c) == GatewayMoves(c, {"requires_action", "requires_method"}, "requires_capture")

GatewayFails(c) == GatewayMoves(c, {"requires_action"}, "requires_method")

GatewayCancels(c) ==
  GatewayMoves(c, {"requires_action", "requires_method", "requires_capture"}, "canceled")

\* A capture nobody in this code asks for: automatic at the gateway, or the merchant's.
GatewayCaptures(c) == GatewayMoves(c, {"requires_capture"}, "succeeded")

GatewayRefunds(c) == GatewayMoves(c, {"succeeded"}, "refunded")

------------------------------------------------------------------------------
(* The workers *)

\* The endpoint finds the payment by the intent's id among committed rows of all
\* tenants, or answers 404.
Known(e) == e.co \in txn

\* uniq_webhook_event_per_gateway has no row of the event yet.
Fresh(e) == e \notin processed

\* process_webhook_event: the dedupe row, the payment's new status whatever the old
\* one was, then the order, in one transaction.  A redelivery of a processed event
\* is rolled back and changes nothing, so it is a stuttering step.
Webhook(e) ==
  /\ Fresh(e) /\ Known(e)
  /\ recon[e.co] = None
  /\ processed' = processed \cup {e}
  /\ payment' = [payment EXCEPT ![e.co] = e.status]
  /\ Saved(e.co, e.status)
  /\ \/ e.type = "captured" /\ ApplyOrderPaid(e.co)
     \/ e.type \in {"failed", "cancelled"} /\ ApplyOrderCancelled(e.co)
     \/ /\ e.type = "refunded"
        /\ order' = [order EXCEPT ![e.co] = "refunded"]
        /\ UNCHANGED <<ledger, cart>>
     \/ e.type = "unknown" /\ UNCHANGED <<order, ledger, cart>>
  /\ UNCHANGED <<txn, linked, cartOf, overclaimed, gateway, lapsed, picked, recon, marking>>

\* reconcile_pending_payments reads the ids of its batch before it looks at any row.
\* Sweeps may overlap; a payment two of them have picked counts once here.
ReconcilePick ==
  /\ picked' = picked \cup Oldest
  /\ UNCHANGED <<ledger, purchase, gateway, lapsed, processed, recon, marking>>

\* _reconcile_one: the row is not PENDING any more, or another sweep has it locked.
ReconcileSkip(c) ==
  /\ c \in picked /\ (payment[c] # "pending" \/ recon[c] # None)
  /\ picked' = picked \ {c}
  /\ UNCHANGED <<ledger, purchase, gateway, lapsed, processed, recon, marking>>

\* _reconcile_unknown_intent: a PENDING payment the gateway never answered for.
ReconcileUnknown(c) ==
  /\ c \in picked /\ payment[c] = "pending" /\ c \notin txn
  /\ picked' = picked \ {c}
  /\ payment' = [payment EXCEPT ![c] = "failed"]
  /\ Gone(c)
  /\ ApplyOrderCancelled(c)
  /\ UNCHANGED <<txn, linked, cartOf, overclaimed, gateway, lapsed, processed, recon, marking>>

\* _reconcile_known_intent locks the payment row and asks the gateway ...
ReconcileStart(c) ==
  /\ c \in picked /\ payment[c] = "pending" /\ c \in txn /\ recon[c] = None
  /\ picked' = picked \ {c}
  /\ recon' = [recon EXCEPT ![c] = Retrieved(intent[c])]
  /\ UNCHANGED <<ledger, purchase, gateway, lapsed, processed, marking>>

\* Variant: the answer is written to the payment and never mirrored onto the order.
ReconcileRecords(c) ==
  /\ recon[c] # None
  /\ recon' = [recon EXCEPT ![c] = None]
  /\ IF recon[c] = "pending"
       THEN UNCHANGED <<payment, older>>
       ELSE payment' = [payment EXCEPT ![c] = recon[c]] /\ Gone(c)
  /\ UNCHANGED <<ledger, order, txn, linked, cart, cartOf, overclaimed, gateway, lapsed, processed,
                 picked, marking>>

\* ... and applies the answer, which may be old by now.  No fresh answer leaves the row,
\* and with it its place among the oldest, as it was.
ReconcileFinish(c) ==
  /\ recon[c] # None
  /\ recon' = [recon EXCEPT ![c] = None]
  /\ IF recon[c] = "pending"
       THEN UNCHANGED <<ledger, order, payment, older, cart>>
       ELSE /\ payment' = [payment EXCEPT ![c] = recon[c]]
            /\ Gone(c)
            /\ \/ recon[c] = "captured" /\ ApplyOrderPaid(c)
               \/ recon[c] = "cancelled" /\ ApplyOrderCancelled(c)
               \/ recon[c] = "authorized" /\ UNCHANGED <<ledger, order, cart>>
  /\ UNCHANGED <<txn, linked, cartOf, overclaimed, gateway, lapsed, processed, picked, marking>>

\* The transaction changes nothing: the gateway did not answer, and the sweep goes on
\* with its batch, or the worker died, and the rest of the batch is forgotten.
ReconcileAbort(c) ==
  /\ recon[c] # None
  /\ recon' = [recon EXCEPT ![c] = None]
  /\ picked' \in {picked, {}}
  /\ UNCHANGED <<ledger, purchase, gateway, lapsed, processed, marking>>

\* Fifteen minutes after the checkout.
Lapse(c) ==
  /\ \E r \in RowsIn("active") : r[1] = c
  /\ c \notin lapsed
  /\ lapsed' = lapsed \cup {c}
  /\ UNCHANGED <<ledger, purchase, gateway, processed, picked, recon, marking>>

\* Variants: every row past its time, whatever its status; only rows of no order.
LapsedRows   == {r \in Rows : r[1] \in lapsed}
OrphanedRows == {r \in RowsIn("active") : r[1] \in lapsed \ linked}

\* What the expiry sweep's query finds.
ExpiredRows == {r \in RowsIn("active") : r[1] \in lapsed}

\* Variant: the sweep ends the holds and forgets the carts.
SweepRowsOnly(S) ==
  /\ S # {} /\ Cardinality(S) <= SweepBatch
  /\ Release(S)
  /\ UNCHANGED <<purchase, gateway, workers>>

\* One batch of release_expired_reservations: at most SweepBatch of the expired rows,
\* in no order, without those another transaction has locked.  Each row's cart is
\* reverted; a customer who has another active cart by now makes the batch fail on
\* one_active_cart_per_customer, and nothing of it is committed.
Sweep(S) ==
  /\ S # {} /\ Cardinality(S) <= SweepBatch
  /\ Release(S)
  /\ cart' = Reverted({cartOf[r[1]] : r \in S})
  /\ OneActive(cart')
  /\ UNCHANGED <<order, payment, older, txn, linked, cartOf, overclaimed, gateway, workers>>

\* mark-paid: the order and its payment are checked without a lock ...
MarkPaidCheck(a, c) ==
  /\ marking[a] = None
  /\ order[c] = "pending" /\ payment[c] = "invoice_pending"
  /\ marking' = [marking EXCEPT ![a] = c]
  /\ UNCHANGED <<ledger, purchase, gateway, lapsed, processed, picked, recon>>

\* Variant: the unlocked check is taken for good.
MarkPaidBlindly(a) ==
  LET c == marking[a] IN
  /\ c # None
  /\ recon[c] = None
  /\ payment' = [payment EXCEPT ![c] = "captured"]
  /\ Gone(c)
  /\ order' = [order EXCEPT ![c] = "paid"]
  /\ marking' = [marking EXCEPT ![a] = None]
  /\ UNCHANGED <<ledger, txn, linked, cart, cartOf, overclaimed, gateway, lapsed, processed, picked,
                 recon>>

\* ... then mark_invoice_paid tests the payment again under its lock, and the order
\* follows.  A payment that was cancelled meanwhile is refused.
MarkPaidWrite(a) ==
  LET c == marking[a] IN
  /\ c # None
  /\ recon[c] = None
  /\ IF payment[c] \in {"invoice_pending", "captured"}
       THEN /\ payment' = [payment EXCEPT ![c] = "captured"]
            /\ Gone(c)
            /\ order' = [order EXCEPT ![c] = "paid"]
       ELSE UNCHANGED <<payment, older, order>>
  /\ marking' = [marking EXCEPT ![a] = None]
  /\ UNCHANGED <<ledger, txn, linked, cart, cartOf, overclaimed, gateway, lapsed, processed, picked,
                 recon>>

------------------------------------------------------------------------------
Checkout ==
  \E c \in Checkouts, k \in Carts, lines \in Baskets :
    \/ Captured(c, k, lines) \/ Async(c, k, lines) \/ CaptureRaised(c, k, lines)
    \/ Declined(c, k, lines) \/ GatewayError(c, k, lines) \/ Unconfigured(c, k, lines)
    \/ Unexpected(c, k, lines) \/ Invoiced(c, k, lines)

LifecycleNext ==
  \/ \E k \in Carts : NewCart(k)
  \/ Checkout
  \/ \E c \in Checkouts :
       \/ Cancel(c)
       \/ GatewayAuthorises(c) \/ GatewayFails(c) \/ GatewayCancels(c)
       \/ GatewayCaptures(c) \/ GatewayRefunds(c)
       \/ ReconcileSkip(c) \/ ReconcileUnknown(c)
       \/ ReconcileStart(c) \/ ReconcileFinish(c) \/ ReconcileAbort(c)
       \/ Lapse(c)
  \/ ReconcilePick
  \/ \E e \in sent : Webhook(e)
  \/ \E S \in SUBSET ExpiredRows : Sweep(S)
  \/ \E a \in Admins, c \in Checkouts : MarkPaidCheck(a, c)
  \/ \E a \in Admins : MarkPaidWrite(a)
  \/ \E p \in Products, n \in 0..MaxStock : SetStock(p, n)

LifecycleSpec == LifecycleInit /\ [][LifecycleNext]_vars

\* The clock runs, beat starts both sweeps again and again, and of a payment that is
\* picked again and again one look is reached and one answer arrives before its worker
\* dies.  Nothing makes a sweep pick a payment that is not among the oldest, and nothing
\* is assumed of customers, of admins, of the gateway's own moves or of webhook delivery.
WorkersRun ==
  /\ WF_vars(\E S \in SUBSET ExpiredRows : Sweep(S))
  /\ WF_vars(ReconcilePick)
  /\ \A c \in Checkouts :
       /\ WF_vars(Lapse(c)) /\ WF_vars(ReconcileSkip(c))
       /\ SF_vars(ReconcileUnknown(c)) /\ SF_vars(ReconcileStart(c)) /\ SF_vars(ReconcileFinish(c))

FairLifecycle == LifecycleSpec /\ WorkersRun

------------------------------------------------------------------------------
TypeOK ==
  /\ LedgerTypeOK
  /\ order \in [Checkouts -> OrderStatus]
  /\ payment \in [Checkouts -> PaymentStatus]
  /\ older \subseteq Checkouts \X Checkouts
  /\ overclaimed \subseteq txn /\ picked \subseteq Checkouts
  /\ txn \subseteq Checkouts /\ linked \subseteq Checkouts /\ lapsed \subseteq Checkouts
  /\ cart \in [Carts -> CartStatus]
  /\ cartOf \in [Checkouts -> Carts \cup {None}]
  /\ intent \in [Checkouts -> IntentStatus]
  /\ sent \subseteq Event /\ processed \subseteq sent
  /\ recon \in [Checkouts -> {None, "pending", "authorized", "captured", "cancelled"}]
  /\ marking \in [Admins -> Checkouts \cup {None}]

\* A cancelled order keeps nothing: none of the rows linked to it holds stock or has
\* taken stock, whoever cancelled it (saga, customer, webhook or reconcile) and in
\* whatever order the sweep and they ran.  A paid order has no row the sweep could
\* still take from it.
StockFollowsOrder ==
  \A c \in Checkouts :
    /\ order[c] = "cancelled" => LinkedRows(c, "active") \cup LinkedRows(c, "committed") = {}
    /\ order[c] = "paid" => \A p \in Products : resv[<<c, p>>].status # "active"

\* What the order row may do: a cancelled order is never revived by a late webhook,
\* an old gateway answer or an admin, and a paid one is never cancelled by them.
OrderMoves ==
  [][\A c \in Checkouts : order'[c] # order[c] =>
        <<order[c], order'[c]>> \in
           ({"none"} \X {"pending", "paid", "cancelled"})
             \cup ({"pending"} \X {"paid", "cancelled", "refunded"})
             \cup ({"paid", "cancelled"} \X {"refunded"})]_vars

\* An order paid through the gateway was captured there, unless its own checkout took a
\* capture call that returned for one that captured.  Neither the webhook task nor the
\* reconcile sweep takes an authorisation, a failure, an event of unknown type or an old
\* answer for money.
PaidWasCaptured ==
  \A c \in txn \ overclaimed : order[c] = "paid" => intent[c] \in {"succeeded", "refunded"}

\* PAID means captured, without exception: "Phase 7: Capture (sync)" marks the order
\* paid for a payment it holds captured.
PaidOnlyIfCaptured ==
  \A c \in txn : order[c] = "paid" => intent[c] \in {"succeeded", "refunded"}

\* Purchase orders: payment and order are settled together, by the admin or by the
\* customer's cancel, when the two race between mark-paid's check and its write.
InvoiceSettledTogether ==
  \A c \in linked \ txn :
    <<order[c], payment[c]>> \in
       {<<"pending", "invoice_pending">>, <<"paid", "captured">>, <<"cancelled", "cancelled">>}

\* A cart left in CHECKING_OUT can still come back: a row the expiry sweep will find
\* points to it.  Nothing else in the code reverts a cart after its request.
CheckingOutRecoverable ==
  \A k \in Carts : cart[k] = "checking_out" => \E r \in RowsIn("active") : cartOf[r[1]] = k

\* A paid order owns its goods: every unit it ordered has left the shelf for it.
\* apps/orders/models says reservations are "committed on payment capture, released
\* on cancel or by the expiry beat task".
PaidHasStock ==
  \A c \in Checkouts : order[c] = "paid" =>
    \A p \in Products : resv[<<c, p>>].status \in {"none", "committed"}

\* No hold outlives its TTL for good: the expiry sweep reaches every row.
HoldsEnd ==
  \A r \in Rows : resv[r].status = "active" ~> resv[r].status # "active"

\* The two stuck states of the reconcile sweep, for a payment the gateway has decided.
Stuck(c) ==
  c \in txn /\ payment[c] = "pending" /\ order[c] = "pending" /\ intent[c] \in {"canceled", "succeeded"}

\* As many older payments wait, and the sweep takes the oldest.
Crowded(c) == payment[c] = "pending" /\ Cardinality(Ahead(c)) >= ReconcileBatch

\* The payment is out of the sweep's sight although its order is PENDING: an event of
\* unknown type, or an answer that was old, was written over PENDING.
OutOfSight(c) ==
  \/ payment[c] = "authorized"
  \/ payment[c] = "captured" /\ [co |-> c, type |-> "unknown", status |-> "captured"] \in processed

\* A payment that is PENDING although the gateway has decided does not leave its order
\* PENDING for good: the reconcile sweep settles it without any webhook, unless older
\* payments fill every batch from some time on, or something written over PENDING
\* takes it out of the sweep's sight.
StuckPaymentResolved ==
  \A c \in Checkouts : []<>(~ Crowded(c)) => (Stuck(c) ~> (order[c] # "pending" \/ OutOfSight(c)))

\* "Two stuck states this task converges": the same without the first proviso, that the
\* sweep is not crowded ...
SweepReachesEvery ==
  \A c \in Checkouts : Stuck(c) ~> (order[c] # "pending" \/ OutOfSight(c))

\* ... and without either.
PendingPaymentConverges ==
  \A c \in Checkouts : Stuck(c) ~> order[c] # "pending"

\* "Capture failure: leave order in `pending` for reconciliation": an order whose
\* capture call raised after the gateway had taken the money becomes paid, or is
\* settled some other way, without waiting for a webhook.
FailedCaptureReconciled ==
  \A c \in Checkouts :
    (order[c] = "pending" /\ payment[c] = "authorized" /\ intent[c] = "succeeded") ~> order[c] # "pending"

==============================================================================
