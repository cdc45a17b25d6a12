------------------------ MODULE OrderLifecycle_proofs ------------------------
(***************************************************************************)
(* Proofs about the life of an order, for every set of checkouts, carts    *)
(* and products, every outcome and every interleaving of customers, admins,*)
(* webhooks and sweeps.                                                    *)
(*                                                                         *)
(* The inductive invariant is LifecycleInv.  Bookkeeping is what it adds   *)
(* to the types: per checkout, how the status of the order, its payment,   *)
(* the two foreign keys and the reservation rows go together.  It is       *)
(* needed because no transaction looks at all of them: the webhook commits *)
(* the ACTIVE rows linked to an order and relies on there being no others, *)
(* cancel relies on COMMITTED rows being those of a purchase order.        *)
(***************************************************************************)
EXTENDS OrderLifecycle, Inventory_proofs

Without(c, st) == \A p \in Products : resv[<<c, p>>].status # st

Settled == {<<"pending", "invoice_pending">>, <<"paid", "captured">>, <<"cancelled", "cancelled">>}

Bookkeeping(c) ==
  /\ order[c] = "none" => New(c) /\ c \notin txn /\ c \notin linked /\ payment[c] = "none"
  /\ c \in txn /\ order[c] = "pending" => c \in linked /\ Without(c, "committed")
  /\ c \in linked /\ c \notin txn => Without(c, "active") /\ <<order[c], payment[c]>> \in Settled
  /\ payment[c] = "invoice_pending" => c \in linked /\ c \notin txn
  /\ payment[c] = "pending" /\ c \notin txn => order[c] = "cancelled"
  /\ recon[c] # None => c \in txn
  /\ c \in txn => intent[c] # "none"
  /\ c \in linked /\ order[c] = "cancelled" => Without(c, "active") /\ Without(c, "committed")
  /\ order[c] = "paid" => Without(c, "active")

Marked == \A a \in Admins : marking[a] # None => marking[a] \in linked /\ marking[a] \notin txn

LifecycleInv ==
  /\ LedgerInv
  /\ TypeOK
  /\ \A c \in Checkouts : Bookkeeping(c)
  /\ Marked

------------------------------------------------------------------------------
(* Rows *)

\* What setting a status does to each row.
LEMMA SetStatusEffect ==
  ASSUME LedgerTypeOK, NEW S, NEW st, SetStatus(S, st), NEW r \in Rows
  PROVE  resv'[r].status = IF r \in S THEN st ELSE resv[r].status
  <1>1. resv[r] \in Row
    BY DEF LedgerTypeOK
  <1>. QED
    BY <1>1 DEF SetStatus, Row

\* What inserting a checkout's rows does to each row.
LEMMA InsertEffect ==
  ASSUME NEW c, NEW lines, NEW st, Insert(c, lines, st), NEW r \in Rows
  PROVE  resv'[r].status = IF r[1] = c /\ lines[r[2]] > 0 THEN st ELSE resv[r].status
  BY DEF Insert, Write

\* The rows of an order are rows of its own checkout, all of the status asked for.
LEMMA LinkedRowsAre ==
  ASSUME NEW c \in Checkouts, NEW st
  PROVE  /\ LinkedRows(c, st) \in SUBSET RowsIn(st)
         /\ LinkedRows(c, st) \in SUBSET Rows
         /\ \A r \in LinkedRows(c, st) : r[1] = c
         /\ c \in linked => \A p \in Products :
              <<c, p>> \in LinkedRows(c, st) <=> resv[<<c, p>>].status = st
  BY DEF LinkedRows, RowsIn, Rows

\* A checkout none of whose columns change keeps its bookkeeping, also when the expiry
\* sweep releases some of its rows.
LEMMA Frame ==
  ASSUME NEW c \in Checkouts, Bookkeeping(c),
         order'[c] = order[c], payment'[c] = payment[c],
         c \in txn' <=> c \in txn, c \in linked' <=> c \in linked,
         recon'[c] # None => recon[c] # None,
         intent[c] # "none" => intent'[c] # "none",
         \A p \in Products :
            \/ resv'[<<c, p>>].status = resv[<<c, p>>].status
            \/ resv[<<c, p>>].status = "active" /\ resv'[<<c, p>>].status = "released"
  PROVE  Bookkeeping(c)'
  <1>1. New(c) => New(c)'
    BY DEF New
  <1>2. ASSUME NEW st \in {"active", "committed"}, Without(c, st) PROVE Without(c, st)'
    BY <1>2 DEF Without
  <1>. QED
    BY <1>1, <1>2 DEF Bookkeeping

------------------------------------------------------------------------------
(* The ledger: every step is one step of Inventory, or none *)

\* What the gateway announces of a payment is about that payment, and it announces a
\* capture only of one that is captured.
LEMMA AnnouncedAre ==
  ASSUME NEW c \in Checkouts, NEW i
  PROVE  /\ Announced(c, i) \in SUBSET Event
         /\ \A e \in Announced(c, i) : e.co = c /\ (e.type = "captured" => i = "succeeded")
  <1>. DEFINE Types == {"captured", "failed", "cancelled", "refunded", "unknown"}
              known == CASE i = "succeeded"       -> {<<"captured", "captured">>}
                         [] i = "canceled"        -> {<<"cancelled", "cancelled">>}
                         [] i = "refunded"        -> {<<"refunded", "refunded">>}
                         [] i = "requires_method" -> {<<"failed", FailureStatus>>}
                         [] OTHER                 -> {}
              other == CASE i \in {"requires_action", "requires_method"} -> {"pending"}
                         [] i = "requires_capture"                       -> {"authorized", "captured"}
                         [] i = "succeeded"                              -> {"captured"}
                         [] OTHER                                        -> {}
              all == known \cup ({"unknown"} \X (other \cap UnknownReports))
  <1>1. /\ known \in SUBSET (Types \X GatewayReport)
        /\ \A m \in known : m[1] = "captured" => i = "succeeded"
    <2>1. FailureStatus \in GatewayReport
      BY LifecycleAssumption DEF GatewayReport
    <2>2. CASE i = "succeeded"
      BY <2>2 DEF GatewayReport
    <2>3. CASE i = "canceled"
      BY <2>3 DEF GatewayReport
    <2>4. CASE i = "refunded"
      BY <2>4 DEF GatewayReport
    <2>5. CASE i = "requires_method"
      BY <2>1, <2>5
    <2>6. CASE i \notin {"succeeded", "canceled", "refunded", "requires_method"}
      BY <2>6
    <2>. QED
      BY <2>2, <2>3, <2>4, <2>5, <2>6
  <1>2. {"unknown"} \X (other \cap UnknownReports) \in SUBSET (Types \X GatewayReport)
    BY LifecycleAssumption DEF GatewayReport
  <1>3. all \in SUBSET (Types \X GatewayReport) /\ \A m \in all : m[1] = "captured" => i = "succeeded"
    <2>. HIDE DEF known, other
    <2>. QED
      BY <1>1, <1>2
  <1>4. Announced(c, i) = {[co |-> c, type |-> m[1], status |-> m[2]] : m \in all}
    BY DEF Announced
  <1>. HIDE DEF all
  <1>. QED
    BY <1>3, <1>4 DEF Event

\* What the eight outcomes of a checkout have in common, and which statuses go together.
Outcome(c, k, lines, rs, os, ps, cs) ==
  /\ Place(c, k, lines, rs, os, ps, cs)
  /\ txn' \in {txn, txn \cup {c}} /\ linked' \in {linked, linked \cup {c}}
  /\ \/ c \in txn' /\ c \in linked' /\ <<rs, os>> = <<"committed", "paid">>
     \/ c \in txn' /\ c \in linked' /\ <<rs, os>> = <<"active", "pending">>
     \/ c \in txn' /\ linked' = linked /\ <<rs, os>> = <<"released", "cancelled">>
     \/ txn' = txn /\ linked' = linked /\ <<rs, os, ps>> = <<"released", "cancelled", "pending">>
     \/ txn' = txn /\ linked' = linked /\ <<rs, os, ps>> = <<"active", "pending", "none">>
     \/ txn' = txn /\ c \in linked' /\ <<rs, os, ps>> = <<"committed", "pending", "invoice_pending">>
  /\ ps = "invoice_pending" => txn' = txn /\ os = "pending"
  /\ \/ intent' = intent /\ txn' = txn
     \/ \E i \in IntentStatus \ {"none"} : intent' = [intent EXCEPT ![c] = i] /\ c \in txn'
  /\ sent \subseteq sent' /\ sent' \subseteq sent \cup Event
  /\ overclaimed' \in {overclaimed, overclaimed \cup {c}}
  /\ overclaimed' # overclaimed => c \in txn'

\* Every kind of checkout outcome is one of these.
LEMMA OutcomesPlace ==
  ASSUME NEW c \in Checkouts, NEW k \in Carts, NEW lines \in Baskets,
         \/ Captured(c, k, lines) \/ Async(c, k, lines) \/ CaptureRaised(c, k, lines)
         \/ Declined(c, k, lines) \/ GatewayError(c, k, lines) \/ Unconfigured(c, k, lines)
         \/ Unexpected(c, k, lines) \/ Invoiced(c, k, lines)
  PROVE  \E rs \in {"active", "committed", "released"}, os \in OrderStatus, ps \in PaymentStatus,
            cs \in CartStatus : Outcome(c, k, lines, rs, os, ps, cs)
  <1>0. CaptureReports \subseteq {"pending", "captured", "failed"}
    BY LifecycleAssumption
  <1>a. ASSUME NEW i, NEW j, NEW events \in {Announced(c, j), Announced(c, i) \cup Announced(c, j)},
               i \in IntentStatus \ {"none"}, Reaches(c, i, events), txn' = txn \cup {c}
        PROVE  /\ \E h \in IntentStatus \ {"none"} : intent' = [intent EXCEPT ![c] = h] /\ c \in txn'
               /\ sent \subseteq sent' /\ sent' \subseteq sent \cup Event
    BY <1>a, AnnouncedAre DEF Reaches
  <1>b. {"succeeded", "requires_capture", "requires_action", "requires_method", "canceled"}
          \subseteq IntentStatus \ {"none"}
    BY DEF IntentStatus
  <1>1. CASE Captured(c, k, lines)
    <2>1. PICK report \in CaptureReports :
             /\ Place(c, k, lines, "committed", "paid", report, "converted")
             /\ txn' = txn \cup {c} /\ linked' = linked \cup {c}
             /\ \/ /\ Reaches(c, "succeeded", Announced(c, "requires_capture") \cup Announced(c, "succeeded"))
                   /\ UNCHANGED overclaimed
                \/ /\ Reaches(c, "requires_capture", Announced(c, "requires_capture"))
                   /\ overclaimed' = overclaimed \cup {c}
      BY <1>1 DEF Captured
    <2>2. report \in PaymentStatus /\ report # "invoice_pending"
      BY <1>0 DEF PaymentStatus
    <2>3. /\ \E h \in IntentStatus \ {"none"} : intent' = [intent EXCEPT ![c] = h] /\ c \in txn'
          /\ sent \subseteq sent' /\ sent' \subseteq sent \cup Event
      BY <1>a, <1>b, <2>1
    <2>. QED
      BY <2>1, <2>2, <2>3 DEF Outcome, OrderStatus, CartStatus
  <1>2. CASE Async(c, k, lines)
    BY <1>2, <1>a, <1>b DEF Outcome, Async, OrderStatus, PaymentStatus, CartStatus
  <1>3. CASE CaptureRaised(c, k, lines)
    <2>1. /\ \E h \in IntentStatus \ {"none"} : intent' = [intent EXCEPT ![c] = h] /\ c \in txn'
          /\ sent \subseteq sent' /\ sent' \subseteq sent \cup Event
      BY <1>3, <1>a, <1>b DEF CaptureRaised
    <2>. QED
      BY <1>3, <2>1 DEF Outcome, CaptureRaised, OrderStatus, PaymentStatus, CartStatus
  <1>4. CASE Declined(c, k, lines)
    BY <1>4, <1>a, <1>b DEF Outcome, Declined, OrderStatus, PaymentStatus, CartStatus
  <1>5. CASE GatewayError(c, k, lines)
    BY <1>5 DEF Outcome, GatewayError, gateway, OrderStatus, PaymentStatus, CartStatus
  <1>6. CASE Unconfigured(c, k, lines)
    BY <1>6 DEF Outcome, Unconfigured, gateway, OrderStatus, PaymentStatus, CartStatus
  <1>7. CASE Unexpected(c, k, lines)
    <2>1. /\ \E h \in IntentStatus \ {"none"} : intent' = [intent EXCEPT ![c] = h] /\ c \in txn'
          /\ sent \subseteq sent' /\ sent' \subseteq sent \cup Event
      BY <1>7, <1>a, <1>b DEF Unexpected
    <2>. QED
      BY <1>7, <2>1 DEF Outcome, Unexpected, OrderStatus, PaymentStatus, CartStatus
  <1>8. CASE Invoiced(c, k, lines)
    BY <1>8 DEF Outcome, Invoiced, gateway, OrderStatus, PaymentStatus, CartStatus
  <1>. QED
    BY <1>1, <1>2, <1>3, <1>4, <1>5, <1>6, <1>7, <1>8

\* The part of a webhook or a reconcile that touches the order is one ledger step.
LEMMA ApplyIsLedgerStep ==
  ASSUME NEW c \in Checkouts, ApplyOrderPaid(c) \/ ApplyOrderCancelled(c)
  PROVE  [LedgerNext]_ledger
  BY LinkedRowsAre DEF ApplyOrderPaid, ApplyOrderCancelled, LedgerNext, ledger

\* The worker that locks rows by status, the saga that inserts them once: whatever
\* the step, the ledger makes a step of LedgerNext or none.
LEMMA StepIsLedgerStep == LifecycleInv /\ [LifecycleNext]_vars => [LedgerNext]_ledger
  <1>. SUFFICES ASSUME LifecycleInv, [LifecycleNext]_vars PROVE [LedgerNext]_ledger
    OBVIOUS
  <1>1. CASE Checkout
    <2>1. PICK c \in Checkouts, k \in Carts, lines \in Baskets :
            \/ Captured(c, k, lines) \/ Async(c, k, lines) \/ CaptureRaised(c, k, lines)
            \/ Declined(c, k, lines) \/ GatewayError(c, k, lines) \/ Unconfigured(c, k, lines)
            \/ Unexpected(c, k, lines) \/ Invoiced(c, k, lines)
      BY <1>1 DEF Checkout
    <2>2. PICK rs \in {"active", "committed", "released"}, os \in OrderStatus, ps \in PaymentStatus,
               cs \in CartStatus : Outcome(c, k, lines, rs, os, ps, cs)
      BY <2>1, OutcomesPlace
    <2>3. New(c) /\ Insert(c, lines, rs)
      BY <2>2 DEF Outcome, Place, LifecycleInv, Bookkeeping
    <2>4. lines \in Lines /\ rs \in RowStatus \ {"none"}
      BY LifecycleAssumption DEF RowStatus
    <2>. QED
      BY <2>3, <2>4 DEF LedgerNext
  <1>2. ASSUME NEW k \in Carts, NewCart(k) PROVE [LedgerNext]_ledger
    BY <1>2 DEF NewCart
  <1>3. ASSUME NEW c \in Checkouts, Cancel(c) PROVE [LedgerNext]_ledger
    BY <1>3, LinkedRowsAre DEF Cancel, LedgerNext
  <1>4. ASSUME NEW c \in Checkouts,
               \/ GatewayAuthorises(c) \/ GatewayFails(c) \/ GatewayCancels(c)
               \/ GatewayCaptures(c) \/ GatewayRefunds(c)
        PROVE  [LedgerNext]_ledger
    BY <1>4 DEF GatewayAuthorises, GatewayFails, GatewayCancels, GatewayCaptures, GatewayRefunds, GatewayMoves
  <1>5. ASSUME NEW c \in Checkouts,
               \/ ReconcileSkip(c) \/ ReconcileUnknown(c)
               \/ ReconcileStart(c) \/ ReconcileAbort(c) \/ Lapse(c)
        PROVE  [LedgerNext]_ledger
    BY <1>5, ApplyIsLedgerStep DEF ReconcileSkip, ReconcileUnknown, ReconcileStart, ReconcileAbort, Lapse
  <1>6. ASSUME NEW c \in Checkouts, ReconcileFinish(c) PROVE [LedgerNext]_ledger
    BY <1>6, ApplyIsLedgerStep DEF ReconcileFinish
  <1>7. ASSUME NEW e \in sent, Webhook(e) PROVE [LedgerNext]_ledger
    <2>1. e.co \in Checkouts
      BY DEF LifecycleInv, TypeOK, Event
    <2>. QED
      BY <1>7, <2>1, ApplyIsLedgerStep DEF Webhook, Known, Fresh
  <1>8. ASSUME NEW S \in SUBSET ExpiredRows, Sweep(S) PROVE [LedgerNext]_ledger
    <2>1. S \in SUBSET RowsIn("active") /\ Release(S)
      BY <1>8 DEF ExpiredRows, Sweep
    <2>. QED
      BY <2>1 DEF LedgerNext
  <1>9. ASSUME NEW a \in Admins, NEW c \in Checkouts, MarkPaidCheck(a, c) PROVE [LedgerNext]_ledger
    BY <1>9 DEF MarkPaidCheck
  <1>10. ASSUME NEW a \in Admins, MarkPaidWrite(a) PROVE [LedgerNext]_ledger
    BY <1>10 DEF MarkPaidWrite
  <1>11. ASSUME NEW p \in Products, NEW n \in 0..MaxStock, SetStock(p, n) PROVE [LedgerNext]_ledger
    BY <1>11 DEF SetStock, LedgerNext
  <1>12. CASE UNCHANGED vars \/ ReconcilePick
    BY <1>12 DEF vars, ReconcilePick
  <1>. QED
    BY <1>1, <1>2, <1>3, <1>4, <1>5, <1>6, <1>7, <1>8, <1>9, <1>10, <1>11, <1>12 DEF LifecycleNext

------------------------------------------------------------------------------
(* Types *)

\* Applying a status to an order keeps the order and cart columns within their types.
LEMMA ApplyType ==
  ASSUME TypeOK, NEW c \in Checkouts, ApplyOrderPaid(c) \/ ApplyOrderCancelled(c)
  PROVE  order' \in [Checkouts -> OrderStatus] /\ cart' \in [Carts -> CartStatus]
  BY DEF TypeOK, ApplyOrderPaid, ApplyOrderCancelled, Reverted, OrderStatus, CartStatus

\* However a payment is saved, the order of age stays one among the checkouts.
LEMMA OlderType ==
  ASSUME TypeOK, NEW c \in Checkouts, NEW status, Saved(c, status) \/ Gone(c)
  PROVE  older' \subseteq Checkouts \X Checkouts
  BY DEF TypeOK, Saved, Gone, Youngest

\* Every column stays within its choices.
LEMMA TypeStep == LifecycleInv /\ [LifecycleNext]_vars => TypeOK'
  <1>. SUFFICES ASSUME LifecycleInv, [LifecycleNext]_vars PROVE TypeOK'
    OBVIOUS
  <1>0. TypeOK /\ LedgerTypeOK'
    BY StepIsLedgerStep, LedgerStep DEF LifecycleInv, LedgerInv
  <1>1. CASE Checkout
    <2>1. PICK c \in Checkouts, k \in Carts, lines \in Baskets :
            \/ Captured(c, k, lines) \/ Async(c, k, lines) \/ CaptureRaised(c, k, lines)
            \/ Declined(c, k, lines) \/ GatewayError(c, k, lines) \/ Unconfigured(c, k, lines)
            \/ Unexpected(c, k, lines) \/ Invoiced(c, k, lines)
      BY <1>1 DEF Checkout
    <2>2. PICK rs \in {"active", "committed", "released"}, os \in OrderStatus, ps \in PaymentStatus,
               cs \in CartStatus : Outcome(c, k, lines, rs, os, ps, cs)
      BY <2>1, OutcomesPlace
    <2>3. /\ order' \in [Checkouts -> OrderStatus] /\ payment' \in [Checkouts -> PaymentStatus]
          /\ cart' \in [Carts -> CartStatus] /\ cartOf' \in [Checkouts -> Carts \cup {None}]
          /\ txn' \subseteq Checkouts /\ linked' \subseteq Checkouts
          /\ UNCHANGED <<lapsed, processed, picked, recon, marking>>
      BY <1>0, <2>2 DEF TypeOK, Outcome, Place, workers
    <2>6. older' \subseteq Checkouts \X Checkouts
      BY <1>0, <2>2, OlderType DEF Outcome, Place
    <2>7. overclaimed' \subseteq txn'
      BY <1>0, <2>2 DEF TypeOK, Outcome
    <2>4. intent' \in [Checkouts -> IntentStatus]
      BY <1>0, <2>2 DEF TypeOK, Outcome, IntentStatus
    <2>5. sent' \subseteq Event /\ sent \subseteq sent'
      BY <1>0, <2>2 DEF TypeOK, Outcome
    <2>. QED
      BY <1>0, <2>3, <2>4, <2>5, <2>6, <2>7 DEF TypeOK
  <1>2. ASSUME NEW k \in Carts, NewCart(k) PROVE TypeOK'
    BY <1>0, <1>2 DEF NewCart, TypeOK, gateway, workers, CartStatus
  <1>3. ASSUME NEW c \in Checkouts, Cancel(c) PROVE TypeOK'
    <2>1. older' \subseteq Checkouts \X Checkouts
      BY <1>0, <1>3, OlderType DEF Cancel
    <2>. QED
      BY <1>0, <1>3, <2>1 DEF Cancel, TypeOK, gateway, workers, OrderStatus, PaymentStatus
  <1>4. ASSUME NEW c \in Checkouts,
               \/ GatewayAuthorises(c) \/ GatewayFails(c) \/ GatewayCancels(c)
               \/ GatewayCaptures(c) \/ GatewayRefunds(c)
        PROVE  TypeOK'
    <2>1. PICK i \in IntentStatus : Reaches(c, i, Announced(c, i)) /\ UNCHANGED <<ledger, purchase, workers>>
      BY <1>4 DEF GatewayAuthorises, GatewayFails, GatewayCancels, GatewayCaptures, GatewayRefunds,
                  GatewayMoves, IntentStatus
    <2>2. intent' \in [Checkouts -> IntentStatus] /\ sent' \subseteq Event /\ sent \subseteq sent'
      BY <1>0, <2>1, AnnouncedAre DEF Reaches, TypeOK
    <2>. QED
      BY <1>0, <2>1, <2>2 DEF TypeOK, purchase, workers
  <1>5. ASSUME NEW c \in Checkouts,
               \/ ReconcileSkip(c) \/ ReconcileUnknown(c)
               \/ ReconcileStart(c) \/ ReconcileAbort(c) \/ Lapse(c)
        PROVE  TypeOK'
    <2>1. CASE ReconcileUnknown(c)
      <3>1. older' \subseteq Checkouts \X Checkouts
        BY <1>0, <2>1, OlderType DEF ReconcileUnknown
      <3>2. order' \in [Checkouts -> OrderStatus] /\ cart' \in [Carts -> CartStatus]
        BY <1>0, <2>1, ApplyType DEF ReconcileUnknown
      <3>. QED
        BY <1>0, <2>1, <3>1, <3>2 DEF ReconcileUnknown, TypeOK, gateway, PaymentStatus
    <2>2. CASE ReconcileStart(c)
      <3>1. c \in txn /\ intent[c] \in IntentStatus \ {"none"}
        BY <1>0, <2>2 DEF ReconcileStart, TypeOK, LifecycleInv, Bookkeeping
      <3>2. Retrieved(intent[c]) \in {"pending", "authorized", "captured", "cancelled"}
        BY <3>1 DEF Retrieved, IntentStatus
      <3>. QED
        BY <1>0, <2>2, <3>2 DEF ReconcileStart, TypeOK, purchase, gateway
    <2>3. CASE ReconcileAbort(c)
      BY <1>0, <2>3 DEF ReconcileAbort, TypeOK, purchase, gateway
    <2>4. CASE Lapse(c)
      BY <1>0, <2>4 DEF Lapse, TypeOK, purchase, gateway
    <2>5. CASE ReconcileSkip(c)
      BY <1>0, <2>5 DEF ReconcileSkip, TypeOK, purchase, gateway
    <2>. QED
      BY <1>5, <2>1, <2>2, <2>3, <2>4, <2>5
  <1>6. ASSUME NEW c \in Checkouts, ReconcileFinish(c) PROVE TypeOK'
    <2>1. recon[c] \in PaymentStatus
      BY <1>0, <1>6 DEF ReconcileFinish, TypeOK, PaymentStatus
    <2>2. /\ order' \in [Checkouts -> OrderStatus] /\ cart' \in [Carts -> CartStatus]
          /\ payment' \in [Checkouts -> PaymentStatus]
      BY <1>0, <1>6, <2>1, ApplyType DEF ReconcileFinish, TypeOK
    <2>3. older' \subseteq Checkouts \X Checkouts
      BY <1>0, <1>6, OlderType DEF ReconcileFinish, TypeOK
    <2>. QED
      BY <1>0, <1>6, <2>2, <2>3 DEF ReconcileFinish, TypeOK, gateway
  <1>7. ASSUME NEW e \in sent, Webhook(e) PROVE TypeOK'
    <2>1. e.co \in Checkouts /\ e.status \in PaymentStatus
      BY <1>0 DEF TypeOK, Event, GatewayReport, PaymentStatus
    <2>2. order' \in [Checkouts -> OrderStatus] /\ cart' \in [Carts -> CartStatus]
      BY <1>0, <1>7, <2>1, ApplyType DEF Webhook, Known, Fresh, TypeOK, OrderStatus
    <2>3. older' \subseteq Checkouts \X Checkouts
      BY <1>0, <1>7, <2>1, OlderType DEF Webhook, Known, Fresh
    <2>. QED
      BY <1>0, <1>7, <2>1, <2>2, <2>3 DEF Webhook, Known, Fresh, TypeOK, gateway
  <1>8. ASSUME NEW S \in SUBSET ExpiredRows, Sweep(S) PROVE TypeOK'
    BY <1>0, <1>8 DEF Sweep, TypeOK, Reverted, CartStatus, gateway, workers
  <1>9. ASSUME NEW a \in Admins, NEW c \in Checkouts, MarkPaidCheck(a, c) PROVE TypeOK'
    BY <1>0, <1>9 DEF MarkPaidCheck, TypeOK, purchase, gateway
  <1>10. ASSUME NEW a \in Admins, MarkPaidWrite(a) PROVE TypeOK'
    <2>1. marking[a] \in Checkouts
      BY <1>0, <1>10 DEF MarkPaidWrite, TypeOK
    <2>2. older' \subseteq Checkouts \X Checkouts
      BY <1>0, <1>10, <2>1, OlderType DEF MarkPaidWrite, TypeOK
    <2>. QED
      BY <1>0, <1>10, <2>1, <2>2 DEF MarkPaidWrite, TypeOK, gateway, OrderStatus, PaymentStatus
  <1>11. ASSUME NEW p \in Products, NEW n \in 0..MaxStock, SetStock(p, n) PROVE TypeOK'
    BY <1>0, <1>11 DEF SetStock, TypeOK, purchase, gateway, workers
  <1>12. CASE UNCHANGED vars
    BY <1>0, <1>12 DEF vars, TypeOK, purchase, gateway, workers
  <1>13. CASE ReconcilePick
    BY <1>0, <1>13 DEF ReconcilePick, Oldest, TypeOK, purchase, gateway
  <1>. QED
    BY <1>1, <1>2, <1>3, <1>4, <1>5, <1>6, <1>7, <1>8, <1>9, <1>10, <1>11, <1>12, <1>13 DEF LifecycleNext

------------------------------------------------------------------------------
(* Bookkeeping *)

\* A webhook or a reconcile answer keeps the bookkeeping of its own checkout: with a
\* gateway payment every ACTIVE row is linked and none is COMMITTED before the order
\* is paid.
LEMMA ApplyKeeps ==
  ASSUME TypeOK, NEW c \in Checkouts, Bookkeeping(c), c \in txn,
         ApplyOrderPaid(c) \/ ApplyOrderCancelled(c),
         payment'[c] # "invoice_pending", txn' = txn, linked' = linked, intent' = intent
  PROVE  Bookkeeping(c)'
  <1>1. CASE order[c] # "pending"
    <2>1. order' = order /\ resv' = resv
      BY <1>1 DEF ApplyOrderPaid, ApplyOrderCancelled, ledger
    <2>. QED
      BY <2>1, <1>1 DEF Bookkeeping, Without, New
  <1>2. CASE order[c] = "pending"
    <2>1. c \in linked /\ Without(c, "committed")
      BY <1>2 DEF Bookkeeping
    <2>2. ASSUME NEW p \in Products
          PROVE  /\ <<c, p>> \in Rows
                 /\ <<c, p>> \in LinkedRows(c, "active") <=> resv[<<c, p>>].status = "active"
      BY <2>1, <2>2, LinkedRowsAre DEF Rows
    <2>3. CASE ApplyOrderPaid(c)
      <3>1. order'[c] = "paid" /\ SetStatus(LinkedRows(c, "active"), "committed")
        BY <1>2, <2>3 DEF ApplyOrderPaid, Commit, TypeOK
      <3>2. ASSUME NEW p \in Products PROVE resv'[<<c, p>>].status # "active"
        BY <2>2, <3>1, <3>2, SetStatusEffect DEF TypeOK
      <3>. QED
        BY <2>1, <3>1, <3>2 DEF Bookkeeping, Without
    <2>4. CASE ApplyOrderCancelled(c)
      <3>1. order'[c] = "cancelled" /\ SetStatus(LinkedRows(c, "active"), "released")
        BY <1>2, <2>4 DEF ApplyOrderCancelled, Release, TypeOK
      <3>2. ASSUME NEW p \in Products PROVE resv'[<<c, p>>].status \notin {"active", "committed"}
        BY <2>1, <2>2, <3>1, <3>2, SetStatusEffect DEF TypeOK, Without
      <3>. QED
        BY <2>1, <3>1, <3>2 DEF Bookkeeping, Without
    <2>. QED
      BY <2>3, <2>4
  <1>. QED
    BY <1>1, <1>2

\* ... and of every other checkout.
LEMMA ApplyFrame ==
  ASSUME TypeOK, NEW c \in Checkouts, NEW d \in Checkouts, d # c, Bookkeeping(d),
         ApplyOrderPaid(c) \/ ApplyOrderCancelled(c),
         payment'[d] = payment[d], txn' = txn, linked' = linked, intent' = intent,
         recon'[d] = recon[d]
  PROVE  Bookkeeping(d)'
  <1>1. order'[d] = order[d]
    BY DEF ApplyOrderPaid, ApplyOrderCancelled, TypeOK
  <1>2. ASSUME NEW p \in Products PROVE resv'[<<d, p>>].status = resv[<<d, p>>].status
    <2>1. <<d, p>> \in Rows /\ <<d, p>> \notin LinkedRows(c, "active")
      BY <1>2 DEF Rows, LinkedRows
    <2>. QED
      BY <2>1, SetStatusEffect DEF ApplyOrderPaid, ApplyOrderCancelled, Commit, Release, TypeOK, ledger
  <1>. QED
    BY <1>1, <1>2, Frame

\* A checkout request leaves the bookkeeping of its own checkout right ...
LEMMA OutcomeKeeps ==
  ASSUME TypeOK, NEW c \in Checkouts, Bookkeeping(c), NEW k \in Carts, NEW lines \in Baskets,
         NEW rs \in {"active", "committed", "released"}, NEW os \in OrderStatus,
         NEW ps \in PaymentStatus, NEW cs \in CartStatus,
         Outcome(c, k, lines, rs, os, ps, cs)
  PROVE  Bookkeeping(c)'
  <1>1. /\ order[c] = "none" /\ order'[c] = os /\ payment'[c] = ps /\ recon' = recon
        /\ Insert(c, lines, rs)
    BY DEF Outcome, Place, TypeOK, workers
  <1>2. New(c) /\ c \notin txn /\ c \notin linked /\ recon[c] = None
    BY <1>1 DEF Bookkeeping
  <1>3. ASSUME NEW p \in Products PROVE resv'[<<c, p>>].status \in {"none", rs}
    BY <1>1, <1>2, <1>3, InsertEffect DEF New, Rows
  <1>4. c \in txn' => intent'[c] # "none"
    BY <1>2 DEF Outcome, TypeOK, IntentStatus
  <1>5. /\ \/ c \in txn' /\ c \in linked' /\ <<rs, os>> = <<"committed", "paid">>
           \/ c \in txn' /\ c \in linked' /\ <<rs, os>> = <<"active", "pending">>
           \/ c \in txn' /\ c \notin linked' /\ <<rs, os>> = <<"released", "cancelled">>
           \/ c \notin txn' /\ c \notin linked' /\ <<rs, os, ps>> = <<"released", "cancelled", "pending">>
           \/ c \notin txn' /\ c \notin linked' /\ <<rs, os, ps>> = <<"active", "pending", "none">>
           \/ c \notin txn' /\ c \in linked' /\ <<rs, os, ps>> = <<"committed", "pending", "invoice_pending">>
        /\ ps = "invoice_pending" => c \notin txn' /\ os = "pending"
    BY <1>2 DEF Outcome
  <1>. QED
    BY <1>1, <1>2, <1>3, <1>4, <1>5 DEF Bookkeeping, Without, Settled

\* ... and of the others.
LEMMA OutcomeFrame ==
  ASSUME TypeOK, NEW c \in Checkouts, NEW d \in Checkouts, d # c, Bookkeeping(d),
         NEW k \in Carts, NEW lines, NEW rs, NEW os, NEW ps, NEW cs,
         Outcome(c, k, lines, rs, os, ps, cs)
  PROVE  Bookkeeping(d)'
  <1>1. /\ order'[d] = order[d] /\ payment'[d] = payment[d] /\ recon' = recon
        /\ intent'[d] = intent[d]
        /\ Insert(c, lines, rs)
    BY DEF Outcome, Place, TypeOK, workers
  <1>2. d \in txn' <=> d \in txn
    BY DEF Outcome
  <1>3. d \in linked' <=> d \in linked
    BY DEF Outcome
  <1>4. ASSUME NEW p \in Products PROVE resv'[<<d, p>>].status = resv[<<d, p>>].status
    BY <1>1, <1>4, InsertEffect DEF Rows
  <1>. QED
    BY <1>1, <1>2, <1>3, <1>4, Frame

\* cancel_order: it needs the rows of both statuses to be gone afterwards, and the
\* payment of a purchase order to be one it closes.
LEMMA CancelKeeps ==
  ASSUME TypeOK, NEW c \in Checkouts, NEW d \in Checkouts, Bookkeeping(d), Cancel(c)
  PROVE  Bookkeeping(d)'
  <1>. DEFINE S == LinkedRows(c, "active") \cup LinkedRows(c, "committed")
  <1>1. /\ SetStatus(S, "released") /\ order[c] = "pending"
        /\ order' = [order EXCEPT ![c] = "cancelled"]
        /\ payment' = [payment EXCEPT ![c] =
                         IF @ \in {"authorized", "pending", "invoice_pending"} THEN "cancelled" ELSE @]
        /\ UNCHANGED <<txn, linked, intent, recon>>
    BY DEF Cancel, Unwind, gateway, workers
  <1>2. ASSUME NEW p \in Products
        PROVE  resv'[<<d, p>>].status = IF <<d, p>> \in S THEN "released" ELSE resv[<<d, p>>].status
    BY <1>1, <1>2, SetStatusEffect DEF TypeOK, Rows
  <1>3. CASE d = c
    <2>1. ASSUME c \in linked, NEW p \in Products PROVE resv'[<<c, p>>].status \notin {"active", "committed"}
      BY <1>2, <1>3, <2>1, LinkedRowsAre
    <2>. HIDE DEF S
    <2>2. order'[c] = "cancelled" /\ payment'[c] \notin {"invoice_pending", "pending"}
      BY <1>1 DEF TypeOK
    <2>3. c \in linked /\ c \notin txn => payment'[c] = "cancelled"
      BY <1>1, <1>3 DEF TypeOK, Bookkeeping, Settled
    <2>. QED
      BY <1>1, <1>3, <2>1, <2>2, <2>3 DEF Bookkeeping, Without, Settled
  <1>4. CASE d # c
    <2>1. ASSUME NEW p \in Products PROVE <<d, p>> \notin S
      BY <1>4 DEF LinkedRows
    <2>. HIDE DEF S
    <2>. QED
      BY <1>1, <1>2, <1>4, <2>1, Frame DEF TypeOK
  <1>. QED
    BY <1>3, <1>4

\* Every step keeps every checkout's bookkeeping.
LEMMA BookkeepingStep ==
  ASSUME LifecycleInv, [LifecycleNext]_vars, NEW d \in Checkouts
  PROVE  Bookkeeping(d)'
  <1>0. TypeOK /\ Bookkeeping(d)
    BY DEF LifecycleInv
  <1>1. CASE Checkout
    <2>1. PICK c \in Checkouts, k \in Carts, lines \in Baskets :
            \/ Captured(c, k, lines) \/ Async(c, k, lines) \/ CaptureRaised(c, k, lines)
            \/ Declined(c, k, lines) \/ GatewayError(c, k, lines) \/ Unconfigured(c, k, lines)
            \/ Unexpected(c, k, lines) \/ Invoiced(c, k, lines)
      BY <1>1 DEF Checkout
    <2>2. PICK rs \in {"active", "committed", "released"}, os \in OrderStatus, ps \in PaymentStatus,
               cs \in CartStatus : Outcome(c, k, lines, rs, os, ps, cs)
      BY <2>1, OutcomesPlace
    <2>. QED
      BY <1>0, <2>2, OutcomeKeeps, OutcomeFrame
  <1>2. ASSUME NEW k \in Carts, NewCart(k) PROVE Bookkeeping(d)'
    BY <1>0, <1>2, Frame DEF NewCart, ledger, gateway, workers
  <1>3. ASSUME NEW c \in Checkouts, Cancel(c) PROVE Bookkeeping(d)'
    BY <1>0, <1>3, CancelKeeps
  <1>4. ASSUME NEW c \in Checkouts,
               \/ GatewayAuthorises(c) \/ GatewayFails(c) \/ GatewayCancels(c)
               \/ GatewayCaptures(c) \/ GatewayRefunds(c)
        PROVE  Bookkeeping(d)'
    <2>1. UNCHANGED <<ledger, purchase, workers>> /\ (intent[d] # "none" => intent'[d] # "none")
      BY <1>0, <1>4 DEF GatewayAuthorises, GatewayFails, GatewayCancels, GatewayCaptures, GatewayRefunds,
                        GatewayMoves, Reaches, TypeOK
    <2>. QED
      BY <1>0, <2>1, Frame DEF ledger, purchase, workers
  <1>5. ASSUME NEW c \in Checkouts, ReconcileUnknown(c) PROVE Bookkeeping(d)'
    <2>1. order[c] = "cancelled"
      BY <1>5 DEF ReconcileUnknown, LifecycleInv, Bookkeeping
    <2>2. /\ UNCHANGED <<order, resv, txn, linked, intent, recon>>
          /\ payment' = [payment EXCEPT ![c] = "failed"]
      BY <1>5, <2>1 DEF ReconcileUnknown, ApplyOrderCancelled, ledger, gateway, workers
    <2>3. CASE d = c
      <3>1. payment'[d] = "failed" /\ payment[d] = "pending" /\ d \notin txn
        BY <1>0, <1>5, <2>2, <2>3 DEF ReconcileUnknown, TypeOK
      <3>. QED
        BY <1>0, <2>1, <2>2, <2>3, <3>1 DEF Bookkeeping, Without, Settled
    <2>4. CASE d # c
      BY <1>0, <2>2, <2>4, Frame DEF TypeOK
    <2>. QED
      BY <2>3, <2>4
  <1>6. ASSUME NEW c \in Checkouts,
               ReconcileSkip(c) \/ ReconcileStart(c) \/ ReconcileAbort(c) \/ Lapse(c) \/ ReconcilePick
        PROVE  Bookkeeping(d)'
    <2>1. UNCHANGED <<ledger, purchase, gateway>>
      BY <1>6 DEF ReconcileSkip, ReconcileStart, ReconcileAbort, Lapse, ReconcilePick
    <2>2. recon'[d] # None => recon[d] # None \/ d \in txn
      BY <1>0, <1>6 DEF ReconcileSkip, ReconcileStart, ReconcileAbort, Lapse, ReconcilePick, TypeOK
    <2>. QED
      BY <1>0, <2>1, <2>2 DEF Bookkeeping, Without, New, ledger, purchase, gateway
  <1>7. ASSUME NEW c \in Checkouts, ReconcileFinish(c) PROVE Bookkeeping(d)'
    <2>1. /\ c \in txn /\ UNCHANGED <<txn, linked, intent>>
          /\ recon[c] # None /\ recon' = [recon EXCEPT ![c] = None]
      BY <1>7 DEF ReconcileFinish, LifecycleInv, Bookkeeping, gateway
    <2>2. CASE recon[c] = "pending"
      <3>1. UNCHANGED <<resv, order, payment>>
        BY <1>7, <2>2 DEF ReconcileFinish, ledger
      <3>2. recon'[d] # None => recon[d] # None
        BY <1>0, <2>1 DEF TypeOK
      <3>. QED
        BY <1>0, <2>1, <3>1, <3>2, Frame
    <2>3. CASE recon[c] = "authorized"
      <3>1. UNCHANGED <<resv, order>> /\ payment' = [payment EXCEPT ![c] = "authorized"]
        BY <1>7, <2>3 DEF ReconcileFinish, ledger
      <3>. QED
        BY <1>0, <2>1, <3>1 DEF Bookkeeping, Without, New, TypeOK
    <2>4. CASE recon[c] \in {"captured", "cancelled"}
      <3>1. /\ payment' = [payment EXCEPT ![c] = recon[c]]
            /\ ApplyOrderPaid(c) \/ ApplyOrderCancelled(c)
        BY <1>7, <2>4 DEF ReconcileFinish
      <3>2. CASE d = c
        BY <1>0, <2>1, <2>4, <3>1, <3>2, ApplyKeeps DEF TypeOK
      <3>3. CASE d # c
        BY <1>0, <2>1, <3>1, <3>3, ApplyFrame DEF TypeOK
      <3>. QED
        BY <3>2, <3>3
    <2>. QED
      BY <1>0, <2>1, <2>2, <2>3, <2>4 DEF TypeOK
  <1>8. ASSUME NEW e \in sent, Webhook(e) PROVE Bookkeeping(d)'
    <2>. DEFINE c == e.co
    <2>1. c \in Checkouts /\ e.status \in GatewayReport
      BY <1>0 DEF TypeOK, Event
    <2>2. /\ c \in txn /\ UNCHANGED <<txn, linked, intent, recon>>
          /\ payment' = [payment EXCEPT ![c] = e.status]
          /\ \/ ApplyOrderPaid(c) \/ ApplyOrderCancelled(c)
             \/ order' = [order EXCEPT ![c] = "refunded"] /\ resv' = resv
             \/ UNCHANGED <<order, resv>>
      BY <1>8 DEF Webhook, Known, Fresh, gateway, ledger
    <2>. HIDE DEF c
    <2>3. CASE d = c
      <3>1. payment'[c] \notin {"invoice_pending"}
        BY <1>0, <2>1, <2>2 DEF TypeOK, GatewayReport
      <3>2. CASE ApplyOrderPaid(c) \/ ApplyOrderCancelled(c)
        BY <1>0, <2>2, <2>3, <3>1, <3>2, ApplyKeeps
      <3>3. CASE order' = [order EXCEPT ![c] = "refunded"] /\ resv' = resv
        BY <1>0, <2>2, <2>3, <3>1, <3>3 DEF Bookkeeping, TypeOK
      <3>4. CASE UNCHANGED <<order, resv>>
        BY <1>0, <2>2, <2>3, <3>1, <3>4 DEF Bookkeeping, Without, New
      <3>. QED
        BY <2>2, <3>2, <3>3, <3>4
    <2>4. CASE d # c
      <3>1. payment'[d] = payment[d]
        BY <1>0, <2>2, <2>4 DEF TypeOK
      <3>2. CASE ApplyOrderPaid(c) \/ ApplyOrderCancelled(c)
        BY <1>0, <2>1, <2>2, <2>4, <3>1, <3>2, ApplyFrame
      <3>3. CASE order'[d] = order[d] /\ resv' = resv
        BY <1>0, <2>2, <3>1, <3>3, Frame
      <3>. QED
        BY <1>0, <2>2, <2>4, <3>2, <3>3 DEF TypeOK
    <2>. QED
      BY <2>3, <2>4
  <1>9. ASSUME NEW S \in SUBSET ExpiredRows, Sweep(S) PROVE Bookkeeping(d)'
    <2>1. /\ UNCHANGED <<order, payment, txn, linked, intent, recon>>
          /\ SetStatus(S, "released") /\ S \in SUBSET RowsIn("active")
      BY <1>9 DEF Sweep, Release, ExpiredRows, gateway, workers
    <2>2. ASSUME NEW p \in Products
          PROVE  \/ resv'[<<d, p>>].status = resv[<<d, p>>].status
                 \/ resv[<<d, p>>].status = "active" /\ resv'[<<d, p>>].status = "released"
      BY <1>0, <2>1, <2>2, SetStatusEffect DEF TypeOK, Rows, RowsIn
    <2>. QED
      BY <1>0, <2>1, <2>2, Frame
  <1>10. ASSUME NEW a \in Admins, NEW c \in Checkouts, MarkPaidCheck(a, c) PROVE Bookkeeping(d)'
    BY <1>0, <1>10, Frame DEF MarkPaidCheck, ledger, purchase, gateway
  <1>11. ASSUME NEW a \in Admins, MarkPaidWrite(a) PROVE Bookkeeping(d)'
    <2>. DEFINE c == marking[a]
    <2>1. c \in Checkouts /\ c \in linked /\ c \notin txn
      BY <1>0, <1>11 DEF MarkPaidWrite, LifecycleInv, Marked, TypeOK
    <2>2. /\ UNCHANGED <<resv, txn, linked, intent, recon>>
          /\ \/ /\ payment' = [payment EXCEPT ![c] = "captured"]
                /\ order' = [order EXCEPT ![c] = "paid"]
             \/ UNCHANGED <<payment, order>>
      BY <1>11 DEF MarkPaidWrite, gateway, ledger
    <2>. HIDE DEF c
    <2>3. CASE d = c
      BY <1>0, <2>1, <2>2, <2>3 DEF Bookkeeping, Without, Settled, New, TypeOK
    <2>4. CASE d # c
      BY <1>0, <2>1, <2>2, <2>4, Frame DEF TypeOK
    <2>. QED
      BY <2>3, <2>4
  <1>12. ASSUME NEW p \in Products, NEW n \in 0..MaxStock, SetStock(p, n) PROVE Bookkeeping(d)'
    BY <1>0, <1>12, Frame DEF SetStock, PatchStock, purchase, gateway, workers
  <1>13. CASE UNCHANGED vars
    BY <1>0, <1>13, Frame DEF vars, ledger, purchase, gateway, workers
  <1>. QED
    BY <1>1, <1>2, <1>3, <1>4, <1>5, <1>6, <1>7, <1>8, <1>9, <1>10, <1>11, <1>12, <1>13 DEF LifecycleNext

\* An admin's request never has a card order in hand, and the foreign keys it relied
\* on are never taken away.
LEMMA MarkedStep ==
  ASSUME LifecycleInv, [LifecycleNext]_vars
  PROVE  Marked'
  <1>0. TypeOK /\ Marked
    BY DEF LifecycleInv
  <1>1. CASE Checkout
    <2>1. PICK c \in Checkouts, k \in Carts, lines \in Baskets :
            \/ Captured(c, k, lines) \/ Async(c, k, lines) \/ CaptureRaised(c, k, lines)
            \/ Declined(c, k, lines) \/ GatewayError(c, k, lines) \/ Unconfigured(c, k, lines)
            \/ Unexpected(c, k, lines) \/ Invoiced(c, k, lines)
      BY <1>1 DEF Checkout
    <2>2. PICK rs \in {"active", "committed", "released"}, os \in OrderStatus, ps \in PaymentStatus,
               cs \in CartStatus : Outcome(c, k, lines, rs, os, ps, cs)
      BY <2>1, OutcomesPlace
    <2>3. c \notin linked /\ marking' = marking
      BY <2>2 DEF Outcome, Place, workers, LifecycleInv, Bookkeeping
    <2>4. txn' \subseteq txn \cup {c} /\ linked \subseteq linked'
      BY <2>2 DEF Outcome
    <2>. QED
      BY <1>0, <2>3, <2>4 DEF Marked
  <1>2. ASSUME NEW a \in Admins, NEW c \in Checkouts, MarkPaidCheck(a, c) PROVE Marked'
    <2>1. c \in linked /\ c \notin txn
      BY <1>2 DEF MarkPaidCheck, LifecycleInv, Bookkeeping
    <2>. QED
      BY <1>0, <1>2, <2>1 DEF Marked, MarkPaidCheck, purchase, TypeOK
  <1>3. ASSUME NEW a \in Admins, MarkPaidWrite(a) PROVE Marked'
    BY <1>0, <1>3 DEF Marked, MarkPaidWrite, TypeOK
  <1>4. CASE UNCHANGED <<txn, linked, marking>>
    BY <1>0, <1>4 DEF Marked
  <1>5. ASSUME NEW c \in Checkouts,
               \/ Cancel(c)
               \/ GatewayAuthorises(c) \/ GatewayFails(c) \/ GatewayCancels(c)
               \/ GatewayCaptures(c) \/ GatewayRefunds(c)
               \/ ReconcileSkip(c) \/ ReconcileUnknown(c)
               \/ ReconcileStart(c) \/ ReconcileFinish(c) \/ ReconcileAbort(c)
               \/ Lapse(c)
        PROVE  UNCHANGED <<txn, linked, marking>>
    BY <1>5 DEF Cancel, GatewayAuthorises, GatewayFails, GatewayCancels, GatewayCaptures, GatewayRefunds,
                GatewayMoves, ReconcileSkip, ReconcileUnknown, ReconcileStart, ReconcileFinish,
                ReconcileAbort, Lapse, purchase, workers
  <1>6. ASSUME \/ \E k \in Carts : NewCart(k)
               \/ \E e \in sent : Webhook(e)
               \/ \E S \in SUBSET ExpiredRows : Sweep(S)
               \/ \E p \in Products, n \in 0..MaxStock : SetStock(p, n)
               \/ UNCHANGED vars
               \/ ReconcilePick
        PROVE  UNCHANGED <<txn, linked, marking>>
    BY <1>6 DEF NewCart, ReconcilePick, Webhook, Known, Fresh, Sweep, SetStock, vars, purchase, workers
  <1>. QED
    BY <1>1, <1>2, <1>3, <1>4, <1>5, <1>6 DEF LifecycleNext

------------------------------------------------------------------------------
\* Before the first request nothing is placed, held, linked or pending.
LEMMA LifecycleInitOK == LifecycleInit => LifecycleInv
  <1>. SUFFICES ASSUME LifecycleInit PROVE LifecycleInv
    OBVIOUS
  <1>1. LedgerInv /\ LedgerInit
    BY LedgerInitOK DEF LifecycleInit
  <1>2. TypeOK
    BY <1>1 DEF LifecycleInit, TypeOK, LedgerInv, OrderStatus, PaymentStatus, CartStatus, IntentStatus
  <1>3. ASSUME NEW c \in Checkouts PROVE Bookkeeping(c)
    BY <1>1, <1>3 DEF LifecycleInit, LedgerInit, Bookkeeping, New, Rows, NoRow
  <1>4. Marked
    BY DEF LifecycleInit, Marked
  <1>. QED
    BY <1>1, <1>2, <1>3, <1>4 DEF LifecycleInv

\* The inductive invariant of the order's life.
THEOREM LifecycleInvariant == LifecycleSpec => []LifecycleInv
  <1>1. LifecycleInv /\ [LifecycleNext]_vars => LifecycleInv'
    <2>. SUFFICES ASSUME LifecycleInv, [LifecycleNext]_vars PROVE LifecycleInv'
      OBVIOUS
    <2>1. LedgerInv'
      BY StepIsLedgerStep, LedgerStep DEF LifecycleInv
    <2>. QED
      BY <2>1, TypeStep, BookkeepingStep, MarkedStep DEF LifecycleInv
  <1>. QED
    BY <1>1, LifecycleInitOK, PTL DEF LifecycleSpec

\* Every column of orders, payments, carts and rows stays within its choices, and the
\* stock counters never go negative.
THEOREM LifecycleTyped == LifecycleSpec => []TypeOK
  BY LifecycleInvariant, PTL DEF LifecycleInv

\* The order's life implements the ledger: whatever customers, webhooks, sweeps and
\* admins do, each transaction is one of the ledger's operations on rows of the right
\* status.
THEOREM LifecycleImplementsLedger == LifecycleSpec => LedgerSpec
  <1>1. LifecycleInit => LedgerInit
    BY DEF LifecycleInit
  <1>. QED
    BY <1>1, StepIsLedgerStep, LifecycleInvariant, PTL DEF LifecycleSpec, LedgerSpec

\* Whatever the interleaving, reserved_quantity is what the active rows hold, the
\* shelf covers it, and no unit is lost or sold twice.
THEOREM LifecycleKeepsStock == LifecycleSpec => [](ReservedIsHeld /\ StockCoversReserved /\ StockConserved)
  BY LifecycleInvariant, PTL DEF LifecycleInv, LedgerInv

\* A cancelled order keeps no stock, and nothing is left for the sweep to take from a
\* paid one.
THEOREM StockFollows == LifecycleSpec => []StockFollowsOrder
  <1>1. ASSUME LifecycleInv, NEW c \in Checkouts, order[c] = "cancelled",
               NEW st \in {"active", "committed"}, NEW r \in LinkedRows(c, st)
        PROVE  FALSE
    <2>1. PICK p \in Products : r = <<c, p>>
      BY <1>1 DEF LinkedRows, RowsIn, Rows
    <2>. QED
      BY <1>1, <2>1 DEF LinkedRows, RowsIn, LifecycleInv, Bookkeeping, Without
  <1>2. LifecycleInv => StockFollowsOrder
    BY <1>1 DEF LifecycleInv, StockFollowsOrder, Bookkeeping, Without
  <1>. QED
    BY <1>2, LifecycleInvariant, PTL

\* mark-paid and cancel settle the payment of a purchase order and the order together.
THEOREM InvoiceSettled == LifecycleSpec => []InvoiceSettledTogether
  <1>1. LifecycleInv => InvoiceSettledTogether
    BY DEF LifecycleInv, TypeOK, InvoiceSettledTogether, Bookkeeping, Settled
  <1>. QED
    BY <1>1, LifecycleInvariant, PTL

\* The moves of an order's status.
Moves(from, to) ==
  <<from, to>> \in ({"none"} \X {"pending", "paid", "cancelled"})
                     \cup ({"pending"} \X {"paid", "cancelled", "refunded"})
                     \cup ({"paid", "cancelled"} \X {"refunded"})

\* A cancelled order is never revived, a paid one never cancelled: the unlocked check of
\* mark-paid is harmless because the payment it locks tells what became of the order.
LEMMA MovesStep ==
  ASSUME LifecycleInv, [LifecycleNext]_vars, NEW d \in Checkouts, order'[d] # order[d]
  PROVE  Moves(order[d], order'[d])
  <1>0. TypeOK
    BY DEF LifecycleInv
  <1>1. CASE Checkout
    <2>1. PICK c \in Checkouts, k \in Carts, lines \in Baskets :
            \/ Captured(c, k, lines) \/ Async(c, k, lines) \/ CaptureRaised(c, k, lines)
            \/ Declined(c, k, lines) \/ GatewayError(c, k, lines) \/ Unconfigured(c, k, lines)
            \/ Unexpected(c, k, lines) \/ Invoiced(c, k, lines)
      BY <1>1 DEF Checkout
    <2>2. PICK rs \in {"active", "committed", "released"}, os \in OrderStatus, ps \in PaymentStatus,
               cs \in CartStatus : Outcome(c, k, lines, rs, os, ps, cs)
      BY <2>1, OutcomesPlace
    <2>3. /\ order[c] = "none" /\ order' = [order EXCEPT ![c] = os]
          /\ os \in {"pending", "paid", "cancelled"}
      BY <2>2 DEF Outcome, Place
    <2>. QED
      BY <1>0, <2>3 DEF Moves, TypeOK
  <1>2. ASSUME NEW c \in Checkouts, ApplyOrderPaid(c) \/ ApplyOrderCancelled(c)
        PROVE  Moves(order[d], order'[d])
    BY <1>0, <1>2 DEF ApplyOrderPaid, ApplyOrderCancelled, Moves, TypeOK
  <1>3. ASSUME NEW c \in Checkouts, Cancel(c) \/ ReconcileUnknown(c) \/ ReconcileFinish(c)
        PROVE  Moves(order[d], order'[d])
    BY <1>0, <1>2, <1>3 DEF Cancel, ReconcileUnknown, ReconcileFinish, Moves, TypeOK
  <1>4. ASSUME NEW e \in sent, Webhook(e) PROVE Moves(order[d], order'[d])
    <2>1. e.co \in Checkouts
      BY <1>0 DEF TypeOK, Event
    <2>2. CASE order' = [order EXCEPT ![e.co] = "refunded"]
      <3>1. order[e.co] \in {"pending", "paid", "cancelled", "refunded"}
        BY <1>0, <1>4, <2>1 DEF Webhook, Known, Fresh, TypeOK, OrderStatus, LifecycleInv, Bookkeeping
      <3>. QED
        BY <1>0, <2>1, <2>2, <3>1 DEF Moves, TypeOK
    <2>. QED
      BY <1>2, <1>4, <2>1, <2>2 DEF Webhook, Known, Fresh
  <1>5. ASSUME NEW a \in Admins, MarkPaidWrite(a) PROVE Moves(order[d], order'[d])
    <2>1. marking[a] \in Checkouts /\ marking[a] \in linked /\ marking[a] \notin txn
      BY <1>0, <1>5 DEF MarkPaidWrite, LifecycleInv, Marked, TypeOK
    <2>2. <<order[marking[a]], payment[marking[a]]>> \in Settled
      BY <2>1 DEF LifecycleInv, Bookkeeping
    <2>. QED
      BY <1>0, <1>5, <2>1, <2>2 DEF MarkPaidWrite, Moves, Settled, TypeOK
  <1>6. CASE UNCHANGED order
    BY <1>6
  <1>. QED
    BY <1>1, <1>3, <1>4, <1>5, <1>6
    DEF LifecycleNext, NewCart, GatewayAuthorises, GatewayFails, GatewayCancels, GatewayCaptures, GatewayRefunds,
        GatewayMoves, ReconcilePick, ReconcileSkip, ReconcileStart, ReconcileAbort, Lapse, Sweep,
        MarkPaidCheck, SetStock, vars, purchase

\* No webhook, reconcile answer or admin revives a cancelled order or cancels a paid one,
\* however old what they act on is.
THEOREM OrderMovesForward == LifecycleSpec => OrderMoves
  <1>1. LifecycleInv /\ [LifecycleNext]_vars
          => [\A c \in Checkouts : order'[c] # order[c] => Moves(order[c], order'[c])]_vars
    BY MovesStep
  <1>. QED
    BY <1>1, LifecycleInvariant, PTL DEF LifecycleSpec, OrderMoves, Moves

------------------------------------------------------------------------------
(* Money *)

Taken(c) == intent[c] \in {"succeeded", "refunded"}

\* Who may tell this code that an order was captured: the gateway's record, an answer
\* a reconcile is holding, or an event under way.  They never say so too early.  The
\* checkout itself does, when its capture call returned without having captured.
Money ==
  /\ \A c \in Checkouts :
       /\ c \in txn \ overclaimed /\ order[c] = "paid" => Taken(c)
       /\ recon[c] = "captured" => Taken(c)
       /\ intent[c] # "none" => c \in txn
  /\ \A e \in sent : e.type = "captured" => Taken(e.co)

\* The gateway never takes a capture back but by a refund.
LEMMA MoneyStep ==
  ASSUME LifecycleInv, Money, [LifecycleNext]_vars
  PROVE  Money'
  <1>0. TypeOK
    BY DEF LifecycleInv
  <1>1. ASSUME NEW c \in Checkouts, NEW k \in Carts, NEW lines \in Baskets,
            \/ Captured(c, k, lines) \/ Async(c, k, lines) \/ CaptureRaised(c, k, lines)
            \/ Declined(c, k, lines) \/ GatewayError(c, k, lines) \/ Unconfigured(c, k, lines)
            \/ Unexpected(c, k, lines) \/ Invoiced(c, k, lines)
        PROVE  Money'
    <2>1. order[c] = "none" /\ c \notin txn /\ intent[c] = "none" /\ recon[c] = None
      BY <1>1 DEF Captured, Async, CaptureRaised, Declined, GatewayError, Unconfigured, Unexpected, Invoiced, Place,
                  LifecycleInv, Bookkeeping, Money
    <2>2. \E o \in OrderStatus, i \in IntentStatus :
            /\ order' = [order EXCEPT ![c] = o] /\ intent' = [intent EXCEPT ![c] = i] /\ recon' = recon
            /\ txn' \in {txn, txn \cup {c}} /\ (i # "none" => c \in txn')
            /\ overclaimed \subseteq overclaimed' /\ overclaimed' \subseteq overclaimed \cup {c}
            /\ o = "paid" => i = "succeeded" \/ c \in overclaimed' \/ c \notin txn'
            /\ \A e \in sent' \ sent : e.type = "captured" => e.co = c /\ i = "succeeded"
      <3>0. ASSUME NEW i, NEW events \in {Announced(c, i), Announced(c, "requires_capture") \cup Announced(c, i)},
                   Reaches(c, i, events)
            PROVE  \A e \in sent' \ sent : e.type = "captured" => e.co = c /\ i = "succeeded"
        BY <3>0, AnnouncedAre DEF Reaches
      <3>1. intent = [intent EXCEPT ![c] = "none"]
        BY <1>0, <2>1 DEF TypeOK
      <3>2. CASE Captured(c, k, lines)
        BY <3>0, <3>2 DEF Captured, Reaches, Place, workers, OrderStatus, IntentStatus
      <3>3. CASE Async(c, k, lines)
        BY <3>0, <3>3 DEF Async, Reaches, Place, workers, OrderStatus, IntentStatus
      <3>4. CASE CaptureRaised(c, k, lines)
        BY <3>0, <3>4 DEF CaptureRaised, Reaches, Place, workers, OrderStatus, IntentStatus
      <3>5. CASE Declined(c, k, lines)
        BY <3>0, <3>5 DEF Declined, Reaches, Place, workers, OrderStatus, IntentStatus
      <3>6. CASE GatewayError(c, k, lines)
        BY <3>1, <3>6 DEF GatewayError, Place, workers, gateway, OrderStatus, IntentStatus
      <3>7. CASE Unconfigured(c, k, lines)
        BY <3>1, <3>7 DEF Unconfigured, Place, workers, gateway, OrderStatus, IntentStatus
      <3>8. CASE Invoiced(c, k, lines)
        BY <3>1, <3>8 DEF Invoiced, Place, workers, gateway, OrderStatus, IntentStatus
      <3>9. CASE Unexpected(c, k, lines)
        BY <3>0, <3>9 DEF Unexpected, Reaches, Place, workers, OrderStatus, IntentStatus
      <3>. QED
        BY <1>1, <3>2, <3>3, <3>4, <3>5, <3>6, <3>7, <3>8, <3>9
    <2>3. PICK o \in OrderStatus, i \in IntentStatus :
            /\ order' = [order EXCEPT ![c] = o] /\ intent' = [intent EXCEPT ![c] = i] /\ recon' = recon
            /\ txn' \in {txn, txn \cup {c}} /\ (i # "none" => c \in txn')
            /\ overclaimed \subseteq overclaimed' /\ overclaimed' \subseteq overclaimed \cup {c}
            /\ o = "paid" => i = "succeeded" \/ c \in overclaimed' \/ c \notin txn'
            /\ \A e \in sent' \ sent : e.type = "captured" => e.co = c /\ i = "succeeded"
      BY <2>2
    <2>4. ASSUME NEW d \in Checkouts
          PROVE  /\ d \in txn' \ overclaimed' /\ order'[d] = "paid" => Taken(d)'
                 /\ recon'[d] = "captured" => Taken(d)'
                 /\ intent'[d] # "none" => d \in txn'
      <3>1. CASE d = c
        BY <1>0, <2>1, <2>3, <3>1, LifecycleAssumption DEF Taken, TypeOK, PaymentStatus
      <3>2. CASE d # c
        BY <1>0, <2>3, <3>2 DEF Money, Taken, TypeOK
      <3>. QED
        BY <3>1, <3>2
    <2>5. ASSUME NEW e \in sent', e.type = "captured" PROVE Taken(e.co)'
      <3>1. CASE e \in sent
        <4>1. Taken(e.co) /\ e.co \in Checkouts
          BY <1>0, <2>5, <3>1 DEF Money, TypeOK, Event
        <4>. QED
          BY <1>0, <2>1, <2>3, <4>1 DEF Taken, TypeOK
      <3>2. CASE e \notin sent
        BY <1>0, <2>3, <2>5, <3>2 DEF Taken, TypeOK
      <3>. QED
        BY <3>1, <3>2
    <2>. QED
      BY <2>4, <2>5 DEF Money
  <1>2. ASSUME UNCHANGED <<intent, sent, txn, overclaimed, recon>>,
               \A c \in txn \ overclaimed : order'[c] = "paid" => order[c] = "paid" \/ Taken(c)
        PROVE  Money'
    BY <1>0, <1>2 DEF Money, Taken, TypeOK
  <1>3. ASSUME NEW c \in Checkouts,
               \/ GatewayAuthorises(c) \/ GatewayFails(c) \/ GatewayCancels(c)
               \/ GatewayCaptures(c) \/ GatewayRefunds(c)
        PROVE  Money'
    <2>1. PICK i \in {"requires_capture", "requires_method", "canceled", "succeeded", "refunded"} :
            /\ Reaches(c, i, Announced(c, i)) /\ intent[c] # "none"
            /\ Taken(c) => i = "refunded"
            /\ UNCHANGED <<order, txn, overclaimed, recon>>
      BY <1>3
      DEF GatewayAuthorises, GatewayFails, GatewayCancels, GatewayCaptures, GatewayRefunds, GatewayMoves,
          Taken, purchase, workers
    <2>2. ASSUME NEW d \in Checkouts
          PROVE  /\ Taken(d) => Taken(d)'
                 /\ intent'[d] # "none" => intent[d] # "none"
      BY <1>0, <2>1 DEF Reaches, Taken, TypeOK
    <2>3. ASSUME NEW e \in sent', e.type = "captured" PROVE Taken(e.co)'
      <3>1. CASE e \in sent
        <4>1. Taken(e.co) /\ e.co \in Checkouts
          BY <1>0, <2>3, <3>1 DEF Money, TypeOK, Event
        <4>. QED
          BY <2>2, <4>1
      <3>2. CASE e \notin sent
        <4>1. e.co = c /\ i = "succeeded"
          BY <2>1, <2>3, <3>2, AnnouncedAre DEF Reaches
        <4>. QED
          BY <1>0, <2>1, <4>1 DEF Reaches, Taken, TypeOK
      <3>. QED
        BY <3>1, <3>2
    <2>. QED
      BY <2>1, <2>2, <2>3 DEF Money
  <1>4. ASSUME NEW c \in Checkouts, ReconcileStart(c) PROVE Money'
    <2>1. /\ recon' = [recon EXCEPT ![c] = Retrieved(intent[c])]
          /\ UNCHANGED <<intent, sent, txn, overclaimed, order>>
      BY <1>4 DEF ReconcileStart, purchase, gateway
    <2>2. intent[c] \in IntentStatus \ {"none"}
      BY <1>0, <1>4 DEF ReconcileStart, TypeOK, LifecycleInv, Bookkeeping
    <2>3. Retrieved(intent[c]) = "captured" => Taken(c)
      BY <2>2 DEF Retrieved, Taken, IntentStatus
    <2>. QED
      BY <1>0, <2>1, <2>3 DEF Money, Taken, TypeOK
  <1>5. ASSUME NEW c \in Checkouts, ReconcileAbort(c) PROVE Money'
    <2>1. recon' = [recon EXCEPT ![c] = None] /\ UNCHANGED <<intent, sent, txn, overclaimed, order>>
      BY <1>5 DEF ReconcileAbort, purchase, gateway
    <2>. QED
      BY <1>0, <2>1, LifecycleAssumption DEF Money, Taken, TypeOK, PaymentStatus
  <1>6. ASSUME NEW c \in Checkouts, ReconcileFinish(c) PROVE Money'
    <2>1. recon' = [recon EXCEPT ![c] = None] /\ UNCHANGED <<intent, sent, txn, overclaimed>>
      BY <1>6 DEF ReconcileFinish, gateway
    <2>2. ASSUME NEW d \in txn \ overclaimed, order'[d] = "paid" PROVE order[d] = "paid" \/ Taken(d)
      <3>1. CASE recon[c] = "captured"
        <4>1. Taken(c)
          BY <3>1 DEF Money
        <4>. QED
          BY <1>0, <1>6, <2>2, <3>1, <4>1 DEF ReconcileFinish, ApplyOrderPaid, TypeOK
      <3>2. CASE recon[c] # "captured"
        BY <1>0, <1>6, <2>2, <3>2 DEF ReconcileFinish, ApplyOrderCancelled, TypeOK
      <3>. QED
        BY <3>1, <3>2
    <2>. QED
      BY <1>0, <2>1, <2>2, LifecycleAssumption DEF Money, Taken, TypeOK, PaymentStatus
  <1>7. ASSUME NEW e \in sent, Webhook(e) PROVE Money'
    <2>1. UNCHANGED <<intent, sent, txn, overclaimed, recon>> /\ e.co \in Checkouts
      BY <1>0, <1>7 DEF Webhook, Known, Fresh, gateway, TypeOK, Event
    <2>2. ASSUME NEW d \in txn \ overclaimed, order'[d] = "paid" PROVE order[d] = "paid" \/ Taken(d)
      <3>1. CASE e.type = "captured"
        BY <1>0, <1>7, <2>1, <2>2, <3>1 DEF Webhook, Known, Fresh, ApplyOrderPaid, Money, TypeOK
      <3>2. CASE e.type # "captured"
        BY <1>0, <1>7, <2>1, <2>2, <3>2 DEF Webhook, Known, Fresh, ApplyOrderCancelled, TypeOK
      <3>. QED
        BY <3>1, <3>2
    <2>. QED
      BY <1>2, <2>1, <2>2
  <1>8. ASSUME NEW a \in Admins, MarkPaidWrite(a) PROVE Money'
    <2>1. marking[a] \notin txn
      BY <1>8 DEF MarkPaidWrite, LifecycleInv, Marked
    <2>2. UNCHANGED <<intent, sent, txn, overclaimed, recon>>
      BY <1>8 DEF MarkPaidWrite, gateway
    <2>. QED
      BY <1>0, <1>2, <1>8, <2>1, <2>2 DEF MarkPaidWrite, TypeOK
  <1>9. ASSUME NEW c \in Checkouts, Cancel(c) \/ ReconcileUnknown(c) PROVE Money'
    <2>1. UNCHANGED <<intent, sent, txn, overclaimed, recon>>
      BY <1>9 DEF Cancel, ReconcileUnknown, gateway, workers
    <2>. QED
      BY <1>0, <1>2, <1>9, <2>1 DEF Cancel, ReconcileUnknown, ApplyOrderCancelled, TypeOK
  <1>10. ASSUME \/ \E k \in Carts : NewCart(k)
                \/ \E c \in Checkouts : Lapse(c) \/ ReconcileSkip(c)
                \/ ReconcilePick
                \/ \E S \in SUBSET ExpiredRows : Sweep(S)
                \/ \E a \in Admins, c \in Checkouts : MarkPaidCheck(a, c)
                \/ \E p \in Products, n \in 0..MaxStock : SetStock(p, n)
                \/ UNCHANGED vars
         PROVE  Money'
    <2>1. UNCHANGED <<intent, sent, txn, overclaimed, recon, order>>
      BY <1>10 DEF NewCart, Lapse, ReconcileSkip, ReconcilePick, Sweep, MarkPaidCheck, SetStock, vars, purchase, gateway, workers
    <2>. QED
      BY <1>2, <2>1
  <1>. QED
    BY <1>1, <1>3, <1>4, <1>5, <1>6, <1>7, <1>8, <1>9, <1>10 DEF LifecycleNext, Checkout

\* Whatever a capture call reports, no interleaving of late webhooks, events of unknown
\* type and old reconcile answers marks an order paid that was not captured: only the
\* order's own checkout can, by taking a call that returned for a capture.
THEOREM PaidIsCaptured == LifecycleSpec => []PaidWasCaptured
  <1>1. LifecycleInit => Money
    BY LifecycleAssumption DEF LifecycleInit, Money, PaymentStatus
  <1>2. LifecycleInv /\ Money /\ [LifecycleNext]_vars => Money'
    BY MoneyStep
  <1>3. LifecycleInv /\ Money => PaidWasCaptured
    BY DEF LifecycleInv, TypeOK, Money, Taken, PaidWasCaptured
  <1>. QED
    BY <1>1, <1>2, <1>3, LifecycleInvariant, PTL DEF LifecycleSpec

------------------------------------------------------------------------------
\* The hold by which the expiry sweep finds a cart that is stuck: no order's row, so
\* nobody else ends it.
Stranded(c, p, k) ==
  cartOf[c] = k /\ c \notin linked \cup txn /\ resv[<<c, p>>].status = "active"

Recoverable ==
  \A k \in Carts : cart[k] = "checking_out" =>
    \E c \in Checkouts, p \in Products : Stranded(c, p, k)

\* Only the request that leaves a cart CHECKING_OUT creates one, with such a row; only
\* the sweep takes the row away, with the cart.
LEMMA RecoverableStep ==
  ASSUME LifecycleInv, Recoverable, [LifecycleNext]_vars
  PROVE  Recoverable'
  <1>0. TypeOK /\ LedgerTypeOK
    BY DEF LifecycleInv, TypeOK
  <1>1. ASSUME \A k \in Carts : cart'[k] = "checking_out" => cart[k] = "checking_out",
               UNCHANGED <<cartOf, linked, txn>>,
               \A c \in Checkouts, p \in Products :
                 resv[<<c, p>>].status = "active" /\ c \notin linked => resv'[<<c, p>>].status = "active"
        PROVE  Recoverable'
    BY <1>1 DEF Recoverable, Stranded
  <1>2. ASSUME NEW c \in Checkouts, NEW k \in Carts, NEW lines \in Baskets,
               \/ Captured(c, k, lines) \/ Async(c, k, lines) \/ CaptureRaised(c, k, lines)
               \/ Declined(c, k, lines) \/ GatewayError(c, k, lines) \/ Unconfigured(c, k, lines)
               \/ Unexpected(c, k, lines) \/ Invoiced(c, k, lines)
        PROVE  Recoverable'
    <2>1. /\ order[c] = "none" /\ cart[k] = "active" /\ cartOf' = [cartOf EXCEPT ![c] = k]
          /\ \A j \in Carts \ {k} : cart'[j] = cart[j]
          /\ linked' \subseteq linked \cup {c} /\ txn' \subseteq txn \cup {c}
      BY <1>0, <1>2 DEF Captured, Async, CaptureRaised, Declined, GatewayError, Unconfigured, Unexpected, Invoiced,
         Place, gateway, TypeOK
    <2>2. c \notin linked /\ c \notin txn /\ New(c)
      BY <2>1 DEF LifecycleInv, Bookkeeping
    <2>3. \E st \in RowStatus : Insert(c, lines, st)
      BY <1>2 DEF Captured, Async, CaptureRaised, Declined, GatewayError, Unconfigured, Unexpected, Invoiced,
         Place, RowStatus
    <2>4. \A d \in Checkouts \ {c}, p \in Products : resv'[<<d, p>>] = resv[<<d, p>>]
      BY <2>3 DEF Insert, Write, Rows
    <2>5. ASSUME NEW j \in Carts \ {k}, cart'[j] = "checking_out"
          PROVE  \E d \in Checkouts, p \in Products : Stranded(d, p, j)'
      <3>1. PICK d \in Checkouts, p \in Products : Stranded(d, p, j)
        BY <2>1, <2>5 DEF Recoverable
      <3>2. d # c
        BY <2>2, <3>1 DEF Stranded, New
      <3>3. cartOf'[d] = cartOf[d]
        BY <1>0, <2>1, <3>2 DEF TypeOK
      <3>. QED
        BY <2>1, <2>4, <3>1, <3>2, <3>3 DEF Stranded
    <2>6. ASSUME cart'[k] = "checking_out" PROVE \E d \in Checkouts, p \in Products : Stranded(d, p, k)'
      <3>1. Unconfigured(c, k, lines)
        BY <1>0, <1>2, <2>6 DEF Captured, Async, CaptureRaised, Declined, GatewayError, Unexpected, Invoiced, Place, TypeOK
      <3>2. Insert(c, lines, "active") /\ linked' = linked /\ txn' = txn
        BY <3>1 DEF Unconfigured, Place
      <3>3. PICK p \in Products : lines[p] > 0
        BY LifecycleAssumption
      <3>4. resv'[<<c, p>>].status = "active"
        BY <3>2, <3>3 DEF Insert, Write, Rows
      <3>5. cartOf'[c] = k
        BY <1>0, <2>1 DEF TypeOK
      <3>. QED
        BY <2>2, <3>2, <3>4, <3>5 DEF Stranded
    <2>. QED
      BY <2>5, <2>6 DEF Recoverable
  <1>3. ASSUME NEW c \in Checkouts, NEW st, SetStatus(LinkedRows(c, "active"), st),
               NEW d \in Checkouts, NEW p \in Products, d \notin linked
        PROVE  resv'[<<d, p>>] = resv[<<d, p>>]
    BY <1>3 DEF SetStatus, LinkedRows, Rows
  <1>4. ASSUME NEW c \in Checkouts, ApplyOrderPaid(c) \/ ApplyOrderCancelled(c)
        PROVE  /\ \A k \in Carts : cart'[k] = "checking_out" => cart[k] = "checking_out"
               /\ \A d \in Checkouts, p \in Products : d \notin linked => resv'[<<d, p>>] = resv[<<d, p>>]
    <2>1. UNCHANGED resv \/ SetStatus(LinkedRows(c, "active"), "committed")
                         \/ SetStatus(LinkedRows(c, "active"), "released")
      BY <1>4 DEF ApplyOrderPaid, ApplyOrderCancelled, Commit, Release, ledger
    <2>2. cart' = cart \/ \E ks : cart' = Reverted(ks)
      BY <1>4 DEF ApplyOrderPaid, ApplyOrderCancelled
    <2>. QED
      BY <1>3, <2>1, <2>2 DEF Reverted
  <1>5. ASSUME NEW c \in Checkouts, Cancel(c) PROVE Recoverable'
    <2>1. SetStatus(LinkedRows(c, "active") \cup LinkedRows(c, "committed"), "released")
          /\ UNCHANGED <<txn, linked, cart, cartOf>>
      BY <1>5 DEF Cancel, Unwind
    <2>2. \A d \in Checkouts, p \in Products : d \notin linked => resv'[<<d, p>>] = resv[<<d, p>>]
      BY <2>1 DEF SetStatus, LinkedRows, Rows
    <2>. QED
      BY <1>1, <2>1, <2>2
  <1>6. ASSUME NEW c \in Checkouts, ReconcileUnknown(c) \/ ReconcileFinish(c) PROVE Recoverable'
    <2>1. UNCHANGED <<txn, linked, cartOf>>
      BY <1>6 DEF ReconcileUnknown, ReconcileFinish
    <2>2. ApplyOrderPaid(c) \/ ApplyOrderCancelled(c) \/ UNCHANGED <<resv, cart>>
      BY <1>6 DEF ReconcileUnknown, ReconcileFinish, ledger
    <2>. QED
      BY <1>1, <1>4, <2>1, <2>2
  <1>7. ASSUME NEW e \in sent, Webhook(e) PROVE Recoverable'
    <2>1. UNCHANGED <<txn, linked, cartOf>> /\ e.co \in Checkouts
      BY <1>0, <1>7 DEF Webhook, Fresh, Known, TypeOK, Event
    <2>2. ApplyOrderPaid(e.co) \/ ApplyOrderCancelled(e.co) \/ UNCHANGED <<resv, cart>>
      BY <1>7 DEF Webhook, Fresh, Known, ledger
    <2>. QED
      BY <1>1, <1>4, <2>1, <2>2
  <1>8. ASSUME NEW S \in SUBSET ExpiredRows, Sweep(S) PROVE Recoverable'
    <2>1. /\ SetStatus(S, "released") /\ UNCHANGED <<txn, linked, cartOf>>
          /\ cart' = Reverted({cartOf[r[1]] : r \in S})
      BY <1>8 DEF Sweep, Release
    <2>2. SUFFICES ASSUME NEW k \in Carts, cart'[k] = "checking_out"
                   PROVE  \E c \in Checkouts, p \in Products : Stranded(c, p, k)'
      BY DEF Recoverable
    <2>3. cart[k] = "checking_out" /\ k \notin {cartOf[r[1]] : r \in S}
      BY <2>1, <2>2 DEF Reverted
    <2>4. PICK c \in Checkouts, p \in Products : Stranded(c, p, k)
      BY <2>3 DEF Recoverable
    <2>5. <<c, p>> \notin S /\ <<c, p>> \in Rows
      BY <2>3, <2>4 DEF Stranded, Rows
    <2>6. resv'[<<c, p>>] = resv[<<c, p>>]
      BY <2>1, <2>5 DEF SetStatus
    <2>. QED
      BY <2>1, <2>4, <2>6 DEF Stranded
  <1>9. ASSUME NEW k \in Carts, NewCart(k) PROVE Recoverable'
    BY <1>0, <1>1, <1>9 DEF NewCart, ledger, TypeOK
  <1>10. ASSUME \/ \E c \in Checkouts :
                     \/ GatewayAuthorises(c) \/ GatewayFails(c) \/ GatewayCancels(c)
                     \/ GatewayCaptures(c) \/ GatewayRefunds(c)
                     \/ ReconcileSkip(c) \/ ReconcileStart(c) \/ ReconcileAbort(c) \/ Lapse(c)
                \/ \E a \in Admins, c \in Checkouts : MarkPaidCheck(a, c)
                \/ \E a \in Admins : MarkPaidWrite(a)
                \/ \E p \in Products, n \in 0..MaxStock : SetStock(p, n)
                \/ ReconcilePick
                \/ UNCHANGED vars
         PROVE  UNCHANGED <<resv, txn, linked, cart, cartOf>>
    BY <1>10 DEF GatewayAuthorises, GatewayFails, GatewayCancels, GatewayCaptures, GatewayRefunds,
       GatewayMoves, ReconcilePick, ReconcileSkip, ReconcileStart, ReconcileAbort, Lapse, MarkPaidCheck, MarkPaidWrite, SetStock,
       PatchStock, vars, ledger, purchase
  <1>11. ASSUME UNCHANGED <<resv, txn, linked, cart, cartOf>> PROVE Recoverable'
    BY <1>1, <1>11
  <1>. QED
    BY <1>2, <1>5, <1>6, <1>7, <1>8, <1>9, <1>10, <1>11 DEF LifecycleNext, Checkout

\* No cart stays CHECKING_OUT without a row by which the expiry sweep will find it.
THEOREM CartsAreRecoverable == LifecycleSpec => []CheckingOutRecoverable
  <1>1. LifecycleInit => Recoverable
    BY DEF LifecycleInit, Recoverable
  <1>2. LifecycleInv /\ Recoverable /\ [LifecycleNext]_vars => Recoverable'
    BY RecoverableStep
  <1>3. Recoverable => CheckingOutRecoverable
    <2>1. ASSUME NEW c \in Checkouts, NEW p \in Products, NEW k \in Carts, Stranded(c, p, k)
          PROVE  \E r \in RowsIn("active") : cartOf[r[1]] = k
      <3>1. <<c, p>> \in RowsIn("active") /\ cartOf[<<c, p>>[1]] = k
        BY <2>1 DEF Stranded, RowsIn, Rows
      <3>. QED
        BY <3>1
    <2>. QED
      BY <2>1 DEF Recoverable, CheckingOutRecoverable
  <1>. QED
    BY <1>1, <1>2, <1>3, LifecycleInvariant, PTL DEF LifecycleSpec

==============================================================================
