------------------------- MODULE CheckoutSaga_proofs -------------------------
(***************************************************************************)
(* Proofs about CheckoutSaga, for any finite set of requests and any carts,*)
(* coupons, products and keys.                                             *)
(*                                                                         *)
(* A statement of a request relies on what its earlier statements tested.  *)
(* RequestInv says, at every statement, what the row locks keep true until *)
(* the commit; KeysApart, Taken and the count of coupon uses relate a      *)
(* request to the others.                                                  *)
(***************************************************************************)
EXTENDS CheckoutSaga, Inventory_proofs

\* The statements between the cart's lock and the end of the transaction.
AtWork == {"validate", "reserve", "coupons", "pay", "capture", "commit"}

\* The product rows of a request's lines are its own, and what it tested holds.
HasStock(r) ==
  /\ \A p \in Products : work[r].lines[p] > 0 => prodLock[p] = r
  /\ EnoughStock(work[r].lines)

\* The cart is as the request has read it.
CartAsRead(r) ==
  /\ work[r].lines = basket[target[r]].lines
  /\ IfMatch[r] \in {None, version[target[r]]}

\* What is committed at the end: an order or its compensation, never half of either.
Whole(w) ==
  /\ w.order = "none" => w.coupons = {}
  /\ w.reply \notin {"ok"} \cup Uncompensated =>
       w.rows \in {"none", "released"} /\ w.order \in {"none", "cancelled"}
  /\ w.reply \in Uncompensated =>
       /\ w.order = "pending"
       /\ w.cart = IF w.reply = "unexpected_status" THEN "converted" ELSE "checking_out"
  /\ w.cart = "active" <=> w.order \in {"none", "cancelled"}

LocksOf(r) ==
  /\ \A k \in Carts : cartLock[k] = r => pc[r] \in AtWork /\ target[r] = k
  /\ \A p \in Products : prodLock[p] = r => pc[r] \in AtWork \ {"validate"}
  /\ \A q \in Coupons : coupLock[q] = r => pc[r] \in AtWork \ {"validate", "reserve"}

\* Before the answer.
Unfinished(r) ==
  /\ order[r] = "none" /\ New(r)
  /\ pc[r] \in {"idle", "find", "lock"} => work[r] = Blank
  /\ pc[r] \in AtWork \cup {"lock"} => target[r] \in Carts
  /\ pc[r] \in AtWork =>
       cartLock[target[r]] = r /\ cart[target[r]] = "active" /\ CartAsRead(r)
  /\ pc[r] \in AtWork \ {"commit"} => work[r].cart = IF pc[r] = "capture" THEN "converted" ELSE "checking_out"
  /\ pc[r] \in {"validate", "reserve"} =>
       work[r].rows = "none" /\ work[r].coupons = {} /\ work[r].order = "none"
  /\ pc[r] = "coupons" => /\ work[r].rows = "active" /\ work[r].order = "none"
                          /\ work[r].coupons \subseteq basket[target[r]].coupons
  /\ pc[r] \in {"pay", "capture"} => work[r].rows = "active" /\ work[r].order = "pending"
  /\ pc[r] = "commit" => Whole(work[r])
  /\ pc[r] \in {"pay", "capture", "commit"} /\ work[r].order \in {"pending", "paid"} =>
       work[r].coupons = basket[target[r]].coupons
  /\ pc[r] \in AtWork /\ work[r].rows # "none" => HasStock(r)
  /\ \A q \in work[r].coupons : coupLock[q] = r /\ ~UsedUp(q)

\* After it.
Answered(r) ==
  /\ Whole(work[r])
  /\ order[r] = work[r].order
  /\ work[r].rows \in {"none", "released"} =>
       \A p \in Products : resv[<<r, p>>].status \in {"none", "released"}
  /\ order[r] \in {"pending", "paid"} =>
       /\ target[r] \in Carts /\ cart[target[r]] \in {"checking_out", "converted"}
       /\ cart[target[r]] = work[r].cart
       /\ CartAsRead(r) /\ work[r].coupons = basket[target[r]].coupons

RequestInv(r) ==
  /\ LocksOf(r)
  /\ target[r] # None => cart[target[r]] # "absent"
  /\ IF pc[r] = "done" THEN Answered(r) ELSE Unfinished(r)

\* A cart that is not active any more is some live order's.
Taken ==
  \A k \in Carts : cart[k] \in {"checking_out", "converted"} =>
    \E s \in Ordered : target[s] = k /\ order[s] # "cancelled"

\* One request per key has its order inserted, committed or not.
KeysApart ==
  \A r, s \in Ordered \cup Inserted : KeyOf[r] = KeyOf[s] => r = s

SagaInv ==
  /\ TypeOK /\ LedgerInv
  /\ \A r \in Checkouts : RequestInv(r)
  /\ Taken /\ KeysApart /\ CouponUses

------------------------------------------------------------------------------
\* Initially nothing is held, counted or ordered.
LEMMA SagaInitOK == SagaInit => SagaInv
  <1>. SUFFICES ASSUME SagaInit PROVE SagaInv
    OBVIOUS
  <1>. USE DEF SagaInit
  <1>1. LedgerInv
    BY LedgerInitOK
  <1>2. NoLines \in Lines /\ Blank \in Work
    BY InventoryAssumption DEF NoLines, Lines, Blank, Work, RowStatus, Replies, PaymentStatus
  <1>3. TypeOK
    <2>1. [lines |-> NoLines, coupons |-> {}, method |-> "none"] \in Basket
      BY <1>2 DEF Basket
    <2>. QED
      BY <1>1, <1>2, <2>1, SagaAssumption DEF TypeOK, LedgerInv, IntentStatus, PaymentStatus
  <1>4. ASSUME NEW r \in Checkouts PROVE RequestInv(r)
    <2>1. New(r)
      BY DEF New, LedgerInit, NoRow, Rows
    <2>2. LocksOf(r) /\ target[r] = None
      BY SagaAssumption DEF LocksOf
    <2>3. work[r] = Blank /\ pc[r] = "idle" /\ order[r] = "none"
      OBVIOUS
    <2>. QED
      BY <2>1, <2>2, <2>3 DEF RequestInv, Unfinished, Blank, AtWork
  <1>5. Ordered = {} /\ Inserted = {}
    BY DEF Ordered, Inserted
  <1>6. Taken /\ KeysApart
    BY <1>5 DEF Taken, KeysApart
  <1>7. CouponUses
    <2>1. ASSUME NEW q \in Coupons
          PROVE uses[q] <= MaxUses[q] /\ uses[q] = Cardinality({r \in Ordered : q \in work[r].coupons})
      <3>. DEFINE U == {r \in Ordered : q \in work[r].coupons}
      <3>1. U = {}
        BY <1>5
      <3>2. uses[q] = 0 /\ MaxUses[q] \in Nat
        BY SagaAssumption
      <3>3. Cardinality({}) = 0
        BY FS_EmptySet
      <3>4. Cardinality(U) = 0
        BY <3>1, <3>3
      <3>. HIDE DEF U
      <3>5. uses[q] <= MaxUses[q] /\ uses[q] = Cardinality(U)
        BY <3>2, <3>4
      <3>. QED
        BY <3>5 DEF U
    <2>. QED
      BY <2>1 DEF CouponUses
  <1>. QED
    BY <1>1, <1>3, <1>4, <1>6, <1>7 DEF SagaInv

\* A statement that writes its own workspace and takes or drops its own locks.
Private(r) ==
  /\ pc[r] # "done"
  /\ UNCHANGED <<ledger, shop>>
  /\ \A s \in Checkouts \ {r} :
       /\ pc'[s] = pc[s] /\ target'[s] = target[s] /\ work'[s] = work[s]
       /\ \A k \in Carts : cartLock'[k] = s <=> cartLock[k] = s
       /\ \A p \in Products : prodLock'[p] = s <=> prodLock[p] = s
       /\ \A q \in Coupons : coupLock'[q] = s <=> coupLock[q] = s

\* Nobody else notices it.
LEMMA OthersUnaware ==
  ASSUME SagaInv, NEW r \in Checkouts, Private(r), NEW s \in Checkouts \ {r}
  PROVE  RequestInv(s)'
  <1>1. RequestInv(s)
    BY DEF SagaInv
  <1>2. work'[s] = work[s] /\ pc'[s] = pc[s] /\ target'[s] = target[s]
    BY DEF Private
  <1>3. UNCHANGED <<stock, reserved, resv, order, cart, version, basket, uses>>
    BY DEF Private, ledger, shop
  <1>4. LocksOf(s)'
    BY <1>1, <1>2 DEF RequestInv, LocksOf, Private
  <1>5. CartAsRead(s) => CartAsRead(s)'
    BY <1>2, <1>3 DEF CartAsRead
  <1>6. HasStock(s) => HasStock(s)'
    BY <1>2, <1>3 DEF HasStock, EnoughStock, Private
  <1>7. Answered(s) => Answered(s)'
    BY <1>2, <1>3, <1>5 DEF Answered
  <1>8. TypeOK
    BY DEF SagaInv
  <1>9. work[s].coupons \subseteq Coupons
    BY <1>8 DEF TypeOK, Work
  <1>10. Unfinished(s) => Unfinished(s)'
    BY <1>2, <1>3, <1>5, <1>6, <1>9 DEF Unfinished, New, UsedUp, Private
  <1>. QED
    BY <1>1, <1>2, <1>3, <1>4, <1>7, <1>10 DEF RequestInv

\* So it is for itself alone to keep the invariant.
LEMMA PrivateStep ==
  ASSUME SagaInv, NEW r \in Checkouts, Private(r), TypeOK', RequestInv(r)',
         r \in Inserted' => \A s \in Ordered \cup Inserted : KeyOf[s] = KeyOf[r] => s = r
  PROVE  SagaInv'
  <1>1. UNCHANGED <<stock, reserved, resv, supplied, order, cart, uses>> /\ order[r] = "none"
    BY DEF Private, ledger, shop, SagaInv, RequestInv, Unfinished
  <1>2. LedgerInv'
    BY <1>1 DEF SagaInv, LedgerInv, LedgerTypeOK, ReservedIsHeld, StockCoversReserved, StockConserved,
       Amount, UnitsOf, RowsIn
  <1>3. \A s \in Checkouts : RequestInv(s)'
    BY OthersUnaware
  <1>4. Ordered' = Ordered /\ r \notin Ordered
    BY <1>1 DEF Ordered
  <1>5. \A s \in Ordered : target'[s] = target[s] /\ work'[s] = work[s]
    BY <1>4 DEF Private, Ordered
  <1>6. Taken'
    BY <1>1, <1>4, <1>5 DEF Taken, SagaInv
  <1>7. \A s \in Checkouts \ {r} : s \in Inserted' => s \in Inserted
    BY DEF Private, Inserted
  <1>8. KeysApart'
    <2>1. \A s \in Ordered \cup Inserted' : s = r \/ s \in Ordered \cup Inserted
      BY <1>7 DEF Inserted
    <2>. QED
      BY <1>4, <2>1 DEF KeysApart, SagaInv
  <1>9. CouponUses'
    <2>1. ASSUME NEW q \in Coupons
          PROVE {s \in Ordered : q \in work[s].coupons}' = {s \in Ordered : q \in work[s].coupons}
      BY <1>4, <1>5
    <2>. QED
      BY <1>1, <2>1 DEF CouponUses, SagaInv
  <1>. QED
    BY <1>2, <1>3, <1>6, <1>8, <1>9 DEF SagaInv

------------------------------------------------------------------------------
Stages == {"idle", "find", "lock", "validate", "reserve", "coupons", "pay", "capture", "commit", "done"}

\* A statement writes its own stage and workspace, and what it writes is typed.
LEMMA StatementTyped ==
  ASSUME TypeOK, NEW r \in Checkouts, NEW l \in Stages, NEW w \in Work,
         GoTo(r, l), work' = [work EXCEPT ![r] = w],
         UNCHANGED <<ledger, shop>>,
         target' \in [Checkouts -> Carts \cup {None}],
         cartLock' \in [Carts -> Checkouts \cup {None}],
         prodLock' \in [Products -> Checkouts \cup {None}],
         coupLock' \in [Coupons -> Checkouts \cup {None}],
         intent' \in [Keys -> IntentStatus]
  PROVE  TypeOK'
  BY DEF TypeOK, LedgerTypeOK, GoTo, Stages, ledger, shop

\* A request that has not begun holds an empty workspace.
LEMMA BlankIsWork == NoLines \in Lines /\ Blank \in Work
  BY InventoryAssumption DEF NoLines, Lines, Blank, Work, RowStatus, Replies, PaymentStatus

\* A refusal before the cart is locked.
LEMMA AnswerStep ==
  ASSUME SagaInv, NEW r \in Checkouts, pc[r] \in {"idle", "find", "lock"},
         NEW reply \in Replies \ ({"ok"} \cup Uncompensated), Answer(r, reply)
  PROVE  SagaInv'
  <1>. DEFINE w == [Blank EXCEPT !.reply = reply]
  <1>1. TypeOK /\ RequestInv(r) /\ Unfinished(r)
    BY DEF SagaInv, RequestInv
  <1>2. work[r] = Blank /\ order[r] = "none" /\ New(r)
    BY <1>1 DEF Unfinished
  <1>3. w \in Work /\ Whole(w) /\ w.rows = "none" /\ w.order = "none"
    BY BlankIsWork DEF Work, Whole, Blank
  <1>4. work' = [work EXCEPT ![r] = w] /\ GoTo(r, "done")
    BY <1>1, <1>2 DEF Answer, TypeOK
  <1>5. UNCHANGED <<ledger, target, locks, shop, intent>>
    BY DEF Answer
  <1>. HIDE DEF w
  <1>6. TypeOK'
    <2>1. TypeOK /\ "done" \in Stages
      BY <1>1 DEF Stages
    <2>. QED
      BY <1>3, <1>4, <1>5, <2>1, StatementTyped DEF TypeOK, locks
  <1>7. Private(r)
    BY <1>1, <1>4, <1>5 DEF Private, GoTo, TypeOK, locks
  <1>8. pc'[r] = "done" /\ work'[r] = w
    BY <1>1, <1>4 DEF GoTo, TypeOK
  <1>9. LocksOf(r)'
    BY <1>1, <1>5, <1>8 DEF RequestInv, LocksOf, locks, AtWork
  <1>10. Answered(r)'
    BY <1>2, <1>3, <1>5, <1>8 DEF Answered, New, ledger, shop
  <1>11. RequestInv(r)'
    BY <1>1, <1>5, <1>8, <1>9, <1>10 DEF RequestInv, shop
  <1>12. r \notin Inserted'
    BY <1>8 DEF Inserted
  <1>. QED
    BY <1>6, <1>7, <1>11, <1>12, PrivateStep

\* What a request is to commit, once nothing can go wrong any more but its death.
LEMMA FinishStep ==
  ASSUME SagaInv, NEW r \in Checkouts, pc[r] \in AtWork \ {"commit"}, NEW w \in Work,
         Finish(r, w), intent' \in [Keys -> IntentStatus],
         Whole(w), w.lines = work[r].lines, w.coupons \subseteq work[r].coupons,
         w.rows # "none" => HasStock(r),
         w.order \in {"pending", "paid"} => w.coupons = basket[target[r]].coupons,
         w.order # "none" => r \in Inserted
  PROVE  SagaInv'
  <1>1. TypeOK /\ RequestInv(r) /\ Unfinished(r) /\ pc[r] # "done"
    BY DEF SagaInv, RequestInv, AtWork
  <1>2. work' = [work EXCEPT ![r] = w] /\ GoTo(r, "commit") /\ UNCHANGED <<ledger, target, locks, shop>>
    BY DEF Finish
  <1>3. TypeOK'
    <2>1. "commit" \in Stages
      BY DEF Stages
    <2>. QED
      BY <1>1, <1>2, <2>1, StatementTyped DEF TypeOK, locks
  <1>4. Private(r)
    BY <1>1, <1>2 DEF Private, GoTo, TypeOK, locks
  <1>5. pc'[r] = "commit" /\ work'[r] = w /\ target'[r] = target[r]
    BY <1>1, <1>2 DEF GoTo, TypeOK
  <1>6. LocksOf(r)'
    BY <1>1, <1>2, <1>5 DEF RequestInv, LocksOf, locks, AtWork
  <1>7. UNCHANGED <<stock, reserved, resv, cart, order, version, basket, uses, cartLock, prodLock, coupLock>>
    BY <1>2 DEF ledger, shop, locks
  <1>8. w.rows # "none" => HasStock(r)'
    BY <1>5, <1>7 DEF HasStock, EnoughStock
  <1>9. target[r] \in Carts /\ cartLock[target[r]] = r /\ cart[target[r]] = "active" /\ CartAsRead(r)
    BY <1>1 DEF Unfinished
  <1>10. CartAsRead(r)'
    BY <1>5, <1>7, <1>9 DEF CartAsRead
  <1>11. \A q \in w.coupons : q \in Coupons /\ coupLock[q] = r /\ ~UsedUp(q)
    BY <1>1 DEF Unfinished, Work
  <1>12. Unfinished(r)'
    <2>1. order'[r] = "none" /\ New(r)'
      BY <1>1, <1>7 DEF Unfinished, New
    <2>2. \A q \in work'[r].coupons : coupLock'[q] = r /\ ~UsedUp(q)'
      BY <1>5, <1>7, <1>11 DEF UsedUp
    <2>3. pc'[r] \notin {"idle", "find", "lock", "validate", "reserve", "coupons", "pay", "capture"}
      BY <1>5
    <2>. QED
      BY <1>5, <1>7, <1>8, <1>9, <1>10, <2>1, <2>2, <2>3 DEF Unfinished
  <1>13. RequestInv(r)'
    BY <1>1, <1>5, <1>6, <1>7, <1>9, <1>12 DEF RequestInv
  <1>14. r \in Inserted' => \A s \in Ordered \cup Inserted : KeyOf[s] = KeyOf[r] => s = r
    BY <1>5 DEF Inserted, SagaInv, KeysApart
  <1>. QED
    BY <1>3, <1>4, <1>13, <1>14, PrivateStep

\* What a failed phase leaves to be committed.
LEMMA CompensatedWhole ==
  ASSUME NEW w \in Work, w.order \in {"none", "pending"}, w.rows \in {"none", "active"},
         w.order = "none" => w.coupons = {},
         NEW reply \in Replies \ ({"ok"} \cup Uncompensated)
  PROVE  /\ Compensated(w, reply) \in Work /\ Whole(Compensated(w, reply))
         /\ Compensated(w, reply).lines = w.lines
         /\ Compensated(w, reply).coupons = w.coupons
         /\ Compensated(w, reply).order \in {"none", "cancelled"}
         /\ Compensated(w, reply).order = "none" <=> w.order = "none"
         /\ Compensated(w, reply).rows = "none" <=> w.rows = "none"
  BY DEF Compensated, Work, Whole, RowStatus

\* Before phase 1, and the cart.
LEMMA CartSteps ==
  ASSUME SagaInv, NEW r \in Checkouts, Lookup(r) \/ FindCart(r) \/ LockCart(r)
  PROVE  SagaInv'
  <1>1. TypeOK /\ RequestInv(r)
    BY DEF SagaInv
  <1>2. Unfinished(r) /\ work[r] = Blank /\ pc[r] \in {"idle", "find", "lock"}
    BY <1>1 DEF Lookup, FindCart, LockCart, RequestInv, Unfinished
  <1>3. {"replayed", "cart_not_found", "version_conflict"} \subseteq Replies \ ({"ok"} \cup Uncompensated)
    BY DEF Replies, Uncompensated
  <1>4. CASE Lookup(r)
    <2>1. CASE Answer(r, "replayed")
      BY <1>2, <1>3, <2>1, AnswerStep
    <2>2. CASE GoTo(r, "find") /\ UNCHANGED <<ledger, target, work, locks, shop, intent>>
      <3>1. pc'[r] = "find" /\ \A s \in Checkouts \ {r} : pc'[s] = pc[s]
        BY <1>1, <2>2 DEF GoTo, TypeOK
      <3>2. Private(r)
        BY <1>2, <2>2, <3>1 DEF Private, locks
      <3>3. TypeOK'
        BY <1>1, <2>2 DEF TypeOK, LedgerTypeOK, GoTo, ledger, locks, shop
      <3>4. pc[r] = "idle"
        BY <1>4 DEF Lookup
      <3>5. LocksOf(r)'
        BY <1>1, <2>2, <3>1, <3>4 DEF RequestInv, LocksOf, locks, AtWork
      <3>6. Unfinished(r)'
        BY <1>2, <2>2, <3>1 DEF Unfinished, New, AtWork, ledger, shop, UsedUp, Blank
      <3>7. RequestInv(r)' /\ r \notin Inserted'
        BY <1>1, <2>2, <3>1, <3>5, <3>6 DEF RequestInv, Inserted, shop
      <3>. QED
        BY <3>2, <3>3, <3>7, PrivateStep
    <2>. QED
      BY <1>4, <2>1, <2>2 DEF Lookup
  <1>5. CASE FindCart(r)
    <2>1. CASE Answer(r, "cart_not_found")
      BY <1>2, <1>3, <2>1, AnswerStep
    <2>2. ASSUME NEW k \in Carts, cart[k] = "active", target' = [target EXCEPT ![r] = k], GoTo(r, "lock"),
                 UNCHANGED <<ledger, work, locks, shop, intent>>
          PROVE  SagaInv'
      <3>1. pc'[r] = "lock" /\ target'[r] = k
            /\ \A s \in Checkouts \ {r} : pc'[s] = pc[s] /\ target'[s] = target[s]
        BY <1>1, <2>2 DEF GoTo, TypeOK
      <3>2. Private(r)
        BY <1>2, <2>2, <3>1 DEF Private, locks
      <3>3. TypeOK'
        BY <1>1, <2>2 DEF TypeOK, LedgerTypeOK, GoTo, ledger, locks, shop
      <3>4. pc[r] = "find"
        BY <1>5 DEF FindCart
      <3>5. LocksOf(r)'
        BY <1>1, <2>2, <3>1, <3>4 DEF RequestInv, LocksOf, locks, AtWork
      <3>6. Unfinished(r)'
        BY <1>2, <2>2, <3>1 DEF Unfinished, New, AtWork, ledger, shop, UsedUp, Blank
      <3>7. RequestInv(r)' /\ r \notin Inserted'
        BY <2>2, <3>1, <3>5, <3>6 DEF RequestInv, Inserted, shop
      <3>. QED
        BY <3>2, <3>3, <3>7, PrivateStep
    <2>. QED
      BY <1>5, <2>1, <2>2 DEF FindCart
  <1>6. CASE LockCart(r)
    <2>. DEFINE k == target[r]
                w == [work[r] EXCEPT !.lines = basket[k].lines, !.cart = "checking_out"]
    <2>0. pc[r] = "lock" /\ k \in Carts
      BY <1>2, <1>6 DEF LockCart, Unfinished
    <2>1. CASE Answer(r, "cart_not_found") \/ Answer(r, "version_conflict")
      BY <1>2, <1>3, <2>1, AnswerStep
    <2>2. CASE /\ cart[k] = "active" /\ IfMatch[r] \in {None, version[k]}
               /\ cartLock' = [cartLock EXCEPT ![k] = r]
               /\ work' = [work EXCEPT ![r].lines = basket[k].lines, ![r].cart = "checking_out"]
               /\ GoTo(r, "validate")
               /\ UNCHANGED <<ledger, target, prodLock, coupLock, shop, intent>>
      <3>1. /\ pc'[r] = "validate" /\ cartLock'[k] = r
            /\ \A s \in Checkouts \ {r} : pc'[s] = pc[s]
            /\ \A j \in Carts \ {k} : cartLock'[j] = cartLock[j]
        BY <1>1, <2>0, <2>2 DEF GoTo, TypeOK
      <3>2. work' = [work EXCEPT ![r] = w] /\ w \in Work
        <4>1. work[r] \in Work /\ basket[k].lines \in Lines
          BY <1>1, <2>0 DEF TypeOK, Basket
        <4>2. w \in Work
          BY <4>1 DEF Work
        <4>3. work' = [work EXCEPT ![r] = w]
          BY <1>1, <2>2 DEF TypeOK
        <4>. QED
          BY <4>2, <4>3
      <3>3. w.lines = basket[k].lines /\ w.rows = "none" /\ w.coupons = {} /\ w.order = "none" /\ w.cart = "checking_out"
        BY <1>1, <1>2 DEF TypeOK, Work, Blank
      <3>. HIDE DEF w
      <3>4. work'[r] = w /\ \A s \in Checkouts \ {r} : work'[s] = work[s]
        BY <1>1, <3>2 DEF TypeOK
      <3>5. cartLock[k] = None
        BY <1>6 DEF LockCart
      <3>6. Private(r)
        BY <1>2, <2>0, <2>2, <3>1, <3>4, <3>5, SagaAssumption, ZenonT(60) DEF Private
      <3>7. TypeOK'
        <4>1. "validate" \in Stages /\ cartLock' \in [Carts -> Checkouts \cup {None}]
          BY <1>1, <2>0, <2>2 DEF Stages, TypeOK
        <4>. QED
          BY <1>1, <2>2, <3>2, <4>1, StatementTyped DEF TypeOK
      <3>8. LocksOf(r)'
        BY <1>1, <2>0, <2>2, <3>1 DEF RequestInv, LocksOf, AtWork
      <3>9. Unfinished(r)'
        BY <1>2, <2>0, <2>2, <3>1, <3>3, <3>4 DEF Unfinished, New, AtWork, ledger, shop, CartAsRead
      <3>10. RequestInv(r)' /\ r \notin Inserted'
        BY <1>1, <2>2, <3>1, <3>8, <3>9 DEF RequestInv, Inserted, shop
      <3>. QED
        BY <3>6, <3>7, <3>10, PrivateStep
    <2>. QED
      BY <1>6, <2>1, <2>2 DEF LockCart
  <1>. QED
    BY <1>4, <1>5, <1>6

\* A statement inside the transaction: it goes on to l with workspace w, perhaps with
\* one more row locked, and what it relies on later holds.
Advances(r, l, w) ==
  /\ pc[r] \in AtWork \ {"commit"} /\ l \in AtWork \ {"commit"}
  /\ pc' = [pc EXCEPT ![r] = l] /\ work' = [work EXCEPT ![r] = w]
  /\ w.lines = work[r].lines /\ w.cart = IF l = "capture" THEN "converted" ELSE "checking_out"
  /\ UNCHANGED <<ledger, target, cartLock, shop>>
  /\ prodLock' \in [Products -> Checkouts \cup {None}]
  /\ coupLock' \in [Coupons -> Checkouts \cup {None}]
  /\ intent' \in [Keys -> IntentStatus]
  /\ \A p \in Products : prodLock'[p] # prodLock[p] =>
       prodLock[p] = None /\ prodLock'[p] = r /\ l # "validate"
  /\ \A q \in Coupons : coupLock'[q] # coupLock[q] =>
       coupLock[q] = None /\ coupLock'[q] = r /\ l \notin {"validate", "reserve"}
  /\ l = "validate" => pc[r] = "validate"
  /\ l = "reserve" => pc[r] \in {"validate", "reserve"}
  /\ l \in {"validate", "reserve"} => w.rows = "none" /\ w.coupons = {} /\ w.order = "none"
  /\ l = "coupons" => /\ w.rows = "active" /\ w.order = "none"
                      /\ w.coupons \subseteq basket[target[r]].coupons
  /\ l \in {"pay", "capture"} =>
       /\ w.rows = "active" /\ w.order = "pending" /\ w.coupons = basket[target[r]].coupons
       /\ \A s \in Ordered \cup Inserted : KeyOf[s] = KeyOf[r] => s = r
  /\ w.rows # "none" => HasStock(r)
  /\ \A q \in w.coupons : coupLock'[q] = r /\ ~UsedUp(q)

\* A statement that writes no shared row.
LEMMA AdvanceStep ==
  ASSUME SagaInv, NEW r \in Checkouts, NEW l, NEW w \in Work, Advances(r, l, w)
  PROVE  SagaInv'
  <1>. USE DEF Advances
  <1>1. TypeOK /\ RequestInv(r) /\ Unfinished(r) /\ pc[r] # "done"
    BY DEF SagaInv, RequestInv, AtWork
  <1>2. pc'[r] = l /\ work'[r] = w /\ target'[r] = target[r]
    BY <1>1 DEF TypeOK
  <1>3. TypeOK'
    <2>1. l \in Stages /\ GoTo(r, l)
      BY DEF Stages, AtWork, GoTo
    <2>. QED
      BY <1>1, <2>1, StatementTyped DEF TypeOK
  <1>4. Private(r)
    BY <1>1, SagaAssumption DEF Private, TypeOK
  <1>5. UNCHANGED <<stock, reserved, resv, cart, order, version, basket, uses, cartLock>>
    BY DEF ledger, shop
  <1>6. LocksOf(r)'
    BY <1>1, <1>2, <1>5 DEF RequestInv, LocksOf, AtWork
  <1>7. target[r] \in Carts /\ cartLock[target[r]] = r /\ cart[target[r]] = "active" /\ CartAsRead(r)
    BY <1>1 DEF Unfinished
  <1>8. CartAsRead(r)'
    BY <1>2, <1>5, <1>7 DEF CartAsRead
  <1>9. w.rows # "none" => HasStock(r)'
    BY <1>2, <1>5, SagaAssumption DEF HasStock, EnoughStock
  <1>10. Unfinished(r)'
    <2>1. order'[r] = "none" /\ New(r)'
      BY <1>1, <1>5 DEF Unfinished, New
    <2>2. \A q \in work'[r].coupons : coupLock'[q] = r /\ ~UsedUp(q)'
      BY <1>2, <1>5 DEF UsedUp
    <2>3. l \notin {"idle", "find", "lock", "commit", "done"}
      BY DEF AtWork
    <2>. QED
      BY <1>2, <1>5, <1>7, <1>8, <1>9, <2>1, <2>2, <2>3 DEF Unfinished
  <1>11. RequestInv(r)'
    BY <1>1, <1>2, <1>5, <1>6, <1>10 DEF RequestInv, AtWork
  <1>12. r \in Inserted' => \A s \in Ordered \cup Inserted : KeyOf[s] = KeyOf[r] => s = r
    BY <1>2 DEF Inserted
  <1>. QED
    BY <1>3, <1>4, <1>11, <1>12, PrivateStep

\* Phase 2 and phase 3.
LEMMA StockSteps ==
  ASSUME SagaInv, NEW r \in Checkouts,
         Validate(r) \/ (\E p \in Products : LockProduct(r, p)) \/ Reserve(r)
  PROVE  SagaInv'
  <1>1. TypeOK /\ RequestInv(r) /\ pc[r] \in {"validate", "reserve"}
    BY DEF SagaInv, Validate, LockProduct, Reserve
  <1>2. Unfinished(r) /\ work[r] \in Work /\ r \in Checkouts
        /\ work[r].rows = "none" /\ work[r].coupons = {} /\ work[r].order = "none"
        /\ work[r].cart = "checking_out"
    BY <1>1 DEF RequestInv, Unfinished, TypeOK, AtWork
  <1>3. ASSUME NEW reply \in {"not_ready", "coupon_exhausted", "insufficient_stock"},
               Finish(r, Compensated(work[r], reply)), UNCHANGED intent
        PROVE  SagaInv'
    <2>. DEFINE w == Compensated(work[r], reply)
    <2>1. reply \in Replies \ ({"ok"} \cup Uncompensated)
      BY DEF Replies, Uncompensated
    <2>2. /\ w \in Work /\ Whole(w) /\ w.lines = work[r].lines /\ w.coupons = {}
          /\ w.order = "none" /\ w.rows = "none"
      BY <1>2, <2>1, CompensatedWhole
    <2>3. intent' \in [Keys -> IntentStatus]
      BY <1>1, <1>3 DEF TypeOK
    <2>. HIDE DEF w
    <2>4. Finish(r, w)
      BY <1>3 DEF w
    <2>. QED
      BY <1>1, <2>2, <2>3, <2>4, FinishStep DEF AtWork
  <1>4. CASE Validate(r)
    <2>1. CASE pc[r] = "validate" /\ GoTo(r, "reserve")
               /\ UNCHANGED <<ledger, target, work, locks, shop, intent>>
      <3>1. work' = [work EXCEPT ![r] = work[r]]
        BY <1>1, <2>1 DEF TypeOK
      <3>2. /\ UNCHANGED <<prodLock, coupLock, cartLock, ledger, target, shop>>
            /\ prodLock' \in [Products -> Checkouts \cup {None}]
            /\ coupLock' \in [Coupons -> Checkouts \cup {None}]
            /\ intent' \in [Keys -> IntentStatus]
        BY <1>1, <2>1 DEF locks, TypeOK
      <3>3. pc' = [pc EXCEPT ![r] = "reserve"] /\ pc[r] \in AtWork \ {"commit"}
            /\ "reserve" \in AtWork \ {"commit"}
        BY <2>1 DEF GoTo, AtWork
      <3>4. Advances(r, "reserve", work[r])
        BY <1>2, <2>1, <3>1, <3>2, <3>3 DEF Advances
      <3>. QED
        BY <1>2, <3>4, AdvanceStep
    <2>. QED
      BY <1>3, <1>4, <2>1 DEF Validate
  <1>5. ASSUME NEW p \in Products, LockProduct(r, p) PROVE SagaInv'
    <2>1. work' = [work EXCEPT ![r] = work[r]] /\ pc' = [pc EXCEPT ![r] = "reserve"]
      BY <1>1, <1>5 DEF LockProduct, requests, TypeOK
    <2>2. prodLock' \in [Products -> Checkouts \cup {None}]
          /\ \A x \in Products : prodLock'[x] # prodLock[x] => prodLock[x] = None /\ prodLock'[x] = r
      BY <1>1, <1>5 DEF LockProduct, TypeOK
    <2>3. UNCHANGED <<ledger, target, cartLock, coupLock, shop, intent>>
      BY <1>5 DEF LockProduct, requests
    <2>4. pc[r] = "reserve" /\ coupLock' \in [Coupons -> Checkouts \cup {None}]
          /\ intent' \in [Keys -> IntentStatus]
      BY <1>1, <1>5, <2>3 DEF LockProduct, TypeOK
    <2>5. Advances(r, "reserve", work[r])
      BY <1>2, <2>1, <2>2, <2>3, <2>4 DEF Advances, AtWork
    <2>. QED
      BY <1>2, <2>5, AdvanceStep
  <1>6. CASE Reserve(r)
    <2>1. CASE /\ EnoughStock(work[r].lines) /\ work' = [work EXCEPT ![r].rows = "active"]
               /\ GoTo(r, "coupons") /\ UNCHANGED <<ledger, target, locks, shop>> /\ UNCHANGED intent
      <3>. DEFINE w == [work[r] EXCEPT !.rows = "active"]
      <3>1. /\ w \in Work /\ w.lines = work[r].lines /\ w.rows = "active" /\ w.order = "none" /\ w.coupons = {}
            /\ w.cart = "checking_out"
        BY <1>2 DEF Work, RowStatus
      <3>2. work' = [work EXCEPT ![r] = w]
        BY <1>1, <2>1 DEF TypeOK
      <3>3. HasStock(r)
        BY <1>6, <2>1 DEF Reserve, Needed, HasStock
      <3>4. /\ UNCHANGED <<prodLock, coupLock, cartLock, ledger, target, shop>>
            /\ prodLock' \in [Products -> Checkouts \cup {None}]
            /\ coupLock' \in [Coupons -> Checkouts \cup {None}]
            /\ intent' \in [Keys -> IntentStatus]
        BY <1>1, <2>1 DEF locks, TypeOK
      <3>5. pc' = [pc EXCEPT ![r] = "coupons"] /\ pc[r] \in AtWork \ {"commit"}
            /\ "coupons" \in AtWork \ {"commit"}
        BY <1>1, <2>1 DEF GoTo, AtWork
      <3>. HIDE DEF w
      <3>6. Advances(r, "coupons", w)
        BY <3>1, <3>2, <3>3, <3>4, <3>5 DEF Advances
      <3>. QED
        BY <3>1, <3>6, AdvanceStep
    <2>. QED
      BY <1>3, <1>6, <2>1 DEF Reserve
  <1>. QED
    BY <1>4, <1>5, <1>6

\* A transaction that is rolled back has written nothing and locks nothing.
LEMMA RollbackStep ==
  ASSUME SagaInv, NEW r \in Checkouts, Rollback(r)
  PROVE  SagaInv'
  <1>. DEFINE w == [Blank EXCEPT !.reply = "error"]
  <1>1. TypeOK /\ RequestInv(r) /\ Unfinished(r) /\ pc[r] # "done"
    BY DEF SagaInv, RequestInv, Rollback, Running
  <1>2. w \in Work /\ Whole(w) /\ w.rows = "none" /\ w.order = "none"
    BY BlankIsWork DEF Work, Whole, Blank, Replies, PaymentStatus, Uncompensated
  <1>3. work' = [work EXCEPT ![r] = w] /\ GoTo(r, "done") /\ UNCHANGED <<ledger, target, shop, intent>>
    BY DEF Rollback
  <1>. HIDE DEF w
  <1>4. pc'[r] = "done" /\ work'[r] = w
    BY <1>1, <1>3 DEF GoTo, TypeOK
  <1>5. /\ cartLock' = [k \in Carts |-> IF cartLock[k] = r THEN None ELSE cartLock[k]]
        /\ prodLock' = [p \in Products |-> IF prodLock[p] = r THEN None ELSE prodLock[p]]
        /\ coupLock' = [q \in Coupons |-> IF coupLock[q] = r THEN None ELSE coupLock[q]]
    BY <1>1 DEF Rollback, FreeLocks, Freed, TypeOK
  <1>6. TypeOK'
    <2>1. /\ "done" \in Stages
          /\ cartLock' \in [Carts -> Checkouts \cup {None}]
          /\ prodLock' \in [Products -> Checkouts \cup {None}]
          /\ coupLock' \in [Coupons -> Checkouts \cup {None}]
      BY <1>1, <1>5 DEF Stages, TypeOK
    <2>. QED
      BY <1>1, <1>2, <1>3, <2>1, StatementTyped DEF TypeOK
  <1>7. Private(r)
    BY <1>1, <1>3, <1>5, SagaAssumption DEF Private, GoTo, TypeOK
  <1>8. LocksOf(r)'
    BY <1>5, SagaAssumption DEF LocksOf
  <1>9. Answered(r)'
    BY <1>1, <1>2, <1>3, <1>4 DEF Answered, Unfinished, New, ledger, shop
  <1>10. RequestInv(r)'
    BY <1>1, <1>3, <1>4, <1>8, <1>9 DEF RequestInv, shop
  <1>11. r \notin Inserted'
    BY <1>4 DEF Inserted
  <1>. QED
    BY <1>6, <1>7, <1>10, <1>11, PrivateStep

\* Phase 4.
LEMMA OrderSteps ==
  ASSUME SagaInv, NEW r \in Checkouts, (\E q \in Coupons : TakeCoupon(r, q)) \/ InsertOrder(r)
  PROVE  SagaInv'
  <1>1. TypeOK /\ RequestInv(r) /\ pc[r] = "coupons"
    BY DEF SagaInv, TakeCoupon, InsertOrder
  <1>2. /\ Unfinished(r) /\ HasStock(r) /\ work[r] \in Work
        /\ work[r].rows = "active" /\ work[r].order = "none" /\ work[r].cart = "checking_out"
        /\ work[r].coupons \subseteq basket[target[r]].coupons
        /\ \A q \in work[r].coupons : coupLock[q] = r /\ ~UsedUp(q)
    BY <1>1 DEF RequestInv, Unfinished, AtWork, TypeOK
  <1>3. ASSUME NEW q \in Coupons, TakeCoupon(r, q) PROVE SagaInv'
    <2>1. CASE Finish(r, [Compensated(work[r], "coupon_exhausted") EXCEPT !.coupons = {}]) /\ UNCHANGED intent
      <3>. DEFINE w == [Compensated(work[r], "coupon_exhausted") EXCEPT !.coupons = {}]
      <3>1. /\ w \in Work /\ w.lines = work[r].lines /\ w.coupons = {} /\ w.order = "none" /\ w.rows = "released"
            /\ w.cart = "active" /\ w.reply = "coupon_exhausted"
        BY <1>2 DEF Compensated, Work, RowStatus, Replies
      <3>2. Whole(w)
        BY <3>1 DEF Whole, Uncompensated
      <3>. HIDE DEF w
      <3>3. Finish(r, w) /\ intent' \in [Keys -> IntentStatus]
        BY <1>1, <2>1 DEF w, TypeOK
      <3>. QED
        BY <1>1, <1>2, <3>1, <3>2, <3>3, FinishStep DEF AtWork
    <2>2. CASE /\ ~UsedUp(q)
               /\ coupLock' = [coupLock EXCEPT ![q] = r]
               /\ work' = [work EXCEPT ![r].coupons = @ \cup {q}]
               /\ UNCHANGED <<ledger, pc, target, cartLock, prodLock, shop>>
               /\ UNCHANGED intent
      <3>. DEFINE w == [work[r] EXCEPT !.coupons = @ \cup {q}]
      <3>1. /\ w \in Work /\ w.lines = work[r].lines /\ w.rows = "active" /\ w.order = "none"
            /\ w.coupons = work[r].coupons \cup {q} /\ w.cart = "checking_out"
        BY <1>2 DEF Work
      <3>2. work' = [work EXCEPT ![r] = w]
        BY <1>1, <2>2 DEF TypeOK
      <3>3. coupLock[q] = None /\ q \in basket[target[r]].coupons
        BY <1>3 DEF TakeCoupon
      <3>. HIDE DEF w
      <3>4. /\ pc' = [pc EXCEPT ![r] = "coupons"]
            /\ "coupons" \in AtWork \ {"commit"} /\ pc[r] \in AtWork \ {"commit"}
            /\ UNCHANGED <<ledger, target, cartLock, shop, prodLock>>
            /\ prodLock' \in [Products -> Checkouts \cup {None}]
            /\ coupLock' \in [Coupons -> Checkouts \cup {None}]
            /\ intent' \in [Keys -> IntentStatus]
        BY <1>1, <2>2 DEF TypeOK, AtWork
      <3>5. \A x \in Coupons : coupLock'[x] # coupLock[x] => coupLock[x] = None /\ coupLock'[x] = r
        BY <1>1, <2>2, <3>3 DEF TypeOK
      <3>6. \A x \in w.coupons : coupLock'[x] = r /\ ~UsedUp(x)
        BY <1>1, <1>2, <2>2, <3>1 DEF TypeOK, Work
      <3>7. Advances(r, "coupons", w)
        BY <1>2, <3>1, <3>2, <3>3, <3>4, <3>5, <3>6 DEF Advances
      <3>. QED
        BY <3>1, <3>7, AdvanceStep
    <2>. QED
      BY <1>3, <2>1, <2>2 DEF TakeCoupon
  <1>4. CASE InsertOrder(r)
    <2>1. CASE Rollback(r)
      BY <2>1, RollbackStep
    <2>2. CASE /\ SameKey(r) \cap Ordered = {}
               /\ work' = [work EXCEPT ![r].order = "pending"]
               /\ GoTo(r, "pay")
               /\ UNCHANGED <<ledger, target, locks, shop, intent>>
      <3>. DEFINE w == [work[r] EXCEPT !.order = "pending"]
      <3>1. /\ w \in Work /\ w.lines = work[r].lines /\ w.rows = "active" /\ w.order = "pending"
            /\ w.coupons = work[r].coupons /\ w.cart = "checking_out"
        BY <1>2 DEF Work
      <3>2. work' = [work EXCEPT ![r] = w]
        BY <1>1, <2>2 DEF TypeOK
      <3>. HIDE DEF w
      <3>3. /\ pc' = [pc EXCEPT ![r] = "pay"]
            /\ "pay" \in AtWork \ {"commit"} /\ pc[r] \in AtWork \ {"commit"}
            /\ UNCHANGED <<prodLock, coupLock, cartLock, ledger, target, shop>>
            /\ prodLock' \in [Products -> Checkouts \cup {None}]
            /\ coupLock' \in [Coupons -> Checkouts \cup {None}]
            /\ intent' \in [Keys -> IntentStatus]
        BY <1>1, <2>2 DEF TypeOK, AtWork, GoTo, locks
      <3>4. work[r].coupons = basket[target[r]].coupons
        BY <1>2, <1>4 DEF InsertOrder
      <3>5. \A s \in Ordered \cup Inserted : KeyOf[s] = KeyOf[r] => s = r
        BY <1>4, <2>2 DEF InsertOrder, SameKey, Ordered, Inserted
      <3>6. Advances(r, "pay", w)
        BY <1>2, <3>1, <3>2, <3>3, <3>4, <3>5 DEF Advances
      <3>. QED
        BY <3>1, <3>6, AdvanceStep
    <2>. QED
      BY <1>4, <2>1, <2>2 DEF InsertOrder
  <1>. QED
    BY <1>3, <1>4

\* Phases 5 to 7: whatever the gateway does, an order or its compensation is left to
\* be committed.
LEMMA PaySteps ==
  ASSUME SagaInv, NEW r \in Checkouts,
         Invoice(r) \/ Authorised(r) \/ ActionRequired(r) \/ Declined(r) \/ AuthorizeRaised(r)
         \/ Unexpected(r) \/ NotConfigured(r) \/ CaptureDone(r) \/ CaptureRaised(r)
  PROVE  SagaInv'
  <1>1. TypeOK /\ RequestInv(r) /\ pc[r] \in {"pay", "capture"}
    BY DEF SagaInv, Invoice, Authorised, ActionRequired, Declined, AuthorizeRaised, Unexpected,
       NotConfigured, CaptureDone, CaptureRaised, Asked
  <1>2. /\ Unfinished(r) /\ HasStock(r) /\ work[r] \in Work /\ KeyOf[r] \in Keys
        /\ work[r].rows = "active" /\ work[r].order = "pending"
        /\ work[r].cart = IF pc[r] = "capture" THEN "converted" ELSE "checking_out"
        /\ work[r].coupons = basket[target[r]].coupons
        /\ r \in Inserted
        /\ \A q \in work[r].coupons : coupLock[q] = r /\ ~UsedUp(q)
    BY <1>1, SagaAssumption DEF RequestInv, Unfinished, AtWork, TypeOK, Inserted
  <1>3. pc[r] \in AtWork \ {"commit"}
    BY <1>1 DEF AtWork
  <1>4. ASSUME NEW from, NEW to \in IntentStatus, Asked(r, from, to)
        PROVE  intent' \in [Keys -> IntentStatus]
    BY <1>1, <1>4 DEF Asked, TypeOK
  <1>5. ASSUME NEW w \in Work, Finish(r, w), Whole(w), intent' \in [Keys -> IntentStatus],
               w.lines = work[r].lines, w.coupons = work[r].coupons
        PROVE  SagaInv'
    BY <1>2, <1>3, <1>5, FinishStep
  <1>6. CASE Invoice(r)
    <2>. DEFINE w == [work[r] EXCEPT !.payment = "invoice_pending", !.rows = "committed",
                                     !.cart = "converted", !.reply = "ok"]
    <2>1. w \in Work /\ Whole(w) /\ w.lines = work[r].lines /\ w.coupons = work[r].coupons
      BY <1>2 DEF Work, RowStatus, Replies, Whole, PaymentStatus, Uncompensated
    <2>. HIDE DEF w
    <2>2. Finish(r, w) /\ intent' \in [Keys -> IntentStatus]
      BY <1>1, <1>6 DEF Invoice, TypeOK, w
    <2>. QED
      BY <1>5, <2>1, <2>2
  <1>7. CASE Authorised(r)
    <2>. DEFINE w == [work[r] EXCEPT !.payment = "authorized", !.cart = "converted"]
    <2>1. /\ w \in Work /\ w.lines = work[r].lines /\ w.coupons = work[r].coupons
          /\ w.rows = "active" /\ w.order = "pending" /\ w.cart = "converted"
      BY <1>2 DEF Work, PaymentStatus
    <2>2. work' = [work EXCEPT ![r] = w]
      BY <1>1, <1>7 DEF Authorised, TypeOK
    <2>3. intent' \in [Keys -> IntentStatus]
      BY <1>4, <1>7 DEF Authorised, IntentStatus
    <2>. HIDE DEF w
    <2>4. /\ pc' = [pc EXCEPT ![r] = "capture"] /\ "capture" \in AtWork \ {"commit"}
          /\ UNCHANGED <<prodLock, coupLock, cartLock, ledger, target, shop>>
          /\ prodLock' \in [Products -> Checkouts \cup {None}]
          /\ coupLock' \in [Coupons -> Checkouts \cup {None}]
      BY <1>1, <1>7 DEF Authorised, TypeOK, AtWork, GoTo, locks
    <2>5. \A s \in Ordered \cup Inserted : KeyOf[s] = KeyOf[r] => s = r
      BY <1>2 DEF SagaInv, KeysApart
    <2>6. Advances(r, "capture", w)
      BY <1>2, <1>3, <2>1, <2>2, <2>3, <2>4, <2>5 DEF Advances
    <2>. QED
      BY <2>1, <2>6, AdvanceStep
  <1>8. CASE ActionRequired(r)
    <2>. DEFINE w == [work[r] EXCEPT !.payment = "pending", !.cart = "converted", !.reply = "ok"]
    <2>1. w \in Work /\ Whole(w) /\ w.lines = work[r].lines /\ w.coupons = work[r].coupons
      BY <1>2 DEF Work, RowStatus, Replies, Whole, PaymentStatus, Uncompensated
    <2>. HIDE DEF w
    <2>2. Finish(r, w) /\ intent' \in [Keys -> IntentStatus]
      BY <1>4, <1>8 DEF ActionRequired, IntentStatus, w
    <2>. QED
      BY <1>5, <2>1, <2>2
  <1>9. ASSUME NEW p \in {"failed", "pending"}, Finish(r, Compensated([work[r] EXCEPT !.payment = p], "payment_failed")),
               intent' \in [Keys -> IntentStatus]
        PROVE  SagaInv'
    <2>. DEFINE v == [work[r] EXCEPT !.payment = p]
                w == Compensated(v, "payment_failed")
    <2>1. /\ v \in Work /\ v.lines = work[r].lines /\ v.coupons = work[r].coupons
          /\ v.rows = "active" /\ v.order = "pending"
      BY <1>2 DEF Work, PaymentStatus
    <2>2. "payment_failed" \in Replies \ ({"ok"} \cup Uncompensated)
      BY DEF Replies, Uncompensated
    <2>. HIDE DEF v
    <2>3. w \in Work /\ Whole(w) /\ w.lines = work[r].lines /\ w.coupons = work[r].coupons
      BY <2>1, <2>2, CompensatedWhole
    <2>4. Finish(r, w)
      BY <1>9 DEF v
    <2>. HIDE DEF w
    <2>. QED
      BY <1>5, <1>9, <2>3, <2>4
  <1>10. CASE Declined(r)
    <2>1. intent' \in [Keys -> IntentStatus]
      BY <1>4, <1>10 DEF Declined, IntentStatus
    <2>. QED
      BY <1>9, <1>10, <2>1 DEF Declined
  <1>11. CASE AuthorizeRaised(r)
    <2>1. intent' \in [Keys -> IntentStatus]
      BY <1>4, <1>11 DEF AuthorizeRaised
    <2>. QED
      BY <1>9, <1>11, <2>1 DEF AuthorizeRaised
  <1>12. CASE NotConfigured(r)
    <2>. DEFINE w == [work[r] EXCEPT !.reply = "gateway_not_configured"]
    <2>1. w \in Work /\ w.lines = work[r].lines /\ w.coupons = work[r].coupons
          /\ w.rows = "active" /\ w.order = "pending" /\ w.cart = "checking_out"
          /\ w.reply = "gateway_not_configured"
      BY <1>2, <1>12 DEF Work, Replies, NotConfigured
    <2>2. Whole(w)
      BY <1>2, <2>1 DEF Whole, Uncompensated
    <2>. HIDE DEF w
    <2>3. Finish(r, w) /\ intent' \in [Keys -> IntentStatus]
      BY <1>1, <1>12 DEF NotConfigured, TypeOK, w
    <2>. QED
      BY <1>5, <2>1, <2>2, <2>3
  <1>15. CASE Unexpected(r)
    <2>1. ASSUME NEW p \in {"captured", "cancelled"}, intent' \in [Keys -> IntentStatus],
                 Finish(r, [work[r] EXCEPT !.payment = p, !.cart = "converted", !.reply = "unexpected_status"])
          PROVE  SagaInv'
      <3>. DEFINE w == [work[r] EXCEPT !.payment = p, !.cart = "converted", !.reply = "unexpected_status"]
      <3>1. w \in Work /\ w.lines = work[r].lines /\ w.coupons = work[r].coupons
            /\ w.rows = "active" /\ w.order = "pending" /\ w.cart = "converted"
            /\ w.reply = "unexpected_status"
        BY <1>2 DEF Work, Replies, PaymentStatus
      <3>2. Whole(w)
        BY <3>1 DEF Whole, Uncompensated
      <3>. HIDE DEF w
      <3>3. Finish(r, w)
        BY <2>1 DEF w
      <3>. QED
        BY <1>5, <2>1, <3>1, <3>2, <3>3
    <2>2. intent' \in [Keys -> IntentStatus]
      BY <1>4, <1>15 DEF Unexpected, IntentStatus
    <2>. QED
      BY <1>15, <2>1, <2>2 DEF Unexpected
  <1>13. CASE CaptureDone(r)
    <2>. DEFINE w == [work[r] EXCEPT !.payment = "captured", !.order = "paid", !.rows = "committed",
                                     !.reply = "ok"]
    <2>1. w \in Work /\ w.lines = work[r].lines /\ w.coupons = work[r].coupons
      BY <1>2 DEF Work, RowStatus, Replies, PaymentStatus
    <2>2. Whole(w)
      BY <1>2 DEF Whole, Work, Uncompensated
    <2>. HIDE DEF w
    <2>3. Finish(r, w) /\ intent' \in [Keys -> IntentStatus]
      BY <1>1, <1>13 DEF CaptureDone, TypeOK, w, IntentStatus
    <2>. QED
      BY <1>5, <2>1, <2>2, <2>3
  <1>14. CASE CaptureRaised(r)
    <2>. DEFINE w == [work[r] EXCEPT !.reply = "ok"]
    <2>1. w \in Work /\ w.lines = work[r].lines /\ w.coupons = work[r].coupons
      BY <1>2 DEF Work, Replies
    <2>2. Whole(w)
      BY <1>2 DEF Whole, Work, Uncompensated
    <2>. HIDE DEF w
    <2>3. Finish(r, w) /\ intent' \in [Keys -> IntentStatus]
      BY <1>1, <1>2, <1>14 DEF CaptureRaised, TypeOK, w, IntentStatus
    <2>. QED
      BY <1>5, <2>1, <2>2, <2>3
  <1>. QED
    BY <1>6, <1>7, <1>8, <1>10, <1>11, <1>12, <1>13, <1>14, <1>15

\* What a request that is about to commit knows.
LEMMA CommitKnows ==
  ASSUME SagaInv, NEW r \in Checkouts, pc[r] = "commit"
  PROVE  /\ TypeOK /\ LedgerInv /\ Unfinished(r) /\ work[r] \in Work /\ Whole(work[r]) /\ New(r)
         /\ order[r] = "none" /\ r \notin Ordered
         /\ target[r] \in Carts /\ cartLock[target[r]] = r /\ cart[target[r]] = "active" /\ CartAsRead(r)
         /\ work[r].rows # "none" => HasStock(r)
         /\ work[r].order \in {"pending", "paid"} => work[r].coupons = basket[target[r]].coupons
         /\ work[r].order # "none" => r \in Inserted
         /\ \A q \in work[r].coupons : q \in Coupons /\ coupLock[q] = r /\ ~UsedUp(q)
  <1>1. TypeOK /\ LedgerInv /\ RequestInv(r)
    BY DEF SagaInv
  <1>2. Unfinished(r)
    BY <1>1 DEF RequestInv
  <1>3. work[r] \in Work
    BY <1>1 DEF TypeOK
  <1>. QED
    BY <1>1, <1>2, <1>3 DEF Unfinished, AtWork, Ordered, Inserted, Work

\* The commit in terms of the arrays it changes.
LEMMA CommitWrites ==
  ASSUME SagaInv, NEW r \in Checkouts, CommitRequest(r)
  PROVE  /\ pc' = [pc EXCEPT ![r] = "done"]
         /\ UNCHANGED <<target, work, version, basket, intent>>
         /\ order' = [order EXCEPT ![r] = work[r].order]
         /\ payment' = [payment EXCEPT ![r] = work[r].payment]
         /\ cart' = [cart EXCEPT ![target[r]] = work[r].cart]
         /\ uses' = [q \in Coupons |-> IF q \in work[r].coupons THEN uses[q] + 1 ELSE uses[q]]
         /\ cartLock' = [k \in Carts |-> IF cartLock[k] = r THEN None ELSE cartLock[k]]
         /\ prodLock' = [p \in Products |-> IF prodLock[p] = r THEN None ELSE prodLock[p]]
         /\ coupLock' = [q \in Coupons |-> IF coupLock[q] = r THEN None ELSE coupLock[q]]
  <1>1. TypeOK
    BY DEF SagaInv
  <1>. QED
    BY <1>1 DEF CommitRequest, GoTo, FreeLocks, Freed, TypeOK

\* The rows and counters it writes: its own rows, and counters of products it has
\* locked.
LEMMA CommitLedger ==
  ASSUME SagaInv, NEW r \in Checkouts, CommitRequest(r)
  PROVE  /\ LedgerInv'
         /\ \A s \in Checkouts \ {r}, p \in Products : resv'[<<s, p>>] = resv[<<s, p>>]
         /\ \A p \in Products : prodLock[p] # r => stock'[p] = stock[p] /\ reserved'[p] = reserved[p]
         /\ work[r].rows \in {"none", "released"} =>
              \A p \in Products : resv'[<<r, p>>].status \in {"none", "released"}
         /\ [LedgerNext]_ledger
  <1>1. pc[r] = "commit"
    BY DEF CommitRequest
  <1>2. /\ LedgerInv /\ New(r) /\ work[r] \in Work
        /\ work[r].rows # "none" => HasStock(r)
    BY <1>1, CommitKnows
  <1>3. CASE work[r].rows = "none"
    <2>1. UNCHANGED <<stock, reserved, resv, supplied>>
      BY <1>3 DEF CommitRequest, ledger
    <2>2. LedgerInv'
      BY <1>2, <2>1 DEF LedgerInv, LedgerTypeOK, ReservedIsHeld, StockCoversReserved, StockConserved,
         Amount, UnitsOf, RowsIn
    <2>. QED
      BY <1>2, <2>1, <2>2 DEF New, ledger
  <1>4. CASE work[r].rows # "none"
    <2>. DEFINE lines == work[r].lines
                st == work[r].rows
    <2>1. lines \in Lines /\ st \in RowStatus \ {"none"}
      BY <1>2, <1>4 DEF Work
    <2>2. Write(r, lines, st) /\ Insert(r, lines, st)
      BY <1>2, <1>4 DEF CommitRequest, Insert, HasStock
    <2>3. LedgerInv'
      BY <1>2, <2>1, <2>2, InsertPreserves
    <2>4. \A p \in Products : lines[p] \in 0..MaxQty /\ (prodLock[p] # r => lines[p] = 0)
      BY <1>2, <1>4, <2>1, InventoryAssumption DEF HasStock, Lines
    <2>. HIDE DEF lines, st
    <2>5. \A s \in Checkouts, p \in Products :
            resv'[<<s, p>>] = IF s = r /\ lines[p] > 0 THEN [status |-> st, qty |-> lines[p]] ELSE resv[<<s, p>>]
      BY <2>2 DEF Write, Rows
    <2>6. \A p \in Products : stock[p] \in Nat /\ reserved[p] \in Nat
      BY <1>2 DEF LedgerInv, LedgerTypeOK
    <2>7. ASSUME NEW p \in Products, prodLock[p] # r
          PROVE  stock'[p] = stock[p] /\ reserved'[p] = reserved[p]
      BY <2>2, <2>4, <2>6, <2>7 DEF Write
    <2>8. st \in {"none", "released"} => \A p \in Products : resv'[<<r, p>>].status \in {"none", "released"}
      <3>1. SUFFICES ASSUME st \in {"none", "released"}, NEW p \in Products
                     PROVE  resv'[<<r, p>>].status \in {"none", "released"}
        OBVIOUS
      <3>2. resv[<<r, p>>].status = "none"
        BY <1>2 DEF New
      <3>3. resv'[<<r, p>>] \in {[status |-> st, qty |-> lines[p]], resv[<<r, p>>]}
        BY <2>5
      <3>. QED
        BY <3>1, <3>2, <3>3
    <2>9. LedgerNext
      BY <1>2, <2>1, <2>2 DEF LedgerNext
    <2>. QED
      BY <2>3, <2>5, <2>7, <2>8, <2>9 DEF st
  <1>. QED
    BY <1>3, <1>4

\* What another request relies on is locked, and so no part of the commit.
LEMMA CommitOthers ==
  ASSUME SagaInv, NEW r \in Checkouts, CommitRequest(r), NEW s \in Checkouts \ {r}
  PROVE  RequestInv(s)'
  <1>1. pc[r] = "commit"
    BY DEF CommitRequest
  <1>2. RequestInv(s) /\ TypeOK
    BY DEF SagaInv
  <1>3. /\ target[r] \in Carts /\ cartLock[target[r]] = r /\ cart[target[r]] = "active"
        /\ work[r] \in Work /\ \A q \in work[r].coupons : coupLock[q] = r
    BY <1>1, CommitKnows
  <1>4. /\ pc'[s] = pc[s] /\ target'[s] = target[s] /\ work'[s] = work[s]
        /\ order'[s] = order[s] /\ basket' = basket /\ version' = version
    BY <1>2, CommitWrites DEF TypeOK
  <1>5. /\ \A k \in Carts : cartLock'[k] = s <=> cartLock[k] = s
        /\ \A p \in Products : prodLock'[p] = s <=> prodLock[p] = s
        /\ \A q \in Coupons : coupLock'[q] = s <=> coupLock[q] = s
    BY CommitWrites, SagaAssumption
  <1>6. \A k \in Carts : k # target[r] => cart'[k] = cart[k]
    BY <1>2, CommitWrites DEF TypeOK
  <1>7. cart'[target[r]] # "absent"
    BY <1>2, <1>3, CommitWrites DEF TypeOK, Work
  <1>8. LocksOf(s)'
    BY <1>2, <1>4, <1>5 DEF RequestInv, LocksOf
  <1>9. target'[s] # None => cart'[target'[s]] # "absent"
    BY <1>2, <1>4, <1>6, <1>7 DEF RequestInv, TypeOK
  <1>10. CartAsRead(s) => CartAsRead(s)'
    BY <1>4 DEF CartAsRead
  <1>11. \A p \in Products : resv'[<<s, p>>] = resv[<<s, p>>]
    BY CommitLedger
  <1>12. ASSUME pc[s] = "done" PROVE Answered(s)'
    <2>1. Answered(s)
      BY <1>2, <1>12 DEF RequestInv
    <2>. QED
      BY <1>3, <1>4, <1>6, <1>10, <1>11, <2>1 DEF Answered
  <1>13. ASSUME pc[s] # "done" PROVE Unfinished(s)'
    <2>1. Unfinished(s)
      BY <1>2, <1>13 DEF RequestInv
    <2>2. HasStock(s) => HasStock(s)'
      <3>1. SUFFICES ASSUME HasStock(s), NEW p \in Products PROVE work[s].lines[p] <= stock'[p] - reserved'[p]
        BY <1>4, <1>5 DEF HasStock, EnoughStock
      <3>2. work[s].lines[p] \in Nat /\ stock[p] \in Nat /\ reserved[p] \in Nat
        BY <1>2, InventoryAssumption DEF TypeOK, LedgerTypeOK, Work, Lines
      <3>3. CASE prodLock[p] = s
        BY <3>1, <3>3, CommitLedger DEF HasStock, EnoughStock
      <3>4. CASE prodLock[p] # s
        <4>1. work[s].lines[p] = 0
          BY <3>1, <3>2, <3>4 DEF HasStock
        <4>2. stock'[p] \in Nat /\ reserved'[p] \in Nat /\ reserved'[p] <= stock'[p]
          BY CommitLedger DEF LedgerInv, LedgerTypeOK, StockCoversReserved
        <4>. QED
          BY <4>1, <4>2
      <3>. QED
        BY <3>3, <3>4
    <2>3. \A q \in work[s].coupons : q \in Coupons /\ coupLock[q] = s /\ ~UsedUp(q) /\ q \notin work[r].coupons
      BY <1>2, <1>3, <2>1 DEF Unfinished, TypeOK, Work
    <2>4. \A q \in work[s].coupons : coupLock'[q] = s /\ ~UsedUp(q)'
      BY <1>5, <2>3, CommitWrites DEF UsedUp
    <2>5. New(s)' /\ order'[s] = "none"
      BY <1>4, <1>11, <2>1 DEF New, Unfinished
    <2>6. pc[s] \in AtWork => cartLock'[target[s]] = s /\ cart'[target[s]] = "active" /\ target[s] # target[r]
      BY <1>3, <1>5, <1>6, <2>1 DEF Unfinished
    <2>. QED
      BY <1>4, <1>10, <2>1, <2>2, <2>4, <2>5, <2>6 DEF Unfinished
  <1>. QED
    BY <1>4, <1>8, <1>9, <1>12, <1>13 DEF RequestInv

\* The commit itself.
LEMMA CommitStep ==
  ASSUME SagaInv, NEW r \in Checkouts, CommitRequest(r)
  PROVE  SagaInv'
  <1>1. pc[r] = "commit"
    BY DEF CommitRequest
  <1>. DEFINE w == work[r]
              k == target[r]
  <1>2. /\ TypeOK /\ w \in Work /\ Whole(w) /\ order[r] = "none" /\ r \notin Ordered
        /\ k \in Carts /\ cart[k] = "active" /\ CartAsRead(r)
        /\ w.order \in {"pending", "paid"} => w.coupons = basket[k].coupons
        /\ w.order # "none" => r \in Inserted
        /\ \A q \in w.coupons : q \in Coupons /\ ~UsedUp(q)
    BY <1>1, CommitKnows
  <1>3. /\ pc' = [pc EXCEPT ![r] = "done"] /\ UNCHANGED <<target, work, version, basket, intent>>
        /\ order' = [order EXCEPT ![r] = w.order]
        /\ cart' = [cart EXCEPT ![k] = w.cart]
        /\ uses' = [q \in Coupons |-> IF q \in w.coupons THEN uses[q] + 1 ELSE uses[q]]
    BY CommitWrites
  <1>4. LedgerInv'
    BY CommitLedger
  <1>5. TypeOK'
    <2>1. /\ cartLock' \in [Carts -> Checkouts \cup {None}]
          /\ prodLock' \in [Products -> Checkouts \cup {None}]
          /\ coupLock' \in [Coupons -> Checkouts \cup {None}]
      BY <1>2, CommitWrites DEF TypeOK
    <2>2. /\ order' \in [Checkouts -> {"none", "pending", "paid", "cancelled"}]
          /\ payment' \in [Checkouts -> PaymentStatus]
          /\ cart' \in [Carts -> {"absent", "active", "checking_out", "converted"}]
      <3>1. /\ w.order \in {"none", "pending", "paid", "cancelled"}
            /\ w.payment \in PaymentStatus
            /\ w.cart \in {"active", "checking_out", "converted"}
        BY <1>2 DEF Work
      <3>2. payment' = [payment EXCEPT ![r] = w.payment]
        BY CommitWrites
      <3>. HIDE DEF w, k
      <3>. QED
        BY <1>2, <1>3, <3>1, <3>2 DEF TypeOK
    <2>3. uses' \in [Coupons -> Nat]
      BY <1>2, <1>3 DEF TypeOK
    <2>4. LedgerTypeOK'
      BY <1>4 DEF LedgerInv
    <2>. QED
      BY <1>2, <1>3, <2>1, <2>2, <2>3, <2>4 DEF TypeOK
  <1>6. RequestInv(r)'
    <2>1. LocksOf(r)'
      BY CommitWrites, SagaAssumption DEF LocksOf
    <2>2. pc'[r] = "done" /\ target'[r] = k /\ work'[r] = w /\ order'[r] = w.order /\ cart'[k] = w.cart
      BY <1>2, <1>3 DEF TypeOK
    <2>3. CartAsRead(r)'
      BY <1>2, <1>3 DEF CartAsRead
    <2>4. w.order \in {"pending", "paid"} => w.cart \in {"checking_out", "converted"}
      BY <1>2 DEF Whole, Work
    <2>5. w.rows \in {"none", "released"} => \A p \in Products : resv'[<<r, p>>].status \in {"none", "released"}
      BY CommitLedger
    <2>6. w.cart # "absent" /\ basket' = basket
      BY <1>2, <1>3 DEF Work
    <2>. HIDE DEF w, k
    <2>7. Answered(r)'
      BY <1>2, <2>2, <2>3, <2>4, <2>5, <2>6 DEF Answered
    <2>. QED
      BY <2>1, <2>2, <2>6, <2>7 DEF RequestInv
  <1>7. \A s \in Checkouts : RequestInv(s)'
    BY <1>6, CommitOthers
  <1>8. \A s \in Checkouts \ {r} : order'[s] = order[s] /\ pc'[s] = pc[s]
    BY <1>2, <1>3 DEF TypeOK
  <1>9. order'[r] = w.order /\ pc'[r] = "done" /\ work' = work /\ target' = target
    BY <1>2, <1>3 DEF TypeOK
  <1>10. Ordered' = IF w.order = "none" THEN Ordered ELSE Ordered \cup {r}
    BY <1>2, <1>8, <1>9 DEF Ordered
  <1>11. Taken'
    <2>1. SUFFICES ASSUME NEW j \in Carts, cart'[j] \in {"checking_out", "converted"}
                   PROVE  \E s \in Ordered' : target[s] = j /\ order'[s] # "cancelled"
      BY <1>9 DEF Taken
    <2>2. CASE j = k
      <3>1. w.cart \in {"checking_out", "converted"}
        BY <1>2, <1>3, <2>1, <2>2 DEF TypeOK
      <3>2. w.order \in {"pending", "paid"}
        BY <1>2, <3>1 DEF Whole, Work
      <3>. QED
        BY <1>9, <1>10, <2>2, <3>2
    <2>3. CASE j # k
      <3>1. cart[j] \in {"checking_out", "converted"}
        BY <1>2, <1>3, <2>1, <2>3 DEF TypeOK
      <3>2. PICK s \in Ordered : target[s] = j /\ order[s] # "cancelled"
        BY <3>1 DEF Taken, SagaInv
      <3>3. s \in Checkouts \ {r} /\ s \in Ordered'
        BY <1>2, <1>10, <3>2 DEF Ordered
      <3>. QED
        BY <1>8, <3>2, <3>3
    <2>. QED
      BY <2>2, <2>3
  <1>12. KeysApart'
    <2>1. \A s \in Inserted' : s \in Inserted
      BY <1>8, <1>9 DEF Inserted
    <2>2. \A s \in Ordered' : s \in Ordered \cup Inserted
      BY <1>2, <1>10
    <2>. QED
      BY <2>1, <2>2 DEF KeysApart, SagaInv
  <1>13. CouponUses'
    <2>1. ASSUME NEW q \in Coupons
          PROVE  /\ uses'[q] <= MaxUses[q]
                 /\ uses'[q] = Cardinality({s \in Ordered' : q \in work'[s].coupons})
      <3>. DEFINE U == {s \in Ordered : q \in work[s].coupons}
                  V == {s \in Ordered' : q \in work'[s].coupons}
      <3>1. uses[q] <= MaxUses[q] /\ uses[q] = Cardinality(U)
        BY DEF SagaInv, CouponUses
      <3>2. IsFiniteSet(U) /\ r \notin U
        BY <1>2, InventoryAssumption, FS_Subset DEF Ordered
      <3>3. uses[q] \in Nat /\ MaxUses[q] \in Nat
        BY <1>2, SagaAssumption DEF TypeOK
      <3>4. CASE q \in w.coupons
        <4>1. w.order # "none" /\ uses[q] < MaxUses[q]
          BY <1>2, <3>3, <3>4 DEF Whole, UsedUp
        <4>2. V = U \cup {r}
          BY <1>9, <1>10, <3>4, <4>1
        <4>. HIDE DEF U, V
        <4>3. Cardinality(V) = Cardinality(U) + 1
          BY <3>2, <4>2, FS_AddElement
        <4>4. uses'[q] = uses[q] + 1
          BY <1>3, <3>4
        <4>5. uses'[q] <= MaxUses[q] /\ uses'[q] = Cardinality(V)
          BY <3>1, <3>3, <4>1, <4>3, <4>4
        <4>. QED
          BY <4>5 DEF V
      <3>5. CASE q \notin w.coupons
        <4>1. V = U
          BY <1>9, <1>10, <3>5
        <4>2. uses'[q] = uses[q]
          BY <1>3, <3>5
        <4>. QED
          BY <3>1, <4>1, <4>2
      <3>. QED
        BY <3>4, <3>5
    <2>. QED
      BY <2>1 DEF CouponUses
  <1>. QED
    BY <1>4, <1>5, <1>7, <1>11, <1>12, <1>13 DEF SagaInv

------------------------------------------------------------------------------
\* The customer's other transactions: no cart that a request has locked, or that an
\* order has converted, is touched.
LEMMA CustomerStep ==
  ASSUME SagaInv, NEW k \in Carts, NEW b \in Baskets, NewCart(k, b) \/ EditCart(k, b)
  PROVE  SagaInv'
  <1>1. TypeOK /\ \A s \in Checkouts : RequestInv(s)
    BY DEF SagaInv
  <1>2. UNCHANGED <<ledger, requests, locks, order, payment, uses, intent>>
    BY DEF NewCart, EditCart
  <1>3. UNCHANGED <<stock, reserved, resv, supplied, pc, target, work, cartLock, prodLock, coupLock,
                    order, payment, uses, intent>>
    BY <1>2 DEF ledger, requests, locks
  <1>4. /\ \A j \in Carts \ {k} : cart'[j] = cart[j] /\ version'[j] = version[j] /\ basket'[j] = basket[j]
        /\ cart'[k] = "active" /\ cart[k] \in {"absent", "active"}
    BY <1>1 DEF NewCart, EditCart, TypeOK
  <1>5. TypeOK'
    <2>1. version' \in [Carts -> 0..MaxVersion]
      BY <1>1, SagaAssumption DEF NewCart, EditCart, TypeOK
    <2>2. basket' \in [Carts -> Basket]
      BY <1>1, SagaAssumption DEF NewCart, EditCart, TypeOK
    <2>3. cart' \in [Carts -> {"absent", "active", "checking_out", "converted"}]
      BY <1>1 DEF NewCart, EditCart, TypeOK
    <2>. QED
      BY <1>1, <1>3, <2>1, <2>2, <2>3 DEF TypeOK, LedgerTypeOK
  <1>6. LedgerInv'
    BY <1>3 DEF SagaInv, LedgerInv, LedgerTypeOK, ReservedIsHeld, StockCoversReserved, StockConserved,
       Amount, UnitsOf, RowsIn
  <1>7. ASSUME NEW s \in Checkouts PROVE RequestInv(s)'
    <2>1. LocksOf(s)'
      BY <1>1, <1>3 DEF RequestInv, LocksOf
    <2>2. target'[s] # None => cart'[target'[s]] # "absent"
      BY <1>1, <1>3, <1>4 DEF RequestInv, TypeOK
    <2>3. ASSUME target[s] \in Carts \ {k}, CartAsRead(s) PROVE CartAsRead(s)'
      BY <1>3, <1>4, <2>3 DEF CartAsRead
    <2>4. ASSUME pc[s] = "done" PROVE Answered(s)'
      <3>1. Answered(s)
        BY <1>1, <2>4 DEF RequestInv
      <3>. QED
        BY <1>3, <1>4, <2>3, <3>1 DEF Answered
    <2>5. ASSUME pc[s] # "done" PROVE Unfinished(s)'
      <3>1. Unfinished(s)
        BY <1>1, <2>5 DEF RequestInv
      <3>2. pc[s] \in AtWork => target[s] \in Carts \ {k} /\ CartAsRead(s)
        <4>1. SUFFICES ASSUME pc[s] \in AtWork PROVE target[s] \in Carts \ {k} /\ CartAsRead(s)
          OBVIOUS
        <4>2. /\ target[s] \in Carts /\ cartLock[target[s]] = s /\ cart[target[s]] = "active"
              /\ CartAsRead(s)
          BY <3>1, <4>1 DEF Unfinished
        <4>3. target[s] # k
          BY <4>2, SagaAssumption DEF NewCart, EditCart
        <4>. QED
          BY <4>2, <4>3
      <3>3. \A l \in {"coupons", "pay", "capture", "commit"} : l \in AtWork
        BY DEF AtWork
      <3>4. New(s)' /\ (HasStock(s) => HasStock(s)') /\ \A q \in Coupons : ~UsedUp(q) => ~UsedUp(q)'
        BY <1>3, <3>1 DEF Unfinished, New, HasStock, EnoughStock, UsedUp
      <3>5. work[s].coupons \subseteq Coupons
        BY <1>1 DEF TypeOK, Work
      <3>. QED
        BY <1>3, <1>4, <2>3, <3>1, <3>2, <3>3, <3>4, <3>5 DEF Unfinished
    <2>. QED
      BY <1>3, <2>1, <2>2, <2>4, <2>5 DEF RequestInv
  <1>8. Taken'
    BY <1>3, <1>4 DEF SagaInv, Taken, Ordered
  <1>9. KeysApart' /\ CouponUses'
    BY <1>3 DEF SagaInv, KeysApart, CouponUses, Ordered, Inserted
  <1>. QED
    BY <1>5, <1>6, <1>7, <1>8, <1>9 DEF SagaInv

\* A ledger transaction of somebody else that waits for the product rows.
LEMMA LedgerElsewhere ==
  ASSUME SagaInv, LedgerInv', UNCHANGED <<requests, locks, shop, intent>>,
         \A s \in Checkouts, p \in Products :
           /\ prodLock[p] = s => stock'[p] = stock[p] /\ reserved'[p] = reserved[p]
           /\ resv[<<s, p>>].status = "none" => resv'[<<s, p>>].status = "none"
           /\ resv[<<s, p>>].status = "released" => resv'[<<s, p>>].status = "released"
  PROVE  SagaInv'
  <1>1. TypeOK /\ \A s \in Checkouts : RequestInv(s)
    BY DEF SagaInv
  <1>2. UNCHANGED <<pc, target, work, cartLock, prodLock, coupLock, order, payment, cart, version,
                    basket, uses, intent>>
    BY DEF requests, locks, shop
  <1>3. TypeOK'
    BY <1>1, <1>2 DEF TypeOK, LedgerInv
  <1>4. ASSUME NEW s \in Checkouts PROVE RequestInv(s)'
    <2>1. LocksOf(s)'
      BY <1>1, <1>2 DEF RequestInv, LocksOf
    <2>2. ASSUME pc[s] = "done" PROVE Answered(s)'
      <3>1. Answered(s)
        BY <1>1, <2>2 DEF RequestInv
      <3>. QED
        BY <1>2, <3>1 DEF Answered, CartAsRead
    <2>3. ASSUME pc[s] # "done" PROVE Unfinished(s)'
      <3>1. Unfinished(s)
        BY <1>1, <2>3 DEF RequestInv
      <3>2. HasStock(s) => HasStock(s)'
        <4>1. SUFFICES ASSUME HasStock(s), NEW p \in Products PROVE work[s].lines[p] <= stock'[p] - reserved'[p]
          BY <1>2 DEF HasStock, EnoughStock
        <4>2. work[s].lines[p] \in Nat
          BY <1>1, InventoryAssumption DEF TypeOK, Work, Lines
        <4>3. CASE prodLock[p] = s
          BY <4>1, <4>3 DEF HasStock, EnoughStock
        <4>4. CASE prodLock[p] # s
          <5>1. work[s].lines[p] = 0
            BY <4>1, <4>2, <4>4 DEF HasStock
          <5>2. stock'[p] \in Nat /\ reserved'[p] \in Nat /\ reserved'[p] <= stock'[p]
            BY DEF LedgerInv, LedgerTypeOK, StockCoversReserved
          <5>. QED
            BY <5>1, <5>2
        <4>. QED
          BY <4>3, <4>4
      <3>3. New(s)'
        BY <3>1 DEF Unfinished, New
      <3>. QED
        BY <1>2, <3>1, <3>2, <3>3 DEF Unfinished, CartAsRead, UsedUp
    <2>. QED
      BY <1>1, <1>2, <2>1, <2>2, <2>3 DEF RequestInv
  <1>5. Taken' /\ KeysApart' /\ CouponUses'
    BY <1>2 DEF SagaInv, Taken, KeysApart, CouponUses, Ordered, Inserted
  <1>. QED
    BY <1>3, <1>4, <1>5 DEF SagaInv

\* The admin's PATCH, and the end of an earlier checkout's hold.
LEMMA OtherStockSteps ==
  ASSUME SagaInv, \/ \E p \in Products, n \in 0..MaxStock : SetStock(p, n)
                  \/ \E c \in Checkouts : Settle(c)
  PROVE  SagaInv' /\ LedgerNext
  <1>1. LedgerInv /\ stock \in [Products -> Nat] /\ reserved \in [Products -> Nat] /\ resv \in [Rows -> Row]
    BY DEF SagaInv, LedgerInv, LedgerTypeOK
  <1>2. ASSUME NEW p \in Products, NEW n \in 0..MaxStock, SetStock(p, n) PROVE SagaInv' /\ LedgerNext
    <2>1. PatchStock(p, n) /\ prodLock[p] = None /\ UNCHANGED <<requests, locks, shop, intent>>
      BY <1>2 DEF SetStock
    <2>2. LedgerInv' /\ LedgerNext
      BY <1>1, <2>1, PatchPreserves DEF LedgerNext
    <2>3. \A s \in Checkouts, x \in Products : prodLock[x] = s => stock'[x] = stock[x] /\ reserved'[x] = reserved[x]
      BY <1>1, <2>1, SagaAssumption DEF PatchStock
    <2>4. resv' = resv
      BY <2>1 DEF PatchStock
    <2>. QED
      BY <2>1, <2>2, <2>3, <2>4, LedgerElsewhere
  <1>3. ASSUME NEW c \in Checkouts, Settle(c) PROVE SagaInv' /\ LedgerNext
    <2>. DEFINE S == {x \in RowsIn("active") : x[1] = c}
    <2>1. /\ \A x \in S : prodLock[x[2]] = None
          /\ Release(S) \/ Commit(S)
          /\ UNCHANGED <<requests, locks, shop, intent>>
      BY <1>3 DEF Settle
    <2>2. S \in SUBSET RowsIn("active")
      OBVIOUS
    <2>3. \A x \in S : resv[x].status = "active"
      BY DEF RowsIn
    <2>. HIDE DEF S
    <2>4. LedgerInv' /\ LedgerNext
      BY <1>1, <2>1, <2>2, ReleasePreserves, CommitPreserves DEF LedgerNext
    <2>5. ASSUME NEW s \in Checkouts, NEW p \in Products, prodLock[p] = s
          PROVE  stock'[p] = stock[p] /\ reserved'[p] = reserved[p]
      <3>1. \A x \in S : x[2] # p
        BY <2>1, <2>5, SagaAssumption
      <3>2. UnitsOf(S, p) = {}
        BY <3>1 DEF UnitsOf
      <3>3. Amount(S, p) = 0
        BY <3>2, FS_EmptySet DEF Amount
      <3>. QED
        BY <1>1, <2>1, <3>3 DEF Release, Commit
    <2>6. ASSUME NEW s \in Checkouts, NEW p \in Products, resv[<<s, p>>].status \in {"none", "released"}
          PROVE  resv'[<<s, p>>] = resv[<<s, p>>]
      <3>1. <<s, p>> \in Rows /\ <<s, p>> \notin S
        BY <2>3, <2>6 DEF Rows
      <3>. QED
        BY <2>1, <3>1 DEF Release, Commit, SetStatus
    <2>. QED
      BY <2>1, <2>4, <2>5, <2>6, LedgerElsewhere
  <1>. QED
    BY <1>2, <1>3

\* No statement of any request, and no other transaction, breaks it.
LEMMA SagaStep == SagaInv /\ [SagaNext]_vars => SagaInv'
  <1>. SUFFICES ASSUME SagaInv, [SagaNext]_vars PROVE SagaInv'
    OBVIOUS
  <1>1. ASSUME NEW r \in Checkouts, Lookup(r) \/ Step(r) \/ Rollback(r) PROVE SagaInv'
    BY <1>1, CartSteps, StockSteps, OrderSteps, PaySteps, CommitStep, RollbackStep DEF Step
  <1>2. ASSUME NEW c \in Checkouts, Settle(c) PROVE SagaInv'
    BY <1>2, OtherStockSteps
  <1>3. ASSUME NEW k \in Carts, NEW b \in Baskets, NewCart(k, b) \/ EditCart(k, b) PROVE SagaInv'
    BY <1>3, CustomerStep
  <1>4. ASSUME NEW p \in Products, NEW n \in 0..MaxStock, SetStock(p, n) PROVE SagaInv'
    BY <1>4, OtherStockSteps
  <1>5. CASE UNCHANGED vars
    <2>1. UNCHANGED <<requests, locks, shop, intent>> /\ UNCHANGED <<stock, reserved, resv, supplied>>
      BY <1>5 DEF vars, ledger
    <2>2. LedgerInv'
      BY <2>1 DEF SagaInv, LedgerInv, LedgerTypeOK, ReservedIsHeld, StockCoversReserved, StockConserved,
         Amount, UnitsOf, RowsIn
    <2>. QED
      BY <2>1, <2>2, LedgerElsewhere
  <1>. QED
    BY <1>1, <1>2, <1>3, <1>4, <1>5 DEF SagaNext

\* So it holds in every reachable state.
LEMMA SagaInvariant == SagaSpec => []SagaInv
  BY SagaInitOK, SagaStep, PTL DEF SagaSpec

------------------------------------------------------------------------------
\* Type correctness of checkout, statement by statement, for every finite set of
\* requests and all carts, coupons, products and keys.
THEOREM SagaTyped == SagaSpec => []TypeOK
  <1>1. SagaInv => TypeOK
    BY DEF SagaInv
  <1>. QED
    BY <1>1, SagaInvariant, PTL

\* Requests that carry one idempotency key make one order, however they overlap: the
\* lookup, the UNIQUE constraint's wait and the rollback of the loser suffice.
THEOREM OneOrder == SagaSpec => []OneOrderPerKey
  <1>1. SagaInv => OneOrderPerKey
    BY DEF SagaInv, KeysApart, OneOrderPerKey
  <1>. QED
    BY <1>1, SagaInvariant, PTL

\* uses_count stays within max_uses and is the number of orders with the coupon: the
\* test under the coupon's row lock holds until the commit.
THEOREM CouponsCounted == SagaSpec => []CouponUses
  <1>1. SagaInv => CouponUses
    BY DEF SagaInv
  <1>. QED
    BY <1>1, SagaInvariant, PTL

\* A refused or rolled back request leaves no hold, no lock and no live order, and its
\* cart is active unless another order has it; the two refusals nothing compensates leave
\* an order that is pending in full, its cart with it.
THEOREM FailureIsEmpty == SagaSpec => []FailureHoldsNothing
  <1>1. SagaInv => FailureHoldsNothing
    <2>. SUFFICES ASSUME SagaInv, NEW r \in Checkouts, pc[r] = "done", work[r].reply # "ok"
                  PROVE  /\ \A p \in Products : prodLock[p] # r
                         /\ work[r].reply \in Uncompensated => LeftPending(r)
                         /\ work[r].reply \notin Uncompensated => HoldsNothing(r)
      BY DEF FailureHoldsNothing
    <2>1. TypeOK /\ RequestInv(r) /\ Taken
      BY DEF SagaInv
    <2>2. Answered(r) /\ LocksOf(r) /\ (target[r] # None => cart[target[r]] # "absent")
      BY <2>1 DEF RequestInv
    <2>3. \A p \in Products : prodLock[p] # r
      BY <2>2 DEF LocksOf, AtWork
    <2>4. ASSUME work[r].reply \in Uncompensated PROVE LeftPending(r)
      BY <2>2, <2>4 DEF Answered, Whole, LeftPending
    <2>5. ASSUME work[r].reply \notin Uncompensated PROVE HoldsNothing(r)
      <3>1. work[r].rows \in {"none", "released"} /\ order[r] \in {"none", "cancelled"}
        BY <2>2, <2>5 DEF Answered, Whole
      <3>2. \A p \in Products : resv[<<r, p>>].status \in {"none", "released"}
        BY <2>2, <3>1 DEF Answered
      <3>3. target[r] # None /\ cart[target[r]] # "active" =>
              target[r] \in Carts /\ cart[target[r]] \in {"checking_out", "converted"}
        BY <2>1, <2>2 DEF TypeOK
      <3>. QED
        BY <2>1, <3>1, <3>2, <3>3 DEF Taken, HoldsNothing
    <2>. QED
      BY <2>3, <2>4, <2>5
  <1>. QED
    BY <1>1, SagaInvariant, PTL

\* The cart that an order converted keeps the lines and coupons the order was made of,
\* at the version the client asked for: nothing reaches a cart a request has locked.
THEOREM SoldAsConverted == SagaSpec => []ConvertedAsOrdered
  <1>1. SagaInv => ConvertedAsOrdered
    <2>. SUFFICES ASSUME SagaInv, NEW r \in Ordered, order[r] # "cancelled"
                  PROVE  /\ basket[target[r]].lines = work[r].lines
                         /\ basket[target[r]].coupons = work[r].coupons
                         /\ IfMatch[r] \in {None, version[target[r]]}
      BY DEF ConvertedAsOrdered
    <2>1. TypeOK /\ RequestInv(r) /\ r \in Checkouts /\ order[r] # "none"
      BY DEF SagaInv, Ordered
    <2>2. Answered(r) /\ order[r] \in {"pending", "paid"}
      BY <2>1 DEF RequestInv, Unfinished, TypeOK
    <2>. QED
      BY <2>2 DEF Answered, CartAsRead
  <1>. QED
    BY <1>1, SagaInvariant, PTL

\* Checkout, seen from the ledger, is one transaction per request that inserts rows
\* the stock covers: the saga with its locks implements the abstract ledger.
THEOREM SagaImplementsLedger == SagaSpec => LedgerSpec
  <1>1. SagaInit => LedgerInit
    BY DEF SagaInit
  <1>2. SagaInv /\ [SagaNext]_vars => [LedgerNext]_ledger
    <2>. SUFFICES ASSUME SagaInv, [SagaNext]_vars PROVE [LedgerNext]_ledger
      OBVIOUS
    <2>1. ASSUME NEW r \in Checkouts, Lookup(r) \/ FindCart(r) \/ LockCart(r) \/ Rollback(r) PROVE UNCHANGED ledger
      BY <2>1 DEF Lookup, FindCart, LockCart, Rollback, Answer
    <2>2. ASSUME NEW r \in Checkouts,
                 \/ Validate(r) \/ (\E p \in Products : LockProduct(r, p)) \/ Reserve(r)
                 \/ (\E q \in Coupons : TakeCoupon(r, q)) \/ InsertOrder(r)
          PROVE  UNCHANGED ledger
      BY <2>2 DEF Validate, LockProduct, Reserve, TakeCoupon, InsertOrder, Rollback, Finish
    <2>3. ASSUME NEW r \in Checkouts,
                 \/ Invoice(r) \/ Authorised(r) \/ ActionRequired(r) \/ Declined(r) \/ AuthorizeRaised(r)
                 \/ Unexpected(r) \/ NotConfigured(r) \/ CaptureDone(r) \/ CaptureRaised(r)
          PROVE  UNCHANGED ledger
      BY <2>3 DEF Invoice, Authorised, ActionRequired, Declined, AuthorizeRaised, Unexpected,
         NotConfigured, CaptureDone, CaptureRaised, Finish
    <2>4. ASSUME NEW r \in Checkouts, CommitRequest(r) PROVE [LedgerNext]_ledger
      BY <2>4, CommitLedger
    <2>5. ASSUME NEW k \in Carts, NEW b \in Baskets, NewCart(k, b) \/ EditCart(k, b) PROVE UNCHANGED ledger
      BY <2>5 DEF NewCart, EditCart
    <2>6. ASSUME \/ \E p \in Products, n \in 0..MaxStock : SetStock(p, n)
                 \/ \E c \in Checkouts : Settle(c)
          PROVE  LedgerNext
      BY <2>6, OtherStockSteps
    <2>7. CASE UNCHANGED vars
      BY <2>7 DEF vars
    <2>. QED
      BY <2>1, <2>2, <2>3, <2>4, <2>5, <2>6, <2>7 DEF SagaNext, Step
  <1>. QED
    BY <1>1, <1>2, SagaInvariant, PTL DEF SagaSpec, LedgerSpec

==============================================================================
