-------------------------- MODULE Customer_proofs ---------------------------
(***************************************************************************)
(* Proofs about what a customer keeps at a tenant: the cart (CartService)  *)
(* and the payment methods, with the tenant's gateways (Wallet); for every *)
(* set of customers, workers, rows and products.                           *)
(*                                                                         *)
(* The cart's inductive invariant is CartInv.  Requests says what the row  *)
(* lock and the unique index give: a request that is between its read and  *)
(* its write still has the cart it took, and has it alone.  Without it     *)
(* nothing says that add_item, which acts on what it has read, finds the   *)
(* cart as it left it.                                                     *)
(*                                                                         *)
(* The wallet's is WalletInv.  Shape is what a view has read by each of    *)
(* its statements; FreshInv, that a row is unknown to everybody before the *)
(* commit that brings it; LockInv, that a lock is held by whoever has      *)
(* cleared a default or selected its method FOR UPDATE, that what such a   *)
(* transaction has found stays true until it commits, and that there is    *)
(* one default per scope.  On it rest Acyclic (a transaction waits only    *)
(* for those that wait for nobody, or for one that locked its row later)   *)
(* and, for the payment calls, NamesApart and Still (a configuration that  *)
(* was not moved keeps its gateway_name to itself, and is there as long    *)
(* as anything names it), NameInv (all that is said of it agrees), Chosen  *)
(* (resolving its name again finds it) and CallInv (the SDK points where   *)
(* the only thread of the call's process has pointed it).                  *)
(***************************************************************************)
EXTENDS CartService, Wallet, FiniteSetTheorems, TLAPS

-----------------------------------------------------------------------------
(* The cart. *)

\* The cart of a request in progress is its customer's; when it is yet to be created the
\* customer has no active one.
Took(s) == op[s] # NoOp =>
  /\ Owner[op[s].cart] = User[s]
  /\ \/ status[op[s].cart] = "active"
     \/ /\ status[op[s].cart] = "absent" /\ op[s].kind = "add"
        /\ \A j \in Carts : Owner[j] = User[s] => status[j] # "active"

\* Two requests in progress have different carts; while one creates a cart, no other of
\* the same customer is in progress.
Apart(s, t) == op[s] # NoOp /\ op[t] # NoOp /\ s # t =>
  /\ op[s].cart # op[t].cart
  /\ status[op[s].cart] = "absent" => User[s] # User[t]

Requests == \A s, t \in Sessions : Took(s) /\ Apart(s, t)

\* CurrencyLock, of carts that are yet to be created as well.
Locked(k) == status[k] \in {"absent", "active"} =>
  /\ currency[k] = None <=> Empty(lines[k])
  /\ \A p \in Products : lines[k][p].qty > 0 => lines[k][p].cur = currency[k]

\* VersionTells, with what makes it inductive: a version only grows.
Told(u) == seen[u] # None =>
  LET k == seen[u].cart IN
  /\ status[k] # "absent"
  /\ seen[u].version <= version[k]
  /\ status[k] = "active" /\ version[k] = seen[u].version => ViewOf(k) = seen[u]

OneCurrency(k) == sold[k] # None =>
  /\ sold[k].fixed \subseteq {sold[k].currency}
  /\ \A p \in Products : sold[k].lines[p].qty > 0 => sold[k].lines[p].cur = sold[k].currency

CartInv ==
  /\ TypeOK
  /\ Requests
  /\ OneActiveCart
  /\ \A k \in Carts : Locked(k) /\ OneCurrency(k)
  /\ \A u \in Customers : Told(u)

\* One step of one actor, by name.
Items(s, k) == \E p \in Products : RemoveItem(s, k, p) \/ \E n \in 1..MaxQty : UpdateItem(s, k, p, n)
Others(s, k) ==
  \/ \E q \in Coupons : RemoveCoupon(s, k, q)
  \/ \E x \in Slots : SetSlot(s, k, x)
  \/ See(s, k)
Patches ==
  \/ \E p \in Products, c \in Currencies : PatchProduct(p, c)
  \/ \E q \in Coupons, c \in Currencies \cup {None} : PatchCoupon(q, c)

------------------------------------------------------------------------------
(* Requests and active carts: status and op *)

\* A request that ends leaves the others as they were.
LEMMA EndKeeps ==
  ASSUME TypeOK, Requests, NEW s \in Sessions, op' = [op EXCEPT ![s] = NoOp], UNCHANGED status
  PROVE  Requests'
  <1>1. \A t \in Sessions : op'[t] = IF t = s THEN NoOp ELSE op[t]
    BY DEF TypeOK
  <1>. QED
    BY <1>1 DEF Requests, Took, Apart

\* A request that has taken a cart has it alone.
LEMMA BeginKeeps ==
  ASSUME TypeOK, Requests, NEW s \in Sessions, NEW k \in Carts, NEW o \in Op,
         op[s] = NoOp, o # NoOp, o.cart = k,
         \/ Mine(s, k)
         \/ TakenCart(s, k) /\ o.kind = "add",
         op' = [op EXCEPT ![s] = o], UNCHANGED status
  PROVE  Requests'
  <1>1. \A t \in Sessions : op'[t] = IF t = s THEN o ELSE op[t]
    BY DEF TypeOK
  <1>2. ASSUME NEW t \in Sessions PROVE Took(t)'
    BY <1>1, <1>2 DEF Requests, Took, Mine, TakenCart
  <1>3. ASSUME NEW t \in Sessions, op[t] # NoOp PROVE op[t].cart \in Carts
    BY <1>3 DEF TypeOK, Op
  <1>4. ASSUME NEW t \in Sessions, op[t] # NoOp PROVE op[t].cart # k
    BY <1>4 DEF Mine, TakenCart, Held
  <1>5. ASSUME NEW t \in Sessions, op[t] # NoOp, User[t] = User[s]
        PROVE  status[k] = "active" /\ status[op[t].cart] = "active"
    BY <1>3, <1>5 DEF Requests, Took, Mine, TakenCart, Held
  <1>6. ASSUME NEW t \in Sessions, NEW v \in Sessions PROVE Apart(t, v)'
    BY <1>1, <1>4, <1>5, <1>6 DEF Requests, Apart
  <1>. QED
    BY <1>2, <1>6 DEF Requests

\* A cart nobody has in a request may become anything but active or absent.
LEMMA LeaveKeeps ==
  ASSUME TypeOK, Requests, NEW k \in Carts, ~Held(k), NEW st \in {"abandoned", "converted"},
         status[k] = "active", status' = [status EXCEPT ![k] = st], UNCHANGED op
  PROVE  Requests'
  <1>1. \A j \in Carts : status'[j] = IF j = k THEN st ELSE status[j]
    BY DEF TypeOK
  <1>2. ASSUME NEW t \in Sessions, op[t] # NoOp PROVE op[t].cart \in Carts /\ op[t].cart # k
    BY <1>2 DEF TypeOK, Op, Held
  <1>. QED
    BY <1>1, <1>2 DEF Requests, Took, Apart

\* What add_item's last statements do to the requests and the active carts.
LEMMA AddEndKeeps ==
  ASSUME CartInv, NEW s \in Sessions, NEW n \in 1..MaxQty, AddEnd(s, n)
  PROVE  Requests' /\ OneActiveCart'
  <1>. DEFINE k == op[s].cart
  <1>1. op[s] # NoOp /\ op[s] \in Op /\ k \in Carts
    BY DEF CartInv, TypeOK, AddEnd, NoOp, Op
  <1>2. \A t \in Sessions : op'[t] = IF t = s THEN NoOp ELSE op[t]
    BY DEF CartInv, TypeOK, AddEnd
  <1>3. \A j \in Carts : status'[j] = IF j = k THEN "active" ELSE status[j]
    BY DEF CartInv, TypeOK, AddEnd
  <1>4. Took(s) /\ \A t \in Sessions : Took(t) /\ Apart(s, t) /\ Apart(t, s)
    BY DEF CartInv, Requests
  <1>5. \A j \in Carts : status[j] = "active" /\ Owner[j] = Owner[k] => j = k
    BY <1>1, <1>4 DEF Took, CartInv, OneActiveCart
  <1>6. OneActiveCart'
    BY <1>3, <1>5 DEF CartInv, OneActiveCart
  <1>7. ASSUME NEW t \in Sessions, t # s, op[t] # NoOp
        PROVE  /\ op[t].cart \in Carts /\ op[t].cart # k
               /\ Owner[op[t].cart] = User[t]
               /\ status[op[t].cart] = "absent" => User[t] # User[s]
    BY <1>1, <1>4, <1>7 DEF Took, Apart, CartInv, TypeOK, Op
  <1>8. ASSUME NEW t \in Sessions PROVE Took(t)'
    BY <1>1, <1>2, <1>3, <1>4, <1>7 DEF Took
  <1>9. ASSUME NEW t \in Sessions, NEW v \in Sessions PROVE Apart(t, v)'
    <2>1. Apart(t, v)
      BY DEF CartInv, Requests
    <2>. QED
      BY <1>2, <1>3, <1>7, <2>1 DEF Apart
  <1>. QED
    BY <1>6, <1>8, <1>9 DEF Requests

\* No step gives a cart to two requests or makes a second active cart.
LEMMA RequestsKept ==
  ASSUME CartInv, CartNext
  PROVE  Requests' /\ OneActiveCart'
  <1>1. CASE UNCHANGED <<status, op>>
    BY <1>1 DEF CartInv, Requests, Took, Apart, OneActiveCart
  <1>2. ASSUME NEW s \in Sessions, NEW k \in Carts, NEW p \in Products, AddBegin(s, k, p)
        PROVE  Requests' /\ OneActiveCart'
    <2>. DEFINE o == [kind |-> "add", cart |-> k, product |-> p, cur |-> listed[p]]
    <2>1. o \in Op /\ o # NoOp
      BY DEF CartInv, TypeOK, Op, NoOp
    <2>. QED
      BY <1>2, <2>1, BeginKeeps DEF CartInv, AddBegin, rows, OneActiveCart
  <1>3. ASSUME NEW s \in Sessions, NEW k \in Carts, NEW q \in Coupons, ApplyBegin(s, k, q)
        PROVE  Requests' /\ OneActiveCart'
    <2>. DEFINE o == [kind |-> "apply", cart |-> k, coupon |-> q]
    <2>1. o \in Op /\ o # NoOp
      BY DEF Op, NoOp
    <2>. QED
      BY <1>3, <2>1, BeginKeeps DEF CartInv, ApplyBegin, rows, OneActiveCart
  <1>4. ASSUME NEW s \in Sessions, ApplyEnd(s) \/ Refuse(s)
        PROVE  Requests' /\ OneActiveCart'
    BY <1>4, EndKeeps DEF CartInv, ApplyEnd, Refuse, rows, OneActiveCart
  <1>5. ASSUME NEW s \in Sessions, NEW k \in Carts,
               \/ ClearCart(s, k)
               \/ \E asked \in {seen[User[s]], None} : Checkout(s, k, asked)
        PROVE  Requests' /\ OneActiveCart'
    <2>1. PICK st \in {"abandoned", "converted"} :
            status[k] = "active" /\ ~Held(k) /\ status' = [status EXCEPT ![k] = st] /\ op' = op
      BY <1>5 DEF ClearCart, Checkout, Mine, clients
    <2>2. OneActiveCart'
      BY <2>1 DEF CartInv, TypeOK, OneActiveCart
    <2>. QED
      BY <2>1, <2>2, LeaveKeeps DEF CartInv
  <1>6. ASSUME NEW k \in Carts, Abandon(k)
        PROVE  Requests' /\ OneActiveCart'
    <2>1. status[k] = "active" /\ ~Held(k) /\ status' = [status EXCEPT ![k] = "abandoned"] /\ op' = op
      BY <1>6 DEF Abandon, clients
    <2>2. OneActiveCart'
      BY <2>1 DEF CartInv, TypeOK, OneActiveCart
    <2>. QED
      BY <2>1, <2>2, LeaveKeeps DEF CartInv
  <1>7. ASSUME NEW s \in Sessions, NEW k \in Carts, Items(s, k) \/ Others(s, k)
        PROVE  UNCHANGED <<status, op>>
    BY <1>7 DEF Items, Others, RemoveItem, UpdateItem, RemoveCoupon, SetSlot, See,
                rows, clients
  <1>8. Patches => UNCHANGED <<status, op>>
    BY DEF Patches, PatchProduct, PatchCoupon, rows, clients
  <1>9. ASSUME NEW k \in Carts, NEW x \in Slots, DeleteSlotRow(k, x)
        PROVE  UNCHANGED <<status, op>>
    BY <1>9 DEF DeleteSlotRow, clients
  <1>. QED
    BY <1>1, <1>2, <1>3, <1>4, <1>5, <1>6, <1>7, <1>8, <1>9, AddEndKeeps
    DEF CartNext, Expected, Items, Others, Patches

------------------------------------------------------------------------------
(* Types *)

\* The version stays within its bound.
LEMMA BumpedTyped ==
  ASSUME CartAssumption, TypeOK, NEW k \in Carts, Bumped(k)
  PROVE  /\ version' \in [Carts -> 0..MaxVersion]
         /\ \A j \in Carts : version'[j] = IF j = k THEN version[k] + 1 ELSE version[j]
  BY DEF CartAssumption, TypeOK, Bumped

\* Every step keeps the types.
LEMMA TypeKept ==
  ASSUME CartAssumption, CartInv, CartNext
  PROVE  TypeOK'
  <1>. USE DEF CartInv, TypeOK, rows, catalog, clients
  <1>1. ASSUME NEW s \in Sessions, NEW k \in Carts, NEW p \in Products, AddBegin(s, k, p)
        PROVE  TypeOK'
    BY <1>1 DEF AddBegin, Op
  <1>2. ASSUME NEW s \in Sessions, NEW n \in 1..MaxQty, AddEnd(s, n)
        PROVE  TypeOK'
    <2>. DEFINE k == op[s].cart
                p == op[s].product
    <2>1. k \in Carts /\ p \in Products /\ op[s].cur \in Currencies
      BY <1>2 DEF AddEnd, Op, NoOp
    <2>2. lines' \in [Carts -> Lines]
      <3>1. lines[k] \in Lines /\ lines[k][p] \in Line
        BY <2>1 DEF Lines
      <3>2. [qty |-> lines[k][p].qty + n,
             cur |-> IF lines[k][p].qty = 0 THEN op[s].cur ELSE lines[k][p].cur] \in Line
        BY <1>2, <2>1, <3>1, SMTT(30) DEF AddEnd, Line, CartAssumption
      <3>. QED
        BY <1>2, <2>1, <3>1, <3>2 DEF AddEnd, Lines
    <2>3. op' \in [Sessions -> Op]
      BY <1>2 DEF AddEnd, Op
    <2>. QED
      BY <1>2, <2>1, <2>2, <2>3, BumpedTyped DEF AddEnd
  <1>3. ASSUME NEW s \in Sessions, NEW k \in Carts, NEW q \in Coupons, ApplyBegin(s, k, q)
        PROVE  TypeOK'
    BY <1>3 DEF ApplyBegin, Op
  <1>4. ASSUME NEW s \in Sessions, ApplyEnd(s)
        PROVE  TypeOK'
    <2>1. op[s].cart \in Carts /\ op[s].coupon \in Coupons
      BY <1>4 DEF ApplyEnd, Op, NoOp
    <2>2. op' \in [Sessions -> Op]
      BY <1>4 DEF ApplyEnd, Op
    <2>. QED
      BY <1>4, <2>1, <2>2, BumpedTyped DEF ApplyEnd
  <1>5. ASSUME NEW s \in Sessions, Refuse(s)
        PROVE  TypeOK'
    BY <1>5 DEF Refuse, Op
  <1>6. ASSUME NEW s \in Sessions, NEW k \in Carts, NEW p \in Products, RemoveItem(s, k, p)
        PROVE  TypeOK'
    <2>1. NoLine \in Line
      BY DEF NoLine, Line, CartAssumption
    <2>2. lines' \in [Carts -> Lines]
      BY <1>6, <2>1 DEF RemoveItem, Lines
    <2>. QED
      BY <1>6, <2>2, BumpedTyped DEF RemoveItem
  <1>7. ASSUME NEW s \in Sessions, NEW k \in Carts, NEW p \in Products, NEW n \in 1..MaxQty,
               UpdateItem(s, k, p, n)
        PROVE  TypeOK'
    <2>1. lines[k] \in Lines /\ lines[k][p] \in Line
      BY DEF Lines
    <2>2. [lines[k][p] EXCEPT !.qty = n] \in Line
      BY <2>1 DEF Line, CartAssumption
    <2>3. lines' \in [Carts -> Lines]
      BY <1>7, <2>1, <2>2 DEF UpdateItem, Lines
    <2>. QED
      BY <1>7, <2>3, BumpedTyped DEF UpdateItem
  <1>8. ASSUME NEW s \in Sessions, NEW k \in Carts, ClearCart(s, k)
        PROVE  TypeOK'
    <2>1. [p \in Products |-> NoLine] \in Lines
      BY DEF NoLine, Line, Lines, CartAssumption
    <2>. QED
      BY <1>8, <2>1 DEF ClearCart
  <1>9. ASSUME NEW s \in Sessions, NEW k \in Carts, NEW q \in Coupons, RemoveCoupon(s, k, q)
        PROVE  TypeOK'
    BY <1>9, BumpedTyped DEF RemoveCoupon
  <1>10. ASSUME NEW s \in Sessions, NEW k \in Carts, NEW x \in Slots, SetSlot(s, k, x)
         PROVE  TypeOK'
    BY <1>10, BumpedTyped DEF SetSlot
  <1>11. ASSUME NEW s \in Sessions, NEW k \in Carts, See(s, k)
         PROVE  TypeOK'
    <2>1. ViewOf(k) \in View
      BY DEF ViewOf, View
    <2>2. User[s] \in Customers
      BY DEF CartAssumption
    <2>. QED
      BY <1>11, <2>1, <2>2 DEF See
  <1>12. ASSUME NEW s \in Sessions, NEW k \in Carts, NEW asked \in {seen[User[s]], None},
                Checkout(s, k, asked)
         PROVE  TypeOK'
    <2>1. asked \in View \cup {None}
      BY DEF CartAssumption
    <2>2. {fixedIn[q] : q \in applied[k]} \ {None} \in SUBSET Currencies
      OBVIOUS
    <2>3. sold' \in [Carts -> Sale \cup {None}]
      BY <1>12, <2>1, <2>2 DEF Checkout, Sale
    <2>. QED
      BY <1>12, <2>3 DEF Checkout
  <1>13. ASSUME NEW k \in Carts, Abandon(k) \/ \E x \in Slots : DeleteSlotRow(k, x)
         PROVE  TypeOK'
    BY <1>13 DEF Abandon, DeleteSlotRow
  <1>14. Patches => TypeOK'
    BY DEF Patches, PatchProduct, PatchCoupon
  <1>. QED
    BY <1>1, <1>2, <1>3, <1>4, <1>5, <1>6, <1>7, <1>8, <1>9, <1>10, <1>11, <1>12, <1>13, <1>14
    DEF CartNext, Expected, Patches

------------------------------------------------------------------------------
(* Currencies *)

\* add_item keeps a cart in one currency, whatever happened to the product meanwhile.
LEMMA AddEndLocked ==
  ASSUME CartAssumption, CartInv, NEW s \in Sessions, NEW n \in 1..MaxQty, AddEnd(s, n)
  PROVE  \A j \in Carts : Locked(j)'
  <1>0. PICK k \in Carts, p \in Products, cur \in Currencies :
          op[s].cart = k /\ op[s].product = p /\ op[s].cur = cur
    BY DEF CartInv, TypeOK, AddEnd, NoOp, Op
  <1>1. cur # None /\ op[s] # NoOp
    BY DEF AddEnd, NoOp, CartAssumption
  <1>2. Locked(k) /\ status[k] \in {"absent", "active"}
    BY <1>0, <1>1 DEF CartInv, Requests, Took
  <1>3. \A q \in Products : lines[k][q] \in Line
    BY <1>1 DEF CartInv, TypeOK, Lines
  <1>4. \A q \in Products : lines[k][q].qty > 0 => currency[k] = cur /\ lines[k][q].cur = cur
    BY <1>0, <1>1, <1>2, <1>3 DEF Locked, Empty, AddEnd, Line, CartAssumption
  <1>5. /\ \A j \in Carts \ {k} : lines'[j] = lines[j] /\ currency'[j] = currency[j]
                                   /\ status'[j] = status[j]
        /\ \A q \in Products \ {p} : lines'[k][q] = lines[k][q]
        /\ lines'[k][p] = [qty |-> lines[k][p].qty + n,
                           cur |-> IF lines[k][p].qty = 0 THEN cur ELSE lines[k][p].cur]
        /\ currency'[k] = cur
    BY <1>0 DEF CartInv, TypeOK, AddEnd, Lines
  <1>6. lines'[k][p].qty # 0 /\ lines'[k][p].cur = cur
    BY <1>1, <1>3, <1>4, <1>5 DEF Line, CartAssumption
  <1>7. Locked(k)'
    BY <1>1, <1>4, <1>5, <1>6 DEF Locked, Empty
  <1>8. ASSUME NEW j \in Carts, j # k PROVE Locked(j)'
    BY <1>5, <1>8 DEF CartInv, Locked, Empty
  <1>. QED
    BY <1>7, <1>8

\* remove_item resets the currency with the last line; update_item_quantity keeps lines.
LEMMA ItemsLocked ==
  ASSUME CartAssumption, CartInv, NEW s \in Sessions, NEW k \in Carts, Items(s, k)
  PROVE  \A j \in Carts : Locked(j)'
  <1>0. Locked(k) /\ status[k] = "active" /\ status' = status
    BY DEF CartInv, Items, RemoveItem, UpdateItem, Mine
  <1>1. PICK p \in Products : RemoveItem(s, k, p) \/ \E n \in 1..MaxQty : UpdateItem(s, k, p, n)
    BY DEF Items
  <1>2. \A q \in Products : lines[k][q] \in Line
    BY DEF CartInv, TypeOK, Lines
  <1>3. /\ \A j \in Carts \ {k} : lines'[j] = lines[j] /\ currency'[j] = currency[j]
        /\ \A q \in Products \ {p} : lines'[k][q] = lines[k][q]
        /\ ~Empty(lines[k])
    BY <1>1, <1>2 DEF CartInv, TypeOK, Lines, RemoveItem, UpdateItem, Empty, Line, CartAssumption
  <1>4. currency[k] # None
    BY <1>0, <1>3 DEF Locked
  <1>5. CASE RemoveItem(s, k, p)
    <2>1. lines'[k][p] = NoLine
      BY <1>5 DEF RemoveItem, CartInv, TypeOK, Lines
    <2>2. currency'[k] = IF Empty(lines'[k]) THEN None ELSE currency[k]
      BY <1>5 DEF RemoveItem, CartInv, TypeOK
    <2>3. Locked(k)'
      BY <1>0, <1>3, <1>4, <2>1, <2>2 DEF Locked, Empty, NoLine
    <2>. QED
      BY <1>0, <1>3, <2>3 DEF CartInv, Locked, Empty
  <1>6. CASE \E n \in 1..MaxQty : UpdateItem(s, k, p, n)
    <2>1. PICK n \in 1..MaxQty : UpdateItem(s, k, p, n)
      BY <1>6
    <2>2. lines'[k][p] = [lines[k][p] EXCEPT !.qty = n] /\ currency' = currency
      BY <2>1 DEF UpdateItem, CartInv, TypeOK, Lines
    <2>3. lines'[k][p].qty # 0 /\ lines'[k][p].cur = lines[k][p].cur
      BY <1>2, <2>2 DEF Line, CartAssumption
    <2>4. lines[k][p].qty > 0
      BY <2>1 DEF UpdateItem
    <2>5. Locked(k)'
      BY <1>0, <1>3, <1>4, <2>2, <2>3, <2>4 DEF Locked, Empty
    <2>. QED
      BY <1>0, <1>3, <2>2, <2>5 DEF CartInv, Locked, Empty
  <1>. QED
    BY <1>1, <1>5, <1>6

\* A cart that is cleared, swept or converted is no longer bound by the currency lock.
LEMMA LeaveLocked ==
  ASSUME CartInv, NEW k \in Carts, NEW st \in {"abandoned", "converted"},
         status' = [status EXCEPT ![k] = st],
         \A j \in Carts \ {k} : lines'[j] = lines[j] /\ currency'[j] = currency[j]
  PROVE  \A j \in Carts : Locked(j)'
  BY DEF CartInv, TypeOK, Locked, Empty

\* No step leaves an open cart with lines in two currencies.
LEMMA LockedKept ==
  ASSUME CartAssumption, CartInv, CartNext
  PROVE  \A j \in Carts : Locked(j)'
  <1>1. CASE UNCHANGED <<status, currency, lines>>
    BY <1>1 DEF CartInv, Locked, Empty
  <1>2. ASSUME NEW s \in Sessions, NEW k \in Carts, ClearCart(s, k)
        PROVE  \A j \in Carts : Locked(j)'
    <2>1. \A j \in Carts \ {k} : lines'[j] = lines[j] /\ currency'[j] = currency[j]
      BY <1>2 DEF ClearCart, CartInv, TypeOK
    <2>. QED
      BY <1>2, <2>1, LeaveLocked DEF ClearCart
  <1>3. ASSUME NEW s \in Sessions, NEW k \in Carts,
               NEW asked \in {seen[User[s]], None}, Checkout(s, k, asked)
        PROVE  \A j \in Carts : Locked(j)'
    BY <1>3, LeaveLocked DEF Checkout
  <1>4. ASSUME NEW k \in Carts, Abandon(k)
        PROVE  \A j \in Carts : Locked(j)'
    BY <1>4, LeaveLocked DEF Abandon
  <1>. QED
    BY <1>1, <1>2, <1>3, <1>4, AddEndLocked, ItemsLocked
    DEF CartNext, Expected, Items, AddBegin, ApplyBegin, ApplyEnd, Refuse, RemoveCoupon, SetSlot, See,
        DeleteSlotRow, PatchProduct, PatchCoupon, rows

\* Only checkout makes an order, and it has validated the coupons in the cart's currency.
LEMMA OneCurrencyKept ==
  ASSUME CartAssumption, CartInv, CartNext
  PROVE  \A j \in Carts : OneCurrency(j)'
  <1>1. CASE UNCHANGED sold
    BY <1>1 DEF CartInv, OneCurrency
  <1>2. ASSUME NEW s \in Sessions, NEW k \in Carts, NEW asked, Checkout(s, k, asked)
        PROVE  \A j \in Carts : OneCurrency(j)'
    <2>1. /\ \A j \in Carts \ {k} : sold'[j] = sold[j]
          /\ sold'[k].lines = lines[k] /\ sold'[k].currency = currency[k]
          /\ sold'[k].fixed = {fixedIn[q] : q \in applied[k]} \ {None}
      BY <1>2 DEF Checkout, CartInv, TypeOK
    <2>2. \A q \in applied[k] : fixedIn[q] # None => fixedIn[q] = currency[k]
      BY <1>2 DEF Checkout, Ready, Fits
    <2>3. Locked(k) /\ status[k] = "active"
      BY <1>2 DEF CartInv, Checkout, Mine
    <2>4. OneCurrency(k)'
      BY <2>1, <2>2, <2>3 DEF OneCurrency, Locked
    <2>. QED
      BY <2>1, <2>4 DEF CartInv, OneCurrency
  <1>3. ASSUME NEW s \in Sessions, NEW k \in Carts, Items(s, k) \/ Others(s, k)
        PROVE  UNCHANGED sold
    BY <1>3 DEF Items, Others, RemoveItem, UpdateItem, RemoveCoupon, SetSlot, See, clients
  <1>4. ASSUME NEW s \in Sessions,
               \/ \E n \in 1..MaxQty : AddEnd(s, n)
               \/ \E k \in Carts, p \in Products : AddBegin(s, k, p)
               \/ \E k \in Carts, q \in Coupons : ApplyBegin(s, k, q)
               \/ \E k \in Carts : ClearCart(s, k)
               \/ ApplyEnd(s) \/ Refuse(s)
        PROVE  UNCHANGED sold
    BY <1>4 DEF AddBegin, AddEnd, ApplyBegin, ApplyEnd, Refuse, ClearCart, clients
  <1>5. ASSUME NEW k \in Carts, Abandon(k) \/ \E x \in Slots : DeleteSlotRow(k, x)
        PROVE  UNCHANGED sold
    BY <1>5 DEF Abandon, DeleteSlotRow, clients
  <1>6. Patches => UNCHANGED sold
    BY DEF Patches, PatchProduct, PatchCoupon, clients
  <1>. QED
    BY <1>1, <1>2, <1>3, <1>4, <1>5, <1>6 DEF CartNext, Expected, Items, Others, Patches

------------------------------------------------------------------------------
(* Versions *)

\* A bump makes every client's view of the cart an old one.
LEMMA BumpOutdates ==
  ASSUME CartAssumption, CartInv, NEW k \in Carts, Bumped(k), UNCHANGED seen,
         \A j \in Carts : status'[j] = "absent" => status[j] = "absent",
         \A j \in Carts \ {k} : /\ status'[j] = status[j] /\ lines'[j] = lines[j]
                                /\ applied'[j] = applied[j]
  PROVE  \A u \in Customers : Told(u)'
  <1>. SUFFICES ASSUME NEW u \in Customers, seen[u] # None
                PROVE  Told(u)'
    BY DEF Told
  <1>1. Told(u) /\ seen[u] \in View
    BY DEF CartInv, TypeOK
  <1>2. PICK j \in Carts : seen[u].cart = j /\ seen[u].version \in Nat
    BY <1>1 DEF View, CartAssumption
  <1>3. version[k] \in Nat /\ version[j] \in Nat
    BY <1>2 DEF CartInv, TypeOK, CartAssumption
  <1>4. version'[k] = version[k] + 1 /\ (j # k => version'[j] = version[j])
    BY <1>2, BumpedTyped DEF CartInv
  <1>5. CASE j = k
    BY <1>1, <1>2, <1>3, <1>4, <1>5 DEF Told
  <1>6. CASE j # k
    BY <1>1, <1>2, <1>4, <1>6 DEF Told, ViewOf
  <1>. QED
    BY <1>5, <1>6

\* Every step that changes a cart's lines or coupons bumps it or ends it.
LEMMA ToldKept ==
  ASSUME CartAssumption, CartInv, CartNext
  PROVE  \A u \in Customers : Told(u)'
  <1>1. CASE UNCHANGED <<status, version, lines, applied, seen>>
    BY <1>1 DEF CartInv, Told, ViewOf
  <1>2. ASSUME NEW s \in Sessions, NEW n \in 1..MaxQty, AddEnd(s, n)
        PROVE  \A u \in Customers : Told(u)'
    <2>1. PICK k \in Carts : op[s].cart = k
      BY <1>2 DEF CartInv, TypeOK, AddEnd, NoOp, Op
    <2>. QED
      BY <1>2, <2>1, BumpOutdates DEF AddEnd, CartInv, TypeOK
  <1>3. ASSUME NEW s \in Sessions, ApplyEnd(s)
        PROVE  \A u \in Customers : Told(u)'
    <2>1. PICK k \in Carts : op[s].cart = k
      BY <1>3 DEF CartInv, TypeOK, ApplyEnd, NoOp, Op
    <2>. QED
      BY <1>3, <2>1, BumpOutdates DEF ApplyEnd, CartInv, TypeOK
  <1>4. ASSUME NEW s \in Sessions, NEW k \in Carts,
               \/ Items(s, k)
               \/ \E q \in Coupons : RemoveCoupon(s, k, q)
               \/ \E x \in Slots : SetSlot(s, k, x)
        PROVE  \A u \in Customers : Told(u)'
    <2>1. /\ Bumped(k) /\ UNCHANGED <<seen, status>>
          /\ \A j \in Carts \ {k} : lines'[j] = lines[j] /\ applied'[j] = applied[j]
      BY <1>4 DEF Items, RemoveItem, UpdateItem, RemoveCoupon, SetSlot, CartInv, TypeOK, clients
    <2>. QED
      BY <2>1, BumpOutdates
  <1>5. ASSUME NEW k \in Carts, NEW st \in {"abandoned", "converted"},
               status' = [status EXCEPT ![k] = st], UNCHANGED <<version, seen>>,
               \A j \in Carts \ {k} : lines'[j] = lines[j] /\ applied'[j] = applied[j]
        PROVE  \A u \in Customers : Told(u)'
    <2>1. ASSUME NEW u \in Customers, seen[u] # None PROVE seen[u].cart \in Carts
      BY <2>1 DEF CartInv, TypeOK, View
    <2>. QED
      BY <1>5, <2>1 DEF CartInv, TypeOK, Told, ViewOf
  <1>6. ASSUME NEW s \in Sessions, NEW k \in Carts, ClearCart(s, k)
        PROVE  \A u \in Customers : Told(u)'
    <2>1. \A j \in Carts \ {k} : lines'[j] = lines[j] /\ applied'[j] = applied[j]
      BY <1>6 DEF ClearCart, CartInv, TypeOK
    <2>. QED
      BY <1>5, <1>6, <2>1 DEF ClearCart, clients
  <1>7. ASSUME NEW s \in Sessions, NEW k \in Carts, NEW asked, Checkout(s, k, asked)
        PROVE  \A u \in Customers : Told(u)'
    BY <1>5, <1>7 DEF Checkout
  <1>8. ASSUME NEW k \in Carts, Abandon(k)
        PROVE  \A u \in Customers : Told(u)'
    BY <1>5, <1>8 DEF Abandon, clients
  <1>9. ASSUME NEW s \in Sessions, NEW k \in Carts, See(s, k)
        PROVE  \A u \in Customers : Told(u)'
    <2>1. \A u \in Customers : seen'[u] = IF u = User[s] THEN ViewOf(k) ELSE seen[u]
      BY <1>9 DEF See, CartInv, TypeOK
    <2>2. UNCHANGED <<status, version, lines, applied>> /\ status[k] = "active"
      BY <1>9 DEF See, rows
    <2>3. ViewOf(k).cart = k /\ ViewOf(k).version = version[k] /\ version[k] <= version[k]
      BY DEF ViewOf, CartInv, TypeOK
    <2>4. ViewOf(k)' = ViewOf(k) /\ \A j : ViewOf(j)' = ViewOf(j)
      BY <2>2 DEF ViewOf
    <2>5. ASSUME NEW u \in Customers, seen'[u] = seen[u] PROVE Told(u)'
      BY <2>2, <2>4, <2>5 DEF CartInv, Told
    <2>6. ASSUME NEW u \in Customers, seen'[u] = ViewOf(k) PROVE Told(u)'
      BY <2>2, <2>3, <2>4, <2>6 DEF Told
    <2>. QED
      BY <2>1, <2>5, <2>6
  <1>10. ASSUME NEW s \in Sessions,
                \/ \E k \in Carts, p \in Products : AddBegin(s, k, p)
                \/ \E k \in Carts, q \in Coupons : ApplyBegin(s, k, q)
                \/ Refuse(s)
         PROVE  UNCHANGED <<status, version, lines, applied, seen>>
    BY <1>10 DEF AddBegin, ApplyBegin, Refuse, rows
  <1>11. ASSUME Patches \/ \E k \in Carts, x \in Slots : DeleteSlotRow(k, x)
         PROVE  UNCHANGED <<status, version, lines, applied, seen>>
    BY <1>11 DEF DeleteSlotRow, Patches, PatchProduct, PatchCoupon, rows, clients
  <1>. QED
    BY <1>1, <1>2, <1>3, <1>4, <1>6, <1>7, <1>8, <1>9, <1>10, <1>11
    DEF CartNext, Expected, Items, Patches

------------------------------------------------------------------------------
(* The theorems *)

\* The empty shop satisfies the invariant.
LEMMA CartInvInit ==
  ASSUME CartAssumption, CartInit
  PROVE  CartInv
  <1>1. TypeOK
    BY DEF CartAssumption, CartInit, TypeOK, Lines, Line, NoLine, Op
  <1>2. Requests /\ OneActiveCart
    BY DEF CartInit, Requests, Took, Apart, OneActiveCart
  <1>3. \A k \in Carts : Locked(k) /\ OneCurrency(k)
    BY DEF CartInit, Locked, OneCurrency, Empty, NoLine
  <1>4. \A u \in Customers : Told(u)
    BY DEF CartInit, Told
  <1>. QED
    BY <1>1, <1>2, <1>3, <1>4 DEF CartInv

\* Every step of every actor keeps it.
LEMMA CartInvNext ==
  ASSUME CartAssumption, CartInv, [CartNext]_vars
  PROVE  CartInv'
  <1>1. CASE CartNext
    BY <1>1, TypeKept, RequestsKept, LockedKept, OneCurrencyKept, ToldKept DEF CartInv
  <1>2. CASE UNCHANGED vars
    BY <1>2 DEF CartInv, TypeOK, Requests, Took, Apart, OneActiveCart, Locked, Empty, OneCurrency,
                Told, ViewOf, vars, rows, catalog, clients
  <1>. QED
    BY <1>1, <1>2

\* The inductive invariant of the cart, for any number of customers and sessions.
THEOREM CartInvariant == CartSpec => []CartInv
  <1>. QED
    BY CartAssumption, CartInvInit, CartInvNext, PTL DEF CartSpec

\* Type correctness: every request, order and view is made of what the rows hold.
THEOREM CartTyped == CartSpec => []TypeOK
  <1>1. CartInv => TypeOK
    BY DEF CartInv
  <1>. QED
    BY <1>1, CartInvariant, PTL

\* However get_or_create, clear_cart, checkout and the sweep interleave, a customer has
\* at most one active cart.
THEOREM CartIsOne == CartSpec => []OneActiveCart
  <1>1. CartInv => OneActiveCart
    BY DEF CartInv
  <1>. QED
    BY <1>1, CartInvariant, PTL

\* add_item's test of the currency and remove_item's reset keep every active cart in one
\* currency, although products change theirs.
THEOREM CurrencyIsLocked == CartSpec => []CurrencyLock
  <1>1. CartInv => CurrencyLock
    BY DEF CartInv, Locked, CurrencyLock
  <1>. QED
    BY <1>1, CartInvariant, PTL

\* checkout sells in one currency, fixed discounts included.
THEOREM SaleIsInOneCurrency == CartSpec => []SoldInOneCurrency
  <1>1. CartInv => SoldInOneCurrency
    BY DEF CartInv, OneCurrency, SoldInOneCurrency
  <1>. QED
    BY <1>1, CartInvariant, PTL

\* A version identifies the content of one cart, so If-Match tells its edits.
THEOREM VersionIsTelling == CartSpec => []VersionTells
  <1>1. CartInv => VersionTells
    BY DEF CartInv, Told, VersionTells
  <1>. QED
    BY <1>1, CartInvariant, PTL

-----------------------------------------------------------------------------
(* The wallet: what its invariants say. *)

\* The stages of a request that writes a row, and of one that calls a gateway.
Writing == {"scan", "clear", "write"}
Calling == {"aim", "call", "result", "reread"}

StagesOf(kind) ==
  CASE kind = "default" -> Writing \cup {"lock"}
    [] kind = "save" -> Writing \cup {"resolve"}
    [] kind = "add" -> Writing
    [] kind = "patch" -> Writing \cup {"read"}
    [] kind = "drop" -> {"read", "write"}
    [] kind = "delete" -> {"write"}
    [] kind = "charge" -> Calling \cup {"read", "resolve"}
    [] kind = "retrieve" -> {"read", "aim", "call", "result"}

\* What a request of each kind brings.
Asked(r) ==
  /\ r \in Request
  /\ r.op \in {"save", "default", "delete", "charge"} => r.row \in Methods /\ r.who # None
  /\ r.op \in {"add", "patch", "drop"} => r.row \in Configs /\ r.who = None
  /\ r.op = "retrieve" => r.row \in Payments
  /\ r.op \in {"save", "add"} => r.default # None
  /\ r.op = "default" => r.default = TRUE
  /\ r.op \in {"delete", "drop"} => r.default # TRUE
  /\ r.op = "add" => r.gateway # None /\ r.account # None /\ r.active # None

\* What it has read by the stage it is at.
HasRead(r, s, g) ==
  /\ s = "read" => g.config = None
  /\ r.op = "save" /\ s = "resolve" => r.gateway # None
  /\ r.op = "save" /\ s \in Writing => (g.config = None <=> g.seat = None)
  /\ r.op = "save" /\ s \in Writing => (g.config = None <=> r.gateway = None)
  /\ r.op = "default" /\ s \in Writing => g.default # None
  /\ r.op = "patch" /\ s \in Writing => g.seat # None /\ g.active # None /\ g.default # None
  /\ r.op \in {"charge", "retrieve"} /\ s # "read" =>
       /\ g.seat # None /\ g.of # None /\ g.token # None
       /\ s \in Calling => g.config # None
  /\ r.op = "charge" /\ s = "resolve" => g.next = "authorize"
  /\ r.op = "charge" /\ s \in Calling => g.next \in {"authorize", "capture"}
  /\ r.op = "retrieve" /\ s # "read" => g.next = "retrieve"
  /\ s = "reread" \/ (s \in Calling /\ g.next # "authorize") => g.of = g.config

Shape(w) ==
  IF req[w] = None
  THEN /\ pc[w] = "idle" /\ got[w] = Nothing /\ call[w] = None
       /\ todo[w] = {} /\ cleared[w] = {}
  ELSE Asked(req[w]) /\ pc[w] \in StagesOf(req[w].op) /\ HasRead(req[w], pc[w], got[w])

\* The foreign keys, and a card's gateway.
References ==
  /\ \A m \in Methods : method[m] # None /\ method[m].config # None =>
       config[method[m].config] # None /\ method[m].token # None
  /\ \A p \in Payments : payment[p] # None => config[payment[p].config] # None
  /\ \A w \in Workers : req[w] # None /\ req[w].op = "retrieve" => payment[req[w].row] # None

\* The variables of the workers and of the tables.
WorkTyped ==
  /\ locked \in [Rows -> Workers \cup {None}] /\ used \subseteq Rows
  /\ sdk \in [Processes -> Hosts] /\ arrived \in 0..MaxRequests
  /\ req \in [Workers -> Request \cup {None}] /\ pc \in [Workers -> Stages]
  /\ got \in [Workers -> Got] /\ call \in [Workers -> Made \cup {None}]
  /\ todo \in [Workers -> SUBSET Rows] /\ cleared \in [Workers -> SUBSET Rows]
TablesTyped ==
  /\ method \in [Methods -> MethodRow \cup {None}]
  /\ config \in [Configs -> ConfigRow \cup {None}]
  /\ payment \in [Payments -> PaymentRow \cup {None}]
  /\ isDefault \subseteq {m \in Methods : method[m] # None} \cup {c \in Configs : config[c] # None}
  /\ moved \subseteq Configs

ShapeInv ==
  /\ WorkTyped /\ TablesTyped /\ References /\ \A w \in Workers : Shape(w)
  /\ allowMock \in BOOLEAN /\ on \in [Workers -> SUBSET Names]

\* The seat n is named with the configuration c: by its row, by what keeps a
\* reference to it, or by a request that has read one of these.
Recalls(w, c, n) ==
  /\ req[w] # None
  /\ \/ req[w].op = "patch" /\ pc[w] \in Writing /\ req[w].row = c /\ got[w].seat = n
     \/ req[w].op = "save" /\ pc[w] \in Writing /\ got[w].config = c /\ got[w].seat = n
     \/ /\ req[w].op \in {"charge", "retrieve"} /\ pc[w] # "read"
        /\ \/ got[w].of = c /\ got[w].token = n
           \/ got[w].of = c /\ pc[w] = "resolve" /\ got[w].seat = n
           \/ got[w].config = c /\ pc[w] \in Calling /\ got[w].seat = n
Says(c, n) ==
  \/ config[c] # None /\ config[c].seat = n
  \/ \E m \in Methods : method[m] # None /\ method[m].config = c /\ method[m].token = n
  \/ \E p \in Payments : payment[p] # None /\ payment[p].config = c /\ payment[p].at = n
  \/ \E w \in Workers : Recalls(w, c, n)

\* A row that is not there yet, and nothing knows of.
Unborn(x) ==
  /\ x \in Methods => method[x] = None /\ \A w \in Workers : x \notin todo[w]
  /\ x \in Configs => \A n \in Seats : ~Says(x, n)
Brings(w, x) == req[w] # None /\ req[w].op \in {"save", "add"} /\ req[w].row = x
FreshInv ==
  /\ \A x \in Rows \ used : Unborn(x)
  /\ \A w \in Workers, x \in Rows : Brings(w, x) =>
       x \in used /\ Unborn(x) /\ \A v \in Workers \ {w} : ~Brings(v, x)

\* What a transaction holds and is about to update.
Holds(w, x) ==
  \/ x \in cleared[w]
  \/ req[w] # None /\ req[w].op = "default" /\ pc[w] \in Writing /\ req[w].row = x
Update(w) ==
  /\ \A x \in cleared[w] : x \in DefaultsOf(req[w].who) /\ x # req[w].row
  /\ \A x \in todo[w] :
       /\ x # req[w].row
       /\ IF req[w].who = None THEN x \in Configs
          ELSE x \in Methods /\ (method[x] = None \/ method[x].who = req[w].who)
  /\ \A x, y \in todo[w] : x = y
  /\ todo[w] # {} => cleared[w] = {} /\ pc[w] = "clear"
  /\ cleared[w] # {} => pc[w] \in {"clear", "write"}
  /\ req[w] # None /\ req[w].default # TRUE => todo[w] = {} /\ cleared[w] = {}
  /\ req[w] # None /\ req[w].op = "default" /\ pc[w] \in Writing =>
       /\ method[req[w].row] # None /\ method[req[w].row].who = req[w].who
       /\ got[w].default = TRUE <=> req[w].row \in isDefault
       /\ req[w].row \in isDefault => todo[w] = {}
LockInv ==
  /\ \A x, y \in isDefault : Scope(method, x) = Scope(method, y) => x = y
  /\ \A x \in Rows, w \in Workers : locked[x] = w <=> Holds(w, x)
  /\ \A w \in Workers : Update(w)

\* No set of transactions waits within itself.
Acyclic == \A S \in SUBSET Workers : S # {} => \E w \in S : WaitsFor(w) \cap S = {}

\* One configuration of a gateway in the tenant.
NamesApart == \A c, d \in Configs :
  config[c] # None /\ config[d] # None /\ config[c].seat.name = config[d].seat.name => c = d

\* A configuration that was not moved is there once it is named,
Still == \A c \in Configs \ moved, n \in Seats : Says(c, n) => config[c] # None

\* is named with one seat,
NameInv == \A c \in Configs \ moved, n, o \in Seats : Says(c, n) /\ Says(c, o) => n = o

\* and is the one a call is made with, of those with its gateway_name.
Chosen == \A w \in Workers :
  req[w] # None /\ req[w].op \in {"charge", "retrieve"} /\ pc[w] \in Calling =>
    got[w].config = got[w].of \/ got[w].of \in moved

\* A call goes where the gateway it is for is, from a process of one worker.
CallInv ==
  \A w \in Workers :
    /\ ProcessOfItsOwn(w) /\ pc[w] = "call" /\ Host(got[w].seat.name) # None => sdk[Process[w]] = Host(got[w].seat.name)
    /\ pc[w] \in {"aim", "call"} /\ got[w].next = "authorize" =>
         got[w].seat.name \in on[w] /\ (got[w].seat.name = "mock" => allowMock)

-----------------------------------------------------------------------------
(* Types: a worker's variables, and what its request has read by each stage. *)

\* Only w's variables change.
Alone(w) == \A v \in Workers \ {w} :
  /\ req'[v] = req[v] /\ pc'[v] = pc[v] /\ got'[v] = got[v]
  /\ todo'[v] = todo[v] /\ cleared'[v] = cleared[v] /\ call'[v] = call[v]

Aborts(w) == Abort(w) /\ UNCHANGED <<used, sdk, arrived>>

\* An action that only reads, or locks, or calls a gateway.
Reading(w) ==
  \/ LockTarget(w) \/ Scan(w) \/ Clear(w) \/ ReadConfig(w) \/ CollectConfig(w)
  \/ ReadMethod(w) \/ Resolve(w) \/ ReadPayment(w)
  \/ Aim(w) \/ CallGateway(w) \/ Authorized(w) \/ Reread(w)
Starting(w) ==
  \/ StartSave(w) \/ StartOnMethod(w) \/ StartRetrieve(w)
  \/ StartAdd(w) \/ StartPatch(w) \/ StartDrop(w)
Committing(w) ==
  \/ InsertMethod(w) \/ SetDefault(w) \/ DeleteMethod(w)
  \/ InsertConfig(w) \/ SaveConfig(w) \/ DeleteConfig(w)
  \/ Waits(w) \/ Captured(w) \/ Retrieved(w)

\* Every worker moves by itself.
LEMMA Alones ==
  ASSUME WorkTyped, NEW w \in Workers, Act(w)
  PROVE  Alone(w)
  <1>1. End(w) => Alone(w)
    BY DEF End, Goto, Alone, WorkTyped
  <1>2. \A r : Start(w, r) => Alone(w)
    BY DEF Start, Goto, Alone, WorkTyped
  <1>3. CASE Starting(w)
    BY <1>2, <1>3 DEF Starting, StartSave, StartOnMethod, StartRetrieve, StartAdd, StartPatch, StartDrop
  <1>4. CASE LockTarget(w) \/ Scan(w) \/ Clear(w) \/ ReadConfig(w) \/ CollectConfig(w)
    BY <1>1, <1>4 DEF LockTarget, Scan, Clear, ReadConfig, CollectConfig, Abort, Goto, Alone, WorkTyped
  <1>5. CASE ReadMethod(w) \/ Resolve(w) \/ ReadPayment(w)
    BY <1>1, <1>5, ZenonT(60) DEF ReadMethod, Resolve, ReadPayment, Abort, Goto, Alone, WorkTyped
  <1>6. CASE Aim(w) \/ CallGateway(w) \/ Authorized(w) \/ Reread(w)
    BY <1>1, <1>6 DEF Aim, CallGateway, Authorized, Reread, Abort, Goto, Alone, WorkTyped
  <1>7. CASE Committing(w)
    BY <1>1, <1>7 DEF Committing, InsertMethod, SetDefault, DeleteMethod, InsertConfig, SaveConfig,
                      DeleteConfig, Waits, Captured, Retrieved, CommitsOrFails, Commits, Abort, Pay
  <1>. QED
    BY <1>3, <1>4, <1>5, <1>6, <1>7 DEF Act, Starting, Committing

\* The shape of a worker's variables is its own matter.
LEMMA ShapeApart ==
  ASSUME NEW w \in Workers, Alone(w), \A v \in Workers : Shape(v), Shape(w)'
  PROVE  \A v \in Workers : Shape(v)'
  <1>. SUFFICES ASSUME NEW v \in Workers \ {w} PROVE Shape(v)'
    OBVIOUS
  <1>. QED
    BY DEF Alone, Shape

\* A worker with a request is not idle.
LEMMA ShapeNotIdle ==
  ASSUME NEW w, Shape(w), req[w] # None
  PROVE  pc[w] # "idle" /\ req[w].op \in Ops /\ req[w] \in Request
  <1>1. req[w].op \in Ops /\ pc[w] \in StagesOf(req[w].op) /\ req[w] \in Request
    BY DEF Shape, Asked, Request
  <1>2. \A kind \in Ops : "idle" \notin StagesOf(kind)
    BY DEF Ops, StagesOf, Writing, Calling
  <1>. QED
    BY <1>1, <1>2

\* The answer.
LEMMA EndShape ==
  ASSUME WorkTyped, NEW w \in Workers, End(w), UNCHANGED <<used, sdk, arrived>>
  PROVE  /\ WorkTyped' /\ Shape(w)' /\ Alone(w)
         /\ req'[w] = None /\ pc'[w] = "idle"
         /\ \A x \in Rows : locked'[x] = IF locked[x] = w THEN None ELSE locked[x]
  <1>1. /\ req' = [req EXCEPT ![w] = None] /\ pc' = [pc EXCEPT ![w] = "idle"]
        /\ got' = [got EXCEPT ![w] = Nothing] /\ call' = [call EXCEPT ![w] = None]
        /\ todo' = [todo EXCEPT ![w] = {}] /\ cleared' = [cleared EXCEPT ![w] = {}]
        /\ locked' = [x \in Rows |-> IF locked[x] = w THEN None ELSE locked[x]]
    BY DEF End, Goto
  <1>2. Nothing \in Got /\ "idle" \in Stages
    BY DEF Nothing, Got, Tri, Stages
  <1>3. WorkTyped'
    BY <1>1, <1>2 DEF WorkTyped
  <1>4. Shape(w)'
    BY <1>1 DEF Shape, WorkTyped
  <1>. QED
    BY <1>1, <1>3, <1>4 DEF Alone, WorkTyped

\* Bodies of requests.
LEMMA BodyIsRequest ==
  ASSUME NEW kind \in Ops, NEW x \in Rows \cup Payments
  PROVE  /\ Body(kind, x) \in Request
         /\ Body(kind, x) = [op |-> kind, row |-> x, who |-> None, gateway |-> None,
                             account |-> None, token |-> FALSE, default |-> None, active |-> None]
  BY DEF Body, Request, Tri

\* The body of an administrator's request.
Edited(b, g, o, a, d) ==
  [b EXCEPT !.gateway = g, !.account = o, !.active = a, !.default = d]

\* It is a request, of the same kind and about the same row.
LEMMA EditedIsRequest ==
  ASSUME NEW b \in Request, NEW g \in Names \cup {None}, NEW o \in Merchants \cup {None},
         NEW a \in Tri, NEW d \in Tri
  PROVE  /\ Edited(b, g, o, a, d) \in Request
         /\ Edited(b, g, o, a, d).op = b.op /\ Edited(b, g, o, a, d).row = b.row
         /\ Edited(b, g, o, a, d).who = b.who
  BY DEF Request, Edited

\* The first stage of a request.
LEMMA FirstShape ==
  ASSUME NEW r, Asked(r)
  PROVE  /\ FirstStage(r) \in StagesOf(r.op) /\ FirstStage(r) \in Stages \ Calling
         /\ HasRead(r, FirstStage(r), Nothing)
  <1>1. r.op \in Ops
    BY DEF Asked, Request
  <1>2. CASE r.op = "default"
    BY <1>2 DEF FirstStage, StagesOf, Stages, Writing, Calling, HasRead, Nothing
  <1>3. CASE r.op = "save"
    BY <1>3 DEF FirstStage, StagesOf, Stages, Writing, Calling, HasRead, Nothing
  <1>4. CASE r.op \in {"add", "delete"}
    BY <1>4 DEF FirstStage, StagesOf, Stages, Writing, Calling, HasRead, Nothing
  <1>5. CASE r.op \in {"patch", "drop", "charge", "retrieve"}
    BY <1>5 DEF FirstStage, StagesOf, Stages, Writing, Calling, HasRead, Nothing
  <1>. QED
    BY <1>1, <1>2, <1>3, <1>4, <1>5 DEF Ops

\* A request arrives.
LEMMA StartShape ==
  ASSUME ShapeInv, NEW w \in Workers, NEW r, Asked(r), Start(w, r), used' \subseteq Rows
  PROVE  /\ WorkTyped' /\ Shape(w)' /\ Alone(w) /\ pc[w] = "idle" /\ req[w] = None
         /\ UNCHANGED <<method, config, payment, isDefault, locked, sdk, moved, got, todo, cleared, call>>
         /\ got[w] = Nothing /\ todo[w] = {} /\ cleared[w] = {} /\ call[w] = None
         /\ req'[w] = r /\ pc'[w] = FirstStage(r)
  <1>1. /\ WorkTyped /\ Shape(w) /\ pc[w] = "idle" /\ arrived < MaxRequests
        /\ arrived' = arrived + 1 /\ req' = [req EXCEPT ![w] = r]
        /\ pc' = [pc EXCEPT ![w] = FirstStage(r)]
        /\ UNCHANGED <<method, config, payment, isDefault, locked, sdk, moved, got, todo, cleared, call>>
    BY DEF ShapeInv, Start, Goto, tables
  <1>2. r \in Request /\ FirstStage(r) \in Stages
    BY FirstShape DEF Asked
  <1>3. req[w] = None
    BY <1>1, ShapeNotIdle
  <1>4. got[w] = Nothing /\ todo[w] = {} /\ cleared[w] = {} /\ call[w] = None
    BY <1>1, <1>3 DEF Shape
  <1>5. WorkTyped'
    BY <1>1, <1>2, WalletAssumption DEF WorkTyped
  <1>6. req'[w] = r /\ pc'[w] = FirstStage(r) /\ got'[w] = Nothing /\ r # None
    BY <1>1, <1>2, <1>4, WalletAssumption DEF WorkTyped
  <1>7. Shape(w)'
    BY <1>6, FirstShape DEF Shape
  <1>. QED
    BY <1>1, <1>3, <1>4, <1>5, <1>6, <1>7 DEF Alone, WorkTyped

\* Whether a row is a default is TRUE or FALSE.
LEMMA TruthValue == ASSUME NEW x, NEW S PROVE \E d \in BOOLEAN : d = (x \in S)
  <1>1. CASE x \in S
    <2>1. (x \in S) = TRUE
      BY <1>1
    <2>. QED
      BY <2>1
  <1>2. CASE x \notin S
    <2>1. (x \in S) = FALSE
      BY <1>2
    <2>. QED
      BY <2>1
  <1>. QED
    BY <1>1, <1>2

\* The stage a request is at tells what it may be.
LEMMA StageTells ==
  ASSUME NEW w, Shape(w), pc[w] # "idle"
  PROVE  /\ req[w] # None /\ Asked(req[w]) /\ HasRead(req[w], pc[w], got[w])
         /\ pc[w] = "lock" => req[w].op = "default"
         /\ pc[w] = "resolve" => req[w].op \in {"save", "charge"}
         /\ pc[w] \in {"scan", "clear"} => req[w].op \in {"default", "save", "add", "patch"}
         /\ pc[w] = "write" => req[w].op \in {"default", "save", "add", "patch", "delete", "drop"}
         /\ pc[w] = "read" => req[w].op \in {"patch", "drop", "charge", "retrieve"}
         /\ pc[w] \in {"aim", "call", "result"} => req[w].op \in {"charge", "retrieve"}
         /\ pc[w] = "reread" => req[w].op = "charge"
  <1>1. req[w] # None /\ Asked(req[w]) /\ HasRead(req[w], pc[w], got[w])
        /\ pc[w] \in StagesOf(req[w].op) /\ req[w].op \in Ops
    BY DEF Shape, Asked, Request
  <1>2. \A kind \in Ops :
         /\ "lock" \in StagesOf(kind) => kind = "default"
         /\ "resolve" \in StagesOf(kind) => kind \in {"save", "charge"}
         /\ "scan" \in StagesOf(kind) => kind \in {"default", "save", "add", "patch"}
         /\ "clear" \in StagesOf(kind) => kind \in {"default", "save", "add", "patch"}
         /\ "write" \in StagesOf(kind) => kind \in {"default", "save", "add", "patch", "delete", "drop"}
         /\ "read" \in StagesOf(kind) => kind \in {"patch", "drop", "charge", "retrieve"}
         /\ "aim" \in StagesOf(kind) => kind \in {"charge", "retrieve"}
         /\ "call" \in StagesOf(kind) => kind \in {"charge", "retrieve"}
         /\ "result" \in StagesOf(kind) => kind \in {"charge", "retrieve"}
         /\ "reread" \in StagesOf(kind) => kind = "charge"
    BY DEF Ops, StagesOf, Writing, Calling
  <1>. QED
    BY <1>1, <1>2

\* A step that goes on with a request and writes no row.
Advances(w) ==
  /\ UNCHANGED <<method, config, payment, isDefault, used, arrived, req, moved>>
  /\ req[w] # None /\ pc[w] # "idle" /\ pc'[w] # "idle"

\* Such a step to the stage s with g read, as the request may.
LEMMA AdvanceShape ==
  ASSUME WorkTyped, NEW w \in Workers, Shape(w), Advances(w), NEW s \in Stages, NEW g \in Got,
         pc' = [pc EXCEPT ![w] = s], got' = [got EXCEPT ![w] = g],
         locked' \in [Rows -> Workers \cup {None}], sdk' \in [Processes -> Hosts],
         todo' \in [Workers -> SUBSET Rows], cleared' \in [Workers -> SUBSET Rows],
         call' \in [Workers -> Made \cup {None}],
         s \in StagesOf(req[w].op), HasRead(req[w], s, g)
  PROVE  WorkTyped' /\ Shape(w)'
  <1>1. pc'[w] = s /\ got'[w] = g /\ req'[w] = req[w] /\ req[w] # None
    BY DEF Advances, WorkTyped
  <1>2. WorkTyped'
    BY DEF Advances, WorkTyped
  <1>3. Shape(w)'
    BY <1>1 DEF Shape
  <1>. QED
    BY <1>2, <1>3

\* What a step of reading keeps.
Proceeds(w) == Aborts(w) \/ (Advances(w) /\ WorkTyped' /\ Shape(w)')

\* SELECT ... FOR UPDATE reads whether the method is the default.
LEMMA LockTargetShape ==
  ASSUME ShapeInv, NEW w \in Workers, LockTarget(w)
  PROVE  Proceeds(w)
  <1> SUFFICES ASSUME ~Aborts(w) PROVE Advances(w) /\ WorkTyped' /\ Shape(w)'
    BY DEF Proceeds
  <1>0. PICK d \in BOOLEAN : d = (req[w].row \in isDefault)
    BY TruthValue
  <1> DEFINE g == [got[w] EXCEPT !.default = d]
  <1>1. WorkTyped /\ Shape(w) /\ pc[w] = "lock"
    BY DEF ShapeInv, LockTarget
  <1>2. req[w].op = "default" /\ req[w] # None /\ Asked(req[w]) /\ got[w] \in Got
    BY <1>1, StageTells DEF WorkTyped
  <1>3. /\ locked' = [locked EXCEPT ![req[w].row] = w] /\ got' = [got EXCEPT ![w].default = d]
        /\ pc' = [pc EXCEPT ![w] = "scan"]
        /\ UNCHANGED <<method, config, payment, isDefault, req, todo, cleared, call, moved, used, sdk, arrived>>
    BY <1>0 DEF LockTarget, Aborts, Goto, tables
  <1>4. g \in Got /\ g.default \in BOOLEAN /\ got' = [got EXCEPT ![w] = g]
    <2>1. g \in Got /\ g.default \in BOOLEAN
      BY <1>2 DEF Got, Tri
    <2>2. got' = [got EXCEPT ![w] = g]
      BY <1>3
    <2>. QED
      BY <2>1, <2>2
  <1>5. locked' \in [Rows -> Workers \cup {None}]
    BY <1>1, <1>3 DEF WorkTyped
  <1>6. Advances(w)
    BY <1>1, <1>2, <1>3 DEF Advances, WorkTyped
  <1>7. HasRead(req[w], "scan", g)
    BY <1>2, <1>4, WalletAssumption DEF HasRead, Calling
  <1>8. "scan" \in StagesOf(req[w].op) /\ "scan" \in Stages
    BY <1>2 DEF StagesOf, Writing, Stages
  <1> HIDE DEF g
  <1>. QED
    BY <1>1, <1>3, <1>4, <1>5, <1>6, <1>7, <1>8, AdvanceShape DEF WorkTyped

\* The UPDATE of the other default: nothing new is read.
LEMMA ScanShape ==
  ASSUME ShapeInv, NEW w \in Workers, Scan(w) \/ Clear(w)
  PROVE  Advances(w) /\ WorkTyped' /\ Shape(w)'
  <1>1. WorkTyped /\ Shape(w) /\ pc[w] \in {"scan", "clear"}
    BY DEF ShapeInv, Scan, Clear
  <1>2. /\ req[w].op \in {"default", "save", "add", "patch"} /\ req[w] # None
        /\ HasRead(req[w], pc[w], got[w])
    BY <1>1, StageTells
  <1>3. /\ \E s \in {"clear", "write"} : pc' = [pc EXCEPT ![w] = s]
        /\ UNCHANGED <<method, config, payment, isDefault, req, call, moved, used, sdk, arrived, got>>
        /\ locked' \in [Rows -> Workers \cup {None}]
        /\ todo' \in [Workers -> SUBSET Rows] /\ cleared' \in [Workers -> SUBSET Rows]
    <2>1. CASE Scan(w)
      <3>1. DefaultsOf(req[w].who) \subseteq Rows
        BY DEF DefaultsOf, ShapeInv, TablesTyped, Rows
      <3>. QED
        BY <1>1, <2>1, <3>1 DEF Scan, Goto, tables, WorkTyped
    <2>2. CASE Clear(w)
      <3>1. pc[w] = "clear"
        BY <2>2 DEF Clear
      <3>2. pc' = [pc EXCEPT ![w] = "clear"] \/ pc' = [pc EXCEPT ![w] = "write"]
        BY <1>1, <2>2, <3>1 DEF Clear, Goto, WorkTyped
      <3>. QED
        BY <1>1, <2>2, <3>2 DEF Clear, Goto, tables, WorkTyped
    <2>. QED
      BY <2>1, <2>2
  <1>4. PICK s \in {"clear", "write"} : pc' = [pc EXCEPT ![w] = s]
    BY <1>3
  <1>5. s \in Stages /\ s \in StagesOf(req[w].op) /\ HasRead(req[w], s, got[w])
    BY <1>1, <1>2 DEF HasRead, StagesOf, Stages, Writing, Calling
  <1>6. got' = [got EXCEPT ![w] = got[w]] /\ got[w] \in Got
    BY <1>1, <1>3 DEF WorkTyped
  <1>7. Advances(w)
    BY <1>1, <1>2, <1>3, <1>4 DEF Advances, WorkTyped
  <1>. QED
    BY <1>1, <1>3, <1>4, <1>5, <1>6, <1>7, AdvanceShape DEF WorkTyped

\* A PATCH reads the whole row.
LEMMA ReadConfigShape ==
  ASSUME ShapeInv, NEW w \in Workers, ReadConfig(w)
  PROVE  Proceeds(w)
  <1> SUFFICES ASSUME ~Aborts(w) PROVE Advances(w) /\ WorkTyped' /\ Shape(w)'
    BY DEF Proceeds
  <1>0. PICK d \in BOOLEAN : d = (req[w].row \in isDefault)
    BY TruthValue
  <1> DEFINE c == req[w].row
             g == [got[w] EXCEPT !.seat = config[c].seat, !.active = config[c].active, !.default = d]
  <1>1. WorkTyped /\ TablesTyped /\ Shape(w) /\ pc[w] = "read" /\ req[w].op = "patch"
    BY DEF ShapeInv, ReadConfig
  <1>2. req[w] # None /\ c \in Configs /\ got[w] \in Got
    BY <1>1, StageTells DEF WorkTyped, Asked
  <1>3. /\ got' = [got EXCEPT ![w].seat = config[c].seat, ![w].active = config[c].active, ![w].default = d]
        /\ pc' = [pc EXCEPT ![w] = "scan"] /\ config[c] # None
        /\ UNCHANGED <<method, config, payment, isDefault, req, todo, cleared, call, moved, used, sdk, arrived, locked>>
    BY <1>0 DEF ReadConfig, Aborts, Goto, tables
  <1>4. config[c].seat \in Seats /\ config[c].active \in BOOLEAN
    BY <1>1, <1>2, <1>3 DEF TablesTyped, ConfigRow
  <1>5. g \in Got /\ g.default = d /\ g.seat = config[c].seat /\ g.active = config[c].active
    BY <1>2, <1>4 DEF Got, Tri
  <1>6. got' = [got EXCEPT ![w] = g]
    BY <1>1, <1>3 DEF WorkTyped
  <1>7. Advances(w)
    BY <1>1, <1>2, <1>3 DEF Advances, WorkTyped
  <1>8. HasRead(req[w], "scan", g)
    BY <1>1, <1>4, <1>5, WalletAssumption DEF HasRead, Calling
  <1>9. "scan" \in StagesOf(req[w].op) /\ "scan" \in Stages
    BY <1>1 DEF StagesOf, Writing, Stages
  <1> HIDE DEF g
  <1>. QED
    BY <1>1, <1>3, <1>5, <1>6, <1>7, <1>8, <1>9, AdvanceShape DEF WorkTyped

\* A DELETE reads what it would leave without a row.
LEMMA CollectShape ==
  ASSUME ShapeInv, NEW w \in Workers, CollectConfig(w)
  PROVE  Proceeds(w)
  <1> SUFFICES ASSUME ~Aborts(w) PROVE Advances(w) /\ WorkTyped' /\ Shape(w)'
    BY DEF Proceeds
  <1>1. WorkTyped /\ Shape(w) /\ pc[w] = "read" /\ req[w].op = "drop"
    BY DEF ShapeInv, CollectConfig
  <1>2. req[w] # None /\ got[w] \in Got
    BY <1>1, StageTells DEF WorkTyped
  <1>3. /\ pc' = [pc EXCEPT ![w] = "write"]
        /\ UNCHANGED <<method, config, payment, isDefault, req, got, todo, cleared, call, moved, used, sdk, arrived, locked>>
    BY DEF CollectConfig, Aborts, Goto, tables
  <1>4. Advances(w) /\ got' = [got EXCEPT ![w] = got[w]]
    BY <1>1, <1>2, <1>3 DEF Advances, WorkTyped
  <1>5. HasRead(req[w], "write", got[w]) /\ "write" \in StagesOf(req[w].op) /\ "write" \in Stages
    BY <1>1 DEF HasRead, Calling, StagesOf, Writing, Stages
  <1>. QED
    BY <1>1, <1>2, <1>3, <1>4, <1>5, AdvanceShape DEF WorkTyped

\* A charge reads its method and the configuration the method names.
LEMMA ReadMethodShape ==
  ASSUME ShapeInv, NEW w \in Workers, ReadMethod(w)
  PROVE  Proceeds(w)
  <1> SUFFICES ASSUME ~Aborts(w) PROVE Advances(w) /\ WorkTyped' /\ Shape(w)'
    BY DEF Proceeds
  <1> DEFINE m == req[w].row
             c == method[m].config
             g == [got[w] EXCEPT !.seat = config[c].seat, !.of = c, !.token = method[m].token,
                                 !.next = "authorize"]
  <1>1. WorkTyped /\ TablesTyped /\ References /\ Shape(w) /\ pc[w] = "read" /\ req[w].op = "charge"
    BY DEF ShapeInv, ReadMethod
  <1>2. req[w] # None /\ m \in Methods /\ got[w] \in Got /\ got[w] = got[w]
    BY <1>1, StageTells DEF WorkTyped, Asked
  <1>3. /\ got' = [got EXCEPT ![w].seat = config[c].seat, ![w].of = c, ![w].token = method[m].token,
                              ![w].next = "authorize"]
        /\ pc' = [pc EXCEPT ![w] = "resolve"] /\ method[m] # None /\ c # None
        /\ UNCHANGED <<method, config, payment, isDefault, req, todo, cleared, call, moved, used, sdk, arrived, locked>>
    BY DEF ReadMethod, Aborts, Goto, tables
  <1>4. c \in Configs /\ config[c].seat \in Seats /\ method[m].token \in Seats
    <2>1. c \in Configs /\ method[m].token \in Seats \cup {None}
      BY <1>1, <1>2, <1>3 DEF TablesTyped, MethodRow
    <2>2. config[c] # None /\ method[m].token # None
      BY <1>1, <1>2, <1>3 DEF References
    <2>. QED
      BY <1>1, <2>1, <2>2 DEF TablesTyped, ConfigRow
  <1>5. /\ g \in Got /\ g.seat = config[c].seat /\ g.of = c /\ g.token = method[m].token
        /\ g.next = "authorize"
    BY <1>2, <1>4 DEF Got, Calls
  <1>6. got' = [got EXCEPT ![w] = g]
    BY <1>1, <1>3 DEF WorkTyped
  <1>7. Advances(w)
    BY <1>1, <1>2, <1>3 DEF Advances, WorkTyped
  <1>8. HasRead(req[w], "resolve", g)
    BY <1>1, <1>4, <1>5, WalletAssumption DEF HasRead, Calling, Rows
  <1>9. "resolve" \in StagesOf(req[w].op) /\ "resolve" \in Stages
    BY <1>1 DEF StagesOf, Stages
  <1> HIDE DEF g
  <1>. QED
    BY <1>1, <1>3, <1>5, <1>6, <1>7, <1>8, <1>9, AdvanceShape DEF WorkTyped

\* resolve_gateway_config picks a configuration of that name.
LEMMA ResolveShape ==
  ASSUME ShapeInv, NEW w \in Workers, Resolve(w)
  PROVE  Proceeds(w)
  <1> SUFFICES ASSUME ~Aborts(w) PROVE Advances(w) /\ WorkTyped' /\ Shape(w)'
    BY DEF Proceeds
  <1>1. WorkTyped /\ TablesTyped /\ Shape(w) /\ pc[w] = "resolve"
    BY DEF ShapeInv, Resolve
  <1>2. /\ req[w].op \in {"save", "charge"} /\ req[w] # None /\ HasRead(req[w], "resolve", got[w])
        /\ got[w] \in Got
    BY <1>1, StageTells DEF WorkTyped
  <1>3. PICK c \in Configs :
          /\ got' = [got EXCEPT ![w].config = c, ![w].seat = config[c].seat] /\ config[c] # None
          /\ pc' = [pc EXCEPT ![w] = IF req[w].op = "save" THEN "scan" ELSE "aim"]
          /\ UNCHANGED <<method, config, payment, isDefault, req, todo, cleared, call, moved, used, sdk, arrived, locked>>
    BY DEF Resolve, Aborts, Goto, tables, Named
  <1> DEFINE g == [got[w] EXCEPT !.config = c, !.seat = config[c].seat]
             s == IF req[w].op = "save" THEN "scan" ELSE "aim"
  <1>0. config[c].seat \in Seats
    BY <1>1, <1>3 DEF TablesTyped, ConfigRow
  <1>4. g \in Got /\ g.config = c /\ got' = [got EXCEPT ![w] = g]
    BY <1>0, <1>1, <1>2, <1>3 DEF Got, WorkTyped
  <1>5. g.seat = config[c].seat /\ g.of = got[w].of /\ g.token = got[w].token /\ g.next = got[w].next
    BY <1>2 DEF Got
  <1>6. Advances(w)
    BY <1>1, <1>2, <1>3 DEF Advances, WorkTyped
  <1>7. HasRead(req[w], s, g)
    BY <1>0, <1>2, <1>3, <1>4, <1>5, WalletAssumption DEF HasRead, Calling, Writing, Rows
  <1>8. s \in StagesOf(req[w].op) /\ s \in Stages
    BY <1>2 DEF StagesOf, Stages, Writing, Calling
  <1>9. pc' = [pc EXCEPT ![w] = s]
    BY <1>3
  <1> HIDE DEF g, s
  <1>. QED
    BY <1>1, <1>3, <1>4, <1>6, <1>7, <1>8, <1>9, AdvanceShape DEF WorkTyped

\* The sweep reads the payment and its configuration.
LEMMA ReadPaymentShape ==
  ASSUME ShapeInv, NEW w \in Workers, ReadPayment(w)
  PROVE  Proceeds(w)
  <1> SUFFICES ASSUME ~Aborts(w) PROVE Advances(w) /\ WorkTyped' /\ Shape(w)'
    BY DEF Proceeds
  <1> DEFINE p == payment[req[w].row]
             c == p.config
             g == [got[w] EXCEPT !.seat = config[c].seat, !.config = c, !.of = c, !.token = p.at,
                                 !.next = "retrieve"]
  <1>1. WorkTyped /\ TablesTyped /\ References /\ Shape(w) /\ pc[w] = "read" /\ req[w].op = "retrieve"
    BY DEF ShapeInv, ReadPayment
  <1>2. req[w] # None /\ req[w].row \in Payments /\ got[w] \in Got
    BY <1>1, StageTells DEF WorkTyped, Asked
  <1>3. /\ got' = [got EXCEPT ![w].seat = config[c].seat, ![w].config = c, ![w].of = c,
                              ![w].token = p.at, ![w].next = "retrieve"]
        /\ pc' = [pc EXCEPT ![w] = "aim"]
        /\ UNCHANGED <<method, config, payment, isDefault, req, todo, cleared, call, moved, used, sdk, arrived, locked>>
    BY DEF ReadPayment, Aborts, Goto, tables
  <1>4. c \in Configs /\ config[c].seat \in Seats /\ p.at \in Seats
    <2>1. p # None
      BY <1>1, <1>2 DEF References
    <2>2. c \in Configs /\ p.at \in Seats
      BY <1>1, <1>2, <2>1 DEF TablesTyped, PaymentRow
    <2>3. config[c] # None
      BY <1>1, <1>2, <2>1 DEF References
    <2>. QED
      BY <1>1, <2>2, <2>3 DEF TablesTyped, ConfigRow
  <1>5. /\ g \in Got /\ g.seat = config[c].seat /\ g.config = c /\ g.of = c /\ g.token = p.at
        /\ g.next = "retrieve"
    BY <1>2, <1>4 DEF Got, Calls
  <1>6. got' = [got EXCEPT ![w] = g]
    BY <1>1, <1>3 DEF WorkTyped
  <1>7. Advances(w)
    BY <1>1, <1>2, <1>3 DEF Advances, WorkTyped
  <1>8. HasRead(req[w], "aim", g)
    BY <1>1, <1>4, <1>5, WalletAssumption DEF HasRead, Rows
  <1>9. "aim" \in StagesOf(req[w].op) /\ "aim" \in Stages
    BY <1>1 DEF StagesOf, Stages
  <1> HIDE DEF g
  <1>. QED
    BY <1>1, <1>3, <1>5, <1>6, <1>7, <1>8, <1>9, AdvanceShape DEF WorkTyped

\* The adapter points its SDK at its host, then calls.
LEMMA AimShape ==
  ASSUME ShapeInv, NEW w \in Workers, Aim(w) \/ CallGateway(w)
  PROVE  Advances(w) /\ WorkTyped' /\ Shape(w)'
  <1>1. WorkTyped /\ Shape(w) /\ pc[w] \in {"aim", "call"}
    BY DEF ShapeInv, Aim, CallGateway
  <1>2. /\ req[w].op \in {"charge", "retrieve"} /\ req[w] # None
        /\ HasRead(req[w], pc[w], got[w]) /\ got[w] \in Got
    BY <1>1, StageTells DEF WorkTyped
  <1>3. /\ got[w].seat \in Seats /\ got[w].token \in Seats /\ got[w].of \in Configs
        /\ got[w].next \in Calls
    BY <1>1, <1>2 DEF HasRead, Calling, Got, Calls
  <1>4. \A name \in Names : Host(name) \in Hosts \cup {None}
    BY DEF Host, Names, Hosts
  <1>5. PICK s \in {"call", "result"} : pc' = [pc EXCEPT ![w] = s]
    BY DEF Aim, CallGateway, Goto
  <1>6. /\ UNCHANGED <<method, config, payment, isDefault, req, got, todo, cleared, moved, used, arrived, locked>>
        /\ sdk' \in [Processes -> Hosts] /\ call' \in [Workers -> Made \cup {None}]
    <2>1. CASE Aim(w)
      <3>1. Host(got[w].seat.name) \in Hosts \cup {None}
        BY <1>3, <1>4 DEF Seats
      <3>. QED
        BY <1>1, <3>1, <2>1 DEF Aim, tables, WorkTyped
    <2>2. CASE CallGateway(w)
      <3>1. sdk[Process[w]] \in Hosts
        BY <1>1, WalletAssumption DEF WorkTyped
      <3>2. [op |-> got[w].next, seat |-> got[w].seat, token |-> got[w].token, of |-> got[w].of,
             host |-> IF Host(got[w].seat.name) = None THEN None ELSE sdk[Process[w]]] \in Made
        BY <1>3, <3>1 DEF Made
      <3>. QED
        BY <1>1, <2>2, <3>2 DEF CallGateway, tables, WorkTyped
    <2>. QED
      BY <2>1, <2>2
  <1>7. Advances(w) /\ got' = [got EXCEPT ![w] = got[w]]
    BY <1>1, <1>2, <1>5, <1>6 DEF Advances, WorkTyped
  <1>8. HasRead(req[w], s, got[w]) /\ s \in StagesOf(req[w].op) /\ s \in Stages
    BY <1>1, <1>2 DEF HasRead, Calling, StagesOf, Writing, Stages
  <1>. QED
    BY <1>1, <1>2, <1>5, <1>6, <1>7, <1>8, AdvanceShape DEF WorkTyped

\* An authorised payment is the gateway's that made it.
LEMMA AuthorizedShape ==
  ASSUME ShapeInv, NEW w \in Workers, Authorized(w)
  PROVE  Proceeds(w)
  <1> SUFFICES ASSUME ~Aborts(w) PROVE Advances(w) /\ WorkTyped' /\ Shape(w)'
    BY DEF Proceeds
  <1> DEFINE g == [got[w] EXCEPT !.token = got[w].seat, !.of = got[w].config]
  <1>1. WorkTyped /\ Shape(w) /\ pc[w] = "result" /\ got[w].next = "authorize"
    BY DEF ShapeInv, Authorized
  <1>2. /\ req[w].op \in {"charge", "retrieve"} /\ req[w] # None
        /\ HasRead(req[w], "result", got[w]) /\ got[w] \in Got
    BY <1>1, StageTells DEF WorkTyped
  <1>3. /\ got' = [got EXCEPT ![w].token = got[w].seat, ![w].of = got[w].config]
        /\ pc' = [pc EXCEPT ![w] = "reread"]
        /\ UNCHANGED <<method, config, payment, isDefault, req, todo, cleared, call, moved, used, sdk, arrived, locked>>
    BY DEF Authorized, Aborts, Goto, tables
  <1>4. req[w].op = "charge" /\ got[w].seat \in Seats /\ got[w].config \in Configs
    BY <1>1, <1>2 DEF HasRead, Calling, Got
  <1>5. /\ g \in Got /\ g.token = got[w].seat /\ g.of = got[w].config /\ g.seat = got[w].seat
        /\ g.config = got[w].config /\ g.next = "authorize"
    BY <1>1, <1>2, <1>4 DEF Got
  <1>6. got' = [got EXCEPT ![w] = g]
    BY <1>1, <1>3 DEF WorkTyped
  <1>7. Advances(w)
    BY <1>1, <1>2, <1>3 DEF Advances, WorkTyped
  <1>8. HasRead(req[w], "reread", g)
    BY <1>4, <1>5, WalletAssumption DEF HasRead, Rows, Calling, Writing
  <1>9. "reread" \in StagesOf(req[w].op) /\ "reread" \in Stages
    BY <1>4 DEF StagesOf, Stages, Calling
  <1> HIDE DEF g
  <1>. QED
    BY <1>1, <1>3, <1>5, <1>6, <1>7, <1>8, <1>9, AdvanceShape DEF WorkTyped

\* capture_payment asks the adapter its configuration names now.
LEMMA RereadShape ==
  ASSUME ShapeInv, NEW w \in Workers, Reread(w)
  PROVE  Proceeds(w)
  <1> SUFFICES ASSUME ~Aborts(w) PROVE Advances(w) /\ WorkTyped' /\ Shape(w)'
    BY DEF Proceeds
  <1> DEFINE c == got[w].config
             g == [got[w] EXCEPT !.seat = config[c].seat, !.next = "capture"]
  <1>1. WorkTyped /\ TablesTyped /\ Shape(w) /\ pc[w] = "reread"
    BY DEF ShapeInv, Reread
  <1>2. /\ req[w].op = "charge" /\ req[w] # None
        /\ HasRead(req[w], "reread", got[w]) /\ got[w] \in Got
    BY <1>1, StageTells DEF WorkTyped
  <1>3. /\ got' = [got EXCEPT ![w].seat = config[c].seat, ![w].next = "capture"]
        /\ pc' = [pc EXCEPT ![w] = "aim"] /\ config[c] # None
        /\ UNCHANGED <<method, config, payment, isDefault, req, todo, cleared, call, moved, used, sdk, arrived, locked>>
    BY DEF Reread, Aborts, Goto, tables
  <1>4. c \in Configs /\ config[c].seat \in Seats
    <2>1. c \in Configs
      BY <1>2 DEF HasRead, Calling, Got
    <2>. QED
      BY <1>1, <1>3, <2>1 DEF TablesTyped, ConfigRow
  <1>5. /\ g \in Got /\ g.seat = config[c].seat /\ g.next = "capture" /\ g.of = got[w].of
        /\ g.token = got[w].token /\ g.config = c
    BY <1>2, <1>4 DEF Got, Calls
  <1>6. got' = [got EXCEPT ![w] = g]
    BY <1>1, <1>3 DEF WorkTyped
  <1>7. Advances(w)
    BY <1>1, <1>2, <1>3 DEF Advances, WorkTyped
  <1>8. HasRead(req[w], "aim", g)
    BY <1>2, <1>4, <1>5, WalletAssumption DEF HasRead, Rows, Calling, Writing
  <1>9. "aim" \in StagesOf(req[w].op) /\ "aim" \in Stages
    BY <1>2 DEF StagesOf, Stages, Calling
  <1> HIDE DEF g
  <1>. QED
    BY <1>1, <1>3, <1>5, <1>6, <1>7, <1>8, <1>9, AdvanceShape DEF WorkTyped

\* The answer's commit, with the tables as their constraints want them.
Ends(w) == End(w) /\ UNCHANGED <<used, sdk, arrived>> /\ TablesTyped' /\ References'

\* The sweep's payments stay.
PaymentsStay == \A p \in Payments : payment[p] # None => payment'[p] # None

\* Requests of the sweep keep their payment.
LEMMA RetrieveKept ==
  ASSUME ShapeInv, NEW w \in Workers, End(w), UNCHANGED <<used, sdk, arrived>>, PaymentsStay
  PROVE  \A v \in Workers : req'[v] # None /\ req'[v].op = "retrieve" => payment'[req'[v].row] # None
  <1>1. req'[w] = None /\ Alone(w)
    BY EndShape DEF ShapeInv
  <1>2. ASSUME NEW v \in Workers \ {w}, req[v] # None, req[v].op = "retrieve"
        PROVE  payment'[req[v].row] # None
    <2>1. req[v].row \in Payments /\ payment[req[v].row] # None
      BY <1>2 DEF ShapeInv, Shape, Asked, References
    <2>. QED
      BY <2>1 DEF PaymentsStay
  <1>. QED
    BY <1>1, <1>2 DEF Alone

\* A new method refers to a configuration that is there, or to none.
LEMMA InsertMethodShape ==
  ASSUME ShapeInv, NEW w \in Workers, InsertMethod(w)
  PROVE  Aborts(w) \/ Ends(w)
  <1> SUFFICES ASSUME ~Aborts(w) PROVE Ends(w)
    OBVIOUS
  <1> DEFINE m == req[w].row
             row == [who |-> req[w].who, config |-> got[w].config, token |-> got[w].seat]
  <1>1. WorkTyped /\ TablesTyped /\ References /\ Shape(w) /\ pc[w] = "write" /\ req[w].op = "save"
    BY DEF ShapeInv, InsertMethod
  <1>2. /\ Asked(req[w]) /\ HasRead(req[w], "write", got[w]) /\ got[w] \in Got
    BY <1>1, StageTells DEF WorkTyped
  <1>3. /\ End(w) /\ UNCHANGED <<used, sdk, arrived, config, payment, moved>>
        /\ method' = [method EXCEPT ![m] = row]
        /\ isDefault' \subseteq isDefault \cup {m}
        /\ got[w].config # None => config[got[w].config] # None
    BY DEF InsertMethod, Aborts, CommitsOrFails, Commits
  <1>4. m \in Methods /\ row \in MethodRow /\ row.config = got[w].config /\ row.token = got[w].seat
    BY <1>1, <1>2 DEF Asked, Request, MethodRow, Got
  <1>5. row # None
    BY <1>4, WalletAssumption
  <1> HIDE DEF row
  <1>6. TablesTyped'
    BY <1>1, <1>3, <1>4, <1>5 DEF TablesTyped
  <1>7. got[w].config # None => got[w].seat # None
    BY <1>1, <1>2 DEF HasRead, Writing
  <1>8. References'
    <2>1. ASSUME NEW k \in Methods, method'[k] # None, method'[k].config # None
          PROVE  config'[method'[k].config] # None /\ method'[k].token # None
      <3>1. CASE k = m
        BY <1>1, <1>3, <1>4, <1>7, <2>1, <3>1 DEF TablesTyped
      <3>2. CASE k # m
        BY <1>1, <1>3, <2>1, <3>2 DEF References, TablesTyped
      <3>. QED
        BY <3>1, <3>2
    <2>2. \A v \in Workers : req'[v] # None /\ req'[v].op = "retrieve" => payment'[req'[v].row] # None
      BY <1>3, RetrieveKept DEF PaymentsStay
    <2>. QED
      BY <1>1, <1>3, <2>1, <2>2 DEF References
  <1>. QED
    BY <1>3, <1>6, <1>8 DEF Ends

\* Only a method that is there becomes the default.
LEMMA SetDefaultShape ==
  ASSUME ShapeInv, NEW w \in Workers, SetDefault(w)
  PROVE  Aborts(w) \/ Ends(w)
  <1> SUFFICES ASSUME ~Aborts(w) PROVE Ends(w)
    OBVIOUS
  <1>1. WorkTyped /\ TablesTyped /\ References /\ Shape(w) /\ pc[w] = "write" /\ req[w].op = "default"
    BY DEF ShapeInv, SetDefault
  <1>2. Asked(req[w]) /\ req[w].row \in Methods
    BY <1>1, StageTells DEF Asked
  <1>3. /\ End(w) /\ UNCHANGED <<used, sdk, arrived, method, config, payment, moved>>
        /\ \/ isDefault' \subseteq isDefault
           \/ isDefault' \subseteq isDefault \cup {req[w].row} /\ method[req[w].row] # None
    BY DEF SetDefault, Aborts, CommitsOrFails, Commits
  <1>4. TablesTyped'
    BY <1>1, <1>2, <1>3 DEF TablesTyped
  <1>5. References'
    BY <1>1, <1>3, RetrieveKept DEF References, PaymentsStay
  <1>. QED
    BY <1>3, <1>4, <1>5 DEF Ends

\* A method goes, and is no default any more.
LEMMA DeleteMethodShape ==
  ASSUME ShapeInv, NEW w \in Workers, DeleteMethod(w)
  PROVE  Aborts(w) \/ Ends(w)
  <1> SUFFICES ASSUME ~Aborts(w) PROVE Ends(w)
    OBVIOUS
  <1> DEFINE m == req[w].row
  <1>1. WorkTyped /\ TablesTyped /\ References /\ Shape(w) /\ pc[w] = "write" /\ req[w].op = "delete"
    BY DEF ShapeInv, DeleteMethod
  <1>2. m \in Methods
    BY <1>1, StageTells DEF Asked
  <1>3. /\ End(w) /\ UNCHANGED <<used, sdk, arrived, config, payment, moved>>
        /\ isDefault' = isDefault \ {m} /\ method' = [method EXCEPT ![m] = None]
    BY DEF DeleteMethod, Aborts
  <1>4. /\ method'[m] = None /\ \A k \in Methods \ {m} : method'[k] = method[k]
        /\ method' \in [Methods -> MethodRow \cup {None}]
    BY <1>1, <1>2, <1>3 DEF TablesTyped
  <1>5. TablesTyped'
    BY <1>1, <1>2, <1>3, <1>4 DEF TablesTyped
  <1>6. References'
    BY <1>1, <1>3, <1>4, RetrieveKept DEF References, PaymentsStay
  <1>. QED
    BY <1>3, <1>5, <1>6 DEF Ends

\* A configuration is written: references to it hold.
LEMMA ConfigWritten ==
  ASSUME ShapeInv, NEW w \in Workers, NEW c \in Configs, NEW row \in ConfigRow,
         End(w), UNCHANGED <<used, sdk, arrived, method, payment>>,
         isDefault' \subseteq isDefault \cup {c}, config' = [config EXCEPT ![c] = row],
         moved' \subseteq Configs
  PROVE  Ends(w)
  <1>1. TablesTyped /\ References
    BY DEF ShapeInv
  <1>2. row # None
    BY WalletAssumption
  <1>3. TablesTyped'
    BY <1>1, <1>2 DEF TablesTyped
  <1>4. \A d \in Configs : config[d] # None => config'[d] # None
    BY <1>1, <1>2 DEF TablesTyped
  <1>5. /\ \A m \in Methods : method[m] # None /\ method[m].config # None => method[m].config \in Configs
        /\ \A p \in Payments : payment[p] # None => payment[p].config \in Configs
    BY <1>1 DEF TablesTyped, MethodRow, PaymentRow
  <1>6. References'
    BY <1>1, <1>4, <1>5, RetrieveKept DEF References, PaymentsStay
  <1>. QED
    BY <1>3, <1>6 DEF Ends

\* A new configuration.
LEMMA InsertConfigShape ==
  ASSUME ShapeInv, NEW w \in Workers, InsertConfig(w)
  PROVE  Aborts(w) \/ Ends(w)
  <1> SUFFICES ASSUME ~Aborts(w) PROVE Ends(w)
    OBVIOUS
  <1> DEFINE row == [seat |-> Posted(req[w]), active |-> req[w].active]
  <1>1. Shape(w) /\ pc[w] = "write" /\ req[w].op = "add"
    BY DEF ShapeInv, InsertConfig
  <1>2. /\ req[w].row \in Configs /\ req[w].gateway \in Names
        /\ req[w].account \in Merchants /\ req[w].active \in BOOLEAN
    BY <1>1, StageTells DEF Asked, Request, Tri
  <1>3. row \in ConfigRow
    BY <1>2 DEF ConfigRow, Seats, Posted
  <1>4. /\ End(w) /\ UNCHANGED <<used, sdk, arrived, method, payment, moved>>
        /\ config' = [config EXCEPT ![req[w].row] = row]
        /\ isDefault' \subseteq isDefault \cup {req[w].row}
    BY DEF InsertConfig, Aborts, CommitsOrFails, Commits
  <1> HIDE DEF row
  <1>. QED
    BY <1>2, <1>3, <1>4, ConfigWritten DEF ShapeInv, TablesTyped

\* A PATCH saves what it has read, or the body in place of it.
LEMMA SaveConfigShape ==
  ASSUME ShapeInv, NEW w \in Workers, SaveConfig(w)
  PROVE  Aborts(w) \/ Ends(w)
  <1> SUFFICES ASSUME ~Aborts(w) PROVE Ends(w)
    OBVIOUS
  <1> DEFINE seat == Patched(req[w], got[w].seat)
             active == Sent(req[w].active, got[w].active)
             row == [seat |-> seat, active |-> active]
  <1>1. WorkTyped /\ Shape(w) /\ pc[w] = "write" /\ req[w].op = "patch"
    BY DEF ShapeInv, SaveConfig
  <1>2. Asked(req[w]) /\ HasRead(req[w], "write", got[w]) /\ got[w] \in Got
    BY <1>1, StageTells DEF WorkTyped
  <1>0. /\ req[w].row \in Configs /\ got[w].seat \in Seats /\ got[w].active \in BOOLEAN
        /\ req[w].gateway \in Names \cup {None} /\ req[w].account \in Merchants \cup {None}
        /\ req[w].active \in Tri
    BY <1>1, <1>2 DEF Asked, Request, HasRead, Writing, Got, Tri
  <1>3. req[w].row \in Configs /\ seat \in Seats /\ active \in BOOLEAN
    BY <1>0 DEF Seats, Patched, Sent, Tri
  <1>4. row \in ConfigRow
    BY <1>3 DEF ConfigRow
  <1>5. /\ End(w) /\ UNCHANGED <<used, sdk, arrived, method, payment>>
        /\ config' = [config EXCEPT ![req[w].row] = row]
        /\ isDefault' \subseteq isDefault \cup {req[w].row}
        /\ moved' \subseteq moved \cup {req[w].row}
    BY DEF SaveConfig, Aborts, CommitsOrFails, Commits
  <1> HIDE DEF row
  <1>. QED
    BY <1>3, <1>4, <1>5, ConfigWritten DEF ShapeInv, TablesTyped

\* A configuration goes when nothing refers to it.
LEMMA DeleteConfigShape ==
  ASSUME ShapeInv, NEW w \in Workers, DeleteConfig(w)
  PROVE  Aborts(w) \/ Ends(w)
  <1> SUFFICES ASSUME ~Aborts(w) PROVE Ends(w)
    OBVIOUS
  <1> DEFINE c == req[w].row
  <1>1. WorkTyped /\ TablesTyped /\ References /\ Shape(w) /\ pc[w] = "write" /\ req[w].op = "drop"
    BY DEF ShapeInv, DeleteConfig
  <1>2. c \in Configs
    BY <1>1, StageTells DEF Asked
  <1>3. /\ End(w) /\ UNCHANGED <<used, sdk, arrived, method, payment>> /\ ~Referenced(c)
        /\ moved' = moved \cup {c}
        /\ isDefault' = isDefault \ {c} /\ config' = [config EXCEPT ![c] = None]
    BY DEF DeleteConfig, Aborts
  <1>4. /\ config'[c] = None /\ \A d \in Configs \ {c} : config'[d] = config[d]
        /\ config' \in [Configs -> ConfigRow \cup {None}]
    BY <1>1, <1>2, <1>3 DEF TablesTyped
  <1>5. TablesTyped'
    BY <1>1, <1>2, <1>3, <1>4, WalletAssumption DEF TablesTyped
  <1>6. /\ \A m \in Methods : method[m] # None /\ method[m].config # None => method[m].config \in Configs \ {c}
        /\ \A p \in Payments : payment[p] # None => payment[p].config \in Configs \ {c}
    BY <1>1, <1>3 DEF TablesTyped, MethodRow, PaymentRow, Referenced
  <1>7. References'
    BY <1>1, <1>3, <1>4, <1>6, RetrieveKept DEF References, PaymentsStay
  <1>. QED
    BY <1>3, <1>5, <1>7 DEF Ends

\* A payment refers to a configuration that is there, and keeps it.
LEMMA PayShape ==
  ASSUME ShapeInv, NEW w \in Workers, Waits(w) \/ Captured(w) \/ Retrieved(w)
  PROVE  Aborts(w) \/ Ends(w)
  <1> SUFFICES ASSUME ~Aborts(w) PROVE Ends(w)
    OBVIOUS
  <1>1. /\ WorkTyped /\ TablesTyped /\ References /\ Shape(w) /\ pc[w] \in {"reread", "result"}
        /\ Retrieved(w) \/ Captured(w) => pc[w] = "result"
    BY DEF ShapeInv, Waits, Captured, Retrieved
  <1>2. Asked(req[w]) /\ HasRead(req[w], pc[w], got[w]) /\ got[w] \in Got
        /\ req[w].op \in {"charge", "retrieve"}
    BY <1>1, StageTells DEF WorkTyped
  <1>3. /\ End(w) /\ UNCHANGED <<used, sdk, arrived, method, config, isDefault, moved>>
    BY DEF Waits, Captured, Retrieved, Aborts, Pay
  <1>4. CASE \E state \in {"pending", "captured"} : Pay(w, state)
    <2>1. PICK p \in Payments, state \in {"pending", "captured"} :
            /\ config[got[w].config] # None
            /\ payment' = [payment EXCEPT ![p] = [config |-> got[w].config, at |-> got[w].token,
                                                  status |-> state]]
      BY <1>3, <1>4 DEF Pay, Aborts
    <2> DEFINE row == [config |-> got[w].config, at |-> got[w].token, status |-> state]
    <2>2. row \in PaymentRow /\ row.config = got[w].config
      BY <1>1, <1>2 DEF HasRead, Calling, Got, PaymentRow
    <2>3. row # None
      BY <2>2, WalletAssumption
    <2>4. payment' = [payment EXCEPT ![p] = row]
      BY <2>1
    <2> HIDE DEF row
    <2>5. TablesTyped'
      BY <1>1, <1>3, <2>2, <2>4 DEF TablesTyped
    <2>6. payment'[p] = row /\ \A q \in Payments \ {p} : payment'[q] = payment[q]
      BY <1>1, <2>4 DEF TablesTyped
    <2>7. PaymentsStay
      BY <2>3, <2>6 DEF PaymentsStay
    <2>8. References'
      BY <1>1, <1>3, <2>1, <2>2, <2>6, <2>7, RetrieveKept DEF References
    <2>. QED
      BY <1>3, <2>5, <2>8 DEF Ends
  <1>5. CASE Retrieved(w) /\ ~Abort(w)
    <2>1. got[w].next = "retrieve" /\ payment' = [payment EXCEPT ![req[w].row].status = "captured"]
      BY <1>5 DEF Retrieved
    <2>2. req[w].op = "retrieve" /\ req[w].row \in Payments /\ req[w] # None
      BY <1>1, <1>2, <1>5, <2>1, StageTells DEF HasRead, Calling, Asked
    <2>3. payment[req[w].row] # None /\ payment[req[w].row] \in PaymentRow
      BY <1>1, <2>2 DEF References, TablesTyped
    <2> DEFINE row == [payment[req[w].row] EXCEPT !.status = "captured"]
    <2>4. row \in PaymentRow /\ row.config = payment[req[w].row].config
      BY <2>3 DEF PaymentRow
    <2>5. row # None
      BY <2>4, WalletAssumption
    <2>6. payment' = [payment EXCEPT ![req[w].row] = row]
      BY <2>1
    <2> HIDE DEF row
    <2>7. TablesTyped'
      BY <1>1, <1>3, <2>2, <2>4, <2>6 DEF TablesTyped
    <2>8. payment'[req[w].row] = row /\ \A q \in Payments \ {req[w].row} : payment'[q] = payment[q]
      BY <1>1, <2>2, <2>6 DEF TablesTyped
    <2>9. PaymentsStay
      BY <2>5, <2>8 DEF PaymentsStay
    <2>10. References'
      BY <1>1, <1>3, <2>2, <2>3, <2>4, <2>8, <2>9, RetrieveKept DEF References
    <2>. QED
      BY <1>3, <2>7, <2>10 DEF Ends
  <1>. QED
    BY <1>4, <1>5 DEF Waits, Captured, Retrieved, Aborts

-----------------------------------------------------------------------------
(* Types: every step. *)

\* A request r comes to w: a new row gets an id of its own, another is known.
Arrives(w, r) ==
  /\ Start(w, r) /\ Asked(r)
  /\ IF r.op \in {"save", "add"} THEN r.row \notin used /\ used' = used \cup {r.row}
     ELSE used' = used
  /\ r.op \notin {"save", "add", "retrieve"} => r.row \in used
  /\ r.op = "retrieve" => payment[r.row] # None

\* Every request is one the endpoints take.
LEMMA Arrivals ==
  ASSUME ShapeInv, NEW w \in Workers, Starting(w)
  PROVE  \E r : Arrives(w, r) /\ used' \subseteq Rows
  <1>1. used \subseteq Rows /\ used \cap Methods \subseteq Rows /\ used \cap Configs \subseteq Rows
    BY DEF ShapeInv, WorkTyped
  <1>2. CASE StartSave(w)
    <2>1. PICK m \in Methods \ used, c \in Customers, g \in Offered \cup {None}, given \in BOOLEAN,
               d \in BOOLEAN :
            /\ Start(w, [Body("save", m) EXCEPT !.who = c, !.gateway = g, !.token = given, !.default = d])
            /\ used' = used \cup {m}
      BY <1>2 DEF StartSave
    <2> DEFINE r == [Body("save", m) EXCEPT !.who = c, !.gateway = g, !.token = given, !.default = d]
    <2>2. Body("save", m) \in Request /\ Body("save", m).op = "save" /\ Body("save", m).row = m
      BY BodyIsRequest DEF Ops, Rows
    <2>3. r \in Request /\ r.op = "save" /\ r.row = m /\ r.who = c /\ r.default = d
      BY <2>2, WalletAssumption DEF Request, Tri
    <2>4. Asked(r)
      BY <2>3, WalletAssumption DEF Asked
    <2>5. Arrives(w, r)
      BY <2>1, <2>4, <2>3 DEF Arrives
    <2>. QED
      BY <1>1, <2>1, <2>5 DEF Rows
  <1>3. CASE StartOnMethod(w)
    <2>1. PICK kind \in {"default", "delete", "charge"}, m \in used \cap Methods, c \in Customers :
            /\ Start(w, [Body(kind, m) EXCEPT !.who = c, !.default = IF kind = "default" THEN TRUE ELSE None])
            /\ UNCHANGED used
      BY <1>3 DEF StartOnMethod
    <2> DEFINE d == IF kind = "default" THEN TRUE ELSE None
               r == [Body(kind, m) EXCEPT !.who = c, !.default = d]
    <2>2. Body(kind, m) \in Request /\ Body(kind, m).op = kind /\ Body(kind, m).row = m
      BY BodyIsRequest DEF Ops, Rows
    <2>3. d \in Tri /\ (IF kind = "default" THEN d = TRUE ELSE d = None)
      BY DEF Tri
    <2> HIDE DEF d
    <2>4. r \in Request /\ r.op = kind /\ r.row = m /\ r.who = c /\ r.default = d
      BY <2>2, <2>3, WalletAssumption DEF Request
    <2>5. Asked(r)
      BY <2>4, <2>3, WalletAssumption DEF Asked
    <2>6. Start(w, r) /\ used' = used
      BY <2>1 DEF d
    <2>7. Arrives(w, r)
      BY <2>5, <2>4, <2>6 DEF Arrives
    <2>. QED
      BY <1>1, <2>7, <2>6
  <1>4. CASE StartRetrieve(w)
    <2>1. PICK p \in Payments : payment[p] # None /\ Start(w, Body("retrieve", p)) /\ UNCHANGED used
      BY <1>4 DEF StartRetrieve
    <2>2. Body("retrieve", p) \in Request /\ Body("retrieve", p).op = "retrieve" /\ Body("retrieve", p).row = p
      BY BodyIsRequest DEF Ops
    <2>3. Asked(Body("retrieve", p))
      BY <2>2 DEF Asked
    <2>4. Arrives(w, Body("retrieve", p))
      BY <2>1, <2>2, <2>3 DEF Arrives
    <2>. QED
      BY <1>1, <2>1, <2>4
  <1>5. CASE StartAdd(w)
    <2>1. PICK c \in Configs \ used, g \in Offered, o \in Merchants, a \in BOOLEAN, d \in BOOLEAN :
            /\ Start(w, [Body("add", c) EXCEPT !.gateway = g, !.account = o, !.active = a, !.default = d])
            /\ used' = used \cup {c}
      BY <1>5 DEF StartAdd
    <2>2. PICK r : r = Edited(Body("add", c), g, o, a, d)
      OBVIOUS
    <2>3. /\ Body("add", c) \in Request /\ Body("add", c).op = "add" /\ Body("add", c).row = c
          /\ Body("add", c).who = None
      BY BodyIsRequest DEF Ops, Rows
    <2>4. g \in Names \cup {None} /\ o \in Merchants \cup {None} /\ a \in Tri /\ d \in Tri
      BY WalletAssumption DEF Tri
    <2>5. /\ r \in Request /\ r.op = "add" /\ r.row = c /\ r.who = None
          /\ r.gateway = g /\ r.account = o /\ r.active = a /\ r.default = d
      <3>1. r.gateway = g /\ r.account = o /\ r.active = a /\ r.default = d
        BY <2>2, <2>3 DEF Edited, Request
      <3>. QED
        BY <2>2, <2>3, <2>4, <3>1, EditedIsRequest
    <2>6. Asked(r)
      BY <2>5, WalletAssumption DEF Asked
    <2>7. Arrives(w, r)
      BY <2>1, <2>2, <2>5, <2>6 DEF Arrives, Edited
    <2>. QED
      BY <1>1, <2>1, <2>7 DEF Rows
  <1>6. CASE StartPatch(w)
    <2>1. PICK c \in used \cap Configs, b \in Bodies :
            /\ Start(w, [Body("patch", c) EXCEPT !.gateway = b[1], !.account = b[2],
                                              !.active = b[3], !.default = b[4]])
            /\ UNCHANGED used
      BY <1>6 DEF StartPatch
    <2>2. PICK r : r = Edited(Body("patch", c), b[1], b[2], b[3], b[4])
      OBVIOUS
    <2>3. b[1] \in Names \cup {None} /\ b[2] \in Merchants \cup {None} /\ b[3] \in Tri /\ b[4] \in Tri
      BY WalletAssumption
    <2>4. /\ Body("patch", c) \in Request /\ Body("patch", c).op = "patch"
          /\ Body("patch", c).row = c /\ Body("patch", c).who = None
      BY BodyIsRequest DEF Ops, Rows
    <2>5. r \in Request /\ r.op = "patch" /\ r.row = c /\ r.who = None
      <3>1. PICK g \in Names \cup {None}, o \in Merchants \cup {None}, a \in Tri, d \in Tri :
              r = Edited(Body("patch", c), g, o, a, d)
        BY <2>2, <2>3
      <3>2. PICK q \in Request : q = Body("patch", c)
        BY <2>4
      <3>3. r \in Request /\ r.op = q.op /\ r.row = q.row /\ r.who = q.who
        BY <3>1, <3>2, EditedIsRequest
      <3>. QED
        BY <2>4, <3>2, <3>3
    <2>6. Asked(r)
      BY <2>5 DEF Asked
    <2>7. Arrives(w, r)
      BY <2>1, <2>2, <2>5, <2>6 DEF Arrives, Edited
    <2>. QED
      BY <1>1, <2>1, <2>7
  <1>7. CASE StartDrop(w)
    <2>1. PICK c \in used \cap Configs : Start(w, Body("drop", c)) /\ UNCHANGED used
      BY <1>7 DEF StartDrop
    <2>2. /\ Body("drop", c) \in Request /\ Body("drop", c).op = "drop" /\ Body("drop", c).row = c
          /\ Body("drop", c).who = None /\ Body("drop", c).default = None
      BY BodyIsRequest DEF Ops, Rows
    <2>3. Asked(Body("drop", c))
      BY <2>2, WalletAssumption DEF Asked
    <2>4. Arrives(w, Body("drop", c))
      BY <2>1, <2>2, <2>3 DEF Arrives
    <2>. QED
      BY <1>1, <2>1, <2>4
  <1>. QED
    BY <1>2, <1>3, <1>4, <1>5, <1>6, <1>7 DEF Starting

\* What any step does: a request comes, goes on, fails or commits.
Steps(w) ==
  \/ \E r : Arrives(w, r) /\ used' \subseteq Rows
  \/ Advances(w)
  \/ Aborts(w)
  \/ Ends(w)

\* Whatever it does, the worker and the tables keep their shape.
LEMMA ActShape ==
  ASSUME ShapeInv, NEW w \in Workers, Act(w)
  PROVE  Steps(w) /\ WorkTyped' /\ TablesTyped' /\ References' /\ \A v \in Workers : Shape(v)'
  <1>1. WorkTyped /\ TablesTyped /\ References /\ \A v \in Workers : Shape(v)
    BY DEF ShapeInv
  <1>2. Alone(w)
    BY <1>1, Alones
  <1>3. Steps(w) /\ WorkTyped' /\ Shape(w)'
    <2>1. CASE Starting(w)
      BY <2>1, Arrivals, StartShape DEF Steps, Arrives
    <2>2. CASE Reading(w)
      <3>1. Proceeds(w)
        BY <2>2, LockTargetShape, ScanShape, ReadConfigShape, CollectShape, ReadMethodShape,
           ResolveShape, ReadPaymentShape, AimShape, AuthorizedShape, RereadShape DEF Reading, Proceeds
      <3>. QED
        BY <1>1, <3>1, EndShape DEF Proceeds, Steps, Aborts, Abort
    <2>3. CASE Committing(w)
      <3>1. Aborts(w) \/ Ends(w)
        BY <2>3, InsertMethodShape, SetDefaultShape, DeleteMethodShape, InsertConfigShape,
           SaveConfigShape, DeleteConfigShape, PayShape DEF Committing
      <3>. QED
        BY <1>1, <3>1, EndShape DEF Steps, Aborts, Abort, Ends
    <2>. QED
      BY <2>1, <2>2, <2>3 DEF Act, Starting, Reading, Committing
  <1>4. TablesTyped'
    BY <1>1, <1>3, StartShape DEF Steps, Arrives, Advances, Aborts, Abort, Ends, TablesTyped, tables
  <1>5. References'
    <2>1. CASE \E r : Arrives(w, r) /\ used' \subseteq Rows
      <3>1. PICK r : Arrives(w, r) /\ used' \subseteq Rows
        BY <2>1
      <3>2. req'[w] = r /\ UNCHANGED <<method, config, payment>>
        BY <3>1, StartShape DEF Arrives
      <3>. QED
        BY <1>1, <1>2, <3>1, <3>2 DEF References, Alone, Arrives
    <2>2. CASE Advances(w)
      BY <1>1, <2>2 DEF References, Advances
    <2>3. CASE Aborts(w)
      <3>1. UNCHANGED <<method, config, payment>> /\ End(w) /\ UNCHANGED <<used, sdk, arrived>>
        BY <2>3 DEF Aborts, Abort, tables
      <3>. QED
        BY <1>1, <3>1, RetrieveKept DEF References, PaymentsStay
    <2>4. CASE Ends(w)
      BY <2>4 DEF Ends
    <2>. QED
      BY <1>3, <2>1, <2>2, <2>3, <2>4 DEF Steps
  <1>. QED
    BY <1>1, <1>2, <1>3, <1>4, <1>5, ShapeApart

\* The rows that are there at first.
LEMMA FirstTables ==
  ASSUME WalletInit
  PROVE  /\ TablesTyped /\ References /\ WorkTyped
         /\ Sound([method |-> method, config |-> config, default |-> isDefault])
         /\ used = Present(method) \cup Present(config)
  <1>1. PICK t \in Provisioned :
          /\ method = t.method /\ config = t.config /\ isDefault = t.default
          /\ used = Present(t.method) \cup Present(t.config)
    BY DEF WalletInit
  <1>2. t \in Tables /\ Sound(t)
    BY WalletAssumption
  <1>3. /\ method \in [Methods -> MethodRow \cup {None}] /\ config \in [Configs -> ConfigRow \cup {None}]
        /\ t = [method |-> method, config |-> config, default |-> isDefault]
    BY <1>1, <1>2 DEF Tables
  <1>4. Present(method) = {m \in Methods : method[m] # None} /\ Present(config) = {c \in Configs : config[c] # None}
    BY <1>3 DEF Present
  <1>5. TablesTyped
    BY <1>1, <1>2, <1>3, <1>4 DEF TablesTyped, WalletInit, Sound
  <1>6. References
    <2>1. ASSUME NEW m \in Methods, method[m] # None, method[m].config # None
          PROVE  config[method[m].config] # None /\ method[m].token # None
      <3>1. config[method[m].config] # None /\ method[m].token = config[method[m].config].seat
        BY <1>1, <1>2, <1>4, <2>1 DEF Sound
      <3>2. method[m].config \in Configs
        BY <1>3, <2>1 DEF MethodRow
      <3>3. config[method[m].config].seat \in Seats
        BY <1>3, <3>1, <3>2 DEF ConfigRow
      <3>. QED
        BY <3>1, <3>3, WalletAssumption
    <2>. QED
      BY <2>1 DEF References, WalletInit
  <1>7. used \subseteq Rows
    BY <1>1, <1>4 DEF Rows
  <1>8. WorkTyped
    BY <1>7, WalletAssumption DEF WorkTyped, WalletInit, Hosts, Stages, Nothing, Got, Tri
  <1>. QED
    BY <1>1, <1>2, <1>3, <1>5, <1>6, <1>8

\* Nobody has a request.
LEMMA FirstWorkers ==
  ASSUME WalletInit, NEW w \in Workers
  PROVE  /\ req[w] = None /\ pc[w] = "idle" /\ got[w] = Nothing /\ call[w] = None
         /\ todo[w] = {} /\ cleared[w] = {} /\ Shape(w)
  BY DEF WalletInit, Shape

\* What the code can put into the variables.
LEMMA ShapeFirst == ASSUME WalletInit PROVE ShapeInv
  BY FirstTables, FirstWorkers DEF ShapeInv, WalletInit

\* No step, and no pause, changes the shape.
LEMMA ShapeStep == ASSUME ShapeInv, [WalletNext]_wallet PROVE ShapeInv'
  <1>1. CASE UNCHANGED wallet
    BY <1>1 DEF ShapeInv, wallet, tables, work, WorkTyped, TablesTyped, References, Shape
  <1>2. ASSUME NEW w \in Workers, Act(w), Watch, UNCHANGED allowMock PROVE ShapeInv'
    <2>1. WorkTyped' /\ TablesTyped' /\ References' /\ \A v \in Workers : Shape(v)'
      BY <1>2, ActShape
    <2>2. ActiveNames' \subseteq Names
      BY <2>1 DEF TablesTyped, ActiveNames, ConfigRow, Seats
    <2>3. on' \in [Workers -> SUBSET Names]
      BY <1>2, <2>2 DEF Watch, ShapeInv
    <2>. QED
      BY <1>2, <2>1, <2>3 DEF ShapeInv
  <1>. QED
    BY <1>1, <1>2 DEF WalletNext

\* In every state there is.
LEMMA WalletShaped == WalletSpec => []ShapeInv
  BY ShapeFirst, ShapeStep, PTL DEF WalletSpec

\* The variables hold what the code can put there: rows of the tables, and what
\* a view has read by the statement it is at.
THEOREM WalletTyped == WalletSpec => []WalletTypeOK
  <1>1. ShapeInv => WalletTypeOK
    BY DEF ShapeInv, WorkTyped, TablesTyped, WalletTypeOK
  <1>. QED
    BY <1>1, WalletShaped, PTL

-----------------------------------------------------------------------------
(* What names a gateway for a configuration. *)

\* A step that only reads repeats what is already said.
LEMMA HeardBefore ==
  ASSUME ShapeInv, NEW w \in Workers, Starting(w) \/ Reading(w),
         NEW c \in Configs, NEW n \in Seats, Recalls(w, c, n)'
  PROVE  Says(c, n)
  <1>1. WorkTyped /\ TablesTyped /\ References /\ Shape(w) /\ c # None
    BY WalletAssumption DEF ShapeInv, Rows
  <1>2. SUFFICES ASSUME ~Recalls(w, c, n),
                        ~ \E m \in Methods : method[m] # None /\ method[m].config = c /\ method[m].token = n,
                        ~ \E p \in Payments : payment[p] # None /\ payment[p].config = c /\ payment[p].at = n
                 PROVE  config[c] # None /\ config[c].seat = n
    BY DEF Says
  <1>3. req'[w] # None
    BY DEF Recalls
  <1>4. ~Aborts(w)
    BY <1>1, <1>3, EndShape DEF Aborts, Abort
  <1>5. CASE Starting(w)
    <2>1. PICK r : Arrives(w, r) /\ used' \subseteq Rows
      BY <1>5, Arrivals
    <2>2. req'[w] = r /\ pc'[w] = FirstStage(r) /\ got'[w] = Nothing
      BY <2>1, StartShape DEF Arrives
    <2>3. r.op = "patch" => pc'[w] = "read"
      BY <2>2 DEF FirstStage
    <2>4. r.op \in {"charge", "retrieve"} => pc'[w] = "read"
      BY <2>2 DEF FirstStage
    <2>. QED
      BY <1>1, <2>2, <2>3, <2>4 DEF Recalls, Nothing, Writing
  <1>6. CASE LockTarget(w)
    <2>1. req'[w] = req[w] /\ req[w].op = "default"
      BY <1>1, <1>4, <1>6, StageTells DEF LockTarget, Aborts
    <2>. QED
      BY <2>1 DEF Recalls
  <1>7. CASE Scan(w) \/ Clear(w)
    <2>1. /\ req'[w] = req[w] /\ got'[w] = got[w] /\ pc[w] \in Writing
          /\ req[w].op \in {"default", "save", "add", "patch"}
      BY <1>1, <1>7, StageTells DEF Scan, Clear, Writing
    <2>. QED
      BY <1>2, <2>1 DEF Recalls
  <1>8. CASE ReadConfig(w)
    <2>1. /\ req'[w] = req[w] /\ req[w].op = "patch" /\ got'[w].seat = config[req[w].row].seat
          /\ config[req[w].row] # None
      BY <1>1, <1>4, <1>8 DEF ReadConfig, Aborts, WorkTyped, Got
    <2>. QED
      BY <2>1 DEF Recalls
  <1>9. CASE CollectConfig(w)
    <2>1. req'[w] = req[w] /\ req[w].op = "drop"
      BY <1>4, <1>9 DEF CollectConfig, Aborts
    <2>. QED
      BY <2>1 DEF Recalls
  <1>10. CASE ReadMethod(w)
    <2> DEFINE m == req[w].row
    <2>1. /\ req'[w] = req[w] /\ req[w].op = "charge" /\ pc[w] = "read" /\ got[w] \in Got
          /\ got' = [got EXCEPT ![w].seat = config[method[m].config].seat, ![w].of = method[m].config,
                                ![w].token = method[m].token, ![w].next = "authorize"]
          /\ method[m] # None /\ method[m].config # None
      BY <1>1, <1>4, <1>10 DEF ReadMethod, Aborts, WorkTyped
    <2>2. got[w].config = None /\ m \in Methods
      BY <1>1, <2>1, StageTells DEF HasRead, Asked
    <2>3. /\ got'[w].config = None /\ got'[w].of = method[m].config /\ got'[w].token = method[m].token
          /\ got'[w].seat = config[method[m].config].seat
      BY <1>1, <2>1, <2>2 DEF WorkTyped, Got
    <2>4. method[m].config = c /\ n \in {method[m].token, config[c].seat}
      BY <1>1, <2>1, <2>3 DEF Recalls
    <2>. QED
      BY <1>1, <1>2, <2>1, <2>2, <2>4 DEF References
  <1>11. CASE Resolve(w)
    <2>1. PICK d \in Configs :
            /\ req'[w] = req[w] /\ pc[w] = "resolve" /\ got[w] \in Got
            /\ got' = [got EXCEPT ![w].config = d, ![w].seat = config[d].seat]
            /\ config[d] # None
            /\ pc'[w] # "resolve"
      BY <1>1, <1>4, <1>11 DEF Resolve, Aborts, WorkTyped, Named, Goto
    <2>2. /\ got'[w].config = d /\ got'[w].seat = config[d].seat /\ got'[w].of = got[w].of
          /\ got'[w].token = got[w].token
      BY <1>1, <2>1 DEF WorkTyped, Got
    <2>3. req[w].op \in {"save", "charge"}
      BY <1>1, <2>1, StageTells
    <2>. QED
      BY <1>2, <2>1, <2>2, <2>3 DEF Recalls
  <1>12. CASE ReadPayment(w)
    <2> DEFINE p == req[w].row
    <2>1. /\ req'[w] = req[w] /\ req[w].op = "retrieve" /\ pc[w] = "read" /\ got[w] \in Got
          /\ got' = [got EXCEPT ![w].seat = config[payment[p].config].seat, ![w].config = payment[p].config,
                                ![w].of = payment[p].config, ![w].token = payment[p].at,
                                ![w].next = "retrieve"]
      BY <1>1, <1>4, <1>12 DEF ReadPayment, Aborts, WorkTyped
    <2>2. p \in Payments /\ payment[p] # None
      BY <1>1, <2>1, StageTells DEF Asked, References
    <2>3. /\ got'[w].config = payment[p].config /\ got'[w].of = payment[p].config
          /\ got'[w].token = payment[p].at /\ got'[w].seat = config[payment[p].config].seat
      BY <1>1, <2>1 DEF WorkTyped, Got
    <2>4. payment[p].config = c /\ n \in {payment[p].at, config[c].seat}
      BY <1>1, <2>1, <2>3 DEF Recalls
    <2>. QED
      BY <1>1, <1>2, <2>2, <2>4 DEF References
  <1>13. CASE Aim(w) \/ CallGateway(w)
    <2>1. /\ req'[w] = req[w] /\ got'[w] = got[w] /\ pc[w] \in {"aim", "call"}
          /\ pc'[w] \in {"call", "result"} /\ req[w].op \in {"charge", "retrieve"}
      BY <1>1, <1>13, StageTells DEF Aim, CallGateway, Goto, WorkTyped
    <2>. QED
      BY <1>2, <2>1 DEF Recalls, Calling
  <1>14. CASE Authorized(w)
    <2>1. /\ req'[w] = req[w] /\ pc[w] = "result" /\ got[w] \in Got
          /\ pc'[w] = "reread"
          /\ got' = [got EXCEPT ![w].token = got[w].seat, ![w].of = got[w].config]
      BY <1>1, <1>4, <1>14 DEF Authorized, Aborts, WorkTyped, Goto
    <2>2. /\ got'[w].config = got[w].config /\ got'[w].of = got[w].config
          /\ got'[w].token = got[w].seat /\ got'[w].seat = got[w].seat
      BY <1>1, <2>1 DEF WorkTyped, Got
    <2>3. req[w].op \in {"charge", "retrieve"}
      BY <1>1, <2>1, StageTells
    <2>. QED
      BY <1>2, <2>1, <2>2, <2>3 DEF Recalls, Calling
  <1>15. CASE Reread(w)
    <2> DEFINE d == got[w].config
    <2>1. /\ req'[w] = req[w] /\ pc[w] = "reread" /\ got[w] \in Got /\ config[d] # None
          /\ got' = [got EXCEPT ![w].seat = config[d].seat, ![w].next = "capture"]
      BY <1>1, <1>4, <1>15 DEF Reread, Aborts, WorkTyped
    <2>2. /\ got'[w].config = d /\ got'[w].of = got[w].of
          /\ got'[w].token = got[w].token /\ got'[w].seat = config[d].seat
      BY <1>1, <2>1 DEF WorkTyped, Got
    <2>3. req[w].op = "charge" /\ got[w].of = d
      BY <1>1, <2>1, StageTells DEF HasRead
    <2>. QED
      BY <1>2, <2>1, <2>2, <2>3 DEF Recalls
  <1>. QED
    BY <1>5, <1>6, <1>7, <1>8, <1>9, <1>10, <1>11, <1>12, <1>13, <1>14, <1>15 DEF Reading

\* What a commit says that nothing said before: the configuration it creates,
\* or the name it changes.
LEMMA Mentions ==
  ASSUME ShapeInv, NEW w \in Workers, Act(w), NEW c \in Configs, NEW n \in Seats, Says(c, n)'
  PROVE  \/ Says(c, n)
         \/ Brings(w, c) /\ req'[w] = None /\ n = Posted(req[w]) /\ config'[c] # None
         \/ c \in moved' /\ \E o \in Seats : Says(c, o)
  <1>1. WorkTyped /\ TablesTyped /\ References /\ Shape(w) /\ c # None /\ Alone(w)
    BY Alones, WalletAssumption DEF ShapeInv, Rows
  <1>2. \A v \in Workers \ {w} : Recalls(v, c, n)' => Says(c, n)
    BY <1>1 DEF Alone, Recalls, Says
  <1>3. CASE Starting(w) \/ Reading(w)
    <2>1. UNCHANGED <<method, config, payment>>
      BY <1>1, <1>3, ActShape, StartShape
         DEF Starting, Reading, StartSave, StartOnMethod, StartRetrieve, StartAdd, StartPatch, StartDrop,
             Start, LockTarget, Scan, Clear, ReadConfig, CollectConfig, ReadMethod, Resolve, ReadPayment,
             Aim, CallGateway, Authorized, Reread, Abort, tables
    <2>2. Recalls(w, c, n)' => Says(c, n)
      BY <1>3, HeardBefore
    <2>. QED
      BY <1>2, <2>1, <2>2 DEF Says
  <1>4. CASE Aborts(w)
    <2>1. UNCHANGED <<method, config, payment>> /\ req'[w] = None
      BY <1>1, <1>4, EndShape DEF Aborts, Abort, tables
    <2>2. ~Recalls(w, c, n)'
      BY <2>1 DEF Recalls
    <2>. QED
      BY <1>2, <2>1, <2>2 DEF Says
  <1>5. CASE Committing(w) /\ ~Aborts(w)
    <2>1. Ends(w)
      BY <1>5, InsertMethodShape, SetDefaultShape, DeleteMethodShape, InsertConfigShape,
         SaveConfigShape, DeleteConfigShape, PayShape DEF Committing
    <2>2. req'[w] = None /\ ~Recalls(w, c, n)'
      BY <1>1, <2>1, EndShape DEF Ends, Recalls
    <2> SUFFICES ASSUME \/ config'[c] # None /\ config'[c].seat = n
                        \/ \E m \in Methods : method'[m] # None /\ method'[m].config = c /\ method'[m].token = n
                        \/ \E p \in Payments : payment'[p] # None /\ payment'[p].config = c /\ payment'[p].at = n
                 PROVE  \/ Says(c, n)
                        \/ Brings(w, c) /\ req'[w] = None /\ n = Posted(req[w]) /\ config'[c] # None
                        \/ c \in moved' /\ \E o \in Seats : Says(c, o)
      BY <1>2, <2>2 DEF Says
    <2>3. CASE InsertMethod(w)
      <3>1. /\ req[w].op = "save" /\ pc[w] = "write" /\ req[w].row \in Methods /\ req[w] # None
            /\ UNCHANGED <<config, payment>>
            /\ method' = [method EXCEPT ![req[w].row] = [who |-> req[w].who, config |-> got[w].config,
                                                         token |-> got[w].seat]]
        BY <1>1, <1>5, <2>3, StageTells DEF InsertMethod, Aborts, CommitsOrFails, Commits, Asked
      <3>2. \A m \in Methods : method'[m] = IF m = req[w].row
                THEN [who |-> req[w].who, config |-> got[w].config, token |-> got[w].seat]
                ELSE method[m]
        BY <1>1, <3>1 DEF TablesTyped
      <3>. QED
        BY <1>1, <3>1, <3>2 DEF Says, Recalls, Writing
    <2>4. CASE SetDefault(w)
      BY <1>5, <2>4 DEF SetDefault, Aborts, CommitsOrFails, Commits, Says
    <2>5. CASE DeleteMethod(w)
      <3>1. /\ UNCHANGED <<config, payment>> /\ \A m \in Methods : method'[m] \in {method[m], None}
        BY <1>1, <1>5, <2>5 DEF DeleteMethod, Aborts, TablesTyped
      <3>. QED
        BY <3>1 DEF Says
    <2>6. CASE InsertConfig(w)
      <3>1. /\ req[w].op = "add" /\ req[w].row \in Configs /\ req[w] # None
            /\ UNCHANGED <<method, payment>>
            /\ config' = [config EXCEPT ![req[w].row] = [seat |-> Posted(req[w]), active |-> req[w].active]]
        BY <1>1, <1>5, <2>6, StageTells DEF InsertConfig, Aborts, CommitsOrFails, Commits, Asked
      <3>2. \A d \in Configs : config'[d] = IF d = req[w].row
                THEN [seat |-> Posted(req[w]), active |-> req[w].active] ELSE config[d]
        BY <1>1, <3>1 DEF TablesTyped
      <3>. QED
        BY <2>2, <3>1, <3>2 DEF Says, Brings
    <2>7. CASE SaveConfig(w)
      <3> DEFINE seat == Patched(req[w], got[w].seat)
                 active == Sent(req[w].active, got[w].active)
      <3>1. /\ req[w].op = "patch" /\ pc[w] = "write" /\ req[w].row \in Configs /\ req[w] # None
            /\ got[w].seat \in Seats
            /\ UNCHANGED <<method, payment>>
            /\ config' = [config EXCEPT ![req[w].row] = [seat |-> seat, active |-> active]]
            /\ moved' = IF seat = got[w].seat THEN moved ELSE moved \cup {req[w].row}
        <4>1. req[w].op = "patch" /\ pc[w] = "write"
          BY <2>7 DEF SaveConfig
        <4>2. req[w].row \in Configs /\ req[w] # None /\ got[w].seat \in Seats
          BY <1>1, <4>1, StageTells, ZenonT(60) DEF Asked, HasRead, Writing, WorkTyped, Got
        <4>3. /\ UNCHANGED <<method, payment>>
              /\ config' = [config EXCEPT ![req[w].row] = [seat |-> seat, active |-> active]]
              /\ moved' = IF seat = got[w].seat THEN moved ELSE moved \cup {req[w].row}
          BY <1>5, <2>7 DEF SaveConfig, Aborts, CommitsOrFails, Commits
        <4>. QED
          BY <4>1, <4>2, <4>3
      <3>2. \A d \in Configs : config'[d] = IF d = req[w].row THEN [seat |-> seat, active |-> active]
                                            ELSE config[d]
        BY <1>1, <3>1 DEF TablesTyped
      <3>3. Says(req[w].row, got[w].seat)
        BY <3>1 DEF Says, Recalls, Writing
      <3>4. CASE c = req[w].row
        <4>1. CASE seat = got[w].seat
          BY <3>1, <3>2, <3>3, <3>4, <4>1 DEF Says
        <4>2. CASE seat # got[w].seat
          BY <3>1, <3>3, <3>4, <4>2
        <4>. QED
          BY <4>1, <4>2
      <3>5. CASE c # req[w].row
        BY <3>1, <3>2, <3>5 DEF Says
      <3>. QED
        BY <3>4, <3>5
    <2>8. CASE DeleteConfig(w)
      <3>1. /\ UNCHANGED <<method, payment>> /\ \A d \in Configs : config'[d] \in {config[d], None}
        BY <1>1, <1>5, <2>8 DEF DeleteConfig, Aborts, TablesTyped
      <3>. QED
        BY <3>1 DEF Says
    <2>9. CASE \E state \in {"pending", "captured"} : Pay(w, state) /\ (Waits(w) \/ Captured(w))
      <3>1. PICK p \in Payments, state \in {"pending", "captured"} :
              /\ Waits(w) \/ Captured(w)
              /\ UNCHANGED <<method, config>>
              /\ payment' = [payment EXCEPT ![p] = [config |-> got[w].config, at |-> got[w].token,
                                                    status |-> state]]
        BY <1>5, <2>9 DEF Pay, Aborts, Waits, Captured
      <3>2. \A q \in Payments : payment'[q] = IF q = p
                THEN [config |-> got[w].config, at |-> got[w].token, status |-> state] ELSE payment[q]
        BY <1>1, <3>1 DEF TablesTyped
      <3>3. /\ pc[w] \in {"reread", "result"} /\ req[w] # None /\ req[w].op \in {"charge", "retrieve"}
            /\ got[w].of = got[w].config
        BY <1>1, <3>1, StageTells DEF Waits, Captured, HasRead, Calling
      <3>4. Recalls(w, got[w].config, got[w].token)
        BY <3>3 DEF Recalls
      <3>. QED
        BY <3>1, <3>2, <3>4 DEF Says
    <2>10. CASE Retrieved(w)
      <3>1. /\ UNCHANGED <<method, config>>
            /\ payment' = [payment EXCEPT ![req[w].row].status = "captured"]
            /\ pc[w] = "result" /\ got[w].next = "retrieve"
        BY <1>5, <2>10 DEF Retrieved, Aborts
      <3>2. req[w].row \in Payments /\ payment[req[w].row] # None /\ payment[req[w].row] \in PaymentRow
        BY <1>1, <3>1, StageTells DEF HasRead, Calling, Asked, References, TablesTyped
      <3>3. \A q \in Payments : payment'[q] # None =>
              payment[q] # None /\ payment'[q].config = payment[q].config /\ payment'[q].at = payment[q].at
        <4>1. \A q \in Payments \ {req[w].row} : payment'[q] = payment[q]
          BY <1>1, <3>1 DEF TablesTyped
        <4>2. payment'[req[w].row] = [payment[req[w].row] EXCEPT !.status = "captured"]
          BY <1>1, <3>1, <3>2 DEF TablesTyped
        <4>. QED
          BY <3>2, <4>1, <4>2 DEF PaymentRow
      <3>. QED
        BY <3>1, <3>3 DEF Says
    <2>. QED
      BY <1>5, <2>3, <2>4, <2>5, <2>6, <2>7, <2>8, <2>9, <2>10 DEF Committing, Waits, Captured, Aborts
  <1>. QED
    BY <1>3, <1>4, <1>5 DEF Act, Starting, Reading, Committing

\* What was moved stays so.
LEMMA MovedGrows ==
  ASSUME ShapeInv, NEW w \in Workers, Act(w)
  PROVE  moved \subseteq moved'
  <1>1. CASE Starting(w) \/ Reading(w)
    BY <1>1, ActShape
       DEF Starting, Reading, StartSave, StartOnMethod, StartRetrieve, StartAdd, StartPatch, StartDrop,
           Start, LockTarget, Scan, Clear, ReadConfig, CollectConfig, ReadMethod, Resolve, ReadPayment,
           Aim, CallGateway, Authorized, Reread, Abort
  <1>2. CASE Committing(w)
    BY <1>2 DEF Committing, InsertMethod, SetDefault, DeleteMethod, InsertConfig, SaveConfig,
                DeleteConfig, Waits, Captured, Retrieved, CommitsOrFails, Commits, Abort, Pay
  <1>. QED
    BY <1>1, <1>2 DEF Act, Starting, Reading, Committing

-----------------------------------------------------------------------------
(* New rows are unknown until the commit that brings them. *)

\* A row that was deleted or never there comes only with who brings it.
LEMMA Births ==
  ASSUME ShapeInv, NEW w \in Workers, Act(w), NEW x \in Rows, Unborn(x)
  PROVE  Unborn(x)' \/ (Brings(w, x) /\ req'[w] = None)
  <1>1. WorkTyped /\ TablesTyped /\ Shape(w) /\ Alone(w)
    BY Alones DEF ShapeInv
  <1> SUFFICES ASSUME ~(Brings(w, x) /\ req'[w] = None) PROVE Unborn(x)'
    OBVIOUS
  <1>2. ASSUME x \in Configs PROVE \A n \in Seats : ~Says(x, n)'
    <2>1. \A n \in Seats : ~Says(x, n)
      BY <1>2 DEF Unborn
    <2>. QED
      BY <1>2, <2>1, Mentions
  <1>3. ASSUME x \in Methods PROVE method'[x] = None /\ \A v \in Workers : x \notin todo'[v]
    <2>1. method[x] = None /\ \A v \in Workers : x \notin todo[v]
      BY <1>3 DEF Unborn
    <2>2. Steps(w)
      BY ActShape
    <2>3. method'[x] = None
      <3>1. CASE \E r : Arrives(w, r) /\ used' \subseteq Rows
        BY <2>1, <3>1, StartShape DEF Arrives
      <3>2. CASE Advances(w)
        BY <2>1, <3>2 DEF Advances
      <3>3. CASE Aborts(w)
        BY <2>1, <3>3 DEF Aborts, Abort, tables
      <3>4. CASE Committing(w) /\ ~Aborts(w)
        <4>1. CASE InsertMethod(w)
          <5>1. /\ req[w].op = "save" /\ pc[w] = "write" /\ End(w)
                /\ method' = [method EXCEPT ![req[w].row] = [who |-> req[w].who, config |-> got[w].config,
                                                             token |-> got[w].seat]]
            BY <3>4, <4>1 DEF InsertMethod, Aborts, CommitsOrFails, Commits
          <5>2. req'[w] = None /\ req[w] # None
            BY <1>1, <5>1, StageTells DEF End, WorkTyped
          <5>3. x # req[w].row
            BY <5>1, <5>2 DEF Brings
          <5>. QED
            BY <1>1, <1>3, <2>1, <5>1, <5>3 DEF TablesTyped
        <4>2. CASE DeleteMethod(w)
          BY <1>1, <1>3, <2>1, <3>4, <4>2 DEF DeleteMethod, Aborts, TablesTyped
        <4>3. CASE SetDefault(w) \/ InsertConfig(w) \/ SaveConfig(w) \/ DeleteConfig(w)
          BY <2>1, <3>4, <4>3 DEF SetDefault, InsertConfig, SaveConfig, DeleteConfig, Aborts, CommitsOrFails, Commits
        <4>4. CASE Waits(w) \/ Captured(w) \/ Retrieved(w)
          BY <2>1, <3>4, <4>4 DEF Waits, Captured, Retrieved, Pay, Aborts
        <4>. QED
          BY <3>4, <4>1, <4>2, <4>3, <4>4 DEF Committing
      <3>5. Reading(w) => Advances(w) \/ Aborts(w)
        BY LockTargetShape, ScanShape, ReadConfigShape, CollectShape, ReadMethodShape,
           ResolveShape, ReadPaymentShape, AimShape, AuthorizedShape, RereadShape DEF Reading, Proceeds
      <3>6. Starting(w) => \E r : Arrives(w, r) /\ used' \subseteq Rows
        BY Arrivals
      <3>. QED
        BY <3>1, <3>2, <3>3, <3>4, <3>5, <3>6 DEF Act, Starting, Reading, Committing
    <2>4. todo'[w] \subseteq todo[w] \cup isDefault
      <3>1. CASE Starting(w)
        BY <3>1, Arrivals, StartShape DEF Arrives
      <3>2. CASE Scan(w) \/ Clear(w)
        BY <1>1, <3>2 DEF Scan, Clear, DefaultsOf, WorkTyped
      <3>3. End(w) => todo'[w] = {}
        BY <1>1 DEF End, WorkTyped
      <3>4. CASE LockTarget(w) \/ ReadConfig(w) \/ CollectConfig(w) \/ ReadMethod(w) \/ Resolve(w)
        BY <3>3, <3>4 DEF LockTarget, ReadConfig, CollectConfig, ReadMethod, Resolve, Abort
      <3>5. CASE ReadPayment(w) \/ Aim(w) \/ CallGateway(w) \/ Authorized(w) \/ Reread(w)
        BY <3>3, <3>5 DEF ReadPayment, Aim, CallGateway, Authorized, Reread, Abort
      <3>6. CASE Committing(w)
        BY <3>3, <3>6 DEF Committing, InsertMethod, SetDefault, DeleteMethod, InsertConfig, SaveConfig,
                  DeleteConfig, Waits, Captured, Retrieved, CommitsOrFails, Commits, Abort, Pay
      <3>. QED
        BY <3>1, <3>2, <3>3, <3>4, <3>5, <3>6 DEF Act, Starting, Committing
    <2>5. x \notin isDefault
      BY <1>1, <1>3, <2>1, WalletAssumption DEF TablesTyped
    <2>. QED
      BY <1>1, <2>1, <2>3, <2>4, <2>5 DEF Alone
  <1>. QED
    BY <1>2, <1>3 DEF Unborn

\* Ids are given out once.
LEMMA UsedGrows ==
  ASSUME ShapeInv, NEW w \in Workers, Act(w)
  PROVE  /\ used \subseteq used'
         /\ req'[w] \in {req[w], None} \/ \E r : Arrives(w, r) /\ req'[w] = r
  <1>1. Steps(w) /\ WorkTyped
    BY ActShape DEF ShapeInv
  <1>2. CASE \E r : Arrives(w, r) /\ used' \subseteq Rows
    BY <1>2, StartShape DEF Arrives
  <1>3. CASE Advances(w)
    BY <1>3 DEF Advances
  <1>4. CASE Aborts(w) \/ Ends(w)
    BY <1>1, <1>4, EndShape DEF Aborts, Abort, Ends
  <1>. QED
    BY <1>1, <1>2, <1>3, <1>4 DEF Steps

\* A new row is unknown until it commits, whatever step is taken.
LEMMA FreshStep ==
  ASSUME ShapeInv, FreshInv, NEW w \in Workers, Act(w)
  PROVE  FreshInv'
  <1>1. WorkTyped /\ Alone(w) /\ used \subseteq used'
    BY Alones, UsedGrows DEF ShapeInv
  <1>2. ASSUME NEW x \in Rows \ used' PROVE Unborn(x)'
    <2>1. x \notin used
      BY <1>1, <1>2
    <2>2. Unborn(x) /\ ~Brings(w, x)
      BY <2>1 DEF FreshInv
    <2>. QED
      BY <2>2, Births
  <1>3. ASSUME NEW v \in Workers, NEW x \in Rows, Brings(v, x)'
        PROVE  Brings(v, x) \/ (v = w /\ x \notin used /\ x \in used')
    <2>1. CASE v # w
      BY <1>1, <1>3, <2>1 DEF Alone, Brings
    <2>2. CASE v = w
      <3>1. req'[w] # None /\ req'[w].op \in {"save", "add"} /\ req'[w].row = x
        BY <1>3, <2>2 DEF Brings
      <3>2. CASE req'[w] = req[w]
        BY <2>2, <3>1, <3>2 DEF Brings
      <3>3. CASE \E r : Arrives(w, r) /\ req'[w] = r
        BY <2>2, <3>1, <3>3 DEF Arrives
      <3>. QED
        BY <3>1, <3>2, <3>3, UsedGrows
    <2>. QED
      BY <2>1, <2>2
  <1>4. ASSUME NEW v \in Workers, NEW x \in Rows, Brings(v, x)'
        PROVE  x \in used' /\ Unborn(x)' /\ \A u \in Workers \ {v} : ~Brings(u, x)'
    <2>1. CASE Brings(v, x)
      <3>1. x \in used /\ Unborn(x) /\ \A u \in Workers \ {v} : ~Brings(u, x)
        BY <2>1 DEF FreshInv
      <3>2. \A u \in Workers \ {v} : ~Brings(u, x)'
        BY <1>3, <3>1
      <3>3. ~(Brings(w, x) /\ req'[w] = None)
        BY <1>4, <2>1, <3>1 DEF Brings
      <3>4. Unborn(x)'
        BY <3>1, <3>3, Births
      <3>. QED
        BY <1>1, <3>1, <3>2, <3>4
    <2>2. CASE v = w /\ x \notin used /\ x \in used'
      <3>1. Unborn(x) /\ \A u \in Workers : ~Brings(u, x)
        BY <2>2 DEF FreshInv
      <3>2. Unborn(x)'
        BY <3>1, Births
      <3>3. \A u \in Workers \ {w} : ~Brings(u, x)'
        BY <1>3, <3>1
      <3>. QED
        BY <2>2, <3>2, <3>3
    <2>. QED
      BY <1>3, <1>4, <2>1, <2>2
  <1>. QED
    BY <1>2, <1>4 DEF FreshInv

\* At first, what has no row has no id and nothing refers to it.
LEMMA FreshFirst == ASSUME WalletInit PROVE FreshInv
  <1>1. /\ TablesTyped /\ References /\ used = Present(method) \cup Present(config)
        /\ \A w \in Workers : req[w] = None /\ todo[w] = {}
    BY FirstTables, FirstWorkers
  <1>2. Present(method) = {m \in Methods : method[m] # None} /\ Present(config) = {c \in Configs : config[c] # None}
    BY <1>1 DEF TablesTyped, Present
  <1>3. ASSUME NEW x \in Rows \ used PROVE Unborn(x)
    <2>1. x \in Methods => method[x] = None /\ \A w \in Workers : x \notin todo[w]
      BY <1>1, <1>2, <1>3
    <2>2. ASSUME x \in Configs, NEW n \in Seats PROVE ~Says(x, n)
      <3>1. config[x] = None
        BY <1>1, <1>2, <1>3, <2>2
      <3>2. \A m \in Methods : method[m] # None => method[m].config # x
        BY <1>1, <2>2, <3>1, WalletAssumption DEF References, Rows
      <3>3. \A p \in Payments : payment[p] = None
        BY DEF WalletInit
      <3>. QED
        BY <1>1, <3>1, <3>2, <3>3 DEF Says, Recalls
    <2>. QED
      BY <2>1, <2>2 DEF Unborn
  <1>. QED
    BY <1>1, <1>3 DEF FreshInv, Brings

\* A step that changes nothing.
LEMMA FreshStutter == ASSUME FreshInv, UNCHANGED wallet PROVE FreshInv'
  BY DEF FreshInv, Unborn, Brings, Says, Recalls, wallet, tables, work

-----------------------------------------------------------------------------
(* Locks, and what an UPDATE has found. *)

Unique == \A x, y \in isDefault : Scope(method, x) = Scope(method, y) => x = y

\* A new row is nobody's default and locked by nobody.
LEMMA UnbornFree ==
  ASSUME ShapeInv, LockInv, NEW x \in Rows, Unborn(x)
  PROVE  /\ x \notin isDefault
         /\ \A v \in Workers : ~Holds(v, x) /\ (x \in Methods => x \notin todo[v])
  <1>1. TablesTyped
    BY DEF ShapeInv
  <1>2. x \notin isDefault
    <2>1. CASE x \in Methods
      BY <1>1, <2>1, WalletAssumption DEF Unborn, TablesTyped
    <2>2. CASE x \in Configs
      <3>1. config[x] = None
        <4>1. \A n \in Seats : ~Says(x, n)
          BY <2>2 DEF Unborn
        <4>. QED
          BY <1>1, <2>2, <4>1 DEF Says, TablesTyped, ConfigRow
      <3>. QED
        BY <1>1, <2>2, <3>1, WalletAssumption DEF TablesTyped
    <2>. QED
      BY <2>1, <2>2 DEF Rows
  <1>3. ASSUME NEW v \in Workers, Holds(v, x) PROVE FALSE
    <2>1. x \notin cleared[v]
      BY <1>2 DEF LockInv, Update, DefaultsOf
    <2>2. req[v] # None /\ req[v].op = "default" /\ pc[v] \in Writing /\ req[v].row = x
      BY <1>3, <2>1 DEF Holds
    <2>3. Asked(req[v]) /\ Update(v)
      BY <2>2 DEF LockInv, ShapeInv, Shape
    <2>. QED
      BY <2>2, <2>3 DEF Unborn, Asked, Update
  <1>4. \A v \in Workers : x \in Methods => x \notin todo[v]
    BY DEF Unborn
  <1>. QED
    BY <1>2, <1>3, <1>4 DEF Rows

\* What the others' UPDATEs found stays so as long as no row is written.
LEMMA UpdateApart ==
  ASSUME NEW w, NEW v \in Workers \ {w}, Alone(w), UNCHANGED <<method, isDefault>>, Update(v)
  PROVE  Update(v)'
  <1>1. /\ req'[v] = req[v] /\ pc'[v] = pc[v] /\ got'[v] = got[v]
        /\ todo'[v] = todo[v] /\ cleared'[v] = cleared[v]
    BY DEF Alone
  <1>2. \A x \in cleared[v] : x \in isDefault' /\ Scope(method', x) = req[v].who /\ x # req[v].row
    BY DEF Update, DefaultsOf
  <1>3. \A x \in todo[v] :
          /\ x # req[v].row
          /\ IF req[v].who = None THEN x \in Configs
             ELSE x \in Methods /\ (method'[x] = None \/ method'[x].who = req[v].who)
    BY DEF Update
  <1>4. req[v] # None /\ req[v].op = "default" /\ pc[v] \in Writing =>
          /\ method'[req[v].row] # None /\ method'[req[v].row].who = req[v].who
          /\ got[v].default = TRUE <=> req[v].row \in isDefault'
          /\ req[v].row \in isDefault' => todo[v] = {}
    BY DEF Update
  <1>5. /\ \A x, y \in todo[v] : x = y
        /\ todo[v] # {} => cleared[v] = {} /\ pc[v] = "clear"
        /\ cleared[v] # {} => pc[v] \in {"clear", "write"}
        /\ req[v] # None /\ req[v].default # TRUE => todo[v] = {} /\ cleared[v] = {}
    BY DEF Update
  <1>. QED
    BY <1>1, <1>2, <1>3, <1>4, <1>5, ZenonT(60) DEF Update, DefaultsOf

\* A step that writes no row changes what its worker holds, and nothing else.
LEMMA LocksApart ==
  ASSUME LockInv, NEW w \in Workers, Alone(w), UNCHANGED <<method, isDefault>>, Update(w)',
         \A x \in Rows : locked'[x] = w <=> Holds(w, x)',
         \A x \in Rows, v \in Workers \ {w} : locked'[x] = v <=> locked[x] = v
  PROVE  LockInv'
  <1>1. \A v \in Workers \ {w}, x \in Rows : Holds(v, x)' <=> Holds(v, x)
    BY DEF Alone, Holds
  <1>2. \A x \in Rows, v \in Workers : locked'[x] = v <=> Holds(v, x)'
    BY <1>1 DEF LockInv
  <1>3. \A v \in Workers \ {w} : Update(v)'
    BY UpdateApart DEF LockInv
  <1>4. \A x, y \in isDefault' : Scope(method', x) = Scope(method', y) => x = y
    BY DEF LockInv
  <1>. QED
    BY <1>2, <1>3, <1>4 DEF LockInv

\* A commit leaves alone what others have locked.
Spares(w) ==
  /\ \A v \in Workers \ {w}, y \in Rows : Holds(v, y) =>
       (y \in isDefault' <=> y \in isDefault) /\ (y \in Methods => method'[y] = method[y])
  /\ \A v \in Workers \ {w} : \A y \in todo[v] : y \in Methods => method'[y] \in {method[y], None}

\* An answer that spares what others have locked keeps locks and UPDATEs in order.
LEMMA LocksEnd ==
  ASSUME ShapeInv, LockInv, NEW w \in Workers, End(w), UNCHANGED <<used, sdk, arrived>>,
         Unique', Spares(w)
  PROVE  LockInv'
  <1>1. /\ WorkTyped /\ WorkTyped' /\ Alone(w)
        /\ req'[w] = None /\ pc'[w] = "idle"
        /\ \A x \in Rows : locked'[x] = IF locked[x] = w THEN None ELSE locked[x]
    BY EndShape DEF ShapeInv
  <1>2. todo'[w] = {} /\ cleared'[w] = {}
    BY <1>1 DEF End, WorkTyped
  <1>3. \A v \in Workers \ {w}, x \in Rows : Holds(v, x)' <=> Holds(v, x)
    BY <1>1 DEF Alone, Holds
  <1>4. \A x \in Rows : ~Holds(w, x)'
    BY <1>1, <1>2 DEF Holds
  <1>5. \A x \in Rows, v \in Workers : locked'[x] = v <=> Holds(v, x)'
    BY <1>1, <1>3, <1>4, WalletAssumption DEF LockInv
  <1>6. Update(w)'
    BY <1>1, <1>2 DEF Update
  <1>7. ASSUME NEW v \in Workers \ {w} PROVE Update(v)'
    <2>1. /\ Update(v) /\ cleared[v] \subseteq Rows /\ todo[v] \subseteq Rows
          /\ req'[v] = req[v] /\ pc'[v] = pc[v] /\ got'[v] = got[v]
          /\ todo'[v] = todo[v] /\ cleared'[v] = cleared[v]
      BY <1>1 DEF LockInv, WorkTyped, Alone
    <2>2. ASSUME NEW x \in cleared[v]
          PROVE  x \in isDefault' /\ Scope(method', x) = req[v].who /\ x # req[v].row
      <3>1. x \in isDefault /\ Scope(method, x) = req[v].who /\ x # req[v].row
        BY <2>1, <2>2 DEF Update, DefaultsOf
      <3>2. x \in isDefault' /\ (x \in Methods => method'[x] = method[x]) /\ x \in Methods \cup Configs
        BY <2>1, <2>2, <3>1 DEF Holds, Spares, Rows
      <3>. QED
        BY <3>1, <3>2 DEF Scope
    <2>3. ASSUME NEW x \in todo[v]
          PROVE  /\ x # req[v].row
                 /\ IF req[v].who = None THEN x \in Configs
                    ELSE x \in Methods /\ (method'[x] = None \/ method'[x].who = req[v].who)
      BY <2>1 DEF Update, Spares
    <2>4. ASSUME req[v] # None, req[v].op = "default", pc[v] \in Writing
          PROVE  /\ method'[req[v].row] # None /\ method'[req[v].row].who = req[v].who
                 /\ got[v].default = TRUE <=> req[v].row \in isDefault'
                 /\ req[v].row \in isDefault' => todo[v] = {}
      <3>1. Holds(v, req[v].row) /\ req[v].row \in Methods
        BY <2>4, StageTells DEF Holds, ShapeInv, Shape, Asked
      <3>2. /\ (req[v].row \in isDefault') <=> (req[v].row \in isDefault)
            /\ method'[req[v].row] = method[req[v].row]
        BY <3>1 DEF Spares, Rows
      <3>. QED
        BY <2>1, <2>4, <3>2 DEF Update
    <2>. QED
      BY <2>1, <2>2, <2>3, <2>4, ZenonT(60) DEF Update, DefaultsOf
  <1>. QED
    BY <1>5, <1>6, <1>7 DEF LockInv, Unique

\* An error answer.
LEMMA LocksAbort ==
  ASSUME ShapeInv, LockInv, NEW w \in Workers, Aborts(w)
  PROVE  LockInv'
  <1>1. End(w) /\ UNCHANGED <<used, sdk, arrived, method, isDefault>>
    BY DEF Aborts, Abort, tables
  <1>. QED
    BY <1>1, LocksEnd DEF LockInv, Unique, Spares

\* An UPDATE that has nothing left to clear.
LEMMA UpdateMoves ==
  ASSUME NEW w, Update(w), UNCHANGED <<method, isDefault, req, got>>, pc[w] \in Writing,
         pc'[w] \in {"clear", "write"}, todo'[w] = {}, cleared'[w] = cleared[w]
  PROVE  Update(w)'
  <1>1. \A x \in cleared[w] : x \in isDefault' /\ Scope(method', x) = req[w].who /\ x # req[w].row
    BY DEF Update, DefaultsOf
  <1>. QED
    BY <1>1 DEF Update, DefaultsOf

\* A request starts with nothing found and nothing locked.
LEMMA LocksStart ==
  ASSUME ShapeInv, LockInv, NEW w \in Workers, Starting(w)
  PROVE  LockInv'
  <1>1. PICK r : Arrives(w, r) /\ used' \subseteq Rows
    BY Arrivals
  <1>2. /\ Alone(w) /\ UNCHANGED <<method, isDefault, locked>> /\ req[w] = None
        /\ todo'[w] = {} /\ cleared'[w] = {} /\ cleared[w] = {}
        /\ req'[w] = r /\ pc'[w] = FirstStage(r)
    BY <1>1, StartShape DEF Arrives
  <1>3. r.op = "default" => pc'[w] \notin Writing
    BY <1>2 DEF FirstStage, Writing
  <1>4. Update(w)' /\ \A x : ~Holds(w, x) /\ ~Holds(w, x)'
    BY <1>2, <1>3 DEF Update, Holds
  <1>5. \A x \in Rows : locked'[x] = w <=> Holds(w, x)'
    BY <1>2, <1>4 DEF LockInv
  <1>. QED
    BY <1>2, <1>4, <1>5, LocksApart

\* Nor do the steps of a request that is not at an UPDATE.
LEMMA LocksQuiet ==
  ASSUME ShapeInv, LockInv, NEW w \in Workers, Alone(w), req[w] # None, req'[w] = req[w],
         UNCHANGED <<method, isDefault, locked, todo, cleared>>,
         req[w].op # "default", pc[w] \notin {"clear", "write"}
  PROVE  LockInv'
  <1>1. Update(w) /\ todo[w] = {} /\ cleared[w] = {}
    BY DEF LockInv, Update
  <1>2. Update(w)' /\ \A x : ~Holds(w, x) /\ ~Holds(w, x)'
    BY <1>1 DEF Update, Holds
  <1>3. \A x \in Rows : locked'[x] = w <=> Holds(w, x)'
    BY <1>2 DEF LockInv
  <1>. QED
    BY <1>2, <1>3, LocksApart

\* SELECT ... FOR UPDATE takes the row nobody else has.
LEMMA LocksLockTarget ==
  ASSUME ShapeInv, LockInv, NEW w \in Workers, LockTarget(w)
  PROVE  LockInv'
  <1> SUFFICES ASSUME ~Aborts(w) PROVE LockInv'
    BY LocksAbort
  <1> DEFINE m == req[w].row
  <1>1. WorkTyped /\ Shape(w) /\ pc[w] = "lock" /\ Alone(w) /\ Update(w)
    BY Alones DEF ShapeInv, LockTarget, LockInv, Act
  <1>2. req[w].op = "default" /\ req[w] # None /\ m \in Methods /\ got[w] \in Got
    BY <1>1, StageTells DEF WorkTyped, Asked
  <1>3. /\ locked' = [locked EXCEPT ![m] = w] /\ UNCHANGED <<method, isDefault, req, todo, cleared>>
        /\ got' = [got EXCEPT ![w].default = m \in isDefault] /\ pc' = [pc EXCEPT ![w] = "scan"]
        /\ method[m] # None /\ method[m].who = req[w].who /\ Free(w, m)
    BY DEF LockTarget, Aborts, Goto, tables, Owns
  <1>4. pc'[w] = "scan" /\ got'[w].default = (m \in isDefault)
    BY <1>1, <1>2, <1>3 DEF WorkTyped, Got
  <1>5. got'[w].default = TRUE <=> m \in isDefault
    <2>1. CASE m \in isDefault
      <3>1. (m \in isDefault) = TRUE
        BY <2>1
      <3>. QED
        BY <1>4, <2>1, <3>1
    <2>2. CASE m \notin isDefault
      <3>1. (m \in isDefault) = FALSE
        BY <2>2
      <3>. QED
        BY <1>4, <2>2, <3>1
    <2>. QED
      BY <2>1, <2>2
  <1>6. todo[w] = {} /\ cleared[w] = {}
    BY <1>1 DEF Update
  <1>7. Update(w)'
    BY <1>3, <1>4, <1>5, <1>6 DEF Update
  <1>8. \A x \in Rows : locked'[x] = IF x = m THEN w ELSE locked[x]
    BY <1>1, <1>3 DEF WorkTyped
  <1>9. \A x : Holds(w, x)' <=> x = m
    BY <1>2, <1>3, <1>4, <1>6 DEF Holds, Writing
  <1>10. \A x : ~Holds(w, x)
    BY <1>1, <1>6 DEF Holds, Writing
  <1>11. \A x \in Rows : locked'[x] = w <=> Holds(w, x)'
    BY <1>8, <1>9, <1>10 DEF LockInv
  <1>12. \A x \in Rows, v \in Workers \ {w} : locked'[x] = v <=> locked[x] = v
    BY <1>3, <1>8, WalletAssumption DEF Free
  <1>. QED
    BY <1>1, <1>3, <1>7, <1>11, <1>12, LocksApart

\* The UPDATE finds the one other default of the scope, or none.
LEMMA LocksScan ==
  ASSUME ShapeInv, LockInv, NEW w \in Workers, Scan(w)
  PROVE  LockInv'
  <1>1. WorkTyped /\ TablesTyped /\ Shape(w) /\ pc[w] = "scan" /\ Alone(w) /\ Update(w)
    BY Alones DEF ShapeInv, Scan, LockInv, Act
  <1>2. req[w] # None /\ Asked(req[w]) /\ pc'[w] = "clear"
        /\ req[w].op \in {"default", "save", "add", "patch"}
    BY <1>1, StageTells DEF Scan, Goto, WorkTyped
  <1>3. /\ UNCHANGED <<method, isDefault, locked, req, got, cleared>>
        /\ todo'[w] = IF req[w].default = TRUE THEN DefaultsOf(req[w].who) \ {req[w].row} ELSE {}
    BY <1>1 DEF Scan, WorkTyped, tables
  <1>4. todo[w] = {} /\ cleared[w] = {}
    BY <1>1 DEF Update
  <1>5. ASSUME NEW x \in todo'[w]
        PROVE  /\ x # req[w].row /\ x \in isDefault /\ Scope(method, x) = req[w].who
               /\ req[w].default = TRUE
               /\ IF req[w].who = None THEN x \in Configs
                  ELSE x \in Methods /\ method[x].who = req[w].who
    <2>1. /\ x # req[w].row /\ x \in isDefault /\ Scope(method, x) = req[w].who
          /\ req[w].default = TRUE
      BY <1>3, <1>5 DEF DefaultsOf
    <2>2. x \in Configs \/ (x \in Methods /\ x \notin Configs /\ method[x] \in MethodRow)
      BY <1>1, <2>1, WalletAssumption DEF TablesTyped
    <2>3. x \in Methods /\ x \notin Configs => method[x].who # None
      BY <2>2, WalletAssumption DEF MethodRow
    <2>. QED
      BY <2>1, <2>2, <2>3 DEF Scope
  <1>6. \A x, y \in todo'[w] : x = y
    <2>. SUFFICES ASSUME NEW x \in todo'[w], NEW y \in todo'[w] PROVE x = y
      OBVIOUS
    <2>1. x \in isDefault /\ y \in isDefault /\ Scope(method, x) = Scope(method, y)
      BY <1>5
    <2>. QED
      BY <2>1 DEF LockInv
  <1>7. ASSUME req[w].op = "default"
        PROVE  /\ method[req[w].row] # None /\ method[req[w].row].who = req[w].who
               /\ got[w].default = TRUE <=> req[w].row \in isDefault
               /\ req[w].row \in isDefault => todo'[w] = {}
    <2>1. /\ method[req[w].row] # None /\ method[req[w].row].who = req[w].who
          /\ got[w].default = TRUE <=> req[w].row \in isDefault
      BY <1>1, <1>2, <1>7 DEF Update, Writing
    <2>2. req[w].row \in Methods /\ req[w].row \notin Configs
      BY <1>2, <1>7, WalletAssumption DEF Asked
    <2>3. Scope(method, req[w].row) = req[w].who
      BY <2>1, <2>2 DEF Scope
    <2>4. ASSUME req[w].row \in isDefault, NEW x \in todo'[w] PROVE FALSE
      <3>1. x \in isDefault /\ Scope(method, x) = Scope(method, req[w].row) /\ x # req[w].row
        BY <1>5, <2>3, <2>4
      <3>. QED
        BY <2>4, <3>1 DEF LockInv
    <2>. QED
      BY <2>1, <2>4
  <1>8. Update(w)'
    BY <1>2, <1>3, <1>4, <1>5, <1>6, <1>7 DEF Update
  <1>9. \A x : Holds(w, x)' <=> Holds(w, x)
    BY <1>1, <1>2, <1>3 DEF Holds, Writing
  <1>10. \A x \in Rows : locked'[x] = w <=> Holds(w, x)'
    BY <1>3, <1>9 DEF LockInv
  <1>. QED
    BY <1>1, <1>3, <1>8, <1>10, LocksApart

\* It clears it, once it is free, or what is no longer a default.
LEMMA LocksClear ==
  ASSUME ShapeInv, LockInv, NEW w \in Workers, Clear(w)
  PROVE  LockInv'
  <1>1. WorkTyped /\ TablesTyped /\ Shape(w) /\ pc[w] = "clear" /\ Alone(w) /\ Update(w)
    BY Alones DEF ShapeInv, Clear, LockInv, Act
  <1>2. req[w] # None /\ Asked(req[w]) /\ UNCHANGED <<method, isDefault, req, got>>
    BY <1>1, StageTells DEF Clear, tables
  <1>3. CASE todo[w] = {} /\ Goto(w, "write") /\ UNCHANGED <<todo, cleared, locked>>
    <2>1. pc'[w] = "write" /\ todo'[w] = {} /\ cleared'[w] = cleared[w]
      BY <1>1, <1>3 DEF Goto, WorkTyped
    <2>2. Update(w)'
      BY <1>1, <1>2, <2>1, UpdateMoves DEF Writing
    <2>3. \A x : Holds(w, x)' <=> Holds(w, x)
      BY <1>1, <1>2, <2>1 DEF Holds, Writing
    <2>4. \A x \in Rows : locked'[x] = w <=> Holds(w, x)'
      BY <1>3, <2>3 DEF LockInv
    <2>. QED
      BY <1>1, <1>2, <1>3, <2>2, <2>4, LocksApart
  <1>4. ASSUME NEW x \in todo[w], Free(w, x), todo' = [todo EXCEPT ![w] = @ \ {x}], UNCHANGED pc,
               IF x \in isDefault
               THEN /\ locked' = [locked EXCEPT ![x] = w]
                    /\ cleared' = [cleared EXCEPT ![w] = @ \cup {x}]
               ELSE UNCHANGED <<locked, cleared>>
        PROVE  LockInv'
    <2>1. /\ todo'[w] = {} /\ cleared[w] = {} /\ x \in Rows /\ pc'[w] = "clear"
          /\ req[w].default = TRUE /\ x # req[w].row
          /\ IF req[w].who = None THEN x \in Configs
             ELSE x \in Methods /\ (method[x] = None \/ method[x].who = req[w].who)
      BY <1>1, <1>2, <1>4 DEF Update, WorkTyped
    <2>2. CASE x \notin isDefault
      <3>1. UNCHANGED <<locked, cleared>>
        BY <1>4, <2>2
      <3>2. Update(w)'
        BY <1>1, <1>2, <2>1, <3>1, UpdateMoves DEF Writing
      <3>3. \A y : Holds(w, y)' <=> Holds(w, y)
        BY <1>1, <1>2, <2>1, <3>1 DEF Holds, Writing
      <3>4. \A y \in Rows : locked'[y] = w <=> Holds(w, y)'
        BY <3>1, <3>3 DEF LockInv
      <3>. QED
        BY <1>1, <1>2, <3>1, <3>2, <3>4, LocksApart
    <2>3. CASE x \in isDefault
      <3>1. /\ locked' = [locked EXCEPT ![x] = w] /\ cleared'[w] = {x}
            /\ \A y \in Rows : locked'[y] = IF y = x THEN w ELSE locked[y]
        BY <1>1, <1>4, <2>1, <2>3 DEF WorkTyped
      <3>2. Scope(method, x) = req[w].who
        BY <1>1, <2>1, <2>3, WalletAssumption DEF Scope, TablesTyped
      <3>3. x \in isDefault' /\ Scope(method', x) = req'[w].who /\ x # req'[w].row
        BY <1>2, <2>1, <2>3, <3>2
      <3>4. req[w].op = "default" /\ pc[w] \in Writing => req[w].row \notin isDefault
        BY <1>1, <1>2, <1>4 DEF Update
      <3>5. Update(w)'
        BY <1>1, <1>2, <2>1, <3>1, <3>3, <3>4 DEF Update, DefaultsOf
      <3>6. \A y : Holds(w, y)' <=> Holds(w, y) \/ y = x
        BY <1>1, <1>2, <2>1, <3>1 DEF Holds, Writing
      <3>7. \A y \in Rows : locked'[y] = w <=> Holds(w, y)'
        BY <3>1, <3>6 DEF LockInv
      <3>8. \A y \in Rows, v \in Workers \ {w} : locked'[y] = v <=> locked[y] = v
        BY <1>4, <3>1, WalletAssumption DEF Free
      <3>. QED
        BY <1>1, <1>2, <3>5, <3>7, <3>8, LocksApart
    <2>. QED
      BY <2>2, <2>3
  <1>. QED
    BY <1>3, <1>4 DEF Clear

\* The commit of a row x that no other transaction holds: beside x it changes
\* what the UPDATE cleared, and x is a default only if no other one is left.
CommitsRow(w, x) ==
  /\ \A v \in Workers \ {w} : ~Holds(v, x)
  /\ \A y \in Rows \ {x} : /\ y \in isDefault' => y \in isDefault
                           /\ y \in isDefault /\ y \notin cleared[w] => y \in isDefault'
  /\ \A y \in Methods \ {x} : method'[y] = method[y]
  /\ x \in isDefault' =>
       /\ Scope(method', x) = req[w].who
       /\ isDefault' \cap cleared[w] = {}
       /\ DefaultsOf(req[w].who) \subseteq cleared[w] \cup {x}
  /\ \A v \in Workers \ {w} : x \in Methods /\ x \in todo[v] => method'[x] \in {method[x], None}

\* Such a commit keeps one default per scope, and the locks in order.
LEMMA LocksCommit ==
  ASSUME ShapeInv, LockInv, NEW w \in Workers, NEW x \in Rows, Ends(w), CommitsRow(w, x)
  PROVE  LockInv'
  <1>1. WorkTyped /\ isDefault \subseteq Rows /\ isDefault' \subseteq Rows
    BY DEF ShapeInv, TablesTyped, Ends, Rows
  <1>2. \A y \in Rows \ {x} : Scope(method', y) = Scope(method, y)
    BY DEF CommitsRow, Scope, Rows
  <1>3. Unique'
    <2>. SUFFICES ASSUME NEW y \in isDefault', NEW z \in isDefault', y # z, z # x,
                         Scope(method', y) = Scope(method', z)
                  PROVE  FALSE
      BY DEF Unique
    <2>1. z \in isDefault /\ Scope(method', z) = Scope(method, z)
      BY <1>1, <1>2 DEF CommitsRow
    <2>2. CASE y = x
      <3>1. z \in DefaultsOf(req[w].who) /\ z \notin cleared[w]
        BY <2>1, <2>2 DEF CommitsRow, DefaultsOf
      <3>. QED
        BY <2>2, <3>1 DEF CommitsRow
    <2>3. CASE y # x
      <3>1. y \in isDefault /\ Scope(method', y) = Scope(method, y)
        BY <1>1, <1>2, <2>3 DEF CommitsRow
      <3>. QED
        BY <2>1, <3>1 DEF LockInv
    <2>. QED
      BY <2>2, <2>3
  <1>4. \A y \in cleared[w], v \in Workers \ {w} : ~Holds(v, y)
    <2>. SUFFICES ASSUME NEW y \in cleared[w], NEW v \in Workers \ {w}, Holds(v, y) PROVE FALSE
      OBVIOUS
    <2>1. y \in Rows /\ Holds(w, y)
      BY <1>1 DEF WorkTyped, Holds
    <2>. QED
      BY <2>1 DEF LockInv
  <1>5. \A v \in Workers \ {w}, y \in Rows : Holds(v, y) =>
          (y \in isDefault' <=> y \in isDefault) /\ (y \in Methods => method'[y] = method[y])
    BY <1>4 DEF CommitsRow
  <1>6. \A v \in Workers \ {w} : \A y \in todo[v] : y \in Methods => method'[y] \in {method[y], None}
    BY DEF CommitsRow
  <1>7. Spares(w)
    BY <1>5, <1>6 DEF Spares
  <1>. QED
    BY <1>3, <1>7, LocksEnd DEF Ends

\* A row that is free, or one's own, is not held by another.
LEMMA FreeOfOthers ==
  ASSUME LockInv, NEW w \in Workers, NEW x \in Rows, Free(w, x)
  PROVE  \A v \in Workers \ {w} : ~Holds(v, x)
  BY WalletAssumption DEF LockInv, Free

\* A new method is its customer's default only if no other is left.
LEMMA InsertMethodCommits ==
  ASSUME ShapeInv, FreshInv, LockInv, NEW w \in Workers, InsertMethod(w), ~Aborts(w)
  PROVE  /\ CommitsRow(w, req[w].row) /\ req[w].row \in Methods
         /\ method'[req[w].row] # None /\ method'[req[w].row].who = req[w].who
         /\ req[w].row \notin isDefault
         /\ isDefault' = (isDefault \ cleared[w]) \cup (IF req[w].default = TRUE THEN {req[w].row} ELSE {})
  <1> DEFINE m == req[w].row
             row == [who |-> req[w].who, config |-> got[w].config, token |-> got[w].seat]
  <1>1. WorkTyped /\ TablesTyped /\ Shape(w) /\ pc[w] = "write" /\ req[w].op = "save"
    BY DEF ShapeInv, InsertMethod
  <1>2. req[w] # None /\ Asked(req[w]) /\ m \in Methods /\ m \in Rows /\ m \notin Configs
    BY <1>1, StageTells, WalletAssumption DEF Asked, Rows
  <1>3. /\ method' = [method EXCEPT ![m] = row]
        /\ req[w].default = TRUE => DefaultsOf(req[w].who) \subseteq cleared[w] \cup {m}
        /\ isDefault' = ((isDefault \ cleared[w]) \ {m}) \cup (IF req[w].default = TRUE THEN {m} ELSE {})
    BY DEF InsertMethod, Aborts, CommitsOrFails, Commits
  <1>4. row \in MethodRow /\ row.who = req[w].who
    BY <1>1, <1>2 DEF WorkTyped, Asked, Request, MethodRow, Got
  <1> HIDE DEF row
  <1>5. /\ method'[m] = row /\ row # None /\ \A y \in Methods \ {m} : method'[y] = method[y]
    BY <1>1, <1>2, <1>3, <1>4, WalletAssumption DEF TablesTyped
  <1>6. Brings(w, m)
    BY <1>1, <1>2 DEF Brings
  <1>7. Unborn(m)
    BY <1>2, <1>6 DEF FreshInv
  <1>8. m \notin isDefault /\ \A v \in Workers : ~Holds(v, m) /\ m \notin todo[v]
    BY <1>2, <1>7, UnbornFree
  <1>9. m \in isDefault' => /\ Scope(method', m) = req[w].who
                            /\ isDefault' \cap cleared[w] = {}
                            /\ DefaultsOf(req[w].who) \subseteq cleared[w] \cup {m}
    <2>1. m \notin cleared[w]
      BY <1>8 DEF Holds
    <2>. QED
      BY <1>2, <1>3, <1>4, <1>5, <1>8, <2>1 DEF Scope
  <1>10. CommitsRow(w, m)
    BY <1>3, <1>5, <1>8, <1>9 DEF CommitsRow
  <1>. QED
    BY <1>2, <1>3, <1>4, <1>5, <1>8, <1>10

\* The method that was locked is the default now, and what was cleared is not.
LEMMA SetDefaultCommits ==
  ASSUME ShapeInv, LockInv, NEW w \in Workers, SetDefault(w), ~Aborts(w)
  PROVE  /\ CommitsRow(w, req[w].row) /\ req[w].row \in Methods
         /\ method[req[w].row] # None /\ method[req[w].row].who = req[w].who
         /\ isDefault' = (isDefault \ cleared[w]) \cup {req[w].row} /\ method' = method
  <1> DEFINE m == req[w].row
  <1>1. WorkTyped /\ TablesTyped /\ Shape(w) /\ pc[w] = "write" /\ req[w].op = "default" /\ Update(w)
    BY DEF ShapeInv, SetDefault, LockInv
  <1>2. /\ req[w] # None /\ m \in Methods /\ m \in Rows /\ m \notin Configs /\ got[w].default \in BOOLEAN
    <2>1. /\ req[w] # None /\ Asked(req[w]) /\ HasRead(req[w], "write", got[w]) /\ got[w] \in Got
      BY <1>1, StageTells DEF WorkTyped
    <2>2. got[w].default \in BOOLEAN
      BY <1>1, <2>1 DEF HasRead, Writing, Got, Tri
    <2>. QED
      BY <1>1, <2>1, <2>2, WalletAssumption DEF Asked, Rows
  <1>3. /\ method[m] # None /\ method[m].who = req[w].who
        /\ got[w].default = TRUE <=> m \in isDefault
    BY <1>1, <1>2 DEF Update, Writing
  <1>4. Scope(method, m) = req[w].who /\ m \notin cleared[w]
    BY <1>1, <1>2, <1>3 DEF Scope, Update
  <1>5. /\ method' = method /\ DefaultsOf(req[w].who) \subseteq cleared[w] \cup {m}
        /\ isDefault' = (isDefault \ cleared[w]) \cup {m}
    <2>1. CASE got[w].default = TRUE
      <3>1. isDefault' = isDefault \ cleared[w] /\ method' = method /\ m \in isDefault
        BY <1>3, <2>1 DEF SetDefault
      <3>2. DefaultsOf(req[w].who) \subseteq {m}
        BY <1>4, <3>1 DEF LockInv, DefaultsOf
      <3>. QED
        BY <1>4, <3>1, <3>2
    <2>2. CASE got[w].default = FALSE
      BY <2>2 DEF SetDefault, Aborts, CommitsOrFails, Commits
    <2>. QED
      BY <1>2, <2>1, <2>2
  <1>6. Holds(w, m)
    BY <1>1, <1>2 DEF Holds, Writing
  <1>7. \A v \in Workers \ {w} : ~Holds(v, m)
    BY <1>2, <1>6 DEF LockInv
  <1>8. CommitsRow(w, m)
    BY <1>4, <1>5, <1>7 DEF CommitsRow
  <1>. QED
    BY <1>2, <1>3, <1>5, <1>8

\* A deleted method takes nothing else with it.
LEMMA DeleteMethodCommits ==
  ASSUME ShapeInv, LockInv, NEW w \in Workers, DeleteMethod(w), ~Aborts(w)
  PROVE  /\ CommitsRow(w, req[w].row) /\ req[w].row \in Methods
         /\ isDefault' = isDefault \ {req[w].row}
         /\ method'[req[w].row] = None /\ \A y \in Methods \ {req[w].row} : method'[y] = method[y]
  <1> DEFINE m == req[w].row
  <1>1. TablesTyped /\ Shape(w) /\ pc[w] = "write" /\ req[w].op = "delete"
    BY DEF ShapeInv, DeleteMethod
  <1>2. m \in Methods /\ m \in Rows
    BY <1>1, StageTells DEF Asked, Rows
  <1>3. Free(w, m) /\ isDefault' = isDefault \ {m} /\ method' = [method EXCEPT ![m] = None]
    BY DEF DeleteMethod, Aborts
  <1>4. method'[m] = None /\ \A y \in Methods \ {m} : method'[y] = method[y]
    BY <1>1, <1>2, <1>3 DEF TablesTyped
  <1>5. CommitsRow(w, m)
    BY <1>2, <1>3, <1>4, FreeOfOthers DEF CommitsRow
  <1>. QED
    BY <1>2, <1>3, <1>4, <1>5

\* A configuration's commit touches no method, and no default among them.
LEMMA ConfigCommits ==
  ASSUME ShapeInv, FreshInv, LockInv, NEW w \in Workers,
         InsertConfig(w) \/ SaveConfig(w) \/ DeleteConfig(w), ~Aborts(w)
  PROVE  /\ CommitsRow(w, req[w].row) /\ req[w].row \in Configs /\ method' = method
         /\ \A x \in Methods : x \in isDefault => x \in isDefault' \/ x \in cleared[w]
         /\ req[w].who = None
  <1> DEFINE c == req[w].row
  <1>1. /\ TablesTyped /\ Shape(w) /\ pc[w] = "write" /\ req[w].op \in {"add", "patch", "drop"}
        /\ InsertConfig(w) => req[w].op = "add"
        /\ Update(w)
    BY DEF ShapeInv, InsertConfig, SaveConfig, DeleteConfig, LockInv
  <1>2. /\ req[w] # None /\ c \in Configs /\ c \in Rows /\ c \notin Methods /\ req[w].who = None
    BY <1>1, StageTells, WalletAssumption DEF Asked, Rows
  <1>3. \A v \in Workers \ {w} : ~Holds(v, c)
    <2>1. CASE InsertConfig(w)
      <3>1. Brings(w, c)
        BY <1>1, <1>2, <2>1 DEF Brings
      <3>2. Unborn(c)
        BY <1>2, <3>1 DEF FreshInv
      <3>. QED
        BY <1>2, <3>2, UnbornFree
    <2>2. CASE SaveConfig(w) \/ DeleteConfig(w)
      BY <1>2, <2>2, FreeOfOthers DEF SaveConfig, DeleteConfig
    <2>. QED
      BY <2>1, <2>2
  <1>4. method' = method /\ Scope(method, c) = None /\ c \notin cleared[w]
    BY <1>1, <1>2 DEF Scope, Update, InsertConfig, SaveConfig, DeleteConfig, Aborts, CommitsOrFails, Commits
  <1>5. \/ isDefault' = isDefault \ {c}
        \/ isDefault' = (isDefault \ cleared[w]) \ {c}
        \/ /\ isDefault' = ((isDefault \ cleared[w]) \ {c}) \cup {c}
           /\ DefaultsOf(req[w].who) \subseteq cleared[w] \cup {c}
    BY DEF InsertConfig, SaveConfig, DeleteConfig, Aborts, CommitsOrFails, Commits
  <1>6. CommitsRow(w, c)
    BY <1>2, <1>3, <1>4, <1>5 DEF CommitsRow
  <1>. QED
    BY <1>2, <1>4, <1>5, <1>6

\* A payment's row is no default.
LEMMA LocksPay ==
  ASSUME ShapeInv, LockInv, NEW w \in Workers, Waits(w) \/ Captured(w) \/ Retrieved(w), Ends(w)
  PROVE  UNCHANGED <<method, isDefault>> /\ LockInv'
  <1>1. UNCHANGED <<method, isDefault>>
    BY DEF Waits, Captured, Retrieved, Pay, Abort, tables
  <1>. QED
    BY <1>1, LocksEnd DEF Ends, LockInv, Unique, Spares

\* A commit ends the request, with the tables in order.
LEMMA CommitEnds ==
  ASSUME ShapeInv, NEW w \in Workers, Committing(w)
  PROVE  Aborts(w) \/ Ends(w)
  BY InsertMethodShape, SetDefaultShape, DeleteMethodShape, InsertConfigShape,
     SaveConfigShape, DeleteConfigShape, PayShape DEF Committing

\* Every step keeps the locks, the UPDATEs and the uniqueness of defaults in order.
LEMMA LockStep ==
  ASSUME ShapeInv, FreshInv, LockInv, NEW w \in Workers, Act(w)
  PROVE  LockInv'
  <1>1. WorkTyped /\ Shape(w) /\ Alone(w) /\ TablesTyped
    BY Alones DEF ShapeInv
  <1>2. CASE Starting(w) \/ Aborts(w)
    BY <1>2, LocksStart, LocksAbort
  <1>3. CASE LockTarget(w) \/ Scan(w) \/ Clear(w)
    BY <1>3, LocksLockTarget, LocksScan, LocksClear
  <1>4. CASE ~Aborts(w) /\ (ReadConfig(w) \/ CollectConfig(w) \/ ReadMethod(w) \/ Resolve(w))
    <2>1. /\ req'[w] = req[w] /\ UNCHANGED <<method, isDefault, locked, todo, cleared>>
          /\ pc[w] \in {"read", "resolve"}
      BY <1>4 DEF ReadConfig, CollectConfig, ReadMethod, Resolve, Aborts, tables
    <2>. QED
      BY <1>1, <2>1, StageTells, LocksQuiet
  <1>5. CASE ~Aborts(w) /\ (ReadPayment(w) \/ Aim(w) \/ CallGateway(w) \/ Authorized(w) \/ Reread(w))
    <2>1. /\ req'[w] = req[w] /\ UNCHANGED <<method, isDefault, locked, todo, cleared>>
          /\ pc[w] \in {"read", "aim", "call", "result", "reread"}
      BY <1>5 DEF ReadPayment, Aim, CallGateway, Authorized, Reread, Aborts, tables
    <2>. QED
      BY <1>1, <2>1, StageTells, LocksQuiet
  <1>6. CASE ~Aborts(w) /\ Committing(w)
    <2>1. Ends(w)
      BY <1>6, CommitEnds
    <2>2. CASE InsertMethod(w) \/ SetDefault(w) \/ DeleteMethod(w)
      BY <1>6, <2>1, <2>2, InsertMethodCommits, SetDefaultCommits, DeleteMethodCommits, LocksCommit DEF Rows
    <2>3. CASE InsertConfig(w) \/ SaveConfig(w) \/ DeleteConfig(w)
      BY <1>6, <2>1, <2>3, ConfigCommits, LocksCommit DEF Rows
    <2>4. CASE Waits(w) \/ Captured(w) \/ Retrieved(w)
      BY <2>1, <2>4, LocksPay
    <2>. QED
      BY <1>6, <2>2, <2>3, <2>4 DEF Committing
  <1>. QED
    BY <1>2, <1>3, <1>4, <1>5, <1>6 DEF Act, Starting, Committing

\* At first nothing is locked, and the rows obey their constraints.
LEMMA LockFirst == ASSUME WalletInit PROVE LockInv
  <1>1. /\ Sound([method |-> method, config |-> config, default |-> isDefault])
        /\ \A w \in Workers : req[w] = None /\ todo[w] = {} /\ cleared[w] = {}
    BY FirstTables, FirstWorkers
  <1>2. \A x, y \in isDefault : Scope(method, x) = Scope(method, y) => x = y
    BY <1>1 DEF Sound
  <1>3. \A w \in Workers : Update(w) /\ \A x : ~Holds(w, x)
    BY <1>1 DEF Update, Holds
  <1>4. \A x \in Rows, w \in Workers : locked[x] # w
    BY WalletAssumption DEF WalletInit
  <1>. QED
    BY <1>2, <1>3, <1>4 DEF LockInv

\* A step that changes nothing.
LEMMA LockStutter == ASSUME LockInv, UNCHANGED wallet PROVE LockInv'
  <1>1. ASSUME NEW w \in Workers PROVE Update(w)'
    <2>1. Update(w) /\ Alone(None)
      BY DEF LockInv, Alone, wallet, work
    <2>. QED
      BY <2>1, UpdateApart, WalletAssumption DEF wallet, tables
  <1>. QED
    BY <1>1 DEF LockInv, Holds, wallet, tables, work

\* What holds of the tables, the ids and the locks in every state.
WalletInv == ShapeInv /\ FreshInv /\ LockInv

\* In every state the tables, the ids and the locks are in order.
LEMMA WalletInvariant == WalletSpec => []WalletInv
  <1>1. WalletInit => WalletInv
    BY FreshFirst, LockFirst, ShapeFirst DEF WalletInv
  <1>2. WalletInv /\ [WalletNext]_wallet => WalletInv'
    <2>1. ASSUME WalletInv, UNCHANGED wallet PROVE FreshInv' /\ LockInv'
      BY <2>1, FreshStutter, LockStutter DEF WalletInv
    <2>2. ASSUME WalletInv, NEW w \in Workers, Act(w) PROVE FreshInv' /\ LockInv'
      BY <2>2, FreshStep, LockStep DEF WalletInv
    <2>. QED
      BY <2>1, <2>2, ShapeStep DEF WalletInv, WalletNext
  <1>. QED
    BY <1>1, <1>2, PTL DEF WalletSpec

\* What a commit leaves of a customer's default.
LEMMA DefaultStays ==
  ASSUME WalletInv, NEW w \in Workers, Act(w), NEW c \in Customers, NEW x \in DefaultsOf(c)
  PROVE  (\E y \in isDefault' : Scope(method', y) = c) \/ method'[x] = None
  <1>1. ShapeInv /\ FreshInv /\ LockInv /\ TablesTyped /\ x \in isDefault /\ Scope(method, x) = c
    BY DEF WalletInv, ShapeInv, DefaultsOf
  <1>2. x \in Methods /\ x \notin Configs /\ c # None
    BY <1>1, WalletAssumption DEF TablesTyped, Scope
  <1>3. SUFFICES ASSUME ~UNCHANGED <<method, isDefault>>
                 PROVE  (\E y \in isDefault' : Scope(method', y) = c) \/ method'[x] = None
    BY <1>1
  <1>4. Committing(w) /\ ~Aborts(w)
    <2>1. Starting(w) => UNCHANGED <<method, isDefault>>
      BY <1>1, Arrivals, StartShape DEF Arrives
    <2>2. Aborts(w) \/ Advances(w) => UNCHANGED <<method, isDefault>>
      BY DEF Aborts, Abort, tables, Advances
    <2>3. Reading(w) => Advances(w) \/ Aborts(w)
      BY <1>1, LockTargetShape, ScanShape, ReadConfigShape, CollectShape, ReadMethodShape,
         ResolveShape, ReadPaymentShape, AimShape, AuthorizedShape, RereadShape DEF Reading, Proceeds
    <2>. QED
      BY <1>3, <2>1, <2>2, <2>3 DEF Act, Starting, Reading, Committing
  <1>5. x \in cleared[w] => req[w].who = c
    BY <1>1 DEF LockInv, Update, DefaultsOf
  <1>6. CASE InsertMethod(w) \/ SetDefault(w)
    <2> DEFINE m == req[w].row
    <2>1. /\ CommitsRow(w, m) /\ m \in Methods /\ m \notin Configs /\ method'[m].who = req[w].who
          /\ x # m => Scope(method', x) = c
          /\ x \notin cleared[w] => x \in isDefault'
          /\ cleared[w] # {} => m \in isDefault'
      <3>1. CASE InsertMethod(w)
        <4>1. /\ CommitsRow(w, m) /\ m \in Methods /\ method'[m].who = req[w].who
              /\ isDefault' = (isDefault \ cleared[w]) \cup (IF req[w].default = TRUE THEN {m} ELSE {})
          BY <1>1, <1>4, <3>1, InsertMethodCommits
        <4>2. cleared[w] # {} => req[w].default = TRUE
          <5>1. req[w] # None
            BY <1>1, <3>1, StageTells DEF InsertMethod, ShapeInv
          <5>. QED
            BY <1>1, <5>1 DEF LockInv, Update
        <4>. QED
          BY <1>1, <1>2, <4>1, <4>2, WalletAssumption DEF CommitsRow, Scope
      <3>2. CASE SetDefault(w)
        BY <1>1, <1>2, <1>4, <3>2, SetDefaultCommits, WalletAssumption DEF Scope
      <3>. QED
        BY <1>6, <3>1, <3>2
    <2>2. CASE x \in cleared[w]
      <3>1. m \in isDefault' /\ Scope(method', m) = c
        BY <1>5, <2>1, <2>2 DEF Scope
      <3>. QED
        BY <3>1
    <2>3. CASE x \notin cleared[w] /\ x # m
      BY <2>1, <2>3
    <2>4. CASE x \notin cleared[w] /\ x = m
      <3>1. Scope(method', m) = c
        <4>1. InsertMethod(w) => x # m
          BY <1>1, <1>4, InsertMethodCommits
        <4>2. SetDefault(w) => method' = method
          BY <1>1, <1>4, SetDefaultCommits
        <4>. QED
          BY <1>1, <1>6, <2>4, <4>1, <4>2
      <3>. QED
        BY <2>1, <2>4, <3>1
    <2>. QED
      BY <2>2, <2>3, <2>4
  <1>7. CASE DeleteMethod(w)
    <2>1. /\ isDefault' = isDefault \ {req[w].row} /\ method'[req[w].row] = None
          /\ \A y \in Methods \ {req[w].row} : method'[y] = method[y]
      BY <1>1, <1>4, <1>7, DeleteMethodCommits
    <2>2. x # req[w].row => x \in isDefault' /\ Scope(method', x) = c
      BY <1>1, <1>2, <2>1 DEF Scope
    <2>. QED
      BY <2>1, <2>2
  <1>8. CASE InsertConfig(w) \/ SaveConfig(w) \/ DeleteConfig(w)
    <2>1. method' = method /\ (x \in isDefault' \/ x \in cleared[w]) /\ req[w].who = None
      BY <1>1, <1>2, <1>4, <1>8, ConfigCommits
    <2>. QED
      BY <1>1, <1>2, <1>5, <2>1
  <1>9. CASE Waits(w) \/ Captured(w) \/ Retrieved(w)
    BY <1>1, <1>3, <1>4, <1>9, CommitEnds, LocksPay
  <1>. QED
    BY <1>4, <1>6, <1>7, <1>8, <1>9 DEF Committing

\* "There is no window where the customer has two defaults or none": whatever
\* requests run at once, each commit leaves a customer who had a default method
\* with exactly one, unless it deletes that very method.
THEOREM OneDefault == WalletSpec => DefaultKept
  <1>1. ASSUME WalletInv, WalletInv', [WalletNext]_wallet, NEW c \in Customers, DefaultsOf(c) # {}
        PROVE  Cardinality(DefaultsOf(c)') = 1 \/ \E m \in DefaultsOf(c) : method'[m] = None
    <2>1. PICK x : x \in DefaultsOf(c)
      BY <1>1
    <2>2. (\E y \in isDefault' : Scope(method', y) = c) \/ method'[x] = None
      <3>1. CASE UNCHANGED wallet
        BY <2>1, <3>1 DEF wallet, tables, DefaultsOf
      <3>2. CASE \E w \in Workers : Act(w)
        BY <1>1, <2>1, <3>2, DefaultStays
      <3>. QED
        BY <1>1, <3>1, <3>2 DEF WalletNext
    <2>3. ASSUME NEW y \in isDefault', Scope(method', y) = c PROVE Cardinality(DefaultsOf(c)') = 1
      <3>1. \A z \in isDefault' : Scope(method', z) = c => z = y
        BY <1>1, <2>3 DEF WalletInv, LockInv
      <3>2. DefaultsOf(c)' = {y}
        BY <2>3, <3>1 DEF DefaultsOf
      <3>. QED
        BY <3>2, FS_Singleton
    <2>. QED
      BY <2>1, <2>2, <2>3
  <1>2. WalletInv /\ WalletInv' /\ [WalletNext]_wallet =>
          [\A c \in Customers :
             DefaultsOf(c) # {} =>
               \/ Cardinality(DefaultsOf(c)') = 1
               \/ \E m \in DefaultsOf(c) : method'[m] = None]_wallet
    BY <1>1
  <1>. QED
    BY <1>2, WalletInvariant, PTL DEF WalletSpec, DefaultKept

-----------------------------------------------------------------------------
(* No circle of waits. *)

\* Who has cleared a default waits for nobody: it writes its own row next, which
\* no other has locked.
ClearedWaits == \A w \in Workers : cleared[w] # {} => WaitsFor(w) = {}

\* A PATCH waits neither: if its configuration were locked, it would be the
\* default, and there is one only.
LEMMA ClearedWaitsNot == WalletInv => ClearedWaits
  <1>. SUFFICES ASSUME WalletInv, NEW w \in Workers, cleared[w] # {} PROVE WaitsFor(w) = {}
    BY DEF ClearedWaits
  <1>1. /\ ShapeInv /\ FreshInv /\ LockInv /\ TablesTyped /\ Shape(w) /\ Update(w) /\ WorkTyped
        /\ todo[w] = {} /\ pc[w] \in {"clear", "write"}
    BY DEF WalletInv, ShapeInv, LockInv, Update
  <1>2. CASE pc[w] = "clear"
    BY <1>1, <1>2 DEF WaitsFor, Wants
  <1>3. CASE pc[w] = "write"
    <2> DEFINE x == req[w].row
    <2>1. /\ req[w] # None /\ Asked(req[w]) /\ WaitsFor(w) = {locked[x]} \ {w, None}
          /\ req[w].op \in {"default", "save", "add", "patch", "delete", "drop"}
      BY <1>1, <1>3, StageTells DEF WaitsFor, Wants
    <2>2. x \in Rows
      BY <2>1 DEF Asked, Rows
    <2>3. PICK y : y \in cleared[w]
      OBVIOUS
    <2>4. y \in isDefault /\ Scope(method, y) = req[w].who /\ y # x
      BY <1>1, <2>3 DEF Update, DefaultsOf
    <2>5. ASSUME NEW v \in Workers \ {w}, Holds(v, x) PROVE FALSE
      <3>1. CASE req[w].op = "default"
        <4>1. Holds(w, x)
          BY <1>3, <2>1, <3>1 DEF Holds, Writing
        <4>. QED
          BY <1>1, <2>2, <2>5, <4>1 DEF LockInv
      <3>2. CASE req[w].op \in {"save", "add"}
        <4>1. Unborn(x)
          BY <1>1, <2>1, <2>2, <3>2 DEF FreshInv, Brings
        <4>. QED
          BY <1>1, <2>2, <2>5, <4>1, UnbornFree
      <3>3. CASE req[w].op \in {"patch", "drop"}
        <4>1. x \in Configs /\ req[w].who = None /\ x \notin Methods
          BY <2>1, <3>3, WalletAssumption DEF Asked
        <4>2. CASE x \in cleared[v]
          <5>1. x \in isDefault
            BY <1>1, <4>2 DEF LockInv, Update, DefaultsOf
          <5>2. Scope(method, x) = None
            BY <4>1 DEF Scope
          <5>. QED
            BY <1>1, <2>4, <4>1, <5>1, <5>2 DEF LockInv
        <4>3. CASE x \notin cleared[v]
          <5>1. req[v] # None /\ req[v].op = "default" /\ req[v].row = x
            BY <2>5, <4>3 DEF Holds
          <5>2. Asked(req[v])
            BY <1>1, <5>1 DEF ShapeInv, Shape
          <5>. QED
            BY <4>1, <5>1, <5>2 DEF Asked
        <4>. QED
          BY <4>2, <4>3
      <3>4. CASE req[w].op = "delete"
        <4>1. Holds(v, x) /\ x \in Methods /\ req[w].who # None
          BY <2>1, <2>5, <3>4 DEF Asked
        <4>2. req[w].default # TRUE
          BY <2>1, <3>4 DEF Asked
        <4>. QED
          BY <1>1, <2>1, <4>2 DEF Update
      <3>. QED
        BY <2>1, <3>1, <3>2, <3>3, <3>4
    <2>6. locked[x] \in {w, None}
      BY <1>1, <2>2, <2>5 DEF WorkTyped, LockInv
    <2>. QED
      BY <2>1, <2>6
  <1>. QED
    BY <1>1, <1>2, <1>3

\* Who holds a row that is a default waits for nobody.
LEMMA DefaultWaitsNot ==
  ASSUME WalletInv, NEW w \in Workers, NEW x \in isDefault, Holds(w, x)
  PROVE  WaitsFor(w) = {}
  <1>1. ShapeInv /\ LockInv /\ Update(w) /\ Shape(w) /\ TablesTyped
    BY DEF WalletInv, ShapeInv, LockInv
  <1>2. CASE x \in cleared[w]
    BY <1>2, ClearedWaitsNot DEF ClearedWaits
  <1>3. CASE req[w] # None /\ req[w].op = "default" /\ pc[w] \in Writing /\ req[w].row = x
    <2>1. todo[w] = {} /\ x \in Rows
      BY <1>1, <1>3 DEF Update, TablesTyped, Rows
    <2>2. locked[x] = w
      BY <1>1, <2>1 DEF LockInv
    <2>. QED
      BY <1>3, <2>1, <2>2 DEF WaitsFor, Wants, Writing
  <1>. QED
    BY <1>2, <1>3 DEF Holds

\* A new wait closes no circle if nobody waits for who waits, or if it is for
\* those who wait for nobody.
LEMMA AcyclicStep ==
  ASSUME Acyclic, NEW w \in Workers,
         \A v \in Workers \ {w} : WaitsFor(v)' \subseteq WaitsFor(v) \cup {w},
         \A v \in Workers : v \notin WaitsFor(v)',
         \/ \A u \in Workers : u \in WaitsFor(w)' => WaitsFor(u)' = {}
         \/ \A v \in Workers : w \notin WaitsFor(v)'
  PROVE  Acyclic'
  <1>. SUFFICES ASSUME NEW S \in SUBSET Workers, S # {}
                PROVE  \E v \in S : WaitsFor(v)' \cap S = {}
    BY DEF Acyclic
  <1>1. CASE w \notin S
    <2>1. PICK v \in S : WaitsFor(v) \cap S = {}
      BY DEF Acyclic
    <2>. QED
      BY <1>1, <2>1
  <1>2. CASE w \in S /\ \A u \in Workers : u \in WaitsFor(w)' => WaitsFor(u)' = {}
    BY <1>2
  <1>3. CASE w \in S /\ \A v \in Workers : w \notin WaitsFor(v)'
    <2>1. CASE S = {w}
      BY <1>3, <2>1
    <2>2. CASE S # {w}
      <3>1. S \ {w} # {} /\ S \ {w} \in SUBSET Workers
        BY <1>3, <2>2
      <3>2. PICK v \in S \ {w} : WaitsFor(v) \cap (S \ {w}) = {}
        BY <3>1 DEF Acyclic
      <3>. QED
        BY <1>3, <3>2
    <2>. QED
      BY <2>1, <2>2
  <1>. QED
    BY <1>1, <1>2, <1>3

\* Nobody waits for who holds nothing.
Unawaited ==
  \A w \in Workers : (\A x \in Rows : ~Holds(w, x)) => \A v \in Workers : w \notin WaitsFor(v)
WantsRows == \A w \in Workers : Wants(w) \subseteq Rows

\* A worker waits for rows only.
LEMMA WantedRows == WalletInv => WantsRows
  <1>. SUFFICES ASSUME WalletInv, NEW w \in Workers PROVE Wants(w) \subseteq Rows
    BY DEF WantsRows
  <1>1. Shape(w) /\ WorkTyped
    BY DEF WalletInv, ShapeInv
  <1>2. CASE pc[w] \in {"lock", "write"}
    <2>1. req[w].row \in Rows
      BY <1>1, <1>2, StageTells DEF Asked, Rows
    <2>. QED
      BY <1>2, <2>1 DEF Wants
  <1>3. CASE pc[w] \notin {"lock", "write"}
    BY <1>1, <1>3 DEF Wants, WorkTyped
  <1>. QED
    BY <1>2, <1>3

\* Locks are known by what their holder is doing.
LEMMA HoldsNothing == WalletInv => Unawaited
  BY WantedRows DEF WalletInv, LockInv, WantsRows, Unawaited, WaitsFor

\* The others' requests stand where they were.
LEMMA OthersWait ==
  ASSUME WalletInv, NEW w, NEW v \in Workers \ {w}, Alone(w),
         \A x \in Rows : locked'[x] \in {locked[x], w, None}
  PROVE  /\ WaitsFor(v)' \subseteq WaitsFor(v) \cup {w}
         /\ locked' = locked => WaitsFor(v)' = WaitsFor(v)
  <1>1. Wants(v)' = Wants(v) /\ Wants(v) \subseteq Rows
    BY WantedRows DEF Alone, Wants, WantsRows
  <1>2. WaitsFor(v)' = {locked'[x] : x \in Wants(v)} \ {v, None}
    BY <1>1 DEF WaitsFor
  <1>. QED
    BY <1>1, <1>2 DEF WaitsFor

\* What a step locks, and where it goes.
LEMMA LockMoves ==
  ASSUME WalletInv, NEW w \in Workers, Act(w)
  PROVE  /\ \A x \in Rows : locked'[x] \in {locked[x], w, None}
         /\ \/ pc'[w] \notin {"lock", "clear", "write"}
            \/ Starting(w) \/ Scan(w) \/ Clear(w) \/ (CollectConfig(w) /\ req[w].op = "drop" /\ pc[w] = "read")
  <1>1. WorkTyped /\ Shape(w) /\ ShapeInv
    BY DEF WalletInv, ShapeInv
  <1>2. CASE Starting(w)
    BY <1>1, <1>2, Arrivals, StartShape DEF Arrives
  <1>3. CASE End(w)
    BY <1>1, <1>3 DEF End, Goto, WorkTyped
  <1>4. CASE ~End(w) /\ (LockTarget(w) \/ ReadConfig(w) \/ CollectConfig(w) \/ ReadMethod(w) \/ Resolve(w))
    BY <1>1, <1>4 DEF LockTarget, ReadConfig, CollectConfig, ReadMethod, Resolve, Abort, Goto, WorkTyped
  <1>5. CASE Scan(w) \/ Clear(w)
    BY <1>1, <1>5 DEF Scan, Clear, WorkTyped
  <1>6. CASE ~End(w) /\ (ReadPayment(w) \/ Aim(w) \/ CallGateway(w) \/ Authorized(w) \/ Reread(w))
    BY <1>1, <1>6 DEF ReadPayment, Aim, CallGateway, Authorized, Reread, Abort, Goto, WorkTyped
  <1>7. Committing(w) => End(w)
    BY <1>1, CommitEnds DEF Aborts, Abort, Ends
  <1>. QED
    BY <1>2, <1>3, <1>4, <1>5, <1>6, <1>7 DEF Act, Starting, Committing

\* No step closes a circle of waits.
LEMMA AcyclicWait ==
  ASSUME WalletInv, WalletInv', Acyclic, NEW w \in Workers, Act(w)
  PROVE  Acyclic'
  <1>1. /\ ShapeInv /\ LockInv /\ TablesTyped /\ WorkTyped /\ Shape(w) /\ Update(w) /\ Alone(w)
        /\ LockInv' /\ Shape(w)' /\ Update(w)'
    BY Alones DEF WalletInv, ShapeInv, LockInv
  <1>2. \A v \in Workers \ {w} : WaitsFor(v)' \subseteq WaitsFor(v) \cup {w}
    BY <1>1, LockMoves, OthersWait
  <1>3. \A v \in Workers : v \notin WaitsFor(v)'
    BY DEF WaitsFor
  <1>4. Unawaited' /\ ClearedWaits'
    BY HoldsNothing, ClearedWaitsNot, PTL
  <1>5. ASSUME \A x \in Rows : ~Holds(w, x)' PROVE \A v \in Workers : w \notin WaitsFor(v)'
    BY <1>4, <1>5 DEF Unawaited
  <1>6. CASE pc'[w] \notin {"lock", "clear", "write"}
    <2>1. WaitsFor(w)' = {}
      BY <1>6 DEF WaitsFor, Wants
    <2>. QED
      BY <1>2, <1>3, <2>1, AcyclicStep
  <1>7. CASE Starting(w)
    <2>1. PICK r : Arrives(w, r) /\ used' \subseteq Rows
      BY <1>1, <1>7, Arrivals
    <2>2. cleared'[w] = {} /\ req'[w] = r /\ pc'[w] = FirstStage(r)
      BY <1>1, <2>1, StartShape DEF Arrives
    <2>3. r.op = "default" => pc'[w] \notin Writing
      BY <2>2 DEF FirstStage, Writing
    <2>4. \A x \in Rows : ~Holds(w, x)'
      BY <2>2, <2>3 DEF Holds
    <2>. QED
      BY <1>2, <1>3, <1>5, <2>4, AcyclicStep
  <1>8. CASE CollectConfig(w) /\ req[w].op = "drop" /\ pc[w] = "read"
    <2>1. cleared[w] = {}
      BY <1>1, <1>8 DEF Update
    <2>2. req'[w] \in {req[w], None} /\ cleared'[w] = {}
      BY <1>1, <1>8, <2>1 DEF CollectConfig, Abort, End, WorkTyped
    <2>3. \A x \in Rows : ~Holds(w, x)'
      BY <1>8, <2>2 DEF Holds
    <2>. QED
      BY <1>2, <1>3, <1>5, <2>3, AcyclicStep
  <1>9. CASE Scan(w)
    <2>1. /\ pc'[w] = "clear" /\ locked' = locked /\ isDefault' = isDefault
          /\ todo'[w] \subseteq isDefault
      BY <1>1, <1>9 DEF Scan, Goto, WorkTyped, tables, DefaultsOf
    <2>2. ASSUME NEW u \in Workers, u \in WaitsFor(w)' PROVE WaitsFor(u)' = {}
      <3>1. PICK x \in isDefault : locked[x] = u /\ u # w
        BY <2>1, <2>2 DEF WaitsFor, Wants
      <3>2. Holds(u, x)
        BY <1>1, <3>1 DEF LockInv, TablesTyped, Rows
      <3>3. WaitsFor(u) = {}
        BY <3>1, <3>2, DefaultWaitsNot
      <3>. QED
        BY <1>1, <2>1, <3>1, <3>3, OthersWait
    <2>. QED
      BY <1>2, <1>3, <2>2, AcyclicStep
  <1>10. CASE Clear(w)
    <2>1. req'[w] = req[w] /\ pc[w] = "clear" /\ req[w] # None
      BY <1>1, <1>10, StageTells DEF Clear
    <2>2. CASE cleared'[w] # {}
      <3>1. WaitsFor(w)' = {}
        BY <1>4, <2>2 DEF ClearedWaits
      <3>. QED
        BY <1>2, <1>3, <3>1, AcyclicStep
    <2>3. CASE req[w].op # "default" /\ cleared'[w] = {}
      <3>1. \A x \in Rows : ~Holds(w, x)'
        BY <2>1, <2>3 DEF Holds
      <3>. QED
        BY <1>2, <1>3, <1>5, <3>1, AcyclicStep
    <2>4. CASE req[w].op = "default" /\ pc'[w] = "write"
      <3>1. Holds(w, req[w].row)' /\ req'[w].row \in Rows
        BY <1>1, <2>1, <2>4, StageTells DEF Holds, Writing, Asked, Rows
      <3>2. locked'[req'[w].row] = w
        BY <1>1, <3>1 DEF LockInv
      <3>3. WaitsFor(w)' = {}
        BY <2>1, <2>4, <3>2 DEF WaitsFor, Wants
      <3>. QED
        BY <1>2, <1>3, <3>3, AcyclicStep
    <2>5. CASE pc'[w] = "clear"
      <3>1. todo'[w] = {}
        BY <1>1, <1>10, <2>1, <2>5 DEF Clear, Goto, WorkTyped, Update
      <3>2. WaitsFor(w)' = {}
        BY <2>5, <3>1 DEF WaitsFor, Wants
      <3>. QED
        BY <1>2, <1>3, <3>2, AcyclicStep
    <2>6. pc'[w] \in {"clear", "write"}
      BY <1>1, <1>10, <2>1 DEF Clear, Goto, WorkTyped
    <2>. QED
      BY <2>2, <2>3, <2>4, <2>5, <2>6
  <1>. QED
    BY <1>6, <1>7, <1>8, <1>9, <1>10, LockMoves

\* The rows of one customer, or the configurations, are not locked in an order
\* that depends on the request: no transactions wait in a circle, each for a row
\* of the next, however many there are.
THEOREM NoDeadlock == WalletSpec => []NoCircularWait
  <1>1. WalletInit => Acyclic
    <2>. SUFFICES ASSUME WalletInit, NEW w \in Workers PROVE WaitsFor(w) = {}
      BY DEF Acyclic
    <2>. QED
      BY FirstWorkers DEF WaitsFor, Wants
  <1>2. WalletInv /\ WalletInv' /\ Acyclic /\ [WalletNext]_wallet => Acyclic'
    <2>. SUFFICES ASSUME WalletInv, WalletInv', Acyclic, [WalletNext]_wallet PROVE Acyclic'
      OBVIOUS
    <2>1. CASE UNCHANGED wallet
      <3>1. \A w \in Workers : WaitsFor(w)' = WaitsFor(w)
        BY <2>1 DEF WaitsFor, Wants, wallet, work
      <3>. QED
        BY <3>1 DEF Acyclic
    <2>. QED
      BY <2>1, AcyclicWait DEF WalletNext
  <1>3. Acyclic => NoCircularWait
    BY DEF Acyclic, NoCircularWait
  <1>. QED
    BY <1>1, <1>2, <1>3, WalletInvariant, PTL DEF WalletSpec

-----------------------------------------------------------------------------
(* Payment calls. *)

\* How configurations change: one is written, and no other has its name; or one goes.
LEMMA ConfigMoves ==
  ASSUME ShapeInv, NEW w \in Workers, Act(w)
  PROVE  \/ config' = config
         \/ \E c \in Configs, row \in ConfigRow :
              config' = [config EXCEPT ![c] = row] /\ Named(row.seat.name) \subseteq {c}
         \/ \E c \in Configs : config' = [config EXCEPT ![c] = None] /\ c \in moved'
  <1>1. WorkTyped /\ TablesTyped /\ Shape(w)
    BY DEF ShapeInv
  <1>2. CASE Starting(w)
    BY <1>2, Arrivals, StartShape DEF Arrives
  <1>3. Advances(w) \/ Aborts(w) => config' = config
    BY DEF Advances, Aborts, Abort, tables
  <1>4. CASE Reading(w)
    BY <1>3, <1>4, LockTargetShape, ScanShape, ReadConfigShape, CollectShape, ReadMethodShape,
       ResolveShape, ReadPaymentShape, AimShape, AuthorizedShape, RereadShape DEF Reading, Proceeds
  <1>5. CASE InsertConfig(w) /\ ~Aborts(w)
    <2> DEFINE row == [seat |-> Posted(req[w]), active |-> req[w].active]
    <2>1. pc[w] = "write" /\ req[w].op = "add"
      BY <1>5 DEF InsertConfig
    <2>2. /\ req[w].row \in Configs /\ req[w].gateway \in Names
          /\ req[w].account \in Merchants /\ req[w].active \in BOOLEAN
      BY <1>1, <2>1, StageTells DEF Asked, Request, Tri
    <2>3. row \in ConfigRow /\ row.seat.name = req[w].gateway
      BY <2>2 DEF ConfigRow, Seats, Posted
    <2>4. config' = [config EXCEPT ![req[w].row] = row] /\ Named(req[w].gateway) = {}
      BY <1>5 DEF InsertConfig, Aborts, CommitsOrFails, Commits
    <2> HIDE DEF row
    <2>. QED
      BY <2>2, <2>3, <2>4
  <1>6. CASE SaveConfig(w) /\ ~Aborts(w)
    <2> DEFINE seat == Patched(req[w], got[w].seat)
               active == Sent(req[w].active, got[w].active)
               row == [seat |-> seat, active |-> active]
    <2>1. pc[w] = "write" /\ req[w].op = "patch"
      BY <1>6 DEF SaveConfig
    <2>2. Asked(req[w]) /\ HasRead(req[w], "write", got[w]) /\ got[w] \in Got
      BY <1>1, <2>1, StageTells DEF WorkTyped
    <2>3. /\ req[w].row \in Configs /\ got[w].seat \in Seats /\ got[w].active \in BOOLEAN
          /\ req[w].gateway \in Names \cup {None} /\ req[w].account \in Merchants \cup {None}
          /\ req[w].active \in Tri
      BY <2>1, <2>2 DEF Asked, Request, HasRead, Writing, Got, Tri
    <2>4. seat \in Seats /\ active \in BOOLEAN
      BY <2>3 DEF Seats, Patched, Sent, Tri
    <2>5. row \in ConfigRow /\ row.seat = seat
      BY <2>4 DEF ConfigRow
    <2>6. config' = [config EXCEPT ![req[w].row] = row] /\ Named(seat.name) \subseteq {req[w].row}
      BY <1>6 DEF SaveConfig, Aborts, CommitsOrFails, Commits
    <2> HIDE DEF row, seat
    <2>. QED
      BY <2>3, <2>5, <2>6
  <1>7. CASE DeleteConfig(w) /\ ~Aborts(w)
    <2>1. pc[w] = "write" /\ req[w].op = "drop"
      BY <1>7 DEF DeleteConfig
    <2>2. req[w].row \in Configs
      BY <1>1, <2>1, StageTells DEF Asked
    <2>3. config' = [config EXCEPT ![req[w].row] = None] /\ moved' = moved \cup {req[w].row}
      BY <1>7 DEF DeleteConfig, Aborts
    <2>. QED
      BY <2>2, <2>3
  <1>8. CASE (InsertMethod(w) \/ SetDefault(w) \/ DeleteMethod(w)) /\ ~Aborts(w)
    BY <1>8 DEF InsertMethod, SetDefault, DeleteMethod, Aborts, CommitsOrFails, Commits
  <1>9. CASE (Waits(w) \/ Captured(w) \/ Retrieved(w)) /\ ~Aborts(w)
    BY <1>9 DEF Waits, Captured, Retrieved, Pay, Aborts
  <1>. QED
    BY <1>2, <1>3, <1>4, <1>5, <1>6, <1>7, <1>8, <1>9 DEF Act, Starting, Reading, Committing

\* At first a configuration is named by its row, and its methods agree with it.
LEMMA SeatFirst == ASSUME WalletInit PROVE NamesApart /\ Still /\ NameInv /\ Chosen
  <1>1. /\ TablesTyped /\ References
        /\ Sound([method |-> method, config |-> config, default |-> isDefault])
        /\ \A w \in Workers : req[w] = None
    BY FirstTables, FirstWorkers
  <1>2. Present(method) = {m \in Methods : method[m] # None} /\ Present(config) = {c \in Configs : config[c] # None}
    BY <1>1 DEF TablesTyped, Present
  <1>3. ASSUME NEW c \in Configs, NEW n \in Seats, Says(c, n)
        PROVE  config[c] # None /\ config[c].seat = n
    <2>1. \A p \in Payments : payment[p] = None
      BY DEF WalletInit
    <2>2. ASSUME NEW m \in Methods, method[m] # None, method[m].config = c, method[m].token = n
          PROVE  config[c] # None /\ config[c].seat = n
      BY <1>1, <1>2, <2>2, WalletAssumption DEF Sound, Rows
    <2>. QED
      BY <1>1, <1>3, <2>1, <2>2 DEF Says, Recalls
  <1>4. NamesApart
    BY <1>1, <1>2 DEF Sound, NamesApart
  <1>. QED
    BY <1>1, <1>3, <1>4 DEF NameInv, Still, Chosen

\* No second configuration of a gateway.
LEMMA NamesApartStep ==
  ASSUME ShapeInv, NamesApart, NEW w \in Workers, Act(w)
  PROVE  NamesApart'
  <1>1. TablesTyped
    BY DEF ShapeInv
  <1>2. CASE config' = config
    BY <1>2 DEF NamesApart
  <1>3. ASSUME NEW c \in Configs, NEW row \in ConfigRow,
               config' = [config EXCEPT ![c] = row], Named(row.seat.name) \subseteq {c}
        PROVE  NamesApart'
    <2>1. config'[c] = row /\ \A d \in Configs \ {c} : config'[d] = config[d]
      BY <1>1, <1>3 DEF TablesTyped
    <2>2. \A d \in Configs \ {c} : config[d] # None => config[d].seat.name # row.seat.name
      BY <1>3 DEF Named
    <2>. QED
      BY <2>1, <2>2 DEF NamesApart
  <1>4. ASSUME NEW c \in Configs, config' = [config EXCEPT ![c] = None]
        PROVE  NamesApart'
    <2>1. config'[c] = None /\ \A d \in Configs \ {c} : config'[d] = config[d]
      BY <1>1, <1>4 DEF TablesTyped
    <2>. QED
      BY <2>1 DEF NamesApart
  <1>. QED
    BY <1>2, <1>3, <1>4, ConfigMoves

\* A configuration that was not moved is not deleted either.
LEMMA StillStep ==
  ASSUME ShapeInv, Still, NEW w \in Workers, Act(w)
  PROVE  Still'
  <1>1. TablesTyped /\ moved \subseteq moved'
    BY MovedGrows DEF ShapeInv
  <1>. SUFFICES ASSUME NEW c \in Configs \ moved', NEW n \in Seats, Says(c, n)'
                PROVE  config'[c] # None
    BY DEF Still
  <1>2. CASE Says(c, n)
    <2>1. config[c] # None
      BY <1>1, <1>2 DEF Still
    <2>2. ASSUME NEW d \in Configs, NEW row \in ConfigRow, config' = [config EXCEPT ![d] = row]
          PROVE  config'[c] # None
      BY <1>1, <2>1, <2>2, WalletAssumption DEF TablesTyped
    <2>3. ASSUME NEW d \in Configs, config' = [config EXCEPT ![d] = None], d \in moved'
          PROVE  config'[c] # None
      BY <1>1, <2>1, <2>3 DEF TablesTyped
    <2>. QED
      BY <2>1, <2>2, <2>3, ConfigMoves
  <1>. QED
    BY <1>2, Mentions

\* What is said of a configuration that was not moved was said before, or the
\* row is new.
LEMMA NameStep ==
  ASSUME WalletInv, NameInv, NEW w \in Workers, Act(w)
  PROVE  NameInv'
  <1>1. ShapeInv /\ FreshInv /\ moved \subseteq moved'
    BY MovedGrows DEF WalletInv
  <1>. SUFFICES ASSUME NEW c \in Configs \ moved', NEW n \in Seats, NEW o \in Seats,
                       Says(c, n)', Says(c, o)'
                PROVE  n = o
    BY DEF NameInv
  <1>2. /\ Says(c, n) \/ (Brings(w, c) /\ n = Posted(req[w]))
        /\ Says(c, o) \/ (Brings(w, c) /\ o = Posted(req[w]))
    BY <1>1, Mentions
  <1>3. CASE Brings(w, c)
    <2>1. Unborn(c)
      BY <1>1, <1>3 DEF FreshInv, Rows
    <2>. QED
      BY <1>2, <2>1 DEF Unborn
  <1>4. CASE ~Brings(w, c)
    BY <1>1, <1>2, <1>4 DEF NameInv
  <1>. QED
    BY <1>3, <1>4

\* Resolving by the name of a configuration that was not moved finds it again.
LEMMA ResolvesToIt ==
  ASSUME WalletInv, NamesApart, Still, NameInv, NEW w \in Workers, Resolve(w), ~Aborts(w),
         req[w].op = "charge", got[w].of \notin moved
  PROVE  got'[w].config = got[w].of
  <1>1. WorkTyped /\ TablesTyped /\ Shape(w) /\ pc[w] = "resolve"
    BY DEF WalletInv, ShapeInv, Resolve
  <1>2. req[w] # None /\ HasRead(req[w], "resolve", got[w]) /\ got[w] \in Got
    BY <1>1, StageTells DEF WorkTyped
  <1>3. got[w].of \in Configs /\ got[w].seat \in Seats
    BY <1>2 DEF HasRead, Got
  <1>4. PICK d \in Configs :
          /\ got' = [got EXCEPT ![w].config = d, ![w].seat = config[d].seat]
          /\ config[d] # None /\ config[d].seat.name = got[w].seat.name
    BY DEF Resolve, Aborts, Named
  <1>5. Says(got[w].of, got[w].seat)
    BY <1>1, <1>2 DEF Says, Recalls
  <1>6. config[got[w].of] # None
    BY <1>3, <1>5 DEF Still
  <1>7. config[got[w].of].seat \in Seats /\ Says(got[w].of, config[got[w].of].seat)
    BY <1>1, <1>3, <1>6 DEF Says, TablesTyped, ConfigRow
  <1>8. config[got[w].of].seat = got[w].seat
    BY <1>3, <1>5, <1>7 DEF NameInv
  <1>9. d = got[w].of
    BY <1>3, <1>4, <1>6, <1>8 DEF NamesApart
  <1>. QED
    BY <1>1, <1>2, <1>4, <1>9 DEF WorkTyped, Got

\* A call's configuration is the one its card or its transaction names.
LEMMA ChosenStep ==
  ASSUME WalletInv, NamesApart, Still, NameInv, Chosen, NEW w \in Workers, Act(w)
  PROVE  Chosen'
  <1>1. ShapeInv /\ WorkTyped /\ Shape(w) /\ moved \subseteq moved' /\ Alone(w)
    BY MovedGrows, Alones DEF WalletInv, ShapeInv
  <1>2. \A v \in Workers \ {w} :
          req'[v] # None /\ req'[v].op \in {"charge", "retrieve"} /\ pc'[v] \in Calling =>
            got'[v].config = got'[v].of \/ got'[v].of \in moved'
    BY <1>1 DEF Alone, Chosen
  <1>. SUFFICES ASSUME req'[w] # None, req'[w].op \in {"charge", "retrieve"}, pc'[w] \in Calling
                PROVE  got'[w].config = got'[w].of \/ got'[w].of \in moved'
    BY <1>2 DEF Chosen
  <1>3. ~Aborts(w) /\ ~End(w)
    <2>1. End(w) => req'[w] = None
      BY <1>1 DEF End, WorkTyped
    <2>. QED
      BY <2>1 DEF Aborts, Abort
  <1>4. CASE Starting(w)
    <2>1. PICK r : Arrives(w, r) /\ used' \subseteq Rows
      BY <1>1, <1>4, Arrivals
    <2>2. pc'[w] = FirstStage(r) /\ FirstStage(r) \notin Calling
      BY <1>1, <2>1, StartShape, FirstShape DEF Arrives
    <2>. QED
      BY <2>2
  <1>5. CASE LockTarget(w) \/ Scan(w) \/ Clear(w) \/ ReadConfig(w) \/ CollectConfig(w) \/ ReadMethod(w)
    <2>1. pc'[w] \in {pc[w], "scan", "clear", "write", "resolve"} /\ pc[w] \notin Calling
      BY <1>1, <1>3, <1>5 DEF LockTarget, Scan, Clear, ReadConfig, CollectConfig, ReadMethod, Abort, Aborts,
                       Goto, WorkTyped, Calling
    <2>. QED
      BY <2>1 DEF Calling
  <1>6. CASE Resolve(w)
    <2>1. req[w] = req'[w] /\ moved' = moved
      BY <1>3, <1>6 DEF Resolve, Aborts
    <2>2. PICK d \in Configs : got' = [got EXCEPT ![w].config = d, ![w].seat = config[d].seat]
      BY <1>1, <1>3, <1>6 DEF Resolve, Aborts, Named
    <2>3. got'[w].of = got[w].of
      BY <1>1, <2>2 DEF WorkTyped, Got
    <2>4. req[w].op = "charge"
      BY <1>1, <1>6, <2>1, StageTells DEF Resolve
    <2>. QED
      BY <1>3, <1>6, <2>1, <2>3, <2>4, ResolvesToIt
  <1>7. CASE ReadPayment(w)
    <2>1. PICK p : got' = [got EXCEPT ![w].seat = config[p.config].seat, ![w].config = p.config,
                                      ![w].of = p.config, ![w].token = p.at, ![w].next = "retrieve"]
      BY <1>3, <1>7 DEF ReadPayment, Aborts
    <2>2. got'[w].config = p.config /\ got'[w].of = p.config
      BY <1>1, <2>1 DEF WorkTyped, Got
    <2>. QED
      BY <2>2
  <1>8. CASE Aim(w) \/ CallGateway(w)
    <2>1. got' = got /\ req' = req /\ moved' = moved /\ pc[w] \in Calling
      BY <1>8 DEF Aim, CallGateway, Calling
    <2>. QED
      BY <2>1 DEF Chosen
  <1>9. CASE Authorized(w)
    <2>1. got' = [got EXCEPT ![w].token = got[w].seat, ![w].of = got[w].config]
      BY <1>3, <1>9 DEF Authorized, Aborts
    <2>. QED
      BY <1>1, <2>1 DEF WorkTyped, Got
  <1>10. CASE Reread(w)
    <2>1. /\ got' = [got EXCEPT ![w].seat = config[got[w].config].seat, ![w].next = "capture"]
          /\ req' = req /\ moved' = moved /\ pc[w] \in Calling
      BY <1>3, <1>10 DEF Reread, Aborts, Calling
    <2>2. got'[w].config = got[w].config /\ got'[w].of = got[w].of
      BY <1>1, <2>1 DEF WorkTyped, Got
    <2>. QED
      BY <2>1, <2>2 DEF Chosen
  <1>11. CASE Committing(w)
    BY <1>1, <1>3, <1>11, CommitEnds DEF Ends
  <1>. QED
    BY <1>4, <1>5, <1>6, <1>7, <1>8, <1>9, <1>10, <1>11 DEF Act, Starting, Committing

\* What a call is for stays on while the request lives.
LEMMA OnGrows ==
  ASSUME ShapeInv, NEW w \in Workers, Act(w), Watch, NEW v \in Workers
  PROVE  /\ pc'[v] # "idle" => on[v] \cup ActiveNames' \subseteq on'[v]
         /\ v # w => req'[v] = req[v] /\ pc'[v] = pc[v] /\ got'[v] = got[v] /\ call'[v] = call[v]
  BY Alones DEF Watch, ShapeInv, Alone

\* Who points the SDK, and who calls.
LEMMA AimsOnly ==
  ASSUME ShapeInv, NEW w \in Workers, Act(w)
  PROVE  /\ pc'[w] = "call" => Aim(w)
         /\ pc'[w] = "aim" => Resolve(w) \/ ReadPayment(w) \/ Reread(w)
  <1>1. WorkTyped /\ (End(w) => pc'[w] = "idle")
    BY EndShape DEF ShapeInv, WorkTyped, End, Goto
  <1>2. CASE Starting(w)
    <2>1. PICK r : Arrives(w, r) /\ used' \subseteq Rows
      BY <1>2, Arrivals
    <2>2. pc'[w] = FirstStage(r) /\ FirstStage(r) \notin Calling
      BY <2>1, StartShape, FirstShape DEF Arrives
    <2>. QED
      BY <2>2 DEF Calling
  <1>3. CASE LockTarget(w) \/ Scan(w) \/ Clear(w) \/ ReadConfig(w) \/ CollectConfig(w) \/ ReadMethod(w)
    BY <1>1, <1>3 DEF LockTarget, Scan, Clear, ReadConfig, CollectConfig, ReadMethod, Abort, Goto, WorkTyped
  <1>4. CASE Resolve(w) \/ ReadPayment(w) \/ Reread(w)
    BY <1>1, <1>4 DEF Resolve, ReadPayment, Reread, Abort, Goto, WorkTyped
  <1>5. CASE Aim(w) \/ CallGateway(w) \/ Authorized(w)
    BY <1>1, <1>5 DEF Aim, CallGateway, Authorized, Abort, Goto, WorkTyped
  <1>6. CASE Committing(w)
    BY <1>1, <1>6, CommitEnds DEF Aborts, Abort, Ends
  <1>. QED
    BY <1>2, <1>3, <1>4, <1>5, <1>6 DEF Act, Starting, Committing

\* A call is recorded by the step that makes it, and forgotten with the answer.
LEMMA CallsOnly ==
  ASSUME ShapeInv, NEW w \in Workers, Act(w), ~CallGateway(w)
  PROVE  call'[w] \in {call[w], None}
  <1>1. End(w) => call'[w] = None
    BY DEF End, ShapeInv, WorkTyped
  <1>2. CASE Starting(w)
    BY <1>2, Arrivals, StartShape DEF Arrives
  <1>3. CASE LockTarget(w) \/ Scan(w) \/ Clear(w) \/ ReadConfig(w) \/ CollectConfig(w) \/ ReadMethod(w)
    BY <1>1, <1>3 DEF LockTarget, Scan, Clear, ReadConfig, CollectConfig, ReadMethod, Abort
  <1>4. CASE Resolve(w) \/ ReadPayment(w) \/ Reread(w) \/ Aim(w) \/ Authorized(w)
    BY <1>1, <1>4 DEF Resolve, ReadPayment, Reread, Aim, Authorized, Abort
  <1>5. CASE Committing(w)
    BY <1>1, <1>5, CommitEnds DEF Aborts, Abort, Ends
  <1>. QED
    BY <1>2, <1>3, <1>4, <1>5 DEF Act, Starting, Committing

\* The SDK of a process points where its own thread has pointed it.
LEMMA CallStep ==
  ASSUME WalletInv, CallInv, NEW w \in Workers, Act(w), Watch, UNCHANGED allowMock
  PROVE  CallInv'
  <1>1. ShapeInv /\ WorkTyped /\ TablesTyped /\ Shape(w)
    BY DEF WalletInv, ShapeInv
  <1>2. \A p \in Processes : p # Process[w] => sdk'[p] = sdk[p]
    <2>1. Aim(w) => sdk' = sdk \/ \E host : sdk' = [sdk EXCEPT ![Process[w]] = host]
      BY DEF Aim
    <2>2. ~Aim(w) => UNCHANGED sdk
      <3>1. Starting(w) => UNCHANGED sdk
        BY DEF Starting, StartSave, StartOnMethod, StartRetrieve, StartAdd, StartPatch, StartDrop, Start
      <3>2. Committing(w) => UNCHANGED sdk
        BY DEF Committing, InsertMethod, SetDefault, DeleteMethod, InsertConfig, SaveConfig,
               DeleteConfig, Waits, Captured, Retrieved
      <3>3. Reading(w) /\ ~Aim(w) => UNCHANGED sdk
        BY DEF Reading, LockTarget, Scan, Clear, ReadConfig, CollectConfig, ReadMethod, Resolve,
               ReadPayment, CallGateway, Authorized, Reread
      <3>. QED
        BY <3>1, <3>2, <3>3 DEF Act, Starting, Committing, Reading
    <2>. QED
      BY <1>1, <2>1, <2>2, WalletAssumption DEF WorkTyped
  <1>3. ASSUME NEW v \in Workers \ {w}
        PROVE  /\ ProcessOfItsOwn(v) /\ pc'[v] = "call" /\ Host(got'[v].seat.name) # None => sdk'[Process[v]] = Host(got'[v].seat.name)
               /\ pc'[v] \in {"aim", "call"} /\ got'[v].next = "authorize" =>
                    got'[v].seat.name \in on'[v] /\ (got'[v].seat.name = "mock" => allowMock')
    <2>1. Process[v] \in Processes /\ (ProcessOfItsOwn(v) => Process[v] # Process[w])
      BY <1>3, WalletAssumption DEF ProcessOfItsOwn
    <2>2. (ProcessOfItsOwn(v) => sdk'[Process[v]] = sdk[Process[v]]) /\ pc'[v] = pc[v] /\ got'[v] = got[v]
          /\ (pc'[v] # "idle" => on[v] \subseteq on'[v])
      BY <1>1, <1>2, <2>1, OnGrows
    <2>. QED
      BY <2>2 DEF CallInv
  <1>4. pc'[w] = "call" /\ Host(got'[w].seat.name) # None => sdk'[Process[w]] = Host(got'[w].seat.name)
    <2>. SUFFICES ASSUME pc'[w] = "call", Host(got'[w].seat.name) # None
                  PROVE  sdk'[Process[w]] = Host(got'[w].seat.name)
      OBVIOUS
    <2>1. Aim(w)
      BY <1>1, AimsOnly
    <2>2. got'[w] = got[w] /\ Process[w] \in Processes /\ sdk' = [sdk EXCEPT ![Process[w]] = Host(got[w].seat.name)]
      BY <1>1, <2>1, WalletAssumption DEF Aim
    <2>. QED
      BY <1>1, <2>2 DEF WorkTyped
  <1>5. pc'[w] \in {"aim", "call"} /\ got'[w].next = "authorize" =>
          got'[w].seat.name \in on'[w] /\ (got'[w].seat.name = "mock" => allowMock')
    <2>. SUFFICES ASSUME pc'[w] \in {"aim", "call"}, got'[w].next = "authorize"
                  PROVE  got'[w].seat.name \in on'[w] /\ (got'[w].seat.name = "mock" => allowMock')
      OBVIOUS
    <2>1. on[w] \cup ActiveNames' \subseteq on'[w]
      BY <1>1, OnGrows
    <2>2. CASE Aim(w)
      <3>1. got'[w] = got[w] /\ pc[w] = "aim"
        BY <2>2 DEF Aim
      <3>. QED
        BY <2>1, <3>1 DEF CallInv
    <2>3. CASE Resolve(w)
      <3>1. PICK c \in Configs :
              /\ got' = [got EXCEPT ![w].config = c, ![w].seat = config[c].seat]
              /\ req[w].op # "save" /\ config' = config
              /\ config[c] # None /\ config[c].seat.name = got[w].seat.name /\ config[c].active
              /\ ~(got[w].seat.name = "mock" /\ ~allowMock)
        BY <1>1, <2>3 DEF Resolve, Abort, End, Goto, WorkTyped, tables, Named
      <3>2. got'[w].seat = config[c].seat
        BY <1>1, <3>1 DEF WorkTyped, Got
      <3>3. config[c].seat.name \in ActiveNames'
        BY <3>1 DEF ActiveNames
      <3>. QED
        BY <2>1, <3>1, <3>2, <3>3
    <2>4. CASE ReadPayment(w) \/ Reread(w)
      <3>1. ~Abort(w) /\ got[w] \in Got
        BY <1>1 DEF Abort, End, Goto, WorkTyped
      <3>2. ASSUME ReadPayment(w) PROVE got'[w].next = "retrieve"
        <4> DEFINE p == req[w].row
        <4>1. got' = [got EXCEPT ![w].seat = config[payment[p].config].seat, ![w].config = payment[p].config,
                                 ![w].of = payment[p].config, ![w].token = payment[p].at,
                                 ![w].next = "retrieve"]
          BY <3>1, <3>2 DEF ReadPayment
        <4>. QED
          BY <1>1, <3>1, <4>1 DEF WorkTyped, Got
      <3>3. Reread(w) => got'[w].next = "capture"
        BY <1>1, <3>1 DEF Reread, WorkTyped, Got
      <3>. QED
        BY <2>4, <3>2, <3>3
    <2>. QED
      BY <1>1, <2>2, <2>3, <2>4, AimsOnly
  <1>. QED
    BY <1>3, <1>4, <1>5 DEF CallInv

\* A call is made as the invariants have it.
LEMMA PaidStep ==
  ASSUME WalletInv, NameInv, Chosen, CallInv, PaidWhereItBelongs,
         NEW w \in Workers, Act(w), Watch, UNCHANGED allowMock
  PROVE  PaidWhereItBelongs'
  <1>1. ShapeInv /\ WorkTyped /\ Shape(w) /\ WorkTyped' /\ Shape(w)'
    BY ActShape DEF WalletInv, ShapeInv
  <1>2. moved \subseteq moved'
    BY <1>1, MovedGrows
  <1>3. ASSUME NEW v \in Workers, call'[v] # None, call'[v] = call[v], pc'[v] # "idle"
        PROVE  LET made == call'[v] IN
               /\ made.seat = made.token \/ made.of \in moved'
               /\ made.op = "authorize" =>
                    made.seat.name \in on'[v] /\ (made.seat.name = "mock" => allowMock')
               /\ ProcessOfItsOwn(v) => made.host = Host(made.seat.name)
    BY <1>1, <1>2, <1>3, OnGrows DEF PaidWhereItBelongs
  <1>4. ASSUME NEW v \in Workers, call'[v] # None PROVE pc'[v] # "idle"
    <2>1. Shape(v)'
      BY <1>1, ActShape
    <2>2. req'[v] # None /\ pc'[v] \in StagesOf(req'[v].op) /\ req'[v].op \in Ops
      BY <1>4, <2>1 DEF Shape, Asked, Request
    <2>3. \A kind \in Ops : "idle" \notin StagesOf(kind)
      BY DEF Ops, StagesOf, Writing, Calling
    <2>. QED
      BY <2>2, <2>3
  <1>5. CASE CallGateway(w)
    <2> DEFINE host == IF Host(got[w].seat.name) = None THEN None ELSE sdk[Process[w]]
               made == [op |-> got[w].next, seat |-> got[w].seat, token |-> got[w].token, of |-> got[w].of,
                        host |-> host]
    <2>1. /\ pc[w] = "call" /\ call' = [call EXCEPT ![w] = made] /\ pc'[w] = "result"
          /\ UNCHANGED moved
      BY <1>1, <1>5 DEF CallGateway, Goto, WorkTyped
    <2>2. /\ req[w] # None /\ req[w].op \in {"charge", "retrieve"}
          /\ got[w].seat \in Seats /\ got[w].token \in Seats /\ got[w].of \in Configs
          /\ got[w].config = got[w].of \/ got[w].of \in moved
      BY <1>1, <2>1, StageTells DEF HasRead, Calling, WorkTyped, Got, Chosen
    <2>3. ProcessOfItsOwn(w) => host = Host(got[w].seat.name)
      BY <2>1 DEF CallInv
    <2>4. got[w].seat = got[w].token \/ got[w].of \in moved
      <3>1. Says(got[w].config, got[w].seat) /\ Says(got[w].of, got[w].token)
        BY <2>1, <2>2 DEF Says, Recalls, Calling
      <3>. QED
        BY <2>2, <3>1 DEF NameInv
    <2>5. got[w].next = "authorize" => got[w].seat.name \in on'[w] /\ (got[w].seat.name = "mock" => allowMock')
      BY <1>1, <2>1, OnGrows DEF CallInv
    <2>6. /\ made.seat = made.token \/ made.of \in moved'
          /\ made.op = "authorize" => made.seat.name \in on'[w] /\ (made.seat.name = "mock" => allowMock')
          /\ ProcessOfItsOwn(w) => made.host = Host(made.seat.name)
      BY <2>1, <2>3, <2>4, <2>5
    <2>7. call'[w] = made
      BY <1>1, <2>1 DEF WorkTyped
    <2>8. \A v \in Workers \ {w} : call'[v] = call[v]
      BY <1>1, OnGrows
    <2> HIDE DEF made
    <2>. QED
      BY <1>3, <1>4, <2>6, <2>7, <2>8 DEF PaidWhereItBelongs
  <1>6. CASE ~CallGateway(w)
    <2>1. call'[w] \in {call[w], None}
      BY <1>1, <1>6, CallsOnly
    <2>2. \A v \in Workers : call'[v] \in {call[v], None}
      BY <1>1, <2>1, OnGrows
    <2>. QED
      BY <1>3, <1>4, <2>2 DEF PaidWhereItBelongs
  <1>. QED
    BY <1>5, <1>6

\* Every payment call is made with the credentials, and through the adapter, that
\* its card was saved for or its transaction made with, however requests, PATCHes,
\* deletions and the sweep interleave, unless the configuration was given others
\* or was deleted; a charge goes through a gateway that was on since the request
\* came, never the mock where it is not allowed; and a worker alone in its process
\* calls the host of its adapter.
THEOREM PaidToItsGateway == WalletSpec => []PaidWhereItBelongs
  <1> DEFINE PaidInv == NamesApart /\ Still /\ NameInv /\ Chosen /\ CallInv /\ PaidWhereItBelongs
  <1>1. WalletInit => PaidInv
    <2>. SUFFICES ASSUME WalletInit PROVE CallInv /\ PaidWhereItBelongs
      BY SeatFirst
    <2>. QED
      BY FirstWorkers DEF CallInv, PaidWhereItBelongs
  <1>2. WalletInv /\ PaidInv /\ [WalletNext]_wallet => PaidInv'
    <2>. SUFFICES ASSUME WalletInv, PaidInv, [WalletNext]_wallet PROVE PaidInv'
      OBVIOUS
    <2>1. CASE UNCHANGED wallet
      <3>1. NamesApart' /\ Still' /\ NameInv' /\ Chosen'
        BY <2>1 DEF NamesApart, Still, NameInv, Chosen, Says, Recalls, wallet, tables, work
      <3>. QED
        BY <2>1, <3>1 DEF CallInv, PaidWhereItBelongs, wallet, tables, work
    <2>2. CASE WalletNext
      <3>1. ASSUME NEW w \in Workers, Act(w), Watch, UNCHANGED allowMock PROVE PaidInv'
        BY <3>1, NamesApartStep, StillStep, NameStep, ChosenStep, CallStep, PaidStep DEF WalletInv
      <3>. QED
        BY <2>2, <3>1 DEF WalletNext
    <2>. QED
      BY <2>1, <2>2
  <1>. QED
    BY <1>1, <1>2, WalletInvariant, PTL DEF WalletSpec

=============================================================================
