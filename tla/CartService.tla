------------------------------ MODULE CartService ------------------------------
(***************************************************************************)
(* The cart before its checkout: CartService's mutators by several         *)
(* sessions of the same customers, the admin's PATCH of products and       *)
(* coupons, deleted addresses and payment methods, and the abandonment     *)
(* sweep.                                                                  *)
(*                                                                         *)
(* Every mutator locks the customer's active cart row in its first         *)
(* statement and holds it to the end of the request, so most of them are   *)
(* one step.  Two are two steps, because they read a row they do not lock  *)
(* and act on it later: add_item the product, apply_coupon the coupon.     *)
(* checkout is one step too: it reads everything when it has the cart, and *)
(* CheckoutSaga has its inside.  A refused mutator raises out of its       *)
(* atomic block and changes nothing.  Stock is the subject of Inventory    *)
(* and CheckoutSaga; here its test, like the coupon rules that are not     *)
(* about currency, may refuse a request at any time.                       *)
(***************************************************************************)
EXTENDS Integers, FiniteSets, Accounts

CONSTANTS
  Sessions, Carts, Products, Coupons, Currencies, Slots,
  User,         \* [Sessions -> Customers]
  Owner,        \* [Carts -> Customers]: whose cart each row will be
  MaxQty,       \* bound: quantity of a line
  MaxVersion    \* bound: Cart.version

ASSUME CartAssumption ==
  /\ User \in [Sessions -> Customers] /\ Owner \in [Carts -> Customers]
  /\ MaxQty \in Nat \ {0} /\ MaxVersion \in Nat
  /\ None \notin Currencies \cup Carts

VARIABLES
  status,     \* Cart.status; "absent" before the row exists
  currency,   \* Cart.currency; None for ""
  lines,      \* the CartItem rows: quantity and currency snapshot per product
  applied,    \* the AppliedCoupon rows
  filled,     \* the slots (addresses, payment method) that are set
  version,    \* Cart.version
  listed,     \* Product.currency
  fixedIn,    \* Coupon.currency of a fixed coupon, None for a percentage
  op,         \* the request each session has open, with what it has read
  seen,       \* the cart as one of the customer's clients last read it
  sold        \* the order made of each cart

rows    == <<status, currency, lines, applied, filled, version>>
catalog == <<listed, fixedIn>>
clients == <<op, seen, sold>>
vars    == <<rows, catalog, clients>>

NoLine == [qty |-> 0, cur |-> None]
Line   == [qty : 0..MaxQty, cur : Currencies \cup {None}]
Lines  == [Products -> Line]
View   == [cart : Carts, version : 0..MaxVersion, lines : Lines, applied : SUBSET Coupons]

\* What an order keeps of its cart, and the version its client asked for.
Sale == [lines : Lines, applied : SUBSET Coupons, fixed : SUBSET Currencies,
         currency : Currencies \cup {None}, asked : View \cup {None}]

NoOp == [kind |-> "none"]
Op ==
  {NoOp} \cup [kind : {"add"}, cart : Carts, product : Products, cur : Currencies]
         \cup [kind : {"apply"}, cart : Carts, coupon : Coupons]

ViewOf(k) == [cart |-> k, version |-> version[k], lines |-> lines[k], applied |-> applied[k]]
Held(k)   == \E s \in Sessions : op[s] # NoOp /\ op[s].cart = k
Empty(ls) == \A p \in Products : ls[p].qty = 0

\* The row _lock_active_cart gets for a customer, once nobody else has it.
Mine(s, k) == Owner[k] = User[s] /\ status[k] = "active" /\ ~Held(k)

\* _bump_and_return: the last statement of every mutator.
Bumped(k) ==
  /\ version[k] < MaxVersion
  /\ version' = [version EXCEPT ![k] = @ + 1]

CartInit ==
  /\ status   = [k \in Carts |-> "absent"]
  /\ currency = [k \in Carts |-> None]
  /\ lines    = [k \in Carts |-> [p \in Products |-> NoLine]]
  /\ applied  = [k \in Carts |-> {}]
  /\ filled   = [k \in Carts |-> {}]
  /\ version  = [k \in Carts |-> 0]
  /\ listed   \in [Products -> Currencies]
  /\ fixedIn  \in [Coupons -> Currencies \cup {None}]
  /\ op       = [s \in Sessions |-> NoOp]
  /\ seen     = [u \in Customers |-> None]
  /\ sold     = [k \in Carts |-> None]

------------------------------------------------------------------------------
(* add_item *)

\* Variant: no unique index behind get_or_create.
TakenCartUnchecked(s, k) ==
  \/ Mine(s, k)
  \/ /\ status[k] = "absent" /\ Owner[k] = User[s] /\ ~Held(k)
     /\ \A j \in Carts : Owner[j] = User[s] => status[j] # "active"

\* get_or_create: the active cart, or a new row when there is none.  The partial
\* unique index makes a second INSERT wait for the first and then read its row.
TakenCart(s, k) ==
  \/ Mine(s, k)
  \/ /\ status[k] = "absent" /\ Owner[k] = User[s]
     /\ \A j \in Carts : Owner[j] = User[s] => status[j] # "active" /\ ~Held(j)

AddBegin(s, k, p) ==
  /\ op[s] = NoOp /\ TakenCart(s, k)
  /\ op' = [op EXCEPT ![s] = [kind |-> "add", cart |-> k, product |-> p, cur |-> listed[p]]]
  /\ UNCHANGED <<rows, catalog, seen, sold>>

\* The product goes into a cart of its currency or of none; a line that exists is
\* merged and keeps its snapshot.
AddEnd(s, n) ==
  LET k == op[s].cart
      p == op[s].product
      have == lines[k][p]
  IN
  /\ op[s].kind = "add"
  /\ currency[k] \in {None, op[s].cur}
  /\ have.qty + n <= MaxQty
  /\ status' = [status EXCEPT ![k] = "active"]
  /\ currency' = [currency EXCEPT ![k] = op[s].cur]
  /\ lines' = [lines EXCEPT ![k][p] =
                 [qty |-> have.qty + n, cur |-> IF have.qty = 0 THEN op[s].cur ELSE have.cur]]
  /\ Bumped(k)
  /\ op' = [op EXCEPT ![s] = NoOp]
  /\ UNCHANGED <<applied, filled, catalog, seen, sold>>

\* Any request that is refused, fails or dies; a cart it has created goes with it.
Refuse(s) ==
  /\ op[s] # NoOp
  /\ op' = [op EXCEPT ![s] = NoOp]
  /\ UNCHANGED <<rows, catalog, seen, sold>>

(* The other item mutators *)

\* Variant: PATCH adds to the quantity, as POST does.
UpdateItemByAdding(s, k, p, n) ==
  /\ op[s] = NoOp /\ Mine(s, k)
  /\ lines[k][p].qty > 0
  /\ lines' = [lines EXCEPT ![k][p].qty = @ + n]
  /\ Bumped(k)
  /\ UNCHANGED <<status, currency, applied, filled, catalog, clients>>

\* update_item_quantity replaces the quantity.
UpdateItem(s, k, p, n) ==
  /\ op[s] = NoOp /\ Mine(s, k)
  /\ lines[k][p].qty > 0
  /\ lines' = [lines EXCEPT ![k][p].qty = n]
  /\ Bumped(k)
  /\ UNCHANGED <<status, currency, applied, filled, catalog, clients>>

\* Variant: the last line leaves the currency behind.
RemoveItemOnly(s, k, p) ==
  /\ op[s] = NoOp /\ Mine(s, k)
  /\ lines[k][p].qty > 0
  /\ lines' = [lines EXCEPT ![k][p] = NoLine]
  /\ Bumped(k)
  /\ UNCHANGED <<status, currency, applied, filled, catalog, clients>>

\* remove_item: the last line takes the cart's currency with it, not its coupons.
RemoveItem(s, k, p) ==
  /\ op[s] = NoOp /\ Mine(s, k)
  /\ lines[k][p].qty > 0
  /\ lines' = [lines EXCEPT ![k][p] = NoLine]
  /\ currency' = [currency EXCEPT ![k] = IF Empty(lines'[k]) THEN None ELSE @]
  /\ Bumped(k)
  /\ UNCHANGED <<status, applied, filled, catalog, clients>>

\* clear_cart: everything is dropped, the version stays.
ClearCart(s, k) ==
  /\ op[s] = NoOp /\ Mine(s, k)
  /\ status'   = [status EXCEPT ![k] = "abandoned"]
  /\ currency' = [currency EXCEPT ![k] = None]
  /\ lines'    = [lines EXCEPT ![k] = [p \in Products |-> NoLine]]
  /\ applied'  = [applied EXCEPT ![k] = {}]
  /\ filled'   = [filled EXCEPT ![k] = {}]
  /\ UNCHANGED <<version, catalog, clients>>

------------------------------------------------------------------------------
(* Coupons and slots *)

\* Coupon.validate's rule on currencies: a fixed coupon is in the cart's.
Fits(q, k) == fixedIn[q] # None => fixedIn[q] = currency[k]

ApplyBegin(s, k, q) ==
  /\ op[s] = NoOp /\ Mine(s, k)
  /\ Fits(q, k)
  /\ q \notin applied[k]
  /\ op' = [op EXCEPT ![s] = [kind |-> "apply", cart |-> k, coupon |-> q]]
  /\ UNCHANGED <<rows, catalog, seen, sold>>

ApplyEnd(s) ==
  LET k == op[s].cart IN
  /\ op[s].kind = "apply"
  /\ applied' = [applied EXCEPT ![k] = @ \cup {op[s].coupon}]
  /\ Bumped(k)
  /\ op' = [op EXCEPT ![s] = NoOp]
  /\ UNCHANGED <<status, currency, lines, filled, catalog, seen, sold>>

\* Variant: the version is not bumped.
RemoveCouponSilently(s, k, q) ==
  /\ op[s] = NoOp /\ Mine(s, k)
  /\ applied' = [applied EXCEPT ![k] = @ \ {q}]
  /\ UNCHANGED <<status, currency, lines, filled, version, catalog, clients>>

\* remove_coupon; for a coupon that is not applied it changes nothing.
RemoveCoupon(s, k, q) ==
  /\ op[s] = NoOp /\ Mine(s, k)
  /\ q \in applied[k]
  /\ applied' = [applied EXCEPT ![k] = @ \ {q}]
  /\ Bumped(k)
  /\ UNCHANGED <<status, currency, lines, filled, catalog, clients>>

\* set_shipping_address, set_billing_address, set_payment_method.
SetSlot(s, k, x) ==
  /\ op[s] = NoOp /\ Mine(s, k)
  /\ filled' = [filled EXCEPT ![k] = @ \cup {x}]
  /\ Bumped(k)
  /\ UNCHANGED <<status, currency, lines, applied, catalog, clients>>

\* Deleting an address or a payment method: SET_NULL on the cart, no version.
DeleteSlotRow(k, x) ==
  /\ status[k] = "active" /\ ~Held(k)
  /\ x \in filled[k]
  /\ filled' = [filled EXCEPT ![k] = @ \ {x}]
  /\ UNCHANGED <<status, currency, lines, applied, version, catalog, clients>>

------------------------------------------------------------------------------
(* The others *)

\* abandon_stale_carts.  It tests updated_at, which _bump_and_return does not set,
\* so an edit does not keep it away; "idle" is any time.
Abandon(k) ==
  /\ status[k] = "active" /\ ~Held(k)
  /\ status' = [status EXCEPT ![k] = "abandoned"]
  /\ UNCHANGED <<currency, lines, applied, filled, version, catalog, clients>>

\* The admin changes a product's currency, or a coupon's currency or type, while no
\* committed row puts it in a live cart.
PatchProduct(p, c) ==
  /\ c # listed[p]
  /\ \A k \in Carts : lines[k][p].qty > 0 => status[k] # "active"
  /\ listed' = [listed EXCEPT ![p] = c]
  /\ UNCHANGED <<rows, fixedIn, clients>>

PatchCoupon(q, c) ==
  /\ c # fixedIn[q]
  /\ \A k \in Carts : q \in applied[k] => status[k] # "active"
  /\ fixedIn' = [fixedIn EXCEPT ![q] = c]
  /\ UNCHANGED <<rows, listed, clients>>

\* GET of the cart, without a lock.
See(s, k) ==
  /\ op[s] = NoOp
  /\ Owner[k] = User[s] /\ status[k] = "active"
  /\ seen' = [seen EXCEPT ![User[s]] = ViewOf(k)]
  /\ UNCHANGED <<rows, catalog, op, sold>>

\* The version a checkout request may expect: of what its client has seen, or none.
Expected(s) == {seen[User[s]], None}

\* If-Match, when the client sends what it has seen.
Matches(s, k, asked) == asked # None => asked = seen[User[s]] /\ asked.version = version[k]

\* Variant: the coupons are not validated again.
ReadyAsApplied(k) == ~Empty(lines[k]) /\ filled[k] = Slots

\* Phase 2 of checkout, and the lines it is about.
Ready(k) ==
  /\ ~Empty(lines[k])
  /\ filled[k] = Slots
  /\ \A q \in applied[k] : Fits(q, k)

\* A checkout that succeeds; one that fails leaves the cart as it was.
Checkout(s, k, asked) ==
  /\ op[s] = NoOp /\ Mine(s, k)
  /\ Matches(s, k, asked)
  /\ Ready(k)
  /\ status' = [status EXCEPT ![k] = "converted"]
  /\ sold' = [sold EXCEPT ![k] =
       [lines |-> lines[k], applied |-> applied[k], currency |-> currency[k],
        fixed |-> {fixedIn[q] : q \in applied[k]} \ {None}, asked |-> asked]]
  /\ UNCHANGED <<currency, lines, applied, filled, version, catalog, op, seen>>

CartNext ==
  \/ \E s \in Sessions, k \in Carts :
       \/ \E p \in Products : AddBegin(s, k, p) \/ RemoveItem(s, k, p)
       \/ \E p \in Products, n \in 1..MaxQty : UpdateItem(s, k, p, n)
       \/ \E q \in Coupons : ApplyBegin(s, k, q) \/ RemoveCoupon(s, k, q)
       \/ \E x \in Slots : SetSlot(s, k, x)
       \/ ClearCart(s, k)
       \/ See(s, k)
       \/ \E asked \in Expected(s) : Checkout(s, k, asked)
  \/ \E s \in Sessions :
       \/ \E n \in 1..MaxQty : AddEnd(s, n)
       \/ ApplyEnd(s)
       \/ Refuse(s)
  \/ \E k \in Carts : Abandon(k) \/ \E x \in Slots : DeleteSlotRow(k, x)
  \/ \E p \in Products, c \in Currencies : PatchProduct(p, c)
  \/ \E q \in Coupons, c \in Currencies \cup {None} : PatchCoupon(q, c)

CartSpec == CartInit /\ [][CartNext]_vars

------------------------------------------------------------------------------
(* Properties *)

\* Types; among them, that no sequence of POST and PATCH exceeds what was accepted
\* for a line.
TypeOK ==
  /\ status \in [Carts -> {"absent", "active", "abandoned", "converted"}]
  /\ currency \in [Carts -> Currencies \cup {None}]
  /\ lines \in [Carts -> Lines]
  /\ applied \in [Carts -> SUBSET Coupons]
  /\ filled \in [Carts -> SUBSET Slots]
  /\ version \in [Carts -> 0..MaxVersion]
  /\ listed \in [Products -> Currencies]
  /\ fixedIn \in [Coupons -> Currencies \cup {None}]
  /\ op \in [Sessions -> Op]
  /\ seen \in [Customers -> View \cup {None}]
  /\ sold \in [Carts -> Sale \cup {None}]

\* However lazy creation, clear_cart, checkout and the sweep interleave, a customer has
\* one active cart: add_item's get_or_create has the unique index behind it.
OneActiveCart ==
  \A j, k \in Carts :
    status[j] = "active" /\ status[k] = "active" /\ Owner[j] = Owner[k] => j = k

\* The currency lock: all lines of an active cart are in the cart's currency, and an
\* empty cart has none, so that a product of another currency can be added next.
\* add_item's test and remove_item's reset must agree over any history, although the
\* product's currency may change between add_item's read and its insert.
CurrencyLock ==
  \A k \in Carts : status[k] = "active" =>
    /\ currency[k] = None <=> Empty(lines[k])
    /\ \A p \in Products : lines[k][p].qty > 0 => lines[k][p].cur = currency[k]

\* An order and its fixed discounts are in one currency, although a coupon stays on a
\* cart that is emptied and filled again in another currency, and the admin may change
\* a coupon that is about to be applied: phase 2 of checkout validates again.
SoldInOneCurrency ==
  \A k \in Carts : sold[k] # None =>
    /\ sold[k].fixed \subseteq {sold[k].currency}
    /\ \A p \in Products : sold[k].lines[p].qty > 0 => sold[k].lines[p].cur = sold[k].currency

\* While a cart has the version a client saw, it has the lines and coupons the client
\* saw: every mutator of either ends in _bump_and_return.  If-Match relies on it.
VersionTells ==
  \A u \in Customers : seen[u] # None =>
    LET k == seen[u].cart IN
    status[k] = "active" /\ version[k] = seen[u].version => ViewOf(k) = seen[u]

\* What cart_checkout.py says of If-Match: a checkout that names the version the client
\* saw orders what the client saw.
OrderAsSeen ==
  \A k \in Carts : sold[k] # None /\ sold[k].asked # None =>
    /\ sold[k].lines = sold[k].asked.lines
    /\ sold[k].applied = sold[k].asked.applied
==============================================================================
