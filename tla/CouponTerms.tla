---------------------------- MODULE CouponTerms ----------------------------
(***************************************************************************)
(* A tenant's coupons, the terms they are given on and the prices they     *)
(* make: the admin endpoints that create, patch and switch off a coupon    *)
(* while customers preview it, apply it and check out with it.             *)
(*                                                                         *)
(* Amounts are in cents, percentages in hundredths of a percent.  A        *)
(* checkout is followed from the cart's lock to the outcome of its         *)
(* payment, a PATCH from its SELECT FOR UPDATE to its save; the row locks  *)
(* both take on a coupon last until their transaction ends.  How a cart's  *)
(* lines, currency and version change is CartService's matter; here a cart *)
(* is its subtotal and what the rules ask of it.                           *)
(***************************************************************************)
EXTENDS Naturals, FiniteSets

CONSTANTS
  Coupons,      \* codes; uniq_coupon_code_per_tenant makes them ids
  Carts,
  Countries, Currencies,
  Cart,         \* per cart: currency, shipping country (or None), customer type
  Subtotals,    \* what the lines of a cart may sum up to
  NewRows,      \* per code: the rows an admin may create
  Bodies,       \* bodies of a PATCH: some fields with their values
  MaxTime,      \* bound: days
  MaxPatches,   \* bound: PATCH and DELETE requests
  MaxUses,      \* bound: uses counted of a coupon without a limit
  None

Types == {"percentage", "fixed"}
CustomerTypes == {"B2C", "B2B"}
Optional(set) == set \cup {None}

Row == [type : Types, value : Nat, currency : Optional(Currencies), min : Optional(Nat),
        countries : SUBSET Countries, for : CustomerTypes \cup {"any"}, max : Optional(Nat),
        uses : Nat, from : Optional(Nat), until : Optional(Nat), active : BOOLEAN]

Fields == {"type", "value", "currency", "min", "countries", "for", "max", "uses", "from",
           "until", "active"}

\* The serializers' fields and _validate_cross_fields.
WellFormed(row) ==
  /\ row.value >= 1
  /\ row.type = "fixed" => row.currency # None
  /\ row.type = "percentage" => row.value <= 10000

\* A body of a PATCH: any of the fields, each with a value its serializer takes.
Body(b) ==
  /\ DOMAIN b \subseteq Fields
  /\ "type" \in DOMAIN b => b.type \in Types
  /\ "value" \in DOMAIN b => b.value \in Nat
  /\ "currency" \in DOMAIN b => b.currency \in Optional(Currencies)
  /\ "min" \in DOMAIN b => b.min \in Optional(Nat)
  /\ "countries" \in DOMAIN b => b.countries \in SUBSET Countries
  /\ "for" \in DOMAIN b => b.for \in CustomerTypes \cup {"any"}
  /\ "max" \in DOMAIN b => b.max \in Optional(Nat)
  /\ "uses" \in DOMAIN b => b.uses \in Nat
  /\ "from" \in DOMAIN b => b.from \in Optional(Nat)
  /\ "until" \in DOMAIN b => b.until \in Optional(Nat)
  /\ "active" \in DOMAIN b => b.active \in BOOLEAN

\* An order with the coupons S: its prices, the terms it was sold on, and the day they
\* were checked.
Order(S) == [subtotal : Nat, discount : Nat, total : Nat, terms : [S -> Row], checked : Nat]

ASSUME CouponAssumption ==
  /\ None \notin Carts \cup Countries \cup Currencies \cup {"admin"}
  /\ None \notin Nat \cup Row /\ "admin" \notin Carts
  /\ \A S \in SUBSET Coupons : None \notin Order(S)
  /\ Cart \in [Carts -> [currency : Currencies, country : Optional(Countries),
                         type : CustomerTypes]]
  /\ Subtotals \subseteq Nat
  /\ \A q \in Coupons : NewRows[q] \subseteq Row
  /\ \A b \in Bodies : Body(b)
  /\ MaxTime \in Nat /\ MaxPatches \in Nat /\ MaxUses \in Nat

VARIABLES
  coupon,     \* coupons_coupon, by code: None or a row
  now,
  subtotal,   \* per cart
  applied,    \* per cart: its AppliedCoupon rows
  pc,         \* per cart: where its checkout is
  seen,       \* per cart: the coupons as the checkout prefetched them
  checked,    \* per cart: the day its checkout validated them
  taken,      \* per cart: the coupons it has counted, its commit to come
  placed,     \* per cart: the order, None before
  lock,       \* per coupon: the cart or the admin whose transaction holds it
  patch,      \* the PATCH in progress: its code, body and the row it read
  patches,    \* PATCH and DELETE requests so far
  byHand      \* coupons whose uses_count an admin has written

vars == <<coupon, now, subtotal, applied, pc, seen, checked, taken, placed, lock, patch, patches, byHand>>

-----------------------------------------------------------------------------
(* Prices. *)

Least(a, b) == IF a <= b THEN a ELSE b

\* Variant: ties go up.
CentsUp(n) == (n + 5000) \div 10000

\* quantize(Decimal("0.01")) of n / 10000: to the nearest cent, ties to even.
Cents(n) ==
  LET q == n \div 10000
      r == n % 10000
  IN  IF r > 5000 \/ (r = 5000 /\ q % 2 = 1) THEN q + 1 ELSE q

\* compute_discount
Discount(row, s) ==
  Cents(Least(IF row.type = "percentage" THEN s * row.value ELSE 10000 * row.value, 10000 * s))

\* The sum of the numbers f[q]: that many marks for each q.
Marks(f) == UNION {{q} \X (1..f[q]) : q \in DOMAIN f}
Sum(f) == Cardinality(Marks(f))

\* compute_totals, of the coupons in terms.
DiscountTotal(terms, s) == Least(Sum([q \in DOMAIN terms |-> Discount(terms[q], s)]), s)

\* What preview_coupon shows for a cart and a coupon.
Projected(k, q) ==
  LET current == DiscountTotal([p \in applied[k] |-> coupon[p]], subtotal[k])
      marginal == IF q \in applied[k] THEN 0 ELSE Discount(coupon[q], subtotal[k])
  IN  Least(current + marginal, subtotal[k])

\* Coupon.validate, on the day t.
Valid(row, k, s, t) ==
  /\ row.active
  /\ row.from # None => t >= row.from
  /\ row.until # None => t <= row.until
  /\ row.max # None => row.uses < row.max
  /\ row.type = "fixed" => row.currency = Cart[k].currency
  /\ row.min # None => s >= row.min
  /\ row.countries # {} => Cart[k].country \in row.countries
  /\ row.for # "any" => Cart[k].type = row.for

-----------------------------------------------------------------------------
Init ==
  /\ coupon = [q \in Coupons |-> None]
  /\ now = 0
  /\ subtotal \in [Carts -> Subtotals]
  /\ applied = [k \in Carts |-> {}]
  /\ pc = [k \in Carts |-> "active"]
  /\ seen = [k \in Carts |-> <<>>]
  /\ checked = [k \in Carts |-> 0]
  /\ taken = [k \in Carts |-> {}]
  /\ placed = [k \in Carts |-> None]
  /\ lock = [q \in Coupons |-> None]
  /\ patch = None /\ patches = 0
  /\ byHand = {}

Tick ==
  /\ now < MaxTime /\ now' = now + 1
  /\ UNCHANGED <<coupon, subtotal, applied, pc, seen, checked, taken, placed, lock, patch, patches, byHand>>

(* The admin. *)

\* POST: a code that exists is refused.
CreateCoupon(q) ==
  /\ coupon[q] = None
  /\ \E row \in NewRows[q] :
       /\ WellFormed(row)
       /\ coupon' = [coupon EXCEPT ![q] = row]
       /\ byHand' = IF row.uses > 0 THEN byHand \cup {q} ELSE byHand
  /\ UNCHANGED <<now, subtotal, applied, pc, seen, checked, taken, placed, lock, patch, patches>>

\* Variant: the row is read without a lock.
ReadForPatchUnlocked(q, b) ==
  /\ coupon[q] # None /\ patch = None /\ patches < MaxPatches
  /\ patch' = [code |-> q, body |-> b, row |-> coupon[q]] /\ patches' = patches + 1
  /\ UNCHANGED <<coupon, now, subtotal, applied, pc, seen, checked, taken, placed, lock, byHand>>

\* PATCH: select_for_update().
ReadForPatch(q, b) ==
  /\ coupon[q] # None /\ lock[q] = None /\ patch = None /\ patches < MaxPatches
  /\ lock' = [lock EXCEPT ![q] = "admin"]
  /\ patch' = [code |-> q, body |-> b, row |-> coupon[q]] /\ patches' = patches + 1
  /\ UNCHANGED <<coupon, now, subtotal, applied, pc, seen, checked, taken, placed, byHand>>

Merged(row, b) == [f \in Fields |-> IF f \in DOMAIN b THEN b[f] ELSE row[f]]

\* Variant: the body is validated by itself, not merged with the row.
AllowedAlone(q, row, b) ==
  /\ "type" \in DOMAIN b /\ b.type = "fixed" => "currency" \in DOMAIN b
  /\ "max" \in DOMAIN b /\ b.max # None => b.max >= row.uses
  /\ "until" \in DOMAIN b /\ b.until # None => b.until >= now

\* The serializer, on the row as it will be, and the view's rules: max_uses is
\* compared with the count the row had.
Allowed(q, row, b) ==
  LET new == Merged(row, b) IN
  /\ WellFormed(new)
  /\ new.max # None => new.max >= row.uses
  /\ "until" \in DOMAIN b /\ b.until # None => b.until >= now
  /\ new.currency # row.currency \/ new.type # row.type =>
       \A k \in Carts : q \notin applied[k] \/ pc[k] = "ordered"

\* s.save() writes every column; a refused PATCH writes nothing.
SavePatch ==
  /\ patch # None
  /\ LET q == patch.code IN
     /\ lock[q] \in {"admin", None}
     /\ lock' = [lock EXCEPT ![q] = None]
     /\ IF Allowed(q, patch.row, patch.body)
        THEN /\ coupon' = [coupon EXCEPT ![q] = Merged(patch.row, patch.body)]
             /\ byHand' = IF "uses" \in DOMAIN patch.body THEN byHand \cup {q} ELSE byHand
        ELSE UNCHANGED <<coupon, byHand>>
  /\ patch' = None
  /\ UNCHANGED <<now, subtotal, applied, pc, seen, checked, taken, placed, patches>>

\* DELETE switches it off.
DeleteCoupon(q) ==
  /\ coupon[q] # None /\ lock[q] = None /\ patches < MaxPatches
  /\ coupon' = [coupon EXCEPT ![q].active = FALSE]
  /\ patches' = patches + 1
  /\ UNCHANGED <<now, subtotal, applied, pc, seen, checked, taken, placed, lock, patch, byHand>>

(* Carts. *)

EditLines(k, s) ==
  /\ pc[k] = "active" /\ subtotal' = [subtotal EXCEPT ![k] = s]
  /\ UNCHANGED <<coupon, now, applied, pc, seen, checked, taken, placed, lock, patch, patches, byHand>>

ApplyCoupon(k, q) ==
  /\ pc[k] = "active" /\ coupon[q] # None /\ q \notin applied[k]
  /\ Valid(coupon[q], k, subtotal[k], now)
  /\ applied' = [applied EXCEPT ![k] = @ \cup {q}]
  /\ UNCHANGED <<coupon, now, subtotal, pc, seen, checked, taken, placed, lock, patch, patches, byHand>>

RemoveCoupon(k, q) ==
  /\ pc[k] = "active" /\ q \in applied[k]
  /\ applied' = [applied EXCEPT ![k] = @ \ {q}]
  /\ UNCHANGED <<coupon, now, subtotal, pc, seen, checked, taken, placed, lock, patch, patches, byHand>>

(* Checkout. *)

\* Phase 1 locks the cart and prefetches its coupons.
LockCart(k) ==
  /\ pc[k] = "active"
  /\ seen' = [seen EXCEPT ![k] = [q \in applied[k] |-> coupon[q]]]
  /\ pc' = [pc EXCEPT ![k] = "locked"]
  /\ UNCHANGED <<coupon, now, subtotal, applied, checked, taken, placed, lock, patch, patches, byHand>>

\* The checkout's transaction ends, and with it what it knows and its locks.
Ends(k, stage) ==
  /\ pc' = [pc EXCEPT ![k] = stage]
  /\ seen' = [seen EXCEPT ![k] = <<>>] /\ taken' = [taken EXCEPT ![k] = {}]
  /\ checked' = [checked EXCEPT ![k] = 0]
  /\ lock' = [q \in Coupons |-> IF lock[q] = k THEN None ELSE lock[q]]

\* It fails, and its cart is ACTIVE again.
GiveBack(k) == Ends(k, "active")

\* Phase 2 validates them as they were prefetched.
Revalidate(k) ==
  /\ pc[k] = "locked"
  /\ IF \A q \in DOMAIN seen[k] : Valid(seen[k][q], k, subtotal[k], now)
     THEN /\ pc' = [pc EXCEPT ![k] = "counting"] /\ checked' = [checked EXCEPT ![k] = now]
          /\ UNCHANGED <<seen, taken, lock>>
     ELSE GiveBack(k)
  /\ UNCHANGED <<coupon, now, subtotal, applied, placed, patch, patches, byHand>>

\* Phase 4 locks each coupon and reads its limit again.
CountUse(k, q) ==
  /\ pc[k] = "counting" /\ q \in DOMAIN seen[k] \ taken[k] /\ lock[q] = None
  /\ coupon[q].max = None => coupon[q].uses < MaxUses
  /\ IF coupon[q].max # None /\ coupon[q].uses >= coupon[q].max
     THEN GiveBack(k)
     ELSE /\ lock' = [lock EXCEPT ![q] = k]
          /\ taken' = [taken EXCEPT ![k] = @ \cup {q}]
          /\ UNCHANGED <<pc, seen, checked>>
  /\ UNCHANGED <<coupon, now, subtotal, applied, placed, patch, patches, byHand>>

Priced(k, terms, s) ==
  LET discount == DiscountTotal(terms, s) IN
  [subtotal |-> s, discount |-> discount, total |-> s - discount, terms |-> terms,
   checked |-> checked[k]]

\* Variant: the order is priced by the coupons' rows as they are now.
InsertOrderAfresh(k) ==
  /\ pc[k] = "counting" /\ taken[k] = DOMAIN seen[k]
  /\ placed' = [placed EXCEPT ![k] = Priced(k, [q \in DOMAIN seen[k] |-> coupon[q]], subtotal[k])]
  /\ pc' = [pc EXCEPT ![k] = "paying"]
  /\ UNCHANGED <<coupon, now, subtotal, applied, seen, checked, taken, lock, patch, patches, byHand>>

\* Its totals are those of the prefetched coupons.
InsertOrder(k) ==
  /\ pc[k] = "counting" /\ taken[k] = DOMAIN seen[k]
  /\ placed' = [placed EXCEPT ![k] = Priced(k, seen[k], subtotal[k])]
  /\ pc' = [pc EXCEPT ![k] = "paying"]
  /\ UNCHANGED <<coupon, now, subtotal, applied, seen, checked, taken, lock, patch, patches, byHand>>

Counted(k) ==
  [q \in Coupons |-> IF q \in taken[k] THEN [coupon[q] EXCEPT !.uses = @ + 1] ELSE coupon[q]]

\* The request commits its order and the uses it has counted.
Commit(k, stage) ==
  /\ pc[k] = "paying"
  /\ coupon' = Counted(k)
  /\ Ends(k, stage)
  /\ UNCHANGED <<now, subtotal, applied, placed, patch, patches, byHand>>

\* After phase 6, whatever the payment's status: the cart is CONVERTED.
Converted(k) == Commit(k, "ordered")

\* GatewayNotConfigured or GatewayUnsupportedCurrency: no PaymentFailed, so nothing is
\* compensated.  The order is committed, PENDING, and its cart stays CHECKING_OUT; what
\* the sweep and the customer make of them later is OrderLifecycle's matter.
Stranded(k) == Commit(k, "stranded")

\* No order, or a cancelled one: a declined payment is compensated, except for the
\* counts; an error that is no DomainError rolls the request back.
NotPaid(k) ==
  /\ pc[k] = "paying"
  /\ coupon' \in {Counted(k), coupon}
  /\ placed' = [placed EXCEPT ![k] = None]
  /\ GiveBack(k)
  /\ UNCHANGED <<now, subtotal, applied, patch, patches, byHand>>

-----------------------------------------------------------------------------
Next ==
  \/ Tick \/ SavePatch
  \/ \E q \in Coupons : CreateCoupon(q) \/ DeleteCoupon(q)
  \/ \E q \in Coupons, b \in Bodies : ReadForPatch(q, b)
  \/ \E k \in Carts :
       \/ \E s \in Subtotals : EditLines(k, s)
       \/ \E q \in Coupons : ApplyCoupon(k, q) \/ RemoveCoupon(k, q) \/ CountUse(k, q)
       \/ LockCart(k) \/ Revalidate(k) \/ InsertOrder(k)
       \/ Converted(k) \/ Stranded(k) \/ NotPaid(k)

Spec == Init /\ [][Next]_vars

-----------------------------------------------------------------------------
\* The variables hold what the code can put there; a row keeps the rules its
\* serializers check, one field at a time or several.
TypeOK ==
  /\ \A q \in Coupons : coupon[q] # None => coupon[q] \in Row /\ WellFormed(coupon[q])
  /\ now \in 0..MaxTime /\ patches \in 0..MaxPatches
  /\ subtotal \in [Carts -> Subtotals]
  /\ applied \in [Carts -> SUBSET {q \in Coupons : coupon[q] # None}]
  /\ pc \in [Carts -> {"active", "locked", "counting", "paying", "ordered", "stranded"}]
  /\ checked \in [Carts -> 0..now]
  /\ \A k \in Carts : DOMAIN seen[k] \in {{}, applied[k]} /\ taken[k] \subseteq DOMAIN seen[k]
  /\ \A k \in Carts : IF pc[k] \in {"paying", "ordered", "stranded"}
                      THEN \E S \in SUBSET Coupons : placed[k] \in Order(S)
                      ELSE placed[k] = None
  /\ lock \in [Coupons -> Carts \cup {"admin", None}]
  /\ byHand \subseteq Coupons

\* What a percentage of s is, in cents, by the definition: the nearest, the even
\* one of two.
Nearest(row, s) ==
  CHOOSE d \in 0..s :
    /\ 2 * 10000 * d <= 2 * s * row.value + 10000
    /\ 2 * s * row.value <= 2 * 10000 * d + 10000
    /\ \/ 2 * 10000 * d # 2 * s * row.value + 10000 /\ 2 * s * row.value # 2 * 10000 * d + 10000
       \/ d % 2 = 0
Share(row, s) == IF row.type = "fixed" THEN Least(row.value, s) ELSE Nearest(row, s)
Reference(terms, s) == Least(s, Sum([q \in DOMAIN terms |-> Share(terms[q], s)]))

\* One price: what a preview shows is what the cart's totals are once the coupon is
\* applied, and what an order takes off is exactly what its coupons' terms give at
\* its subtotal, and never more than that.
PricesAgree ==
  /\ \A k \in Carts, q \in Coupons :
       pc[k] = "active" /\ coupon[q] # None =>
         Projected(k, q) = Reference([p \in applied[k] \cup {q} |-> coupon[p]], subtotal[k])
  /\ \A k \in Carts : placed[k] # None =>
       LET o == placed[k] IN
       /\ o.discount = Reference(o.terms, o.subtotal)
       /\ o.total + o.discount = o.subtotal

\* Coupons sell on their terms: whatever admins do to the rows meanwhile, the row an
\* order was priced by passed every rule of Coupon.validate for its cart, at the very
\* subtotal it was sold at, on the day it was checked; and a coupon is on no more
\* committed orders than its max_uses, unless an admin wrote its count.  The rows are
\* those phase 1 prefetched: what changed between then and phase 4 is not looked at.
SoldOnTerms ==
  /\ \A k \in Carts : placed[k] # None =>
       LET o == placed[k] IN
       \A q \in DOMAIN o.terms : Valid(o.terms[q], k, o.subtotal, o.checked)
  /\ \A q \in Coupons \ byHand :
       coupon[q] # None /\ coupon[q].max # None =>
         Cardinality({k \in Carts : /\ pc[k] \in {"ordered", "stranded"}
                                   /\ q \in DOMAIN placed[k].terms})
           <= coupon[q].max

\* "Coupons re-validated under reservation lock": when the order is inserted, its
\* coupons' rows, locked by now, still pass for its cart.
ValidUnderLock ==
  \A k \in Carts : pc[k] = "paying" =>
    \A q \in DOMAIN placed[k].terms : Valid(coupon[q], k, placed[k].subtotal, checked[k])
=============================================================================
