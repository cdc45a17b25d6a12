--------------------------- MODULE MCCheckoutSaga ---------------------------
(***************************************************************************)
(* Small instances of CheckoutSaga: alice sends two requests with one      *)
(* idempotency key, bob one of his own; both want the last units and the   *)
(* last use of a coupon.                                                   *)
(***************************************************************************)
EXTENDS CheckoutSaga, TLC

CONSTANTS r1, r2, r3, a1, a2, b1, alice, bob, key1, key2, p1, p2, q1

CartOwner  == [k \in Carts |-> IF k = b1 THEN bob ELSE alice]
RequestBy  == [r \in Checkouts |-> IF r = r3 THEN bob ELSE alice]
RequestKey == [r \in Checkouts |-> IF r = r3 THEN key2 ELSE key1]
Expected   == [r \in Checkouts |-> IF r = r1 THEN 1 ELSE None]
OneUse     == [q \in Coupons |-> 1]
ById       == p1 :> 1 @@ p2 :> 2

\* One unit of each product, with the coupon, by card; one unit on invoice; a cart
\* with no payment method yet.
BothByCard  == [lines |-> [p \in Products |-> 1], coupons |-> {q1}, method |-> "card"]
OneInvoiced == [lines |-> p1 :> 0 @@ p2 :> 1, coupons |-> {}, method |-> "invoice"]
NoMethod    == [lines |-> p1 :> 1 @@ p2 :> 0, coupons |-> {}, method |-> "none"]
AnyContent  == {BothByCard, OneInvoiced, NoMethod}

=============================================================================
