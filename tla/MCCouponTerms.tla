--------------------------- MODULE MCCouponTerms ---------------------------
(***************************************************************************)
(* A small instance of CouponTerms: a percentage that makes half cents and *)
(* a fixed amount, two carts that differ in all the rules ask about.       *)
(***************************************************************************)
EXTENDS CouponTerms

CONSTANTS k1, k2, eighth, five, sar, usd, sa

TwoCarts ==
  [k \in Carts |-> IF k = k1 THEN [currency |-> sar, country |-> sa, type |-> "B2C"]
                   ELSE [currency |-> usd, country |-> None, type |-> "B2B"]]

Open == [type |-> "percentage", value |-> 1250, currency |-> None, min |-> None,
         countries |-> {}, for |-> "any", max |-> 1, uses |-> 0, from |-> None, until |-> None,
         active |-> TRUE]
Strict == [Open EXCEPT !.type = "fixed", !.value = 5, !.currency = sar, !.min = 10,
                       !.countries = {sa}, !.for = "B2C", !.max = None, !.from = 0, !.until = 0]

OneEighthAndFive == [q \in Coupons |-> IF q = eighth THEN {Open} ELSE {Strict, [Open EXCEPT !.uses = 1]}]

Set(f, v) == [g \in {f} |-> v]
SomeBodies ==
  {Set("value", 10000), Set("value", 20000), Set("type", "fixed"), Set("uses", 1),
   Set("max", 0), Set("min", 10), Set("until", 0), Set("active", TRUE)}
=============================================================================
