---------------------------- MODULE MCCartService ----------------------------
(***************************************************************************)
(* Small instances of CartService: one customer on two devices, two carts  *)
(* one after the other, products and a coupon in two currencies.           *)
(***************************************************************************)
EXTENDS CartService, TLC

AliceOnBoth == [s \in Sessions |-> CHOOSE c \in Customers : TRUE]
AllHers     == [k \in Carts |-> CHOOSE c \in Customers : TRUE]
Symmetry    == Permutations(Sessions) \cup Permutations(Products) \cup Permutations(Currencies)
==============================================================================
