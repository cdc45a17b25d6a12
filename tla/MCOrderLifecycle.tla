-------------------------- MODULE MCOrderLifecycle --------------------------
(***************************************************************************)
(* Small instances of OrderLifecycle.                                      *)
(***************************************************************************)
EXTENDS OrderLifecycle, TLC

\* Every cart belongs to one customer: checkouts of one cart and of several carts,
\* and the constraint on active carts, all occur.
OneCustomer == [k \in Carts |-> CHOOSE u \in Customers : TRUE]

\* One unit of one product.
SmallBaskets == {[p \in Products |-> 1]}

Symmetry == Permutations(Checkouts) \cup Permutations(Carts) \cup Permutations(Products)
=============================================================================
