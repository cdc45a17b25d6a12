------------------------------ MODULE Accounts -----------------------------
(***************************************************************************)
(* A tenant's customers: each has a cart (CartService) and saved payment   *)
(* methods (Wallet).                                                       *)
(***************************************************************************)
CONSTANTS Customers, None
=============================================================================
