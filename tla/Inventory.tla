------------------------------ MODULE Inventory ------------------------------
(***************************************************************************)
(* The inventory ledger: each Product row's stock_quantity and             *)
(* reserved_quantity, and the InventoryReservation rows that explain them. *)
(*                                                                         *)
(* A reservation row is named <<c, p>>: the checkout that inserted it and  *)
(* the product it holds (one row per cart line, one line per product).     *)
(* Every operation below is the net effect of ONE database transaction on  *)
(* the ledger.  Callers in the code: the checkout saga, cancel_order, the  *)
(* webhook task, the reconcile sweep, the expiry sweep and the admin       *)
(* product PATCH.  LedgerSpec lets all of them act in any order, so it is also   *)
(* the abstract specification that the modules which extend this one       *)
(* implement.                                                              *)
(***************************************************************************)
EXTENDS Integers, FiniteSets

CONSTANTS
  Checkouts,      \* checkout requests, each with its own idempotency key
  Products,
  MaxQty,         \* bound: largest quantity of one cart line
  MaxStock,       \* bound: largest stock_quantity an admin PATCH sets
  InitialStock    \* stock_quantity of every product at the start

ASSUME InventoryAssumption ==
  /\ IsFiniteSet(Checkouts)
  /\ MaxQty \in Nat \ {0}
  /\ MaxStock \in Nat
  /\ InitialStock \in 0..MaxStock

VARIABLES
  stock,      \* Product.stock_quantity
  reserved,   \* Product.reserved_quantity
  resv,       \* the InventoryReservation rows
  supplied    \* history: units ever put on the shelf by the admin, per product

ledger == <<stock, reserved, resv, supplied>>

Rows  == Checkouts \X Products
Lines == [Products -> 0..MaxQty]    \* what a cart asks for, per product

NoRow == [status |-> "none", qty |-> 0]
RowStatus == {"none", "active", "committed", "released"}
Row == [status : RowStatus, qty : 0..MaxQty]

RowsIn(st) == {r \in Rows : resv[r].status = st}

\* The units of p that the rows of S stand for, one element per unit, so that
\* Cardinality adds their quantities up.
UnitsOf(S, p) ==
  {u \in Checkouts \X (1..MaxQty) : <<u[1], p>> \in S /\ u[2] <= resv[<<u[1], p>>].qty}

Amount(S, p) == Cardinality(UnitsOf(S, p))

SetStatus(S, st) == resv' = [r \in Rows |-> IF r \in S THEN [resv[r] EXCEPT !.status = st] ELSE resv[r]]

------------------------------------------------------------------------------
LedgerInit ==
  /\ stock    = [p \in Products |-> InitialStock]
  /\ reserved = [p \in Products |-> 0]
  /\ resv     = [r \in Rows |-> NoRow]
  /\ supplied = [p \in Products |-> InitialStock]

\* _reserve_stock's test, on counters read under FOR UPDATE of every product row.
EnoughStock(lines) == \A p \in Products : lines[p] <= stock[p] - reserved[p]

\* No row of c yet: a checkout inserts each of its rows once.
New(c) == \A p \in Products : resv[<<c, p>>].status = "none"

\* A checkout transaction inserts its rows and commits with all of them "active"
\* (waiting for the money), "committed" (captured, or a purchase order) or
\* "released" (compensated before the transaction ended).
Write(c, lines, st) ==
  /\ resv' = [r \in Rows |-> IF r[1] = c /\ lines[r[2]] > 0
                             THEN [status |-> st, qty |-> lines[r[2]]] ELSE resv[r]]
  /\ reserved' = [p \in Products |-> IF st = "active" THEN reserved[p] + lines[p] ELSE reserved[p]]
  /\ stock' = [p \in Products |-> IF st = "committed" THEN stock[p] - lines[p] ELSE stock[p]]
  /\ UNCHANGED supplied

Insert(c, lines, st) == EnoughStock(lines) /\ Write(c, lines, st)

\* reserved_quantity goes down, the row becomes "released".
Release(S) ==
  /\ SetStatus(S, "released")
  /\ reserved' = [p \in Products |-> reserved[p] - Amount(S, p)]
  /\ UNCHANGED <<stock, supplied>>

\* Both counters go down, the row becomes "committed".
Commit(S) ==
  /\ SetStatus(S, "committed")
  /\ reserved' = [p \in Products |-> reserved[p] - Amount(S, p)]
  /\ stock' = [p \in Products |-> stock[p] - Amount(S, p)]
  /\ UNCHANGED supplied

\* cancel_order: active rows release their hold, committed rows (a purchase
\* order, shipped first) give their stock back, in the same transaction.
Unwind(S) ==
  /\ SetStatus(S, "released")
  /\ reserved' = [p \in Products |-> reserved[p] - Amount(S \cap RowsIn("active"), p)]
  /\ stock' = [p \in Products |-> stock[p] + Amount(S \cap RowsIn("committed"), p)]
  /\ UNCHANGED supplied

\* PATCH /admin/products: an absolute stock_quantity, refused below reserved.
PatchStock(p, n) ==
  /\ n >= reserved[p]
  /\ stock' = [stock EXCEPT ![p] = n]
  /\ supplied' = [supplied EXCEPT ![p] = @ + n - stock[p]]
  /\ UNCHANGED <<reserved, resv>>

LedgerNext ==
  \/ \E c \in Checkouts, lines \in Lines, st \in RowStatus \ {"none"} : New(c) /\ Insert(c, lines, st)
  \/ \E S \in SUBSET RowsIn("active") : Release(S) \/ Commit(S)
  \/ \E S \in SUBSET (RowsIn("active") \cup RowsIn("committed")) : Unwind(S)
  \/ \E p \in Products, n \in 0..MaxStock : PatchStock(p, n)

LedgerSpec == LedgerInit /\ [][LedgerNext]_ledger

------------------------------------------------------------------------------
LedgerTypeOK ==
  /\ stock    \in [Products -> Nat]
  /\ reserved \in [Products -> Nat]
  /\ resv     \in [Rows -> Row]
  /\ supplied \in [Products -> Nat]

\* reserved_quantity is exactly what the active rows hold: every path that ends a
\* hold (checkout, webhook, sweep, cancel, reconcile) subtracts it exactly once.
ReservedIsHeld == \A p \in Products : reserved[p] = Amount(RowsIn("active"), p)

\* The database CHECK stock_gte_reserved can never fire, so no decrement of a sweep
\* or a webhook is ever refused by it: what is held is on the shelf.
StockCoversReserved == \A p \in Products : reserved[p] <= stock[p]

\* Units are neither lost nor sold twice: what is on the shelf plus what committed
\* rows took is what the admin ever put there.
StockConserved == \A p \in Products : stock[p] + Amount(RowsIn("committed"), p) = supplied[p]

==============================================================================
