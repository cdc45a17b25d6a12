---------------------------- MODULE InvoiceIssue ----------------------------
(***************************************************************************)
(* What the customers of a tenant are promised about invoices, with no     *)
(* queue, worker or retry in sight: an order is invoiced once, under a     *)
(* number no other order of the tenant has, its document is uploaded once, *)
(* and once it is uploaded, its URL is saved.                              *)
(***************************************************************************)
EXTENDS Naturals

CONSTANTS Orders, TenantOf

VARIABLES
  number,   \* invoice_number of each order's invoice, 0 while it has none
  stage     \* how far each order's invoice has come

issue == <<number, stage>>

Init ==
  /\ number = [o \in Orders |-> 0]
  /\ stage = [o \in Orders |-> "none"]

\* Constraints of the invoice table: one row per order, one number per tenant.
Free(o, n) ==
  /\ stage[o] = "none"
  /\ \A p \in Orders : TenantOf[p] = TenantOf[o] => number[p] # n

Number(o) ==
  /\ number'[o] \in Nat \ {0}
  /\ Free(o, number'[o])
  /\ number' = [number EXCEPT ![o] = number'[o]]
  /\ stage' = [stage EXCEPT ![o] = "numbered"]

\* The key is the invoice's id: a second upload replaces the first.
Store(o) ==
  /\ stage[o] = "numbered"
  /\ stage' = [stage EXCEPT ![o] = "stored"]
  /\ UNCHANGED number

File(o) ==
  /\ stage[o] = "stored"
  /\ stage' = [stage EXCEPT ![o] = "filed"]
  /\ UNCHANGED number

Next == \E o \in Orders : Number(o) \/ Store(o) \/ File(o)

Spec == Init /\ [][Next]_issue
=============================================================================
