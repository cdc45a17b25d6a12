---------------------------- MODULE MCInvoiceTask ----------------------------
(***************************************************************************)
(* A small instance of InvoiceTask: the copies of one message that two     *)
(* workers may run at once, one retry per copy, and two workers or         *)
(* connections lost.                                                       *)
(***************************************************************************)
EXTENDS InvoiceTask

AllHis == [o \in Orders |-> CHOOSE t \in Tenants : TRUE]
==============================================================================
