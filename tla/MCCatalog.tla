----------------------------- MODULE MCCatalog -----------------------------
(***************************************************************************)
(* A small instance of Catalog: one product with a picture and one yet to  *)
(* be created.                                                             *)
(***************************************************************************)
EXTENDS Catalog, TLC

CONSTANTS p1, p2, png

OneOfTwo ==
  {[p \in Products |->
      IF p = p1 THEN [price |-> 1, active |-> TRUE, image |-> png, stock |-> 2, reserved |-> 1]
      ELSE None]}

SomeBodies == {<<>>, [c \in {"price"} |-> 2], [c \in {"stock"} |-> 1],
               [c \in {"active"} |-> TRUE]}

Alike == Permutations(Workers)
=============================================================================
