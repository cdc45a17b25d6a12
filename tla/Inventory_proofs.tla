-------------------------- MODULE Inventory_proofs --------------------------
(***************************************************************************)
(* Proofs about the inventory ledger, for every set of checkouts and       *)
(* products and every bound.  The inductive invariant is the conjunction   *)
(* of the four invariants of Inventory: StockCoversReserved needs          *)
(* ReservedIsHeld (what a step subtracts was held), and both need the      *)
(* counters to be numbers.                                                 *)
(***************************************************************************)
EXTENDS Inventory, FiniteSetTheorems, TLAPS

LedgerInv == LedgerTypeOK /\ ReservedIsHeld /\ StockCoversReserved /\ StockConserved

\* The units of any set of rows are finitely many: there are finitely many
\* checkouts and a line has at most MaxQty units.
LEMMA UnitsFinite ==
  ASSUME NEW S, NEW p
  PROVE  IsFiniteSet(UnitsOf(S, p))
  <1>1. IsFiniteSet(1..MaxQty)
    BY InventoryAssumption, FS_Interval
  <1>2. IsFiniteSet(Checkouts \X (1..MaxQty))
    BY <1>1, InventoryAssumption, FS_Product
  <1>3. UnitsOf(S, p) \in SUBSET (Checkouts \X (1..MaxQty))
    BY DEF UnitsOf
  <1>. QED
    BY <1>2, <1>3, FS_Subset

\* A quantity is a natural number.
LEMMA AmountType ==
  ASSUME NEW S, NEW p
  PROVE  Amount(S, p) \in Nat
  BY UnitsFinite, FS_CardinalityType DEF Amount

\* A part of the rows holds no more than the whole, and taking it out leaves the
\* difference: what the code's decrements by F-expressions rely on.
LEMMA AmountSplit ==
  ASSUME NEW T, NEW S \in SUBSET T, NEW p
  PROVE  /\ Amount(S, p) <= Amount(T, p)
         /\ Amount(T \ S, p) = Amount(T, p) - Amount(S, p)
  <1>1. UnitsOf(S, p) \in SUBSET UnitsOf(T, p)
    BY DEF UnitsOf
  <1>2. UnitsOf(T \ S, p) = UnitsOf(T, p) \ UnitsOf(S, p)
    BY DEF UnitsOf
  <1>3. UnitsOf(T, p) \cap UnitsOf(S, p) = UnitsOf(S, p)
    BY <1>1
  <1>4. Amount(S, p) <= Amount(T, p)
    BY <1>1, UnitsFinite, FS_Subset DEF Amount
  <1>5. Cardinality(UnitsOf(T, p) \ UnitsOf(S, p))
          = Cardinality(UnitsOf(T, p)) - Cardinality(UnitsOf(T, p) \cap UnitsOf(S, p))
    BY UnitsFinite, FS_Difference
  <1>. QED
    BY <1>2, <1>3, <1>4, <1>5 DEF Amount

\* Two disjoint sets of rows hold the sum of what each holds.
LEMMA AmountUnion ==
  ASSUME NEW T, NEW S, S \cap T = {}, NEW p
  PROVE  Amount(T \cup S, p) = Amount(T, p) + Amount(S, p)
  <1>1. S \in SUBSET (T \cup S) /\ (T \cup S) \ S = T
    OBVIOUS
  <1>2. Amount(T, p) = Amount(T \cup S, p) - Amount(S, p)
    BY <1>1, AmountSplit
  <1>. QED
    BY <1>2, AmountType

\* Moving the rows of S to a status takes their quantity out of every other status
\* and adds it to that one, and changes no quantity.
LEMMA SetStatusMoves ==
  ASSUME LedgerTypeOK, NEW S \in SUBSET Rows, NEW st \in RowStatus, SetStatus(S, st)
  PROVE  /\ resv' \in [Rows -> Row]
         /\ \A p \in Products :
              /\ \A x \in RowStatus \ {st} :
                   Amount(RowsIn(x), p)' = Amount(RowsIn(x) \ S, p)
              /\ Amount(RowsIn(st), p)' = Amount(RowsIn(st) \cup S, p)
  <1>1. ASSUME NEW r \in Rows PROVE resv[r] \in Row
    BY <1>1 DEF LedgerTypeOK
  <1>2. resv' = [r \in Rows |-> IF r \in S THEN [resv[r] EXCEPT !.status = st] ELSE resv[r]]
    BY DEF SetStatus
  <1>3. ASSUME NEW r \in Rows
        PROVE  /\ resv'[r] \in Row
               /\ resv'[r].qty = resv[r].qty
               /\ resv'[r].status = IF r \in S THEN st ELSE resv[r].status
    BY <1>1, <1>2 DEF Row
  <1>4. resv' \in [Rows -> Row]
    BY <1>2, <1>3
  <1>5. ASSUME NEW x \in RowStatus \ {st} PROVE RowsIn(x)' = RowsIn(x) \ S
    BY <1>3 DEF RowsIn
  <1>6. RowsIn(st)' = RowsIn(st) \cup S
    BY <1>3 DEF RowsIn
  <1>7. ASSUME NEW p \in Products
        PROVE  /\ \A x \in RowStatus \ {st} :
                    Amount(RowsIn(x), p)' = Amount(RowsIn(x) \ S, p)
               /\ Amount(RowsIn(st), p)' = Amount(RowsIn(st) \cup S, p)
    <2>1. ASSUME NEW u \in Checkouts \X (1..MaxQty)
          PROVE  resv'[<<u[1], p>>].qty = resv[<<u[1], p>>].qty
      BY <1>3, <1>7 DEF Rows
    <2>2. ASSUME NEW x \in RowStatus \ {st}
          PROVE  UnitsOf(RowsIn(x), p)' = UnitsOf(RowsIn(x) \ S, p)
      BY <1>5, <2>1 DEF UnitsOf
    <2>3. UnitsOf(RowsIn(st), p)' = UnitsOf(RowsIn(st) \cup S, p)
      BY <1>6, <2>1 DEF UnitsOf
    <2>. QED
      BY <2>2, <2>3 DEF Amount
  <1>. QED
    BY <1>4, <1>7

\* Inserting a checkout's rows adds each line's quantity to the status they are
\* inserted with and leaves the other statuses alone.
LEMMA InsertAdds ==
  ASSUME LedgerTypeOK, NEW c \in Checkouts, NEW lines \in Lines,
         NEW st \in RowStatus \ {"none"}, New(c), Insert(c, lines, st)
  PROVE  /\ resv' \in [Rows -> Row]
         /\ \A p \in Products :
              /\ \A x \in RowStatus \ {"none", st} :
                   Amount(RowsIn(x), p)' = Amount(RowsIn(x), p)
              /\ Amount(RowsIn(st), p)' = Amount(RowsIn(st), p) + lines[p]
  <1>1. \A p \in Products : lines[p] \in 0..MaxQty
    BY DEF Lines
  <1>2. ASSUME NEW r \in Rows
        PROVE  /\ resv[r] \in Row
               /\ resv'[r] = IF r[1] = c /\ lines[r[2]] > 0
                             THEN [status |-> st, qty |-> lines[r[2]]] ELSE resv[r]
               /\ r[1] = c => resv[r].status = "none"
    BY <1>2 DEF LedgerTypeOK, New, Insert, Write, Rows
  <1>3. ASSUME NEW r \in Rows PROVE resv'[r] \in Row
    <2>1. lines[r[2]] \in 0..MaxQty
      BY <1>1, <1>3 DEF Rows
    <2>2. [status |-> st, qty |-> lines[r[2]]] \in Row
      BY <2>1 DEF Row
    <2>. QED
      BY <1>2, <1>3, <2>2
  <1>4. resv' \in [Rows -> Row]
    BY <1>3 DEF Insert, Write
  <1>5. ASSUME NEW p \in Products
        PROVE  /\ \A x \in RowStatus \ {"none", st} :
                    Amount(RowsIn(x), p)' = Amount(RowsIn(x), p)
               /\ Amount(RowsIn(st), p)' = Amount(RowsIn(st), p) + lines[p]
    <2>. DEFINE Added == {c} \X (1..lines[p])
    <2>1. lines[p] \in 0..MaxQty /\ lines[p] \in Nat
      BY <1>1, <1>5, InventoryAssumption
    <2>2. ASSUME NEW u \in Checkouts \X (1..MaxQty)
          PROVE  /\ <<u[1], p>> \in Rows
                 /\ resv'[<<u[1], p>>] = IF u[1] = c /\ lines[p] > 0
                                         THEN [status |-> st, qty |-> lines[p]]
                                         ELSE resv[<<u[1], p>>]
                 /\ u[1] = c => resv[<<u[1], p>>].status = "none"
      BY <1>2, <1>5 DEF Rows
    <2>3. ASSUME NEW x \in RowStatus \ {"none", st}
          PROVE  UnitsOf(RowsIn(x), p)' = UnitsOf(RowsIn(x), p)
      BY <2>2 DEF UnitsOf, RowsIn
    <2>4. UnitsOf(RowsIn(st), p)' = UnitsOf(RowsIn(st), p) \cup Added
      <3>1. ASSUME NEW u \in UnitsOf(RowsIn(st), p)' PROVE u \in UnitsOf(RowsIn(st), p) \cup Added
        BY <2>1, <2>2, InventoryAssumption DEF UnitsOf, RowsIn
      <3>2. ASSUME NEW u \in UnitsOf(RowsIn(st), p) PROVE u \in UnitsOf(RowsIn(st), p)'
        BY <2>1, <2>2 DEF UnitsOf, RowsIn
      <3>3. ASSUME NEW u \in Added PROVE u \in UnitsOf(RowsIn(st), p)'
        <4>1. u \in Checkouts \X (1..MaxQty) /\ u[1] = c /\ u[2] <= lines[p] /\ lines[p] > 0
          BY <2>1, <3>3, InventoryAssumption
        <4>. QED
          BY <2>2, <4>1 DEF UnitsOf, RowsIn
      <3>. QED
        BY <3>1, <3>2, <3>3
    <2>5. UnitsOf(RowsIn(st), p) \cap Added = {}
      BY <2>2 DEF UnitsOf, RowsIn
    <2>6. IsFiniteSet(Added) /\ Cardinality(Added) = lines[p]
      <3>1. IsFiniteSet({c}) /\ Cardinality({c}) = 1
        BY FS_Singleton
      <3>2. IsFiniteSet(1..lines[p]) /\ Cardinality(1..lines[p]) = lines[p]
        <4>1. /\ IsFiniteSet(1..lines[p])
              /\ Cardinality(1..lines[p]) = IF 1 > lines[p] THEN 0 ELSE lines[p] - 1 + 1
          BY <2>1, FS_Interval
        <4>. QED
          BY <2>1, <4>1
      <3>3. IsFiniteSet({c} \X (1..lines[p]))
              /\ Cardinality({c} \X (1..lines[p])) = Cardinality({c}) * Cardinality(1..lines[p])
        BY <3>1, <3>2, FS_Product
      <3>. QED
        BY <2>1, <3>1, <3>2, <3>3
    <2>7. Cardinality(UnitsOf(RowsIn(st), p) \cup Added)
            = Cardinality(UnitsOf(RowsIn(st), p)) + lines[p]
      <3>1. Cardinality(UnitsOf(RowsIn(st), p) \cup Added)
              = Cardinality(UnitsOf(RowsIn(st), p)) + Cardinality(Added)
                  - Cardinality(UnitsOf(RowsIn(st), p) \cap Added)
        BY <2>6, UnitsFinite, FS_Union
      <3>2. Cardinality({}) = 0
        BY FS_EmptySet
      <3>3. Cardinality(UnitsOf(RowsIn(st), p)) \in Nat
        BY UnitsFinite, FS_CardinalityType
      <3>4. Cardinality(UnitsOf(RowsIn(st), p) \cup Added)
              = Cardinality(UnitsOf(RowsIn(st), p)) + lines[p] - 0
        BY <2>5, <2>6, <3>1, <3>2
      <3>. QED
        BY <2>1, <3>3, <3>4
    <2>. QED
      BY <2>3, <2>4, <2>7 DEF Amount
  <1>. QED
    BY <1>4, <1>5

------------------------------------------------------------------------------
\* No rows at the start: nothing is held and nothing is sold.
LEMMA LedgerInitOK == LedgerInit => LedgerInv
  <1>. SUFFICES ASSUME LedgerInit PROVE LedgerInv
    OBVIOUS
  <1>1. LedgerTypeOK
    BY InventoryAssumption DEF LedgerInit, LedgerTypeOK, NoRow, Row, RowStatus
  <1>2. ASSUME NEW st \in RowStatus \ {"none"}, NEW p \in Products PROVE Amount(RowsIn(st), p) = 0
    <2>1. UnitsOf(RowsIn(st), p) = {}
      BY <1>2 DEF LedgerInit, UnitsOf, RowsIn, NoRow, Rows
    <2>. QED
      BY <2>1, FS_EmptySet DEF Amount
  <1>3. ASSUME NEW p \in Products
        PROVE  reserved[p] = 0 /\ stock[p] = InitialStock /\ supplied[p] = InitialStock
    BY DEF LedgerInit
  <1>. QED
    BY <1>1, <1>2, <1>3, InventoryAssumption
    DEF LedgerInv, ReservedIsHeld, StockCoversReserved, StockConserved, RowStatus

\* What LedgerInv says of one product, as numbers: the step lemmas argue per product.
LEMMA LedgerNumbers ==
  ASSUME LedgerInv, NEW p \in Products
  PROVE  /\ stock[p] \in Nat /\ reserved[p] \in Nat /\ supplied[p] \in Nat
         /\ Amount(RowsIn("active"), p) \in Nat /\ Amount(RowsIn("committed"), p) \in Nat
         /\ reserved[p] = Amount(RowsIn("active"), p)
         /\ reserved[p] <= stock[p]
         /\ stock[p] + Amount(RowsIn("committed"), p) = supplied[p]
  BY AmountType DEF LedgerInv, LedgerTypeOK, ReservedIsHeld, StockCoversReserved, StockConserved

\* The converse for the next state.
LEMMA LedgerFromNumbers ==
  ASSUME resv' \in [Rows -> Row],
         stock' = [p \in Products |-> stock'[p]],
         reserved' = [p \in Products |-> reserved'[p]],
         supplied' = [p \in Products |-> supplied'[p]],
         \A p \in Products :
            /\ stock'[p] \in Nat /\ reserved'[p] \in Nat /\ supplied'[p] \in Nat
            /\ reserved'[p] = Amount(RowsIn("active"), p)'
            /\ reserved'[p] <= stock'[p]
            /\ stock'[p] + Amount(RowsIn("committed"), p)' = supplied'[p]
  PROVE  LedgerInv'
  BY DEF LedgerInv, LedgerTypeOK, ReservedIsHeld, StockCoversReserved, StockConserved

\* A checkout that inserts its rows keeps the ledger exact: it inserts no more than
\* what is available, so reserved never passes stock.
LEMMA InsertPreserves ==
  ASSUME LedgerInv, NEW c \in Checkouts, NEW lines \in Lines,
         NEW st \in RowStatus \ {"none"}, New(c), Insert(c, lines, st)
  PROVE  LedgerInv'
  <1>1. /\ resv' \in [Rows -> Row]
        /\ \A p \in Products :
             /\ \A x \in RowStatus \ {"none", st} :
                  Amount(RowsIn(x), p)' = Amount(RowsIn(x), p)
             /\ Amount(RowsIn(st), p)' = Amount(RowsIn(st), p) + lines[p]
    BY InsertAdds DEF LedgerInv
  <1>2. ASSUME NEW p \in Products
        PROVE  /\ stock'[p] = IF st = "committed" THEN stock[p] - lines[p] ELSE stock[p]
               /\ reserved'[p] = IF st = "active" THEN reserved[p] + lines[p] ELSE reserved[p]
               /\ supplied'[p] = supplied[p]
               /\ lines[p] \in Nat
               /\ lines[p] <= stock[p] - reserved[p]
    BY InventoryAssumption DEF Insert, Write, EnoughStock, Lines
  <1>3. ASSUME NEW p \in Products
        PROVE  /\ Amount(RowsIn("active"), p)'
                    = Amount(RowsIn("active"), p) + (IF st = "active" THEN lines[p] ELSE 0)
               /\ Amount(RowsIn("committed"), p)'
                    = Amount(RowsIn("committed"), p) + (IF st = "committed" THEN lines[p] ELSE 0)
    <2>1. CASE st = "active"
      BY <1>1, <1>3, <2>1, LedgerNumbers DEF RowStatus
    <2>2. CASE st = "committed"
      BY <1>1, <1>3, <2>2, LedgerNumbers DEF RowStatus
    <2>3. CASE st = "released"
      BY <1>1, <1>3, <2>3, LedgerNumbers DEF RowStatus
    <2>. QED
      BY <2>1, <2>2, <2>3 DEF RowStatus
  <1>4. ASSUME NEW p \in Products
        PROVE  /\ stock'[p] \in Nat /\ reserved'[p] \in Nat /\ supplied'[p] \in Nat
               /\ reserved'[p] = Amount(RowsIn("active"), p)'
               /\ reserved'[p] <= stock'[p]
               /\ stock'[p] + Amount(RowsIn("committed"), p)' = supplied'[p]
    BY <1>2, <1>3, LedgerNumbers
  <1>5. /\ stock' = [p \in Products |-> stock'[p]]
        /\ reserved' = [p \in Products |-> reserved'[p]]
        /\ supplied' = [p \in Products |-> supplied'[p]]
    BY DEF Insert, Write, LedgerInv, LedgerTypeOK
  <1>. QED
    BY <1>1, <1>4, <1>5, LedgerFromNumbers

\* Ending holds (release, sweep): reserved falls by exactly what the rows held.
LEMMA ReleasePreserves ==
  ASSUME LedgerInv, NEW S \in SUBSET RowsIn("active"), Release(S)
  PROVE  LedgerInv'
  <1>1. S \subseteq RowsIn("active") /\ RowsIn("active") \cap RowsIn("committed") = {}
    BY DEF RowsIn
  <1>2. /\ resv' \in [Rows -> Row]
        /\ \A p \in Products :
             /\ Amount(RowsIn("active"), p)' = Amount(RowsIn("active") \ S, p)
             /\ Amount(RowsIn("committed"), p)' = Amount(RowsIn("committed") \ S, p)
    <2>1. LedgerTypeOK /\ SetStatus(S, "released") /\ "released" \in RowStatus /\ S \in SUBSET Rows
      BY DEF LedgerInv, Release, RowStatus, RowsIn
    <2>2. /\ resv' \in [Rows -> Row]
          /\ \A p \in Products :
               /\ \A x \in RowStatus \ {"released"} :
                    Amount(RowsIn(x), p)' = Amount(RowsIn(x) \ S, p)
               /\ Amount(RowsIn("released"), p)' = Amount(RowsIn("released") \cup S, p)
      BY <2>1, SetStatusMoves
    <2>. QED
      BY <2>2 DEF RowStatus
  <1>3. RowsIn("committed") \ S = RowsIn("committed")
    BY <1>1
  <1>4. ASSUME NEW p \in Products
        PROVE  /\ Amount(S, p) \in Nat /\ Amount(S, p) <= Amount(RowsIn("active"), p)
               /\ Amount(RowsIn("active"), p)' = Amount(RowsIn("active"), p) - Amount(S, p)
               /\ Amount(RowsIn("committed"), p)' = Amount(RowsIn("committed"), p)
    <2>1. S \in SUBSET RowsIn("active")
      BY <1>1
    <2>2. Amount(RowsIn("committed"), p)' = Amount(RowsIn("committed"), p)
      BY <1>2, <1>3, <1>4
    <2>. QED
      BY <1>2, <1>4, <2>1, <2>2, AmountSplit, AmountType
  <1>5. ASSUME NEW p \in Products
        PROVE  /\ stock'[p] = stock[p] /\ supplied'[p] = supplied[p]
               /\ reserved'[p] = reserved[p] - Amount(S, p)
    BY DEF Release
  <1>6. /\ stock' = [p \in Products |-> stock'[p]]
        /\ reserved' = [p \in Products |-> reserved'[p]]
        /\ supplied' = [p \in Products |-> supplied'[p]]
    BY DEF Release, LedgerInv, LedgerTypeOK
  <1>7. ASSUME NEW p \in Products
        PROVE  /\ stock'[p] \in Nat /\ reserved'[p] \in Nat /\ supplied'[p] \in Nat
               /\ reserved'[p] = Amount(RowsIn("active"), p)'
               /\ reserved'[p] <= stock'[p]
               /\ stock'[p] + Amount(RowsIn("committed"), p)' = supplied'[p]
    BY <1>4, <1>5, LedgerNumbers
  <1>. QED
    BY <1>2, <1>6, <1>7, LedgerFromNumbers

\* Committing holds moves the same quantity off the shelf and out of reserved.
LEMMA CommitPreserves ==
  ASSUME LedgerInv, NEW S \in SUBSET RowsIn("active"), Commit(S)
  PROVE  LedgerInv'
  <1>1. S \subseteq RowsIn("active") /\ RowsIn("committed") \cap S = {}
    BY DEF RowsIn
  <1>2. /\ resv' \in [Rows -> Row]
        /\ \A p \in Products :
             /\ Amount(RowsIn("active"), p)' = Amount(RowsIn("active") \ S, p)
             /\ Amount(RowsIn("committed"), p)' = Amount(RowsIn("committed") \cup S, p)
    <2>1. LedgerTypeOK /\ SetStatus(S, "committed") /\ "committed" \in RowStatus /\ S \in SUBSET Rows
      BY DEF LedgerInv, Commit, RowStatus, RowsIn
    <2>2. /\ resv' \in [Rows -> Row]
          /\ \A p \in Products :
               /\ \A x \in RowStatus \ {"committed"} :
                    Amount(RowsIn(x), p)' = Amount(RowsIn(x) \ S, p)
               /\ Amount(RowsIn("committed"), p)' = Amount(RowsIn("committed") \cup S, p)
      BY <2>1, SetStatusMoves
    <2>. QED
      BY <2>2 DEF RowStatus
  <1>3. ASSUME NEW p \in Products
        PROVE  /\ Amount(S, p) \in Nat /\ Amount(S, p) <= Amount(RowsIn("active"), p)
               /\ Amount(RowsIn("active"), p)' = Amount(RowsIn("active"), p) - Amount(S, p)
               /\ Amount(RowsIn("committed"), p)' = Amount(RowsIn("committed"), p) + Amount(S, p)
    BY <1>1, <1>2, <1>3, AmountSplit, AmountUnion, AmountType
  <1>4. ASSUME NEW p \in Products
        PROVE  /\ stock'[p] = stock[p] - Amount(S, p) /\ supplied'[p] = supplied[p]
               /\ reserved'[p] = reserved[p] - Amount(S, p)
    BY DEF Commit
  <1>5. /\ stock' = [p \in Products |-> stock'[p]]
        /\ reserved' = [p \in Products |-> reserved'[p]]
        /\ supplied' = [p \in Products |-> supplied'[p]]
    BY DEF Commit, LedgerInv, LedgerTypeOK
  <1>6. ASSUME NEW p \in Products
        PROVE  /\ stock'[p] \in Nat /\ reserved'[p] \in Nat /\ supplied'[p] \in Nat
               /\ reserved'[p] = Amount(RowsIn("active"), p)'
               /\ reserved'[p] <= stock'[p]
               /\ stock'[p] + Amount(RowsIn("committed"), p)' = supplied'[p]
    BY <1>3, <1>4, LedgerNumbers
  <1>. QED
    BY <1>2, <1>5, <1>6, LedgerFromNumbers

\* Cancelling: active rows leave reserved, committed rows go back on the shelf.
LEMMA UnwindPreserves ==
  ASSUME LedgerInv, NEW S \in SUBSET (RowsIn("active") \cup RowsIn("committed")), Unwind(S)
  PROVE  LedgerInv'
  <1>. DEFINE A == S \cap RowsIn("active")
              C == S \cap RowsIn("committed")
  <1>1. /\ RowsIn("active") \ S = RowsIn("active") \ A
        /\ RowsIn("committed") \ S = RowsIn("committed") \ C
    OBVIOUS
  <1>2. /\ resv' \in [Rows -> Row]
        /\ \A p \in Products :
             /\ Amount(RowsIn("active"), p)' = Amount(RowsIn("active") \ S, p)
             /\ Amount(RowsIn("committed"), p)' = Amount(RowsIn("committed") \ S, p)
    <2>1. LedgerTypeOK /\ SetStatus(S, "released") /\ "released" \in RowStatus /\ S \in SUBSET Rows
      BY DEF LedgerInv, Unwind, RowStatus, RowsIn
    <2>2. /\ resv' \in [Rows -> Row]
          /\ \A p \in Products :
               /\ \A x \in RowStatus \ {"released"} :
                    Amount(RowsIn(x), p)' = Amount(RowsIn(x) \ S, p)
               /\ Amount(RowsIn("released"), p)' = Amount(RowsIn("released") \cup S, p)
      BY <2>1, SetStatusMoves
    <2>. QED
      BY <2>2 DEF RowStatus
  <1>3. ASSUME NEW p \in Products
        PROVE  /\ Amount(A, p) \in Nat /\ Amount(A, p) <= Amount(RowsIn("active"), p)
               /\ Amount(C, p) \in Nat /\ Amount(C, p) <= Amount(RowsIn("committed"), p)
               /\ Amount(RowsIn("active"), p)' = Amount(RowsIn("active"), p) - Amount(A, p)
               /\ Amount(RowsIn("committed"), p)' = Amount(RowsIn("committed"), p) - Amount(C, p)
    <2>1. A \in SUBSET RowsIn("active") /\ C \in SUBSET RowsIn("committed")
      OBVIOUS
    <2>. HIDE DEF A, C
    <2>. QED
      BY <1>1, <1>2, <1>3, <2>1, AmountSplit, AmountType
  <1>4. ASSUME NEW p \in Products
        PROVE  /\ stock'[p] = stock[p] + Amount(C, p) /\ supplied'[p] = supplied[p]
               /\ reserved'[p] = reserved[p] - Amount(A, p)
    BY DEF Unwind
  <1>5. /\ stock' = [p \in Products |-> stock'[p]]
        /\ reserved' = [p \in Products |-> reserved'[p]]
        /\ supplied' = [p \in Products |-> supplied'[p]]
    BY DEF Unwind, LedgerInv, LedgerTypeOK
  <1>6. ASSUME NEW p \in Products
        PROVE  /\ stock'[p] \in Nat /\ reserved'[p] \in Nat /\ supplied'[p] \in Nat
               /\ reserved'[p] = Amount(RowsIn("active"), p)'
               /\ reserved'[p] <= stock'[p]
               /\ stock'[p] + Amount(RowsIn("committed"), p)' = supplied'[p]
    <2>. HIDE DEF A, C
    <2>. QED
      BY <1>3, <1>4, <1>6, LedgerNumbers
  <1>. QED
    BY <1>2, <1>5, <1>6, LedgerFromNumbers

\* The admin PATCH sets an absolute quantity, but never below what is held.
LEMMA PatchPreserves ==
  ASSUME LedgerInv, NEW q \in Products, NEW n \in 0..MaxStock, PatchStock(q, n)
  PROVE  LedgerInv'
  <1>1. /\ resv' = resv /\ resv' \in [Rows -> Row]
        /\ \A p \in Products :
             /\ Amount(RowsIn("active"), p)' = Amount(RowsIn("active"), p)
             /\ Amount(RowsIn("committed"), p)' = Amount(RowsIn("committed"), p)
    BY DEF PatchStock, LedgerInv, LedgerTypeOK, Amount, UnitsOf, RowsIn
  <1>2. ASSUME NEW p \in Products
        PROVE  /\ stock'[p] = IF p = q THEN n ELSE stock[p]
               /\ supplied'[p] = IF p = q THEN supplied[p] + n - stock[p] ELSE supplied[p]
               /\ reserved'[p] = reserved[p]
               /\ p = q => n >= reserved[p]
    BY DEF PatchStock, LedgerInv, LedgerTypeOK
  <1>3. /\ stock' = [p \in Products |-> stock'[p]]
        /\ reserved' = [p \in Products |-> reserved'[p]]
        /\ supplied' = [p \in Products |-> supplied'[p]]
    BY DEF PatchStock, LedgerInv, LedgerTypeOK
  <1>4. n \in Nat
    BY InventoryAssumption
  <1>5. ASSUME NEW p \in Products
        PROVE  /\ stock'[p] \in Nat /\ reserved'[p] \in Nat /\ supplied'[p] \in Nat
               /\ reserved'[p] = Amount(RowsIn("active"), p)'
               /\ reserved'[p] <= stock'[p]
               /\ stock'[p] + Amount(RowsIn("committed"), p)' = supplied'[p]
    BY <1>1, <1>2, <1>4, <1>5, LedgerNumbers
  <1>. QED
    BY <1>1, <1>3, <1>5, LedgerFromNumbers

\* Every transaction of the ledger, and every step that leaves it alone.
LEMMA LedgerStep == LedgerInv /\ [LedgerNext]_ledger => LedgerInv'
  <1>. SUFFICES ASSUME LedgerInv, [LedgerNext]_ledger PROVE LedgerInv'
    OBVIOUS
  <1>1. ASSUME NEW c \in Checkouts, NEW lines \in Lines, NEW st \in RowStatus \ {"none"},
               New(c), Insert(c, lines, st)
        PROVE  LedgerInv'
    BY <1>1, InsertPreserves
  <1>2. ASSUME NEW S \in SUBSET RowsIn("active"), Release(S) PROVE LedgerInv'
    BY <1>2, ReleasePreserves
  <1>3. ASSUME NEW S \in SUBSET RowsIn("active"), Commit(S) PROVE LedgerInv'
    BY <1>3, CommitPreserves
  <1>4. ASSUME NEW S \in SUBSET (RowsIn("active") \cup RowsIn("committed")), Unwind(S)
        PROVE  LedgerInv'
    BY <1>4, UnwindPreserves
  <1>5. ASSUME NEW p \in Products, NEW n \in 0..MaxStock, PatchStock(p, n) PROVE LedgerInv'
    BY <1>5, PatchPreserves
  <1>6. CASE UNCHANGED ledger
    BY <1>6 DEF ledger, LedgerInv, LedgerTypeOK, ReservedIsHeld, StockCoversReserved, StockConserved,
                Amount, UnitsOf, RowsIn
  <1>. QED
    BY <1>1, <1>2, <1>3, <1>4, <1>5, <1>6 DEF LedgerNext

\* In every behaviour of the ledger: reserved_quantity is the sum of the active rows,
\* the CHECK stock_gte_reserved holds, and no unit is lost or sold twice.
THEOREM LedgerSafe == LedgerSpec => [](LedgerTypeOK /\ ReservedIsHeld /\ StockCoversReserved /\ StockConserved)
  <1>1. LedgerSpec => []LedgerInv
    BY LedgerInitOK, LedgerStep, PTL DEF LedgerSpec
  <1>. QED
    BY <1>1, PTL DEF LedgerInv
==============================================================================
