------------------------- MODULE CouponTerms_proofs -------------------------
(***************************************************************************)
(* Proofs about CouponTerms, for any carts, coupons, rows and bodies and   *)
(* any bounds: the terms an order is sold on held for it, a coupon is on   *)
(* no more orders than its limit, and a preview, a cart's totals and an    *)
(* order make the same price of the same terms.                            *)
(*                                                                         *)
(* Checking tests a coupon's prefetched row before the order exists and    *)
(* locks the row only later, so what was tested is kept in `seen`, not in  *)
(* `coupon`; the limit alone is tested on the locked row, which nobody     *)
(* else can change until the commit.  Prices rest on facts about cents and *)
(* sums alone, and on rows keeping the rules their serializers check.      *)
(***************************************************************************)
EXTENDS CouponTerms, FiniteSetTheorems, TLAPS

Stages == {"active", "locked", "counting", "paying", "ordered", "stranded"}

Typed ==
  /\ now \in Nat
  /\ coupon \in [Coupons -> Row \cup {None}]
  /\ subtotal \in [Carts -> Subtotals]
  /\ applied \in [Carts -> SUBSET Coupons]
  /\ pc \in [Carts -> Stages]
  /\ seen = [k \in Carts |-> seen[k]]
  /\ checked \in [Carts -> 0..now]
  /\ placed = [k \in Carts |-> placed[k]]
  /\ taken \in [Carts -> SUBSET Coupons]
  /\ lock \in [Coupons -> Carts \cup {"admin", None}]
  /\ patch # None =>
       /\ patch.code \in Coupons /\ patch.body \in Bodies
       /\ lock[patch.code] = "admin"
       /\ patch.row = coupon[patch.code] /\ patch.row \in Row

\* Its order is committed.
Closed == {"ordered", "stranded"}

\* What a checkout knows of the coupons it prefetched; a cart's coupons have rows.
Prefetched(k) ==
  /\ \A q \in applied[k] : coupon[q] # None
  /\ \A q \in DOMAIN seen[k] : q \in Coupons /\ coupon[q] # None /\ seen[k][q] \in Row
  /\ pc[k] \in {"counting", "paying"} =>
       \A q \in DOMAIN seen[k] : Valid(seen[k][q], k, subtotal[k], checked[k])

\* What it knows of those it has locked.
Counting(k) ==
  /\ \A q \in taken[k] :
       /\ lock[q] = k /\ coupon[q] # None
       /\ coupon[q].max # None => coupon[q].uses < coupon[q].max
  /\ pc[k] \notin {"counting", "paying"} => taken[k] = {}

Sale(k) ==
  /\ placed[k] # None \/ pc[k] \in {"paying", "ordered", "stranded"} =>
       \A q \in DOMAIN placed[k].terms :
         /\ q \in Coupons /\ coupon[q] # None
         /\ Valid(placed[k].terms[q], k, placed[k].subtotal, placed[k].checked)
  /\ pc[k] = "paying" => DOMAIN placed[k].terms = taken[k]

Ordered == {k \in Carts : pc[k] \in Closed}
SoldWith(q) == {k \in Carts : pc[k] \in Closed /\ q \in DOMAIN placed[k].terms}

\* A count that only checkouts have written covers the orders, and its limit.
Limited(q) ==
  coupon[q] # None =>
    /\ Cardinality(SoldWith(q)) <= coupon[q].uses
    /\ coupon[q].max # None => coupon[q].uses <= coupon[q].max

TermsInv ==
  /\ Typed
  /\ \A k \in Carts : Prefetched(k) /\ Counting(k) /\ Sale(k)
  /\ IsFiniteSet(Ordered)
  /\ \A q \in Coupons \ byHand : Limited(q)

-----------------------------------------------------------------------------
(* Rows. *)

\* A PATCH makes a row of a row.
LEMMA MergedIsRow ==
  ASSUME NEW row \in Row, NEW b \in Bodies
  PROVE  /\ Merged(row, b) \in Row
         /\ "uses" \notin DOMAIN b => Merged(row, b).uses = row.uses
  BY CouponAssumption DEF Body, Row, Merged, Fields

\* What a commit counts: one use of each coupon the checkout has locked.
LEMMA CountedRows ==
  ASSUME Typed, NEW k \in Carts, Counting(k)
  PROVE  /\ Counted(k) \in [Coupons -> Row \cup {None}]
         /\ \A q \in Coupons :
              /\ q \notin taken[k] => Counted(k)[q] = coupon[q]
              /\ q \in taken[k] =>
                   /\ Counted(k)[q] # None /\ coupon[q] \in Row
                   /\ Counted(k)[q].uses = coupon[q].uses + 1
                   /\ Counted(k)[q].max = coupon[q].max
  <1>1. ASSUME NEW q \in taken[k]
        PROVE  /\ q \in Coupons /\ coupon[q] \in Row
               /\ [coupon[q] EXCEPT !.uses = @ + 1] \in Row
               /\ [coupon[q] EXCEPT !.uses = @ + 1].uses = coupon[q].uses + 1
               /\ [coupon[q] EXCEPT !.uses = @ + 1].max = coupon[q].max
    <2>1. q \in Coupons /\ coupon[q] \in Row
      BY DEF Typed, Counting
    <2>. QED
      BY <2>1 DEF Row
  <1>2. ASSUME NEW q \in Coupons
        PROVE  /\ Counted(k)[q] = IF q \in taken[k] THEN [coupon[q] EXCEPT !.uses = @ + 1]
                                  ELSE coupon[q]
               /\ Counted(k)[q] \in Row \cup {None}
    <2>1. Counted(k)[q] = IF q \in taken[k] THEN [coupon[q] EXCEPT !.uses = @ + 1]
                          ELSE coupon[q]
      BY DEF Counted
    <2>. QED
      BY <1>1, <2>1 DEF Typed
  <1>3. Counted(k) \in [Coupons -> Row \cup {None}]
    BY <1>2 DEF Counted
  <1>4. ASSUME NEW q \in taken[k]
        PROVE  /\ Counted(k)[q] \in Row
               /\ Counted(k)[q].uses = coupon[q].uses + 1
               /\ Counted(k)[q].max = coupon[q].max
    <2>1. Counted(k)[q] = [coupon[q] EXCEPT !.uses = @ + 1]
      BY <1>1, <1>2
    <2>. QED
      BY <1>1, <2>1
  <1>5. \A q \in Coupons : q \notin taken[k] => Counted(k)[q] = coupon[q]
    BY <1>2
  <1>. QED
    BY <1>1, <1>3, <1>4, <1>5, CouponAssumption

\* Nothing is sold by a step that commits no order.
LEMMA SameSales ==
  ASSUME \A k \in Carts : /\ pc'[k] \in Closed <=> pc[k] \in Closed
                          /\ pc[k] \in Closed => placed'[k] = placed[k]
  PROVE  Ordered' = Ordered /\ \A q : SoldWith(q)' = SoldWith(q)
  BY DEF Ordered, SoldWith

\* The orders of a coupon are finitely many, since all the orders are.
LEMMA FiniteSales ==
  ASSUME IsFiniteSet(Ordered), NEW q
  PROVE  IsFiniteSet(SoldWith(q)) /\ Cardinality(SoldWith(q)) \in Nat
  BY FS_Subset, FS_CardinalityType DEF Ordered, SoldWith

\* A coupon without a row is on no order.
LEMMA NoRowNoSale ==
  ASSUME TermsInv, NEW q \in Coupons, coupon[q] = None
  PROVE  SoldWith(q) = {}
  BY DEF TermsInv, Sale, SoldWith, Closed

\* Initially there is no row, no checkout and no order.
LEMMA TermsInit == Init => TermsInv
  <1>. SUFFICES ASSUME Init PROVE TermsInv
    OBVIOUS
  <1>0. DOMAIN << >> = {}
    OBVIOUS
  <1>1. Typed
    BY DEF Init, Typed, Stages
  <1>2. \A k \in Carts : Prefetched(k) /\ Counting(k) /\ Sale(k)
    BY <1>0 DEF Init, Prefetched, Counting, Sale
  <1>3. Ordered = {}
    BY DEF Init, Ordered, Closed
  <1>4. IsFiniteSet(Ordered)
    BY <1>3, FS_EmptySet
  <1>5. \A q \in Coupons : Limited(q)
    BY DEF Init, Limited
  <1>. QED
    BY <1>1, <1>2, <1>4, <1>5 DEF TermsInv

-----------------------------------------------------------------------------
(* What a step leaves alone. *)

\* A step that is not w's: it may add rows and change those w has not locked.
Apart(w) ==
  /\ now' \in Nat /\ now' >= now
  /\ pc'[w] = pc[w] /\ seen'[w] = seen[w] /\ taken'[w] = taken[w] /\ placed'[w] = placed[w]
  /\ applied'[w] = applied[w] /\ checked'[w] = checked[w]
  /\ pc[w] \in {"counting", "paying"} => subtotal'[w] = subtotal[w]
  /\ \A q \in taken[w] : lock'[q] = lock[q] /\ coupon'[q] = coupon[q]
  /\ \A q \in Coupons : coupon[q] # None => coupon'[q] # None

\* A checkout keeps what it knows while others move.
LEMMA ApartKeeps ==
  ASSUME TermsInv, NEW w \in Carts, Apart(w)
  PROVE  Prefetched(w)' /\ Counting(w)' /\ Sale(w)'
  <1>1. Typed /\ Prefetched(w) /\ Counting(w) /\ Sale(w)
    BY DEF TermsInv
  <1>2. \A q \in DOMAIN seen'[w] : q \in Coupons /\ coupon'[q] # None /\ seen'[w][q] \in Row
    BY <1>1 DEF Prefetched, Apart
  <1>3. ASSUME pc'[w] \in {"counting", "paying"}, NEW q \in DOMAIN seen'[w]
        PROVE  Valid(seen'[w][q], w, subtotal'[w], checked'[w])
    BY <1>1, <1>3 DEF Prefetched, Apart
  <1>4. Prefetched(w)'
    <2>1. \A q \in applied'[w] : coupon'[q] # None
      BY <1>1 DEF Prefetched, Apart, Typed
    <2>. QED
      BY <1>2, <1>3, <2>1 DEF Prefetched, Valid
  <1>5. Counting(w)'
    <2>1. \A q \in taken[w] : q \in Coupons
      BY <1>1 DEF Typed
    <2>. QED
      BY <1>1, <2>1 DEF Counting, Apart
  <1>6. Sale(w)'
    BY <1>1 DEF Sale, Apart, Valid
  <1>. QED
    BY <1>4, <1>5, <1>6

\* Limits are kept where the row and the orders are.
LEMMA LimitsKept ==
  ASSUME TermsInv, Ordered' = Ordered, NEW q \in Coupons \ byHand,
         SoldWith(q)' = SoldWith(q), coupon'[q] = coupon[q]
  PROVE  Limited(q)'
  BY DEF TermsInv, Limited

\* A step that touches no row and commits no order.
LEMMA NoRowTouched ==
  ASSUME TermsInv, Typed', \A w \in Carts : Prefetched(w)' /\ Counting(w)' /\ Sale(w)',
         coupon' = coupon, byHand' = byHand,
         \A w \in Carts : /\ pc'[w] \in Closed <=> pc[w] \in Closed
                          /\ pc[w] \in Closed => placed'[w] = placed[w]
  PROVE  TermsInv'
  <1>1. Ordered' = Ordered /\ \A q : SoldWith(q)' = SoldWith(q)
    BY SameSales
  <1>2. IsFiniteSet(Ordered')
    BY <1>1 DEF TermsInv
  <1>3. \A q \in Coupons \ byHand' : Limited(q)'
    BY <1>1, LimitsKept
  <1>. QED
    BY <1>2, <1>3 DEF TermsInv

\* An admin's statement: one row is written, one that no checkout has locked.
Writes(q, row) ==
  /\ coupon' = [coupon EXCEPT ![q] = row]
  /\ \A p \in Coupons \ {q} : lock'[p] = lock[p]
  /\ UNCHANGED <<now, subtotal, applied, pc, seen, checked, taken, placed>>

LEMMA RowWritten ==
  ASSUME TermsInv, NEW q \in Coupons, NEW row \in Row, Writes(q, row), \A w \in Carts : q \notin taken[w],
         Typed', byHand \subseteq byHand', q \notin byHand' => Limited(q)'
  PROVE  TermsInv'
  <1>1. Typed
    BY DEF TermsInv
  <1>2. ASSUME NEW w \in Carts PROVE Apart(w)
    <2>1. q \notin taken[w]
      OBVIOUS
    <2>2. \A p \in Coupons \ {q} : coupon'[p] = coupon[p]
      BY <1>1 DEF Writes, Typed
    <2>3. coupon'[q] # None
      BY <1>1, CouponAssumption DEF Writes, Typed
    <2>4. \A p \in taken[w] : lock'[p] = lock[p] /\ coupon'[p] = coupon[p]
      BY <1>1, <2>1, <2>2 DEF Typed, Writes
    <2>. QED
      BY <1>1, <2>2, <2>3, <2>4 DEF Apart, Writes, Typed
  <1>3. \A w \in Carts : Prefetched(w)' /\ Counting(w)' /\ Sale(w)'
    BY <1>2, ApartKeeps
  <1>4. Ordered' = Ordered /\ \A p : SoldWith(p)' = SoldWith(p)
    BY SameSales DEF Writes
  <1>5. IsFiniteSet(Ordered')
    BY <1>4 DEF TermsInv
  <1>6. ASSUME NEW p \in Coupons \ byHand' PROVE Limited(p)'
    <2>1. CASE p = q
      BY <1>6, <2>1
    <2>2. CASE p # q
      <3>1. coupon'[p] = coupon[p] /\ p \in Coupons \ byHand
        BY <1>1, <1>6, <2>2 DEF Writes, Typed
      <3>. QED
        BY <1>4, <3>1, LimitsKept
    <2>. QED
      BY <2>1, <2>2
  <1>. QED
    BY <1>3, <1>5, <1>6 DEF TermsInv

-----------------------------------------------------------------------------
(* The admin's steps. *)

\* A new row is on no cart and in no order.
LEMMA CreateKeeps ==
  ASSUME TermsInv, NEW q \in Coupons, CreateCoupon(q)
  PROVE  TermsInv'
  <1>1. Typed /\ coupon[q] = None
    BY DEF TermsInv, CreateCoupon
  <1>2. PICK row \in NewRows[q] :
          /\ coupon' = [coupon EXCEPT ![q] = row]
          /\ byHand' = IF row.uses > 0 THEN byHand \cup {q} ELSE byHand
    BY DEF CreateCoupon
  <1>3. row \in Row
    BY <1>2, CouponAssumption
  <1>4. row.uses \in Nat /\ row.max \in Nat \cup {None}
    BY <1>3 DEF Row, Optional
  <1>5. Writes(q, row) /\ coupon'[q] = row
    BY <1>1, <1>2 DEF CreateCoupon, Writes, Typed
  <1>6. \A w \in Carts : q \notin taken[w]
    BY <1>1 DEF TermsInv, Counting
  <1>7. Typed'
    BY <1>1, <1>2, <1>3, CouponAssumption DEF CreateCoupon, Typed
  <1>8. q \notin byHand' => Limited(q)'
    <2>1. SoldWith(q) = {}
      BY <1>1, NoRowNoSale
    <2>2. SoldWith(q)' = SoldWith(q)
      BY SameSales DEF CreateCoupon
    <2>3. Cardinality(SoldWith(q)') = 0
      BY <2>1, <2>2, FS_EmptySet
    <2>. QED
      BY <1>2, <1>4, <1>5, <2>3 DEF Limited
  <1>9. byHand \subseteq byHand'
    BY <1>2
  <1>. QED
    BY <1>3, <1>5, <1>6, <1>7, <1>8, <1>9, RowWritten

\* DELETE waits for the row's lock and changes one of its columns.
LEMMA DeleteKeeps ==
  ASSUME TermsInv, NEW q \in Coupons, DeleteCoupon(q)
  PROVE  TermsInv'
  <1> DEFINE row == [coupon[q] EXCEPT !.active = FALSE]
  <1>1. Typed /\ coupon[q] \in Row /\ lock[q] = None
    BY DEF TermsInv, DeleteCoupon, Typed
  <1>2. row \in Row /\ row.uses = coupon[q].uses /\ row.max = coupon[q].max
    BY <1>1 DEF Row
  <1>3. Writes(q, row) /\ coupon'[q] = row
    BY <1>1 DEF DeleteCoupon, Writes, Typed
  <1>4. \A w \in Carts : q \notin taken[w]
    BY <1>1, CouponAssumption DEF TermsInv, Counting
  <1> HIDE DEF row
  <1>5. Typed'
    <2>1. patch # None => patch.code # q
      BY <1>1, CouponAssumption DEF Typed
    <2>2. coupon' \in [Coupons -> Row \cup {None}]
      BY <1>1, <1>2, <1>3 DEF Writes, Typed
    <2>3. \A p \in Coupons \ {q} : coupon'[p] = coupon[p]
      BY <1>1, <1>3 DEF Writes, Typed
    <2>. QED
      BY <1>1, <2>1, <2>2, <2>3 DEF DeleteCoupon, Typed
  <1>6. q \notin byHand' => Limited(q)'
    <2>1. SoldWith(q)' = SoldWith(q)
      BY SameSales DEF DeleteCoupon
    <2>2. q \notin byHand => Limited(q)
      BY DEF TermsInv
    <2>. QED
      BY <1>1, <1>2, <1>3, <2>1, <2>2, CouponAssumption DEF Limited, DeleteCoupon
  <1>7. byHand \subseteq byHand'
    BY DEF DeleteCoupon
  <1>. QED
    BY <1>2, <1>3, <1>4, <1>5, <1>6, <1>7, RowWritten

\* The PATCH locks a row that no checkout has locked.
LEMMA ReadForPatchKeeps ==
  ASSUME TermsInv, NEW q \in Coupons, NEW b \in Bodies, ReadForPatch(q, b)
  PROVE  TermsInv'
  <1>1. /\ Typed /\ coupon[q] \in Row /\ lock[q] = None
        /\ lock' = [lock EXCEPT ![q] = "admin"]
        /\ patch' = [code |-> q, body |-> b, row |-> coupon[q]]
        /\ UNCHANGED <<coupon, now, subtotal, applied, pc, seen, checked, taken, placed, byHand>>
    BY DEF TermsInv, ReadForPatch, Typed
  <1>2. Typed'
    BY <1>1 DEF Typed
  <1>3. ASSUME NEW w \in Carts PROVE Apart(w)
    <2>1. q \notin taken[w]
      BY <1>1, CouponAssumption DEF TermsInv, Counting
    <2>. QED
      BY <1>1, <2>1 DEF Apart, Typed
  <1>4. \A w \in Carts : Prefetched(w)' /\ Counting(w)' /\ Sale(w)'
    BY <1>3, ApartKeeps
  <1>. QED
    BY <1>1, <1>2, <1>4, NoRowTouched

\* It saves onto the row it has read, which its lock has kept, and a limit no
\* smaller than the count.
LEMMA SavePatchKeeps ==
  ASSUME TermsInv, SavePatch
  PROVE  TermsInv'
  <1>0. PICK q, row : q = patch.code /\ row = Merged(patch.row, patch.body)
    OBVIOUS
  <1>1. /\ Typed /\ patch # None /\ patch' = None
        /\ lock' = [lock EXCEPT ![q] = None]
        /\ UNCHANGED <<now, subtotal, applied, pc, seen, checked, taken, placed>>
    BY <1>0 DEF TermsInv, SavePatch
  <1>2. /\ q \in Coupons /\ patch.body \in Bodies /\ lock[q] = "admin"
        /\ patch.row = coupon[q] /\ coupon[q] \in Row /\ coupon[q] # None
    BY <1>0, <1>1, CouponAssumption DEF Typed
  <1>3. \A w \in Carts : q \notin taken[w]
    BY <1>2, CouponAssumption DEF TermsInv, Counting
  <1>4. \A p \in Coupons \ {q} : lock'[p] = lock[p]
    BY <1>1, <1>2 DEF Typed
  <1>5. CASE Allowed(q, patch.row, patch.body)
    <2>1. /\ coupon' = [coupon EXCEPT ![q] = row]
          /\ byHand' = IF "uses" \in DOMAIN patch.body THEN byHand \cup {q} ELSE byHand
      BY <1>0, <1>5 DEF SavePatch
    <2>2. row \in Row /\ ("uses" \notin DOMAIN patch.body => row.uses = coupon[q].uses)
      BY <1>0, <1>2, MergedIsRow
    <2>3. row.max # None => row.max >= coupon[q].uses
      BY <1>0, <1>2, <1>5 DEF Allowed
    <2>4. coupon'[q] = row /\ coupon' \in [Coupons -> Row \cup {None}]
      BY <1>1, <1>2, <2>1, <2>2 DEF Typed
    <2>5. Writes(q, row)
      BY <1>1, <1>4, <2>1 DEF Writes
    <2>6. Typed'
      BY <1>1, <1>2, <2>4 DEF Typed
    <2>7. q \notin byHand' => Limited(q)'
      <3>1. SoldWith(q)' = SoldWith(q)
        BY <1>1, SameSales
      <3>2. ASSUME q \notin byHand' PROVE Limited(q) /\ row.uses = coupon[q].uses
        BY <1>2, <2>1, <2>2, <3>2 DEF TermsInv
      <3>3. row.uses \in Nat /\ (row.max # None => row.max \in Nat)
        BY <2>2 DEF Row, Optional
      <3>. QED
        BY <1>2, <2>3, <2>4, <3>1, <3>2, <3>3 DEF Limited
    <2>8. byHand \subseteq byHand'
      BY <2>1
    <2>. QED
      BY <1>2, <1>3, <2>2, <2>5, <2>6, <2>7, <2>8, RowWritten
  <1>6. CASE ~Allowed(q, patch.row, patch.body)
    <2>1. UNCHANGED <<coupon, byHand>>
      BY <1>0, <1>6 DEF SavePatch
    <2>2. Typed'
      BY <1>1, <1>2, <2>1 DEF Typed
    <2>3. ASSUME NEW w \in Carts PROVE Apart(w)
      BY <1>1, <1>3, <1>4, <2>1 DEF Apart, Typed
    <2>4. \A w \in Carts : Prefetched(w)' /\ Counting(w)' /\ Sale(w)'
      BY <2>3, ApartKeeps
    <2>. QED
      BY <1>1, <2>1, <2>2, <2>4, NoRowTouched
  <1>. QED
    BY <1>5, <1>6

-----------------------------------------------------------------------------
(* The carts' steps. *)

\* A step of cart k's that writes no coupon and sells nothing.
Checks(k) ==
  /\ pc' \in [Carts -> Stages] /\ seen' = [w \in Carts |-> seen'[w]]
  /\ placed' = [w \in Carts |-> placed'[w]] /\ subtotal' \in [Carts -> Subtotals]
  /\ applied' \in [Carts -> SUBSET Coupons] /\ taken' \in [Carts -> SUBSET Coupons]
  /\ checked' \in [Carts -> 0..now]
  /\ lock' \in [Coupons -> Carts \cup {"admin", None}]
  /\ pc[k] \notin Closed /\ pc'[k] \notin Closed
  /\ \A w \in Carts \ {k} :
       /\ pc'[w] = pc[w] /\ seen'[w] = seen[w] /\ taken'[w] = taken[w]
       /\ placed'[w] = placed[w] /\ subtotal'[w] = subtotal[w] /\ applied'[w] = applied[w]
       /\ checked'[w] = checked[w]
  /\ \A q \in Coupons : lock[q] \notin {k, None} => lock'[q] = lock[q]
  /\ UNCHANGED <<coupon, now, patch, byHand>>

\* Such a step is the cart's own affair.
LEMMA CheckKeeps ==
  ASSUME TermsInv, NEW k \in Carts, Checks(k), Prefetched(k)', Counting(k)', Sale(k)'
  PROVE  TermsInv'
  <1>1. Typed
    BY DEF TermsInv
  <1>2. Typed'
    <2>1. patch # None => lock'[patch.code] = "admin"
      BY <1>1, CouponAssumption DEF Typed, Checks
    <2>. QED
      BY <1>1, <2>1 DEF Typed, Checks
  <1>3. ASSUME NEW w \in Carts \ {k} PROVE Apart(w)
    <2>1. \A q \in taken[w] : q \in Coupons /\ lock[q] = w
      BY <1>1 DEF TermsInv, Counting, Typed
    <2>2. \A q \in taken[w] : lock'[q] = lock[q]
      BY <2>1, CouponAssumption DEF Checks
    <2>. QED
      BY <1>1, <2>2 DEF Apart, Checks, Typed
  <1>4. \A w \in Carts : Prefetched(w)' /\ Counting(w)' /\ Sale(w)'
    BY <1>3, ApartKeeps
  <1>5. \A w \in Carts : /\ pc'[w] \in Closed <=> pc[w] \in Closed
                         /\ pc[w] \in Closed => placed'[w] = placed[w]
    BY DEF Checks
  <1>. QED
    BY <1>2, <1>4, <1>5, NoRowTouched DEF Checks

\* A failed checkout knows nothing any more.
LEMMA GivenBack ==
  ASSUME Typed, NEW k \in Carts, GiveBack(k), coupon' = coupon, applied' = applied,
         placed'[k] \in {None, placed[k]}, Prefetched(k), Sale(k)
  PROVE  Prefetched(k)' /\ Counting(k)' /\ Sale(k)'
  <1>1. DOMAIN << >> = {}
    OBVIOUS
  <1>2. pc'[k] = "active" /\ seen'[k] = << >> /\ taken'[k] = {}
    BY DEF GiveBack, Ends, Typed
  <1>. QED
    BY <1>1, <1>2 DEF Prefetched, Counting, Sale, Valid

\* A cart that is edited is in no checkout.
LEMMA EditKeeps ==
  ASSUME TermsInv, NEW k \in Carts,
         \/ \E s \in Subtotals : EditLines(k, s)
         \/ \E q \in Coupons : ApplyCoupon(k, q) \/ RemoveCoupon(k, q)
  PROVE  TermsInv'
  <1>1. Typed /\ Prefetched(k) /\ Counting(k) /\ Sale(k)
    BY DEF TermsInv
  <1>2. /\ pc[k] = "active" /\ applied' \in [Carts -> SUBSET Coupons]
        /\ subtotal' \in [Carts -> Subtotals]
        /\ UNCHANGED <<coupon, now, pc, seen, checked, taken, placed, lock, patch, byHand>>
    BY <1>1 DEF EditLines, ApplyCoupon, RemoveCoupon, Typed
  <1>3. /\ \A w \in Carts \ {k} : subtotal'[w] = subtotal[w] /\ applied'[w] = applied[w]
        /\ \A q \in applied'[k] : coupon[q] # None
    BY <1>1 DEF Prefetched, EditLines, ApplyCoupon, RemoveCoupon, Typed
  <1>4. Checks(k)
    BY <1>1, <1>2, <1>3 DEF Checks, Typed, Closed
  <1>5. Prefetched(k)' /\ Counting(k)' /\ Sale(k)'
    BY <1>1, <1>2, <1>3 DEF Prefetched, Counting, Sale, Valid
  <1>. QED
    BY <1>4, <1>5, CheckKeeps

\* Phase 1 reads rows that are there.
LEMMA LockCartKeeps ==
  ASSUME TermsInv, NEW k \in Carts, LockCart(k)
  PROVE  TermsInv'
  <1>1. Typed /\ Prefetched(k) /\ Counting(k) /\ Sale(k)
    BY DEF TermsInv
  <1>2. /\ pc[k] = "active" /\ pc'[k] = "locked" /\ seen'[k] = [q \in applied[k] |-> coupon[q]]
        /\ \A w \in Carts \ {k} : pc'[w] = pc[w] /\ seen'[w] = seen[w]
        /\ UNCHANGED <<coupon, now, subtotal, applied, checked, taken, placed, lock, patch, byHand>>
    BY <1>1 DEF LockCart, Typed
  <1>3. pc' \in [Carts -> Stages] /\ seen' = [w \in Carts |-> seen'[w]]
    BY <1>1 DEF LockCart, Typed, Stages
  <1>4. Checks(k)
    BY <1>1, <1>2, <1>3 DEF Checks, Typed, Closed
  <1>5. Prefetched(k)'
    <2>1. \A q \in applied[k] : q \in Coupons /\ coupon[q] \in Row
      BY <1>1 DEF Prefetched, Typed
    <2>. QED
      BY <1>1, <1>2, <2>1 DEF Prefetched
  <1>6. Counting(k)' /\ Sale(k)'
    BY <1>1, <1>2 DEF Counting, Sale, Valid
  <1>. QED
    BY <1>4, <1>5, <1>6, CheckKeeps

\* Phase 2 finds every coupon on its terms, or gives up.
LEMMA RevalidateKeeps ==
  ASSUME TermsInv, NEW k \in Carts, Revalidate(k)
  PROVE  TermsInv'
  <1>1. Typed /\ Prefetched(k) /\ Counting(k) /\ Sale(k)
    BY DEF TermsInv
  <1>2. /\ pc[k] = "locked"
        /\ UNCHANGED <<coupon, now, subtotal, applied, placed, patch, byHand>>
    BY DEF Revalidate
  <1>3. CASE GiveBack(k)
    <2>1. checked' \in [Carts -> 0..now]
      BY <1>1, <1>3 DEF GiveBack, Ends, Typed
    <2>2. Checks(k)
      BY <1>1, <1>2, <1>3, <2>1 DEF Checks, GiveBack, Ends, Typed, Stages, Closed
    <2>. QED
      BY <1>1, <1>2, <1>3, <2>2, GivenBack, CheckKeeps
  <1>4. CASE /\ \A q \in DOMAIN seen[k] : Valid(seen[k][q], k, subtotal[k], now)
             /\ pc' = [pc EXCEPT ![k] = "counting"] /\ checked' = [checked EXCEPT ![k] = now]
             /\ UNCHANGED <<seen, taken, lock>>
    <2>1. Checks(k) /\ pc'[k] = "counting"
      BY <1>1, <1>2, <1>4 DEF Checks, Typed, Stages, Closed
    <2>2. Prefetched(k)'
      <3>1. checked'[k] = now
        BY <1>1, <1>4 DEF Typed
      <3>. QED
        BY <1>1, <1>2, <1>4, <3>1 DEF Prefetched
    <2>3. Counting(k)' /\ Sale(k)'
      BY <1>1, <1>2, <1>4, <2>1 DEF Counting, Sale, Valid
    <2>. QED
      BY <2>1, <2>2, <2>3, CheckKeeps
  <1>. QED
    BY <1>3, <1>4 DEF Revalidate

\* Phase 4 finds a use left on the locked row, or gives up.
LEMMA CountUseKeeps ==
  ASSUME TermsInv, NEW k \in Carts, NEW q \in Coupons, CountUse(k, q)
  PROVE  TermsInv'
  <1>1. Typed /\ Prefetched(k) /\ Counting(k) /\ Sale(k)
    BY DEF TermsInv
  <1>2. /\ pc[k] = "counting" /\ q \in DOMAIN seen[k] /\ lock[q] = None
        /\ UNCHANGED <<coupon, now, subtotal, applied, placed, patch, byHand>>
    BY DEF CountUse
  <1>3. CASE GiveBack(k)
    <2>1. checked' \in [Carts -> 0..now]
      BY <1>1, <1>3 DEF GiveBack, Ends, Typed
    <2>2. Checks(k)
      BY <1>1, <1>2, <1>3, <2>1 DEF Checks, GiveBack, Ends, Typed, Stages, Closed
    <2>. QED
      BY <1>1, <1>2, <1>3, <2>2, GivenBack, CheckKeeps
  <1>4. CASE /\ ~(coupon[q].max # None /\ coupon[q].uses >= coupon[q].max)
             /\ lock' = [lock EXCEPT ![q] = k]
             /\ taken' = [taken EXCEPT ![k] = @ \cup {q}]
             /\ UNCHANGED <<pc, seen, checked>>
    <2>1. Checks(k)
      BY <1>1, <1>2, <1>4 DEF Checks, Typed, Closed
    <2>2. Prefetched(k)' /\ Sale(k)'
      BY <1>1, <1>2, <1>4 DEF Prefetched, Sale, Valid
    <2>3. coupon[q] \in Row /\ coupon[q] # None
      BY <1>1, <1>2 DEF Prefetched, Typed
    <2>4. coupon[q].uses \in Nat /\ (coupon[q].max # None => coupon[q].max \in Nat)
      BY <2>3 DEF Row, Optional
    <2>5. Counting(k)'
      BY <1>1, <1>2, <1>4, <2>3, <2>4 DEF Counting, Typed
    <2>. QED
      BY <2>1, <2>2, <2>5, CheckKeeps
  <1>. QED
    BY <1>3, <1>4 DEF CountUse

\* The order's terms are the prefetched ones.
LEMMA InsertOrderKeeps ==
  ASSUME TermsInv, NEW k \in Carts, InsertOrder(k)
  PROVE  TermsInv'
  <1>1. Typed /\ Prefetched(k) /\ Counting(k) /\ Sale(k)
    BY DEF TermsInv
  <1>2. /\ pc[k] = "counting" /\ pc'[k] = "paying" /\ taken[k] = DOMAIN seen[k]
        /\ placed'[k].terms = seen[k] /\ placed'[k].subtotal = subtotal[k] /\ placed'[k].checked = checked[k]
        /\ UNCHANGED <<coupon, now, subtotal, applied, seen, checked, taken, lock, patch, byHand>>
    BY <1>1 DEF InsertOrder, Priced, Typed
  <1>3. Checks(k)
    BY <1>1, <1>2 DEF Checks, InsertOrder, Typed, Stages, Closed
  <1>4. Prefetched(k)' /\ Counting(k)'
    BY <1>1, <1>2 DEF Prefetched, Counting, Valid
  <1>5. Sale(k)'
    <2>1. \A q \in DOMAIN seen[k] :
            q \in Coupons /\ coupon[q] # None /\ Valid(seen[k][q], k, subtotal[k], checked[k])
      BY <1>1, <1>2 DEF Prefetched
    <2>. QED
      BY <1>2, <2>1 DEF Sale, Valid
  <1>. QED
    BY <1>3, <1>4, <1>5, CheckKeeps

-----------------------------------------------------------------------------
(* The end of a checkout. *)

\* The other carts and the PATCH in progress have not locked what k counts.
LEMMA CountedApart ==
  ASSUME TermsInv, NEW k \in Carts, pc[k] = "paying", coupon' \in {Counted(k), coupon},
         lock' = [q \in Coupons |-> IF lock[q] = k THEN None ELSE lock[q]],
         patch' = patch
  PROVE  /\ coupon' \in [Coupons -> Row \cup {None}]
         /\ lock' \in [Coupons -> Carts \cup {"admin", None}]
         /\ \A q \in Coupons : coupon[q] # None => coupon'[q] # None
         /\ \A w \in Carts \ {k} : \A q \in taken[w] : lock'[q] = lock[q] /\ coupon'[q] = coupon[q]
         /\ patch # None => /\ lock'[patch.code] = "admin"
                            /\ coupon'[patch.code] = coupon[patch.code]
  <1>1. Typed /\ Counting(k)
    BY DEF TermsInv
  <1>2. \A q \in Coupons :
          /\ coupon'[q] = coupon[q] \/ (coupon'[q] # None /\ q \in taken[k])
          /\ q \notin taken[k] => coupon'[q] = coupon[q]
    BY <1>1, CountedRows
  <1>3. coupon' \in [Coupons -> Row \cup {None}]
    BY <1>1, CountedRows DEF Typed
  <1>4. lock' \in [Coupons -> Carts \cup {"admin", None}]
    BY <1>1 DEF Typed
  <1>5. ASSUME NEW w \in Carts \ {k}, NEW q \in taken[w]
        PROVE  lock'[q] = lock[q] /\ coupon'[q] = coupon[q]
    <2>1. q \in Coupons /\ lock[q] = w
      BY <1>1 DEF TermsInv, Counting, Typed
    <2>2. q \notin taken[k]
      BY <1>1, <2>1 DEF Counting
    <2>. QED
      BY <1>2, <2>1, <2>2
  <1>6. ASSUME patch # None
        PROVE  lock'[patch.code] = "admin" /\ coupon'[patch.code] = coupon[patch.code]
    <2>1. patch.code \in Coupons /\ lock[patch.code] = "admin"
      BY <1>1, <1>6 DEF Typed
    <2>2. patch.code \notin taken[k]
      BY <1>1, <2>1, CouponAssumption DEF Counting
    <2>. QED
      BY <1>2, <2>1, <2>2, CouponAssumption
  <1>. QED
    BY <1>2, <1>3, <1>4, <1>5, <1>6

\* One more order, and one more use of each of its coupons.
LEMMA CommitKeeps ==
  ASSUME TermsInv, NEW k \in Carts, NEW stage \in Closed, Commit(k, stage)
  PROVE  TermsInv'
  <1>1. Typed /\ Prefetched(k) /\ Counting(k) /\ Sale(k)
    BY DEF TermsInv
  <1>2. /\ pc[k] = "paying" /\ pc'[k] = stage /\ taken'[k] = {} /\ seen'[k] = << >>
        /\ coupon' = Counted(k)
        /\ lock' = [q \in Coupons |-> IF lock[q] = k THEN None ELSE lock[q]]
        /\ UNCHANGED <<now, subtotal, applied, placed, patch, byHand>>
        /\ \A w \in Carts \ {k} : /\ pc'[w] = pc[w] /\ taken'[w] = taken[w] /\ seen'[w] = seen[w]
                                  /\ checked'[w] = checked[w]
    BY <1>1 DEF Commit, Ends, Typed
  <1>3. /\ coupon' \in [Coupons -> Row \cup {None}]
        /\ lock' \in [Coupons -> Carts \cup {"admin", None}]
        /\ \A q \in Coupons : coupon[q] # None => coupon'[q] # None
        /\ \A w \in Carts \ {k} : \A q \in taken[w] : lock'[q] = lock[q] /\ coupon'[q] = coupon[q]
        /\ patch # None => /\ lock'[patch.code] = "admin"
                           /\ coupon'[patch.code] = coupon[patch.code]
    BY <1>2, CountedApart
  <1>4. Typed'
    <2>1. checked' \in [Carts -> 0..now]
      BY <1>1 DEF Commit, Ends, Typed
    <2>2. pc' \in [Carts -> Stages]
      BY <1>1 DEF Commit, Ends, Typed, Stages, Closed
    <2>. QED
      BY <1>1, <1>2, <1>3, <2>1, <2>2, ZenonT(60) DEF Commit, Ends, Typed
  <1>5. ASSUME NEW w \in Carts \ {k} PROVE Apart(w)
    <2>1. now' \in Nat /\ now' >= now
      BY <1>1, <1>2 DEF Typed
    <2>2. /\ pc'[w] = pc[w] /\ seen'[w] = seen[w] /\ taken'[w] = taken[w]
          /\ placed'[w] = placed[w] /\ applied'[w] = applied[w] /\ subtotal'[w] = subtotal[w]
          /\ checked'[w] = checked[w]
      BY <1>2
    <2>. QED
      BY <1>3, <2>1, <2>2 DEF Apart
  <1>6. Prefetched(k)' /\ Counting(k)' /\ Sale(k)'
    <2>1. DOMAIN << >> = {}
      OBVIOUS
    <2>2. \A q \in applied[k] : coupon'[q] # None
      BY <1>1, <1>3 DEF Prefetched, Typed
    <2>. QED
      BY <1>1, <1>2, <1>3, <2>1, <2>2 DEF Prefetched, Counting, Sale, Valid, Closed
  <1>7. \A w \in Carts : Prefetched(w)' /\ Counting(w)' /\ Sale(w)'
    BY <1>5, <1>6, ApartKeeps
  <1>8. k \notin Ordered /\ Ordered' = Ordered \cup {k}
    BY <1>2 DEF Ordered, Closed
  <1>9. IsFiniteSet(Ordered) /\ IsFiniteSet(Ordered')
    BY <1>8, FS_AddElement DEF TermsInv
  <1>10. ASSUME NEW q \in Coupons \ byHand' PROVE Limited(q)'
    <2>1. q \in Coupons \ byHand /\ Limited(q)
      BY <1>2, <1>10 DEF TermsInv
    <2>2. CASE q \in taken[k]
      <3>1. /\ coupon[q] # None /\ coupon[q] \in Row
            /\ coupon[q].max # None => coupon[q].uses < coupon[q].max
            /\ coupon'[q].uses = coupon[q].uses + 1 /\ coupon'[q].max = coupon[q].max
        BY <1>1, <1>2, <2>1, <2>2, CountedRows DEF Counting
      <3>2. coupon[q].uses \in Nat /\ (coupon[q].max # None => coupon[q].max \in Nat)
        BY <3>1 DEF Row, Optional
      <3>3. k \notin SoldWith(q) /\ SoldWith(q)' = SoldWith(q) \cup {k}
        BY <1>1, <1>2, <2>2 DEF SoldWith, Sale, Closed
      <3>4. /\ Cardinality(SoldWith(q)) \in Nat
            /\ Cardinality(SoldWith(q)') = Cardinality(SoldWith(q)) + 1
        BY <1>9, <3>3, FiniteSales, FS_AddElement
      <3>. QED
        BY <2>1, <3>1, <3>2, <3>4 DEF Limited
    <2>3. CASE q \notin taken[k]
      <3>1. coupon'[q] = coupon[q]
        BY <1>1, <1>2, <2>1, <2>3, CountedRows
      <3>2. SoldWith(q)' = SoldWith(q)
        BY <1>1, <1>2, <2>3 DEF SoldWith, Sale
      <3>. QED
        BY <2>1, <3>1, <3>2 DEF Limited
    <2>. QED
      BY <2>2, <2>3
  <1>. QED
    BY <1>4, <1>7, <1>9, <1>10 DEF TermsInv

\* No order; the uses may stay counted.
LEMMA NotPaidKeeps ==
  ASSUME TermsInv, NEW k \in Carts, NotPaid(k)
  PROVE  TermsInv'
  <1>1. Typed /\ Prefetched(k) /\ Counting(k) /\ Sale(k)
    BY DEF TermsInv
  <1>2. /\ pc[k] = "paying" /\ pc'[k] = "active" /\ taken'[k] = {} /\ seen'[k] = << >>
        /\ placed'[k] = None
        /\ coupon' \in {Counted(k), coupon}
        /\ lock' = [q \in Coupons |-> IF lock[q] = k THEN None ELSE lock[q]]
        /\ UNCHANGED <<now, subtotal, applied, patch, byHand>>
        /\ \A w \in Carts \ {k} : /\ pc'[w] = pc[w] /\ taken'[w] = taken[w] /\ seen'[w] = seen[w]
                                  /\ placed'[w] = placed[w] /\ checked'[w] = checked[w]
    BY <1>1 DEF NotPaid, GiveBack, Ends, Typed
  <1>3. /\ coupon' \in [Coupons -> Row \cup {None}]
        /\ lock' \in [Coupons -> Carts \cup {"admin", None}]
        /\ \A q \in Coupons : coupon[q] # None => coupon'[q] # None
        /\ \A w \in Carts \ {k} : \A q \in taken[w] : lock'[q] = lock[q] /\ coupon'[q] = coupon[q]
        /\ patch # None => /\ lock'[patch.code] = "admin"
                           /\ coupon'[patch.code] = coupon[patch.code]
    BY <1>2, CountedApart
  <1>4. Typed'
    <2>1. checked' \in [Carts -> 0..now]
      BY <1>1 DEF NotPaid, GiveBack, Ends, Typed
    <2>2. pc' \in [Carts -> Stages]
      BY <1>1 DEF NotPaid, GiveBack, Ends, Typed, Stages
    <2>. QED
      BY <1>1, <1>2, <1>3, <2>1, <2>2 DEF NotPaid, GiveBack, Ends, Typed
  <1>5. ASSUME NEW w \in Carts \ {k} PROVE Apart(w)
    <2>1. now' \in Nat /\ now' >= now
      BY <1>1, <1>2 DEF Typed
    <2>2. /\ pc'[w] = pc[w] /\ seen'[w] = seen[w] /\ taken'[w] = taken[w]
          /\ placed'[w] = placed[w] /\ applied'[w] = applied[w] /\ subtotal'[w] = subtotal[w]
          /\ checked'[w] = checked[w]
      BY <1>2
    <2>. QED
      BY <1>3, <2>1, <2>2 DEF Apart
  <1>6. Prefetched(k)' /\ Counting(k)' /\ Sale(k)'
    <2>1. DOMAIN << >> = {}
      OBVIOUS
    <2>2. \A q \in applied[k] : coupon'[q] # None
      BY <1>1, <1>3 DEF Prefetched, Typed
    <2>. QED
      BY <1>1, <1>2, <2>1, <2>2 DEF Prefetched, Counting, Sale
  <1>7. \A w \in Carts : Prefetched(w)' /\ Counting(w)' /\ Sale(w)'
    BY <1>5, <1>6, ApartKeeps
  <1>8. Ordered' = Ordered /\ \A q : SoldWith(q)' = SoldWith(q)
    BY <1>2, SameSales DEF Closed
  <1>9. IsFiniteSet(Ordered')
    BY <1>8 DEF TermsInv
  <1>10. ASSUME NEW q \in Coupons \ byHand' PROVE Limited(q)'
    <2>1. q \in Coupons \ byHand /\ Limited(q)
      BY <1>2, <1>10 DEF TermsInv
    <2>2. CASE q \in taken[k] /\ coupon' = Counted(k)
      <3>1. /\ coupon[q] # None /\ coupon[q] \in Row
            /\ coupon[q].max # None => coupon[q].uses < coupon[q].max
            /\ coupon'[q].uses = coupon[q].uses + 1 /\ coupon'[q].max = coupon[q].max
        BY <1>1, <1>2, <2>1, <2>2, CountedRows DEF Counting
      <3>2. coupon[q].uses \in Nat /\ (coupon[q].max # None => coupon[q].max \in Nat)
        BY <3>1 DEF Row, Optional
      <3>3. SoldWith(q)' = SoldWith(q) /\ Cardinality(SoldWith(q)) \in Nat
        BY <1>8, FiniteSales DEF TermsInv
      <3>. QED
        BY <2>1, <3>1, <3>2, <3>3 DEF Limited
    <2>3. CASE q \notin taken[k] \/ coupon' = coupon
      <3>1. coupon'[q] = coupon[q]
        BY <1>1, <1>2, <2>1, <2>3, CountedRows
      <3>. QED
        BY <2>1, <3>1, <1>8 DEF Limited
    <2>. QED
      BY <1>2, <2>2, <2>3
  <1>. QED
    BY <1>4, <1>7, <1>9, <1>10 DEF TermsInv

-----------------------------------------------------------------------------
\* Time passes.
LEMMA TickKeeps == ASSUME TermsInv, Tick PROVE TermsInv'
  <1>1. Typed
    BY DEF TermsInv
  <1>2. /\ now' \in Nat /\ now' >= now
        /\ UNCHANGED <<coupon, subtotal, applied, pc, seen, checked, taken, placed, lock, patch, byHand>>
    BY <1>1, CouponAssumption DEF Tick, Typed
  <1>3. Typed'
    BY <1>1, <1>2 DEF Typed
  <1>4. ASSUME NEW w \in Carts PROVE Apart(w)
    BY <1>2 DEF Apart
  <1>5. \A w \in Carts : Prefetched(w)' /\ Counting(w)' /\ Sale(w)'
    BY <1>4, ApartKeeps
  <1>. QED
    BY <1>2, <1>3, <1>5, NoRowTouched

\* Every step keeps the invariant.
LEMMA TermsStep == TermsInv /\ [Next]_vars => TermsInv'
  <1>. SUFFICES ASSUME TermsInv, [Next]_vars PROVE TermsInv'
    OBVIOUS
  <1>1. CASE UNCHANGED vars
    <2>1. Typed /\ Typed' /\ now' = now /\ now \in Nat
      BY <1>1 DEF vars, TermsInv, Typed
    <2>2. ASSUME NEW w \in Carts PROVE Apart(w)
      BY <1>1, <2>1 DEF vars, Apart
    <2>3. \A w \in Carts : Prefetched(w)' /\ Counting(w)' /\ Sale(w)'
      BY <2>2, ApartKeeps
    <2>. QED
      BY <1>1, <2>1, <2>3, NoRowTouched DEF vars
  <1>2. CASE Tick
    BY <1>2, TickKeeps
  <1>3. CASE SavePatch
    BY <1>3, SavePatchKeeps
  <1>4. CASE \E q \in Coupons : CreateCoupon(q) \/ DeleteCoupon(q)
    BY <1>4, CreateKeeps, DeleteKeeps
  <1>5. CASE \E q \in Coupons, b \in Bodies : ReadForPatch(q, b)
    BY <1>5, ReadForPatchKeeps
  <1>6. ASSUME NEW k \in Carts,
               \/ \E s \in Subtotals : EditLines(k, s)
               \/ \E q \in Coupons : ApplyCoupon(k, q) \/ RemoveCoupon(k, q) \/ CountUse(k, q)
               \/ LockCart(k) \/ Revalidate(k) \/ InsertOrder(k) \/ Converted(k) \/ Stranded(k) \/ NotPaid(k)
        PROVE  TermsInv'
    <2>1. CASE \E s \in Subtotals : EditLines(k, s)
      BY <2>1, EditKeeps
    <2>2. CASE \E q \in Coupons : ApplyCoupon(k, q) \/ RemoveCoupon(k, q)
      BY <2>2, EditKeeps
    <2>3. CASE \E q \in Coupons : CountUse(k, q)
      BY <2>3, CountUseKeeps
    <2>4. CASE LockCart(k)
      BY <2>4, LockCartKeeps
    <2>5. CASE Revalidate(k)
      BY <2>5, RevalidateKeeps
    <2>6. CASE InsertOrder(k)
      BY <2>6, InsertOrderKeeps
    <2>7. CASE Converted(k) \/ Stranded(k)
      BY <2>7, CommitKeeps DEF Converted, Stranded, Closed
    <2>8. CASE NotPaid(k)
      BY <2>8, NotPaidKeeps
    <2>. QED
      BY <1>6, <2>1, <2>2, <2>3, <2>4, <2>5, <2>6, <2>7, <2>8
  <1>. QED
    BY <1>1, <1>2, <1>3, <1>4, <1>5, <1>6 DEF Next

\* The invariant is no more than what the steps keep of it.
LEMMA TermsInvariant == Spec => []TermsInv
  BY TermsInit, TermsStep, PTL DEF Spec

\* A coupon sells on its terms: the row an order was priced by passed every rule of
\* Coupon.validate for its cart, at the subtotal it was sold at, on the day phase 2 ran,
\* whatever admins made of the coupon meanwhile; and a coupon is on no more committed
\* orders than its max_uses (the row lock of phase 4, the PATCH's lower bound).
THEOREM CouponsSellOnTerms == Spec => []SoldOnTerms
  <1>1. TermsInv => SoldOnTerms
    <2>. SUFFICES ASSUME TermsInv PROVE SoldOnTerms
      OBVIOUS
    <2>1. ASSUME NEW k \in Carts, placed[k] # None, NEW q \in DOMAIN placed[k].terms
          PROVE  Valid(placed[k].terms[q], k, placed[k].subtotal, placed[k].checked)
      BY <2>1 DEF TermsInv, Sale
    <2>2. ASSUME NEW q \in Coupons \ byHand, coupon[q] # None, coupon[q].max # None
          PROVE  Cardinality(SoldWith(q)) <= coupon[q].max
      <3>1. Limited(q) /\ coupon[q] \in Row
        BY <2>2 DEF TermsInv, Typed
      <3>2. coupon[q].uses \in Nat /\ coupon[q].max \in Nat
        BY <2>2, <3>1 DEF Row, Optional
      <3>3. Cardinality(SoldWith(q)) \in Nat
        BY FiniteSales DEF TermsInv
      <3>. QED
        BY <2>2, <3>1, <3>2, <3>3 DEF Limited
    <2>. QED
      BY <2>1, <2>2 DEF SoldOnTerms, SoldWith, Closed
  <1>. QED
    BY <1>1, TermsInvariant, PTL

-----------------------------------------------------------------------------
(* Cents. *)

\* The nearest cent, ties to even, to n ten-thousandths of one.
IsNearest(d, n) ==
  /\ 2 * 10000 * d <= 2 * n + 10000 /\ 2 * n <= 2 * 10000 * d + 10000
  /\ \/ 2 * 10000 * d # 2 * n + 10000 /\ 2 * n # 2 * 10000 * d + 10000
     \/ d % 2 = 0

\* quantize() finds a nearest cent, and no more than the whole.
LEMMA CentsAreNearest ==
  ASSUME NEW n \in Nat, NEW s \in Nat, n <= 10000 * s
  PROVE  Cents(n) \in 0..s /\ IsNearest(Cents(n), n)
  <1> DEFINE q == n \div 10000
             r == n % 10000
  <1>1. q \in Nat /\ r \in 0..9999 /\ n = 10000 * q + r
    OBVIOUS
  <1>2. Cents(n) = IF r > 5000 \/ (r = 5000 /\ q % 2 = 1) THEN q + 1 ELSE q
    BY DEF Cents
  <1> HIDE DEF q, r
  <1>3. q % 2 = 0 \/ q % 2 = 1
    BY <1>1
  <1>4. q % 2 = 1 => (q + 1) % 2 = 0
    BY <1>1
  <1>5. CASE r > 5000 \/ (r = 5000 /\ q % 2 = 1)
    <2>1. Cents(n) = q + 1 /\ q + 1 <= s
      BY <1>1, <1>2, <1>5
    <2>2. r > 5000 => 2 * 10000 * (q + 1) # 2 * n + 10000 /\ 2 * n # 2 * 10000 * (q + 1) + 10000
      BY <1>1
    <2>. QED
      BY <1>1, <1>4, <1>5, <2>1, <2>2 DEF IsNearest
  <1>6. CASE ~(r > 5000 \/ (r = 5000 /\ q % 2 = 1))
    <2>1. Cents(n) = q /\ q <= s
      BY <1>1, <1>2, <1>6
    <2>2. r < 5000 => 2 * 10000 * q # 2 * n + 10000 /\ 2 * n # 2 * 10000 * q + 10000
      BY <1>1
    <2>3. r < 5000 \/ q % 2 = 0
      BY <1>1, <1>3, <1>6
    <2>. QED
      BY <1>1, <1>6, <2>1, <2>2, <2>3 DEF IsNearest
  <1>. QED
    BY <1>5, <1>6

\* There is only one nearest cent, since of two at a tie one is odd.
LEMMA NearestIsOne ==
  ASSUME NEW n \in Nat, NEW d \in Nat, NEW e \in Nat, IsNearest(d, n), IsNearest(e, n)
  PROVE  d = e
  <1>1. ASSUME NEW a \in Nat, NEW b \in Nat, IsNearest(a, n), IsNearest(b, n), a < b
        PROVE  FALSE
    <2>1. b = a + 1 /\ 2 * n = 2 * 10000 * a + 10000
      BY <1>1 DEF IsNearest
    <2>2. 2 * 10000 * b = 2 * n + 10000
      BY <2>1
    <2>3. a % 2 = 0 /\ b % 2 = 0
      BY <1>1, <2>1, <2>2 DEF IsNearest
    <2>. QED
      BY <1>1, <2>1, <2>3
  <1>. QED
    BY <1>1

\* compute_discount is the share of a row its serializers accept, by the definition.
LEMMA DiscountIsShare ==
  ASSUME NEW row \in Row, WellFormed(row), NEW s \in Nat
  PROVE  Discount(row, s) = Share(row, s) /\ Discount(row, s) \in 0..s
  <1>1. row.value \in Nat /\ row.type \in Types
    BY DEF Row
  <1>2. CASE row.type = "fixed"
    <2> DEFINE m == Least(row.value, s)
    <2>1. m \in Nat /\ m <= s /\ Least(10000 * row.value, 10000 * s) = 10000 * m
      BY <1>1 DEF Least
    <2>2. Discount(row, s) = Cents(10000 * m)
      BY <1>2, <2>1 DEF Discount
    <2> HIDE DEF m
    <2>3. Cents(10000 * m) \in 0..s /\ IsNearest(Cents(10000 * m), 10000 * m)
      BY <2>1, CentsAreNearest
    <2>4. Cents(10000 * m) = m
      BY <2>1, <2>3 DEF IsNearest
    <2>. QED
      BY <1>2, <2>1, <2>2, <2>4 DEF Share, m
  <1>3. CASE row.type = "percentage"
    <2>1. PICK n : n = s * row.value
      OBVIOUS
    <2>2. n \in Nat /\ n <= 10000 * s
      BY <1>1, <1>3, <2>1 DEF WellFormed
    <2>3. Discount(row, s) = Cents(n)
      BY <1>3, <2>1, <2>2 DEF Discount, Least
    <2>4. Cents(n) \in 0..s /\ IsNearest(Cents(n), n)
      BY <2>2, CentsAreNearest
    <2>5. 2 * s * row.value = 2 * n
      BY <1>1, <2>1
    <2>6. Nearest(row, s) = CHOOSE d \in 0..s : IsNearest(d, n)
      BY <2>5 DEF Nearest, IsNearest
    <2>7. Nearest(row, s) \in 0..s /\ IsNearest(Nearest(row, s), n)
      BY <2>4, <2>6
    <2>8. Nearest(row, s) = Cents(n)
      BY <2>2, <2>4, <2>7, NearestIsOne
    <2>. QED
      BY <1>3, <2>3, <2>4, <2>8 DEF Share
  <1>. QED
    BY <1>1, <1>2, <1>3 DEF Types

-----------------------------------------------------------------------------
(* Sums. *)

\* Finitely many numbers have a sum.
LEMMA SumIsNat ==
  ASSUME NEW D, IsFiniteSet(D), NEW f \in [D -> Nat]
  PROVE  IsFiniteSet(Marks(f)) /\ Sum(f) \in Nat
  <1> DEFINE g == [q \in D |-> {q} \X (1..f[q])]
             T == {{q} \X (1..f[q]) : q \in D}
  <1>1. g \in Surjection(D, T)
    <2>1. g \in [D -> T]
      OBVIOUS
    <2>2. \A t \in T : \E q \in D : g[q] = t
      OBVIOUS
    <2>. QED
      BY <2>1, <2>2, Zenon DEF Surjection
  <1>2. IsFiniteSet(T)
    BY <1>1, FS_Surjection
  <1>3. ASSUME NEW U \in T PROVE IsFiniteSet(U)
    <2>1. PICK q \in D : U = {q} \X (1..f[q])
      OBVIOUS
    <2>2. f[q] \in Int /\ 1 \in Int
      OBVIOUS
    <2>3. IsFiniteSet({q}) /\ IsFiniteSet(1..f[q])
      BY <2>2, FS_Singleton, FS_Interval
    <2>4. IsFiniteSet({q} \X (1..f[q]))
      BY <2>3, FS_Product, Zenon
    <2>. QED
      BY <2>1, <2>4
  <1>4. Marks(f) = UNION T
    BY DEF Marks
  <1>5. IsFiniteSet(Marks(f))
    BY <1>2, <1>3, <1>4, FS_UNION
  <1>. QED
    BY <1>5, FS_CardinalityType DEF Sum

\* One number more adds that number.
LEMMA SumWithOneMore ==
  ASSUME NEW D, IsFiniteSet(D), NEW f \in [D -> Nat], NEW q, q \notin D,
         NEW g \in [D \cup {q} -> Nat], \A p \in D : g[p] = f[p]
  PROVE  Sum(g) = Sum(f) + g[q]
  <1> DEFINE M == {q} \X (1..g[q])
  <1>1. Marks(g) = Marks(f) \cup M
    <2>1. Marks(g) = UNION {{p} \X (1..g[p]) : p \in D \cup {q}}
      BY DEF Marks
    <2>2. Marks(f) = UNION {{p} \X (1..g[p]) : p \in D}
      BY DEF Marks
    <2>. QED
      BY <2>1, <2>2
  <1>2. Marks(f) \cap M = {}
    <2>1. \A x \in Marks(f) : \E p \in D : x \in {p} \X (1..f[p])
      BY DEF Marks
    <2>2. \A x \in M : x[1] = q
      OBVIOUS
    <2>3. \A x \in Marks(f) : x[1] \in D
      BY <2>1
    <2>. QED
      BY <2>2, <2>3
  <1>3. IsFiniteSet(M) /\ Cardinality(M) = g[q]
    <2>1. g[q] \in Nat
      OBVIOUS
    <2>2. IsFiniteSet({q}) /\ Cardinality({q}) = 1
      BY FS_Singleton
    <2>3. IsFiniteSet(1..g[q]) /\ Cardinality(1..g[q]) = g[q]
      BY <2>1, FS_Interval
    <2>4. PICK A, B : A = {q} /\ B = 1..g[q]
      OBVIOUS
    <2>5. IsFiniteSet(A \X B) /\ Cardinality(A \X B) = Cardinality(A) * Cardinality(B)
      BY <2>2, <2>3, <2>4, FS_Product
    <2>6. M = A \X B
      BY <2>4
    <2>. QED
      BY <2>1, <2>2, <2>3, <2>4, <2>5, <2>6
  <1>4. IsFiniteSet(Marks(f)) /\ Sum(f) \in Nat
    BY SumIsNat
  <1>5. Cardinality(Marks(f) \cap M) = 0
    BY <1>2, FS_EmptySet
  <1> HIDE DEF M
  <1>6. Cardinality(Marks(f) \cup M) = Cardinality(Marks(f)) + Cardinality(M) - 0
    BY <1>3, <1>4, <1>5, FS_Union
  <1>. QED
    BY <1>1, <1>3, <1>4, <1>6 DEF Sum

-----------------------------------------------------------------------------
(* Prices. *)

\* Finitely many rows, as the serializers accept them.
Terms(t, S) == IsFiniteSet(S) /\ t \in [S -> Row] /\ \A q \in S : WellFormed(t[q])

\* compute_totals is the sum of the shares, and takes off no more than there is.
LEMMA TotalIsReference ==
  ASSUME NEW S, NEW t, Terms(t, S), NEW s \in Nat
  PROVE  /\ DiscountTotal(t, s) = Reference(t, s) /\ DiscountTotal(t, s) \in 0..s
         /\ [q \in S |-> Discount(t[q], s)] \in [S -> Nat]
         /\ Sum([q \in S |-> Discount(t[q], s)]) \in Nat
  <1>1. \A q \in S : Discount(t[q], s) = Share(t[q], s) /\ Discount(t[q], s) \in 0..s
    BY DiscountIsShare DEF Terms
  <1>2. [q \in S |-> Discount(t[q], s)] = [q \in S |-> Share(t[q], s)]
    BY <1>1
  <1>3. [q \in S |-> Discount(t[q], s)] \in [S -> Nat]
    BY <1>1
  <1>4. Sum([q \in S |-> Discount(t[q], s)]) \in Nat
    BY <1>3, SumIsNat DEF Terms
  <1>5. DOMAIN t = S
    BY DEF Terms
  <1>6. DiscountTotal(t, s) = Least(Sum([q \in S |-> Discount(t[q], s)]), s)
    BY <1>5 DEF DiscountTotal
  <1>7. Reference(t, s) = Least(s, Sum([q \in S |-> Discount(t[q], s)]))
    BY <1>2, <1>5 DEF Reference
  <1>. QED
    BY <1>3, <1>4, <1>6, <1>7 DEF Least

\* What a preview adds to a cart's totals is what applying the coupon adds.
LEMMA PreviewIsReference ==
  ASSUME NEW k \in Carts, NEW q, subtotal[k] \in Nat,
         Terms([p \in applied[k] |-> coupon[p]], applied[k]),
         coupon[q] \in Row, WellFormed(coupon[q])
  PROVE  Projected(k, q) = Reference([p \in applied[k] \cup {q} |-> coupon[p]], subtotal[k])
  <1> DEFINE S == applied[k]
             t == [p \in S |-> coupon[p]]
             u == [p \in S \cup {q} |-> coupon[p]]
             s == subtotal[k]
             f == [p \in S |-> Discount(t[p], s)]
             g == [p \in S \cup {q} |-> Discount(u[p], s)]
  <1>1. Terms(t, S) /\ Terms(u, S \cup {q})
    <2>1. IsFiniteSet(S \cup {q})
      BY FS_AddElement DEF Terms
    <2>2. u \in [S \cup {q} -> Row] /\ \A p \in S \cup {q} : WellFormed(u[p])
      BY DEF Terms
    <2>. QED
      BY <2>1, <2>2 DEF Terms
  <1>s. s \in Nat
    OBVIOUS
  <1> HIDE DEF s, t, u
  <1>2. f \in [S -> Nat] /\ Sum(f) \in Nat /\ DiscountTotal(t, s) \in 0..s
    BY <1>1, <1>s, TotalIsReference
  <1>3. g \in [S \cup {q} -> Nat] /\ Reference(u, s) = DiscountTotal(u, s) /\ DiscountTotal(u, s) \in 0..s
    <2> DEFINE R == S \cup {q}
    <2>1. Terms(u, R)
      BY <1>1
    <2> HIDE DEF R
    <2>2. \A p \in R : Discount(u[p], s) \in Nat
      BY <1>s, <2>1, DiscountIsShare DEF Terms
    <2>3. DiscountTotal(u, s) = Reference(u, s) /\ DiscountTotal(u, s) \in 0..s
      BY <1>s, <2>1, TotalIsReference, Zenon
    <2>. QED
      BY <2>2, <2>3 DEF R
  <1>4. CASE q \in S
    <2>1. S \cup {q} = S /\ u = t
      BY <1>4 DEF t, u
    <2>2. Projected(k, q) = Least(DiscountTotal(t, s) + 0, s)
      BY <1>4 DEF Projected, t, s
    <2>. QED
      BY <1>s, <1>2, <1>3, <2>1, <2>2 DEF Least, u, s
  <1>5. CASE q \notin S
    <2>1. \A p \in S : g[p] = f[p]
      BY DEF t, u
    <2>2. g[q] = Discount(coupon[q], s) /\ g[q] \in Nat
      BY <1>3 DEF u
    <2>3. Sum(g) = Sum(f) + g[q]
      <3>1. IsFiniteSet(S)
        BY <1>1 DEF Terms
      <3> HIDE DEF f, g, S
      <3>. QED
        BY <1>2, <1>3, <1>5, <2>1, <3>1, SumWithOneMore
    <2>4. DiscountTotal(t, s) = Least(Sum(f), s)
      BY DEF DiscountTotal, t
    <2>5. DiscountTotal(u, s) = Least(Sum(g), s)
      BY DEF DiscountTotal, u
    <2>6. Projected(k, q) = Least(DiscountTotal(t, s) + g[q], s)
      BY <1>5, <2>2 DEF Projected, t, s
    <2>. QED
      <3> HIDE DEF f, g
      <3>. QED
        BY <1>s, <1>2, <1>3, <2>2, <2>3, <2>4, <2>5, <2>6 DEF Least, u, s
  <1>. QED
    BY <1>4, <1>5

-----------------------------------------------------------------------------
(* Rows keep the serializers' rules, and orders the prices of their terms. *)

Rows == \A q \in Coupons : coupon[q] # None => WellFormed(coupon[q])

\* A checkout has the rows of the cart's coupons, from its lock to its end.
Basket(k) ==
  /\ IsFiniteSet(applied[k]) /\ taken[k] \subseteq DOMAIN seen[k]
  /\ IF pc[k] \in {"locked", "counting", "paying"} THEN Terms(seen[k], applied[k])
     ELSE DOMAIN seen[k] = {}

\* A bill of the coupons in S: less what their terms take off.
Bill(o, S) ==
  /\ o \in Order(S) /\ Terms(o.terms, S)
  /\ o.discount = DiscountTotal(o.terms, o.subtotal)
  /\ o.discount <= o.subtotal /\ o.total = o.subtotal - o.discount

Billed(k) ==
  IF pc[k] \in {"paying", "ordered", "stranded"} THEN \E S \in SUBSET Coupons : Bill(placed[k], S)
  ELSE placed[k] = None

PriceInv ==
  /\ Rows
  /\ \A k \in Carts : Basket(k) /\ Billed(k)
  /\ now \in 0..MaxTime /\ patches \in 0..MaxPatches /\ byHand \subseteq Coupons

\* Initially there are no rows, coupons or orders.
LEMMA PriceInit == Init => PriceInv
  <1>. SUFFICES ASSUME Init PROVE PriceInv
    OBVIOUS
  <1>1. DOMAIN << >> = {}
    OBVIOUS
  <1>2. \A k \in Carts : Basket(k) /\ Billed(k)
    BY <1>1, FS_EmptySet DEF Init, Basket, Billed
  <1>. QED
    BY <1>2, CouponAssumption DEF Init, PriceInv, Rows

\* A commit counts uses, and leaves the rules of a row alone.
LEMMA CountedRules ==
  ASSUME Typed, NEW k \in Carts, Counting(k), Rows, coupon' \in {Counted(k), coupon}
  PROVE  Rows'
  <1>1. ASSUME NEW q \in Coupons, coupon'[q] # None PROVE WellFormed(coupon'[q])
    <2>1. CASE coupon'[q] = coupon[q]
      BY <1>1, <2>1 DEF Rows
    <2>2. CASE coupon' = Counted(k) /\ q \in taken[k]
      <3>1. coupon'[q] = [coupon[q] EXCEPT !.uses = @ + 1]
        BY <2>2 DEF Counted
      <3>2. coupon[q] # None /\ coupon[q] \in Row
        BY <2>2 DEF Counting, Typed
      <3>3. /\ coupon'[q].type = coupon[q].type /\ coupon'[q].value = coupon[q].value
            /\ coupon'[q].currency = coupon[q].currency
        BY <3>1, <3>2 DEF Row
      <3>. QED
        BY <3>2, <3>3 DEF Rows, WellFormed
    <2>. QED
      BY <2>1, <2>2, CountedRows
  <1>. QED
    BY <1>1 DEF Rows, WellFormed

\* A cart no step of its own has moved.
LEMMA PricesLast ==
  ASSUME NEW k, Basket(k), Billed(k), pc'[k] = pc[k], seen'[k] = seen[k], taken'[k] = taken[k],
         applied'[k] = applied[k], placed'[k] = placed[k]
  PROVE  Basket(k)' /\ Billed(k)'
  <1>1. Basket(k)'
    BY DEF Basket, Terms, WellFormed
  <1>2. CASE pc[k] \in {"paying", "ordered", "stranded"}
    <2>1. PICK S \in SUBSET Coupons : Bill(placed[k], S)
      BY <1>2 DEF Billed
    <2>2. Bill(placed'[k], S)
      BY <2>1
    <2>. QED
      BY <1>1, <1>2, <2>2 DEF Billed
  <1>3. CASE pc[k] \notin {"paying", "ordered", "stranded"}
    BY <1>1, <1>3 DEF Billed
  <1>. QED
    BY <1>2, <1>3

\* The admin's steps: a row is written that the serializer accepts.
LEMMA AdminKeepsPrices ==
  ASSUME TermsInv, PriceInv,
         \/ SavePatch \/ \E q \in Coupons : CreateCoupon(q) \/ DeleteCoupon(q)
         \/ \E q \in Coupons, b \in Bodies : ReadForPatch(q, b)
  PROVE  PriceInv'
  <1>1. Typed
    BY DEF TermsInv
  <1>2. UNCHANGED <<now, applied, pc, seen, checked, taken, placed>>
    BY DEF SavePatch, CreateCoupon, DeleteCoupon, ReadForPatch
  <1>3. \A k \in Carts : Basket(k)' /\ Billed(k)'
    BY <1>2, PricesLast DEF PriceInv
  <1>4. patches' \in 0..MaxPatches
    BY CouponAssumption DEF PriceInv, SavePatch, CreateCoupon, DeleteCoupon, ReadForPatch
  <1>5. Rows' /\ byHand' \subseteq Coupons
    <2>1. ASSUME NEW q \in Coupons, CreateCoupon(q) PROVE Rows' /\ byHand' \subseteq Coupons
      <3>1. PICK row \in NewRows[q] : /\ WellFormed(row) /\ coupon' = [coupon EXCEPT ![q] = row]
                                      /\ byHand' \in {byHand, byHand \cup {q}}
        BY <2>1 DEF CreateCoupon
      <3>. QED
        BY <1>1, <3>1 DEF Rows, Typed, PriceInv, WellFormed
    <2>2. ASSUME NEW q \in Coupons, DeleteCoupon(q) PROVE Rows' /\ byHand' \subseteq Coupons
      <3>1. coupon[q] \in Row /\ WellFormed(coupon[q]) /\ coupon' = [coupon EXCEPT ![q].active = FALSE]
        BY <1>1, <2>2 DEF DeleteCoupon, Typed, PriceInv, Rows
      <3>2. /\ coupon'[q].type = coupon[q].type /\ coupon'[q].value = coupon[q].value
            /\ coupon'[q].currency = coupon[q].currency
        BY <1>1, <3>1 DEF Typed, Row
      <3>3. WellFormed(coupon'[q])
        BY <3>1, <3>2 DEF WellFormed
      <3>4. \A p \in Coupons \ {q} : coupon'[p] = coupon[p]
        BY <1>1, <3>1 DEF Typed
      <3>. QED
        BY <2>2, <3>3, <3>4 DEF Rows, PriceInv, DeleteCoupon, WellFormed
    <2>3. ASSUME NEW q \in Coupons, NEW b \in Bodies, ReadForPatch(q, b)
          PROVE  Rows' /\ byHand' \subseteq Coupons
      BY <2>3 DEF ReadForPatch, PriceInv, Rows, WellFormed
    <2>4. ASSUME SavePatch PROVE Rows' /\ byHand' \subseteq Coupons
      <3>1. CASE Allowed(patch.code, patch.row, patch.body)
        <4>1. PICK q, row : q = patch.code /\ row = Merged(patch.row, patch.body)
          OBVIOUS
        <4>2. /\ coupon' = [coupon EXCEPT ![q] = row] /\ WellFormed(row) /\ q \in Coupons
              /\ byHand' \in {byHand, byHand \cup {q}}
          BY <1>1, <2>4, <3>1, <4>1 DEF SavePatch, Allowed, Typed
        <4>. QED
          BY <1>1, <4>2 DEF Rows, Typed, PriceInv, WellFormed
      <3>2. CASE ~Allowed(patch.code, patch.row, patch.body)
        BY <2>4, <3>2 DEF SavePatch, PriceInv, Rows, WellFormed
      <3>. QED
        BY <3>1, <3>2
    <2>. QED
      BY <2>1, <2>2, <2>3, <2>4
  <1>. QED
    BY <1>2, <1>3, <1>4, <1>5 DEF PriceInv

\* A cart that is edited is in no checkout; its coupons stay finitely many.
LEMMA EditKeepsPrices ==
  ASSUME TermsInv, NEW k \in Carts, Basket(k), Billed(k),
         \/ \E s \in Subtotals : EditLines(k, s)
         \/ \E q \in Coupons : ApplyCoupon(k, q) \/ RemoveCoupon(k, q)
  PROVE  Basket(k)' /\ Billed(k)'
  <1>1. /\ pc[k] = "active" /\ UNCHANGED <<pc, seen, checked, taken, placed>>
        /\ applied \in [Carts -> SUBSET Coupons]
    BY DEF EditLines, ApplyCoupon, RemoveCoupon, TermsInv, Typed
  <1>2. applied'[k] = applied[k] \/ \E q : applied'[k] \in {applied[k] \cup {q}, applied[k] \ {q}}
    BY <1>1 DEF EditLines, ApplyCoupon, RemoveCoupon
  <1>3. IsFiniteSet(applied'[k])
    BY <1>2, FS_AddElement, FS_RemoveElement DEF Basket
  <1>. QED
    BY <1>1, <1>3 DEF Basket, Billed

\* Phase 1 prefetches rows that are well formed.
LEMMA LockKeepsPrices ==
  ASSUME TermsInv, PriceInv, NEW k \in Carts, LockCart(k)
  PROVE  Basket(k)' /\ Billed(k)'
  <1>1. Typed /\ Prefetched(k) /\ Rows /\ Basket(k) /\ Billed(k)
    BY DEF TermsInv, PriceInv
  <1>2. /\ pc[k] = "active" /\ pc'[k] = "locked" /\ seen'[k] = [q \in applied[k] |-> coupon[q]]
        /\ taken'[k] = taken[k] /\ applied'[k] = applied[k] /\ placed'[k] = placed[k]
    BY <1>1 DEF LockCart, Typed
  <1>3. \A q \in applied[k] : coupon[q] \in Row /\ WellFormed(coupon[q])
    BY <1>1 DEF Prefetched, Typed, Rows
  <1>4. Terms(seen'[k], applied'[k])
    BY <1>1, <1>2, <1>3 DEF Terms, Basket
  <1>5. taken'[k] \subseteq DOMAIN seen'[k] /\ IsFiniteSet(applied'[k])
    BY <1>1, <1>2 DEF Basket
  <1>. QED
    BY <1>1, <1>2, <1>4, <1>5 DEF Basket, Billed

\* A failed checkout has no rows and no order.
LEMMA GivenBackPrices ==
  ASSUME Typed, NEW k \in Carts, Basket(k), GiveBack(k), applied' = applied, placed'[k] = None
  PROVE  Basket(k)' /\ Billed(k)'
  <1>1. DOMAIN << >> = {}
    OBVIOUS
  <1>2. pc'[k] = "active" /\ seen'[k] = << >> /\ taken'[k] = {}
    BY DEF GiveBack, Ends, Typed
  <1>. QED
    BY <1>1, <1>2 DEF Basket, Billed

\* Phases 2 and 4 work on the rows phase 1 prefetched.
LEMMA CheckKeepsPrices ==
  ASSUME TermsInv, NEW k \in Carts, Basket(k), Billed(k),
         Revalidate(k) \/ \E q \in Coupons : CountUse(k, q)
  PROVE  Basket(k)' /\ Billed(k)'
  <1>1. Typed /\ pc[k] \in {"locked", "counting"} /\ applied' = applied /\ placed' = placed
    BY DEF TermsInv, Revalidate, CountUse
  <1>2. placed[k] = None
    BY <1>1 DEF Billed
  <1>3. CASE GiveBack(k)
    BY <1>1, <1>2, <1>3, GivenBackPrices
  <1>4. CASE ~GiveBack(k)
    <2>1. /\ pc'[k] \in {"locked", "counting"} /\ seen'[k] = seen[k]
          /\ taken'[k] \subseteq DOMAIN seen[k]
      BY <1>1, <1>4 DEF Revalidate, CountUse, Typed, Basket
    <2>. QED
      BY <1>1, <1>2, <2>1 DEF Basket, Billed
  <1>. QED
    BY <1>3, <1>4

\* The order is billed by them.
LEMMA InsertKeepsPrices ==
  ASSUME TermsInv, NEW k \in Carts, Basket(k), Billed(k), InsertOrder(k)
  PROVE  Basket(k)' /\ Billed(k)'
  <1>1. Typed /\ Prefetched(k)
    BY DEF TermsInv
  <1>2. /\ pc[k] = "counting" /\ pc'[k] = "paying" /\ placed'[k] = Priced(k, seen[k], subtotal[k])
        /\ seen'[k] = seen[k] /\ taken'[k] = taken[k] /\ applied'[k] = applied[k]
    BY <1>1 DEF InsertOrder, Typed
  <1>3. Terms(seen[k], applied[k]) /\ subtotal[k] \in Nat /\ checked[k] \in Nat /\ applied[k] \in SUBSET Coupons
    BY <1>1, <1>2, CouponAssumption DEF Basket, Typed
  <1>4. DiscountTotal(seen[k], subtotal[k]) \in 0..subtotal[k]
    BY <1>3, TotalIsReference
  <1>5. Bill(placed'[k], applied[k])
    <2> DEFINE d == DiscountTotal(seen[k], subtotal[k])
    <2>1. placed'[k] = [subtotal |-> subtotal[k], discount |-> d, total |-> subtotal[k] - d,
                        terms |-> seen[k], checked |-> checked[k]]
      BY <1>2 DEF Priced
    <2>2. d \in Nat /\ d <= subtotal[k] /\ subtotal[k] - d \in Nat
      BY <1>3, <1>4
    <2>3. seen[k] \in [applied[k] -> Row]
      BY <1>3 DEF Terms
    <2>4. /\ placed'[k].terms = seen[k] /\ placed'[k].subtotal = subtotal[k]
          /\ placed'[k].discount = d /\ placed'[k].total = subtotal[k] - d
      BY <2>1
    <2>5. placed'[k] \in Order(applied[k])
      BY <1>3, <2>1, <2>2, <2>3 DEF Order
    <2>. QED
      BY <1>3, <2>2, <2>4, <2>5 DEF Bill
  <1>6. Basket(k)'
    BY <1>2, <1>3 DEF Basket
  <1>. QED
    BY <1>2, <1>3, <1>5, <1>6 DEF Billed

\* A checkout ends with its order, or without one.
LEMMA EndKeepsPrices ==
  ASSUME TermsInv, NEW k \in Carts, Basket(k), Billed(k), Converted(k) \/ Stranded(k) \/ NotPaid(k)
  PROVE  Basket(k)' /\ Billed(k)'
  <1>1. Typed
    BY DEF TermsInv
  <1>2. CASE Converted(k) \/ Stranded(k)
    <2>1. DOMAIN << >> = {}
      OBVIOUS
    <2>2. /\ pc[k] = "paying" /\ pc'[k] \in Closed /\ taken'[k] = {} /\ seen'[k] = << >>
          /\ applied'[k] = applied[k] /\ placed'[k] = placed[k]
      BY <1>1, <1>2 DEF Converted, Stranded, Commit, Ends, Closed, Typed
    <2>. QED
      BY <2>1, <2>2 DEF Basket, Billed, Closed
  <1>3. CASE NotPaid(k)
    <2>1. applied' = applied /\ placed'[k] = None
      BY <1>1, <1>3 DEF NotPaid, Typed
    <2>. QED
      BY <1>1, <1>3, <2>1, GivenBackPrices DEF NotPaid
  <1>. QED
    BY <1>2, <1>3

\* A cart's step leaves the other carts alone, and the rows' rules.
LEMMA CartsKeepPrices ==
  ASSUME TermsInv, PriceInv, NEW k \in Carts,
         \/ \E s \in Subtotals : EditLines(k, s)
         \/ \E q \in Coupons : ApplyCoupon(k, q) \/ RemoveCoupon(k, q) \/ CountUse(k, q)
         \/ LockCart(k) \/ Revalidate(k) \/ InsertOrder(k) \/ Converted(k) \/ Stranded(k) \/ NotPaid(k)
  PROVE  PriceInv'
  <1>1. Typed /\ Counting(k) /\ Rows /\ Basket(k) /\ Billed(k)
    BY DEF TermsInv, PriceInv
  <1>2. Basket(k)' /\ Billed(k)'
    BY <1>1, EditKeepsPrices, LockKeepsPrices, CheckKeepsPrices, InsertKeepsPrices, EndKeepsPrices
  <1>3. ASSUME NEW w \in Carts \ {k}
        PROVE  /\ pc'[w] = pc[w] /\ seen'[w] = seen[w] /\ taken'[w] = taken[w]
               /\ applied'[w] = applied[w] /\ placed'[w] = placed[w]
    BY <1>1 DEF EditLines, ApplyCoupon, RemoveCoupon, CountUse, LockCart, Revalidate, InsertOrder,
                Converted, Stranded, Commit, NotPaid, GiveBack, Ends, Typed
  <1>4. \A w \in Carts \ {k} : Basket(w)' /\ Billed(w)'
    BY <1>3, PricesLast DEF PriceInv
  <1>5. coupon' \in {Counted(k), coupon} /\ UNCHANGED <<now, patches, byHand>>
    BY DEF EditLines, ApplyCoupon, RemoveCoupon, CountUse, LockCart, Revalidate, InsertOrder,
           Converted, Stranded, Commit, NotPaid
  <1>6. Rows'
    BY <1>1, <1>5, CountedRules
  <1>. QED
    BY <1>2, <1>4, <1>5, <1>6 DEF PriceInv

\* Every step keeps rules and prices.
LEMMA PriceStep == TermsInv /\ PriceInv /\ [Next]_vars => PriceInv'
  <1>. SUFFICES ASSUME TermsInv, PriceInv, [Next]_vars PROVE PriceInv'
    OBVIOUS
  <1>1. CASE Tick \/ UNCHANGED vars
    <2>1. UNCHANGED <<coupon, applied, pc, seen, checked, taken, placed, patches, byHand>>
      BY <1>1 DEF Tick, vars
    <2>2. now' \in 0..MaxTime
      BY <1>1, CouponAssumption DEF Tick, vars, PriceInv
    <2>3. \A k \in Carts : Basket(k)' /\ Billed(k)'
      BY <2>1, PricesLast DEF PriceInv
    <2>4. Rows'
      BY <2>1 DEF PriceInv, Rows, WellFormed
    <2>. QED
      BY <2>1, <2>2, <2>3, <2>4 DEF PriceInv
  <1>. QED
    BY <1>1, AdminKeepsPrices, CartsKeepPrices DEF Next

\* Rules and prices are an invariant of the terms'.
LEMMA PriceInvariant == Spec => []PriceInv
  BY PriceInit, PriceStep, TermsInvariant, PTL DEF Spec

\* The types are right, and every row keeps the rules its serializers check, whichever
\* fields a PATCH sends (_validate_cross_fields on the merged row).
THEOREM CouponsTyped == Spec => []TypeOK
  <1>1. TermsInv /\ PriceInv => TypeOK
    <2>. SUFFICES ASSUME TermsInv, PriceInv PROVE TypeOK
      OBVIOUS
    <2>1. Typed /\ \A k \in Carts : Prefetched(k) /\ Basket(k) /\ Billed(k)
      BY DEF TermsInv, PriceInv
    <2>2. applied \in [Carts -> SUBSET {q \in Coupons : coupon[q] # None}]
      BY <2>1 DEF Typed, Prefetched
    <2>3. \A k \in Carts : DOMAIN seen[k] \in {{}, applied[k]} /\ taken[k] \subseteq DOMAIN seen[k]
      BY <2>1 DEF Basket, Terms
    <2>4. \A k \in Carts : IF pc[k] \in {"paying", "ordered", "stranded"}
                           THEN \E S \in SUBSET Coupons : placed[k] \in Order(S)
                           ELSE placed[k] = None
      BY <2>1 DEF Billed, Bill
    <2>. QED
      BY <2>1, <2>2, <2>3, <2>4 DEF TypeOK, Typed, Stages, PriceInv, Rows
  <1>. QED
    BY <1>1, TermsInvariant, PriceInvariant, PTL

\* One price: a preview shows what the cart's totals will be with the coupon, and an
\* order's discount is the sum of its terms' shares at its subtotal, each to the
\* nearest cent with ties to even, and never more than the subtotal
\* (preview_coupon, compute_totals and compute_discount agree).
THEOREM OnePrice == Spec => []PricesAgree
  <1>1. TermsInv /\ PriceInv => PricesAgree
    <2>. SUFFICES ASSUME TermsInv, PriceInv PROVE PricesAgree
      OBVIOUS
    <2>1. ASSUME NEW k \in Carts, NEW q \in Coupons, pc[k] = "active", coupon[q] # None
          PROVE  Projected(k, q) = Reference([p \in applied[k] \cup {q} |-> coupon[p]], subtotal[k])
      <3>1. Typed /\ Prefetched(k) /\ Basket(k) /\ Rows
        BY DEF TermsInv, PriceInv
      <3>2. \A p \in applied[k] \cup {q} : coupon[p] \in Row /\ WellFormed(coupon[p])
        BY <2>1, <3>1 DEF Typed, Prefetched, Rows
      <3>3. Terms([p \in applied[k] |-> coupon[p]], applied[k])
        BY <3>1, <3>2 DEF Terms, Basket
      <3>4. subtotal[k] \in Nat
        BY <3>1, CouponAssumption DEF Typed
      <3>5. coupon[q] \in Row /\ WellFormed(coupon[q])
        BY <3>2
      <3>. QED
        BY <3>3, <3>4, <3>5, PreviewIsReference
    <2>2. ASSUME NEW k \in Carts, placed[k] # None
          PROVE  /\ placed[k].discount = Reference(placed[k].terms, placed[k].subtotal)
                 /\ placed[k].total + placed[k].discount = placed[k].subtotal
      <3>1. PICK S \in SUBSET Coupons : Bill(placed[k], S)
        BY <2>2 DEF PriceInv, Billed
      <3>2. placed[k].subtotal \in Nat /\ placed[k].discount \in Nat
        BY <3>1 DEF Bill, Order
      <3>3. DiscountTotal(placed[k].terms, placed[k].subtotal) = Reference(placed[k].terms, placed[k].subtotal)
        <4>1. Terms(placed[k].terms, S)
          BY <3>1 DEF Bill
        <4>. QED
          BY <3>2, <4>1, TotalIsReference, Zenon
      <3>4. /\ placed[k].discount = DiscountTotal(placed[k].terms, placed[k].subtotal)
            /\ placed[k].total = placed[k].subtotal - placed[k].discount
        BY <3>1 DEF Bill
      <3>. QED
        BY <3>2, <3>3, <3>4
    <2>. QED
      BY <2>1, <2>2 DEF PricesAgree
  <1>. QED
    BY <1>1, TermsInvariant, PriceInvariant, PTL

=============================================================================
