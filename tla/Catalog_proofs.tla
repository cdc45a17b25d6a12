---------------------------- MODULE Catalog_proofs ----------------------------
(***************************************************************************)
(* Proofs about Catalog, for any products, formats, bodies and workers.    *)
(*                                                                         *)
(* RowsInv is what the row locks give: a request that has locked a product *)
(* still holds the row as it read it.  ImageInv adds, per product whose    *)
(* image requests came one after the other, what the bucket holds at every *)
(* statement of such a request.                                            *)
(***************************************************************************)
EXTENDS Catalog, TLAPS

Stages == {"idle", "check", "insert", "lock", "write", "read", "upload", "remove", "save", "drop", "commit"}

\* stock_gte_reserved is part of what a row is.
GoodRow == {row \in Row : row.reserved <= row.stock}

Typed ==
  /\ product \in [Products -> GoodRow \cup {None}]
  /\ lock \in [Products -> Workers \cup {None}]
  /\ req \in [Workers -> Request \cup {None}]
  /\ pc \in [Workers -> Stages]
  /\ got \in [Workers -> GoodRow \cup {None}]

\* Which statements a request has, and what it has read before each.
AtStage(w) ==
  /\ pc[w] = "idle" <=> req[w] = None
  /\ pc[w] # "idle" => (req[w].op = "upload" <=> req[w].file # None)
  /\ pc[w] \in {"check", "insert"} => req[w].op = "create"
  /\ pc[w] = "lock" => req[w].op \in {"patch", "hold"}
  /\ pc[w] = "write" => req[w].op \in {"patch", "hold", "delete", "settle", "release"}
  /\ pc[w] = "read" => req[w].op \in {"delete", "upload", "unset"}
  /\ pc[w] = "upload" => req[w].op = "upload"
  /\ pc[w] = "remove" => req[w].op = "unset"
  /\ pc[w] \in {"save", "drop", "commit"} => req[w].op \in {"upload", "unset"}
  /\ pc[w] = "drop" => Supersedes(w)
  /\ (pc[w] = "write" /\ req[w].op \in {"delete"}) \/ pc[w] \in {"upload", "remove", "save", "drop", "commit"} =>
       product[On(w)] # None
  /\ pc[w] = "write" /\ req[w].op \in {"patch", "hold"} =>
       product[On(w)] # None /\ got[w] = product[On(w)] /\ lock[On(w)] = w
  /\ pc[w] \in {"drop", "commit"} => lock[On(w)] = w

RowsInv == Typed /\ \A w \in Workers : AtStage(w)

------------------------------------------------------------------------------
\* Initially no request is under way and the rows are good ones.
LEMMA RowsInitOK == Init => RowsInv
  <1>. SUFFICES ASSUME Init PROVE RowsInv
    OBVIOUS
  <1>1. product \in [Products -> GoodRow \cup {None}]
    <2>1. product \in [Products -> Row \cup {None}]
          /\ \A p \in Products : product[p] # None => product[p].reserved <= product[p].stock
      BY CatalogAssumption DEF Init
    <2>. QED
      BY <2>1 DEF GoodRow
  <1>. QED
    BY <1>1 DEF RowsInv, Typed, AtStage, Init, Stages

\* The worker that works on a request has a product that exists as an id.
LEMMA Working ==
  ASSUME RowsInv, NEW w \in Workers, pc[w] # "idle"
  PROVE  req[w] \in Request /\ On(w) \in Products /\ req[w] # None
  BY CatalogAssumption DEF RowsInv, Typed, AtStage, On, Request

\* A step of w: its own bookkeeping and locks, and rows that nobody else has locked.
StepOf(w) ==
  /\ \A v \in Workers \ {w} :
       /\ pc'[v] = pc[v] /\ req'[v] = req[v] /\ got'[v] = got[v]
       /\ \A p \in Products : lock'[p] = v <=> lock[p] = v
  /\ \A p \in Products : product'[p] # product[p] =>
       product'[p] # None /\ (product[p] = None \/ lock[p] \in {None, w})

\* The other requests are where they were, and what they have read and locked stands.
LEMMA OthersKeepRows ==
  ASSUME RowsInv, NEW w \in Workers, StepOf(w), NEW v \in Workers \ {w}
  PROVE  AtStage(v)'
  <1>1. AtStage(v) /\ (pc[v] # "idle" => On(v) \in Products)
    BY Working DEF RowsInv
  <1>2. /\ pc'[v] = pc[v] /\ req'[v] = req[v] /\ got'[v] = got[v]
        /\ \A p \in Products : lock'[p] = v <=> lock[p] = v
    BY DEF StepOf
  <1>3. \A p \in Products :
          /\ product[p] # None => product'[p] # None
          /\ product[p] # None /\ lock[p] = v => product'[p] = product[p]
    BY CatalogAssumption DEF StepOf
  <1>. QED
    BY <1>1, <1>2, <1>3 DEF AtStage, On, Supersedes

\* So a step is as good as what it does to its own request.
LEMMA RowsStepOf ==
  ASSUME RowsInv, NEW w \in Workers, StepOf(w), Typed', AtStage(w)'
  PROVE  RowsInv'
  BY OthersKeepRows DEF RowsInv

\* The end of a request, with a row for its product or without a change.
LEMMA Ends ==
  ASSUME RowsInv, NEW w \in Workers, pc[w] # "idle",
         pc' = [pc EXCEPT ![w] = "idle"], req' = [req EXCEPT ![w] = None], got' = [got EXCEPT ![w] = None],
         lock' = [p \in Products |-> IF lock[p] = w THEN None ELSE lock[p]],
         \/ UNCHANGED product
         \/ \E row \in GoodRow :
              /\ product' = [product EXCEPT ![On(w)] = row]
              /\ product[On(w)] = None \/ lock[On(w)] \in {None, w}
  PROVE  RowsInv' /\ StepOf(w)
  <1>1. Typed /\ On(w) \in Products
    BY Working DEF RowsInv
  <1>2. None \notin GoodRow /\ None \notin Workers
    BY CatalogAssumption DEF GoodRow
  <1>3. StepOf(w)
    BY <1>1, <1>2 DEF Typed, StepOf
  <1>4. Typed'
    BY <1>1 DEF Typed, Stages
  <1>5. AtStage(w)'
    BY <1>1 DEF Typed, AtStage
  <1>. QED
    BY <1>3, <1>4, <1>5, RowsStepOf

\* A row that is committed is a row, with reserved within stock.
LEMMA RowsWritten ==
  ASSUME RowsInv, NEW w \in Workers
  PROVE  /\ InsertProduct(w) => Merged(Blank, req[w].body) \in Row /\ Merged(Blank, req[w].body).reserved = 0
         /\ SavePatch(w) => Merged(got[w], req[w].body) \in Row
         /\ Deactivate(w) => [product[On(w)] EXCEPT !.active = FALSE] \in GoodRow
         /\ Hold(w) /\ got[w].stock - got[w].reserved >= 1 =>
              [product[On(w)] EXCEPT !.reserved = @ + 1] \in GoodRow
         /\ Settle(w) /\ product[On(w)] # None /\ product[On(w)].reserved # 0 =>
              [product[On(w)] EXCEPT !.reserved = @ - 1,
                                     !.stock = IF req[w].op = "settle" THEN @ - 1 ELSE @] \in GoodRow
         /\ CommitImage(w) => [product[On(w)] EXCEPT !.image = req[w].file] \in GoodRow
  <1>1. Typed /\ AtStage(w)
    BY DEF RowsInv
  <1>2. MaxStock \in Nat /\ None \notin Workers
    BY CatalogAssumption
  <1>3. InsertProduct(w) => Merged(Blank, req[w].body) \in Row /\ Merged(Blank, req[w].body).reserved = 0
    <2>1. SUFFICES ASSUME InsertProduct(w)
                   PROVE  Merged(Blank, req[w].body) \in Row /\ Merged(Blank, req[w].body).reserved = 0
      OBVIOUS
    <2>2. req[w] \in Request
      BY <2>1, Working DEF InsertProduct, At
    <2>3. req[w].body \in Bodies
      BY <2>2 DEF Request
    <2>4. Blank \in Row /\ Blank.reserved = 0
      BY <1>2, CatalogAssumption DEF Blank, Row
    <2>5. "reserved" \notin DOMAIN req[w].body
      BY <2>3, CatalogAssumption
    <2>. QED
      BY <2>3, <2>4, <2>5, CatalogAssumption DEF Merged, Columns
  <1>4. SavePatch(w) => Merged(got[w], req[w].body) \in Row
    <2>1. SUFFICES ASSUME SavePatch(w) PROVE Merged(got[w], req[w].body) \in Row
      OBVIOUS
    <2>2. req[w] \in Request /\ On(w) \in Products
      BY <2>1, Working DEF SavePatch, At
    <2>3. req[w].body \in Bodies
      BY <2>2 DEF Request
    <2>4. got[w] \in Row
      BY <1>1, <2>1, <2>2 DEF SavePatch, At, AtStage, Typed, GoodRow
    <2>. QED
      BY <2>3, <2>4, CatalogAssumption
  <1>5. ASSUME pc[w] # "idle", product[On(w)] # None PROVE product[On(w)] \in GoodRow /\ req[w] \in Request
    BY <1>1, <1>5, Working DEF Typed
  <1>6. Deactivate(w) => [product[On(w)] EXCEPT !.active = FALSE] \in GoodRow
    BY <1>1, <1>5 DEF Deactivate, At, AtStage, GoodRow, Row
  <1>7. Hold(w) /\ got[w].stock - got[w].reserved >= 1 =>
          [product[On(w)] EXCEPT !.reserved = @ + 1] \in GoodRow
    BY <1>1, <1>2, <1>5 DEF Hold, At, AtStage, GoodRow, Row
  <1>8. Settle(w) /\ product[On(w)] # None /\ product[On(w)].reserved # 0 =>
          [product[On(w)] EXCEPT !.reserved = @ - 1,
                                 !.stock = IF req[w].op = "settle" THEN @ - 1 ELSE @] \in GoodRow
    <2>. DEFINE row == product[On(w)]
                new == [row EXCEPT !.reserved = @ - 1, !.stock = IF req[w].op = "settle" THEN @ - 1 ELSE @]
    <2>1. SUFFICES ASSUME Settle(w), row # None, row.reserved # 0 PROVE new \in GoodRow
      OBVIOUS
    <2>2. row \in GoodRow
      BY <1>5, <2>1 DEF Settle
    <2>. HIDE DEF row
    <2>3. row \in Row /\ row.reserved \in 1..MaxStock /\ row.stock \in 1..MaxStock /\ row.reserved <= row.stock
      BY <1>2, <2>1, <2>2 DEF GoodRow, Row
    <2>4. row.reserved - 1 \in 0..MaxStock /\ row.stock - 1 \in 0..MaxStock /\ row.stock \in 0..MaxStock
          /\ row.reserved - 1 <= row.stock - 1 /\ row.reserved - 1 <= row.stock
      BY <1>2, <2>3
    <2>5. PICK s \in {row.stock - 1, row.stock} : new = [row EXCEPT !.reserved = row.reserved - 1, !.stock = s]
      OBVIOUS
    <2>6. new \in Row /\ new.reserved = row.reserved - 1 /\ new.stock = s
      BY <2>3, <2>4, <2>5 DEF Row
    <2>. QED
      BY <2>4, <2>6 DEF GoodRow
  <1>9. CommitImage(w) => [product[On(w)] EXCEPT !.image = req[w].file] \in GoodRow
    BY <1>1, <1>5 DEF CommitImage, AtStage, GoodRow, Row, Request
  <1>. QED
    BY <1>3, <1>4, <1>6, <1>7, <1>8, <1>9

\* A statement in the middle of a request, which writes no row.
Goes(w, l) ==
  /\ pc[w] # "idle" /\ l \in Stages \ {"idle"}
  /\ pc' = [pc EXCEPT ![w] = l]
  /\ UNCHANGED <<product, req>>
  /\ got' \in [Workers -> GoodRow \cup {None}]
  /\ \A v \in Workers \ {w} : got'[v] = got[v]
  /\ lock' = lock \/ (lock' = [lock EXCEPT ![On(w)] = w] /\ lock[On(w)] \in {None, w})

\* A step of a request that only moves on keeps every request at its stage.
LEMMA GoesStep ==
  ASSUME RowsInv, NEW w \in Workers, NEW l, Goes(w, l), AtStage(w)'
  PROVE  RowsInv' /\ StepOf(w)
  <1>1. Typed /\ On(w) \in Products
    BY Working DEF RowsInv, Goes
  <1>2. Typed'
    BY <1>1 DEF Goes, Typed
  <1>3. StepOf(w)
    BY <1>1, CatalogAssumption DEF Goes, Typed, StepOf
  <1>. QED
    BY <1>2, <1>3, RowsStepOf

\* Every step of a worker keeps what it and the others have read and locked.
LEMMA RowsStep ==
  ASSUME RowsInv, NEW w \in Workers,
         \/ Arrive(w) \/ Fail(w)
         \/ CheckSku(w) \/ InsertProduct(w) \/ LockProduct(w) \/ SavePatch(w)
         \/ ReadProduct(w) \/ Deactivate(w) \/ Hold(w) \/ Settle(w)
         \/ Upload(w) \/ RemoveObject(w) \/ SaveKey(w) \/ DropOld(w) \/ CommitImage(w)
  PROVE  RowsInv' /\ StepOf(w)
  <1>1. Typed /\ AtStage(w)
    BY DEF RowsInv
  <1>2. CASE Arrive(w)
    <2>1. PICK r \in Request :
            /\ r.op = "upload" <=> r.file # None
            /\ req' = [req EXCEPT ![w] = r]
            /\ pc' = [pc EXCEPT ![w] = FirstStage(r.op)]
      BY <1>2 DEF Arrive, Goto
    <2>2. r.op \in Ops /\ r # None
      BY CatalogAssumption DEF Request
    <2>3. \/ r.op = "create" /\ FirstStage(r.op) = "check"
          \/ r.op \in {"patch", "hold"} /\ FirstStage(r.op) = "lock"
          \/ r.op \in {"settle", "release"} /\ FirstStage(r.op) = "write"
          \/ r.op \in {"delete", "upload", "unset"} /\ FirstStage(r.op) = "read"
      BY <2>2 DEF Ops, FirstStage
    <2>4. UNCHANGED <<product, lock, got>>
      BY <1>2 DEF Arrive
    <2>. HIDE DEF Ops
    <2>5. Typed'
      BY <1>1, <2>1, <2>3, <2>4 DEF Typed, Stages
    <2>6. AtStage(w)'
      BY <1>1, <2>1, <2>2, <2>3 DEF Typed, AtStage
    <2>7. StepOf(w)
      BY <1>1, <2>1, <2>4 DEF Typed, StepOf
    <2>. QED
      BY <2>5, <2>6, <2>7, RowsStepOf
  <1>3. ASSUME pc[w] # "idle", Refuse(w) PROVE RowsInv' /\ StepOf(w)
    BY <1>3, Ends DEF Refuse, End, Goto
  <1>4. ASSUME pc[w] # "idle", NEW row \in GoodRow, Commit(w, row),
               product[On(w)] = None \/ lock[On(w)] \in {None, w}
        PROVE  RowsInv' /\ StepOf(w)
    BY <1>4, Ends DEF Commit, End, Goto
  <1>5. CASE Fail(w)
    BY <1>5, Ends DEF Fail, Goto
  <1>6. CASE CheckSku(w)
    <2>1. CASE Goto(w, "insert") /\ UNCHANGED <<product, bucket, lock, arrived, req, got, spoilt>>
      <3>1. AtStage(w)'
        BY <1>1, <1>6, <2>1 DEF CheckSku, At, Goto, AtStage, Typed
      <3>2. Goes(w, "insert")
        BY <1>1, <1>6, <2>1 DEF CheckSku, At, Goto, Goes, Typed, Stages
      <3>. QED
        BY <3>1, <3>2, GoesStep
    <2>. QED
      BY <1>3, <1>6, <2>1 DEF CheckSku, At
  <1>7. CASE InsertProduct(w)
    <2>1. Merged(Blank, req[w].body) \in GoodRow
      <3>1. /\ Merged(Blank, req[w].body) \in Row /\ Merged(Blank, req[w].body).reserved = 0
            /\ MaxStock \in Nat
        BY <1>7, RowsWritten, CatalogAssumption
      <3>2. Merged(Blank, req[w].body).stock \in Nat
        BY <3>1 DEF Row
      <3>. QED
        BY <3>1, <3>2 DEF GoodRow
    <2>. QED
      BY <1>3, <1>4, <1>7, <2>1 DEF InsertProduct, At
  <1>8. CASE LockProduct(w)
    <2>1. CASE /\ product[On(w)] # None
               /\ lock' = [lock EXCEPT ![On(w)] = w]
               /\ got' = [got EXCEPT ![w] = product[On(w)]]
               /\ Goto(w, "write")
               /\ UNCHANGED <<product, bucket, arrived, req, spoilt>>
      <3>1. On(w) \in Products /\ pc[w] = "lock" /\ Free(w, On(w))
        BY <1>8, Working DEF LockProduct
      <3>2. AtStage(w)'
        BY <1>1, <2>1, <3>1 DEF Goto, AtStage, Typed, On
      <3>3. Goes(w, "write")
        BY <1>1, <2>1, <3>1 DEF Goto, Goes, Typed, Stages, Free
      <3>. QED
        BY <3>2, <3>3, GoesStep
    <2>. QED
      BY <1>3, <1>8, <2>1 DEF LockProduct
  <1>9. CASE SavePatch(w)
    <2>1. CASE /\ Commit(w, Merged(got[w], req[w].body))
               /\ ~(Merged(got[w], req[w].body).stock < Merged(got[w], req[w].body).reserved)
      <3>1. Merged(got[w], req[w].body) \in Row /\ MaxStock \in Nat
        BY <1>9, RowsWritten, CatalogAssumption
      <3>2. Merged(got[w], req[w].body).stock \in Nat /\ Merged(got[w], req[w].body).reserved \in Nat
        BY <3>1 DEF Row
      <3>3. Merged(got[w], req[w].body) \in GoodRow
        BY <2>1, <3>1, <3>2 DEF GoodRow
      <3>. QED
        BY <1>4, <1>9, <2>1, <3>3 DEF SavePatch, At, Free
    <2>. QED
      BY <1>3, <1>9, <2>1 DEF SavePatch, At
  <1>10. CASE ReadProduct(w)
    <2>1. CASE /\ product[On(w)] # None
               /\ got' = [got EXCEPT ![w] = product[On(w)]]
               /\ Goto(w, CASE req[w].op = "delete" -> "write"
                            [] req[w].op = "upload" -> "upload"
                            [] OTHER -> "remove")
               /\ UNCHANGED <<product, bucket, lock, arrived, req, spoilt>>
      <3>1. On(w) \in Products /\ pc[w] = "read"
        BY <1>10, Working DEF ReadProduct
      <3>2. PICK l : pc' = [pc EXCEPT ![w] = l] /\ \/ req[w].op = "delete" /\ l = "write"
                                                   \/ req[w].op = "upload" /\ l = "upload"
                                                   \/ req[w].op = "unset" /\ l = "remove"
        BY <1>1, <2>1, <3>1 DEF Goto, AtStage
      <3>3. AtStage(w)'
        BY <1>1, <2>1, <3>1, <3>2 DEF AtStage, Typed, On
      <3>4. Goes(w, l)
        BY <1>1, <2>1, <3>1, <3>2 DEF Goes, Typed, Stages
      <3>. QED
        BY <3>3, <3>4, GoesStep
    <2>. QED
      BY <1>3, <1>10, <2>1 DEF ReadProduct
  <1>11. CASE Deactivate(w)
    BY <1>4, <1>11, RowsWritten DEF Deactivate, At, Free
  <1>12. CASE Hold(w)
    <2>1. CASE got[w].stock - got[w].reserved < 1 /\ Refuse(w)
      BY <1>3, <1>12, <2>1 DEF Hold, At
    <2>2. CASE /\ ~(got[w].stock - got[w].reserved < 1)
               /\ Commit(w, [product[On(w)] EXCEPT !.reserved = @ + 1])
      <3>1. pc[w] = "write" /\ lock[On(w)] = w /\ got[w] = product[On(w)] /\ got[w] # None
        BY <1>1, <1>12 DEF Hold, At, AtStage
      <3>2. got[w] \in GoodRow /\ MaxStock \in Nat
        BY <1>1, <3>1, CatalogAssumption DEF Typed
      <3>3. got[w].stock \in Nat /\ got[w].reserved \in Nat
        BY <3>2 DEF GoodRow, Row
      <3>4. [product[On(w)] EXCEPT !.reserved = @ + 1] \in GoodRow
        <4>1. got[w].stock - got[w].reserved >= 1
          BY <2>2, <3>3
        <4>. QED
          BY <1>12, <4>1, RowsWritten
      <3>. QED
        BY <1>4, <2>2, <3>1, <3>4
    <2>. QED
      BY <1>12, <2>1, <2>2 DEF Hold
  <1>13. CASE Settle(w)
    BY <1>3, <1>4, <1>13, RowsWritten DEF Settle, Free
  <1>14. CASE Upload(w)
    <2>1. AtStage(w)'
      BY <1>1, <1>14 DEF Upload, At, Goto, AtStage, Typed, On
    <2>2. Goes(w, "save")
      BY <1>1, <1>14 DEF Upload, At, Goto, Goes, Typed, Stages
    <2>. QED
      BY <2>1, <2>2, GoesStep
  <1>15. CASE RemoveObject(w)
    <2>1. AtStage(w)'
      BY <1>1, <1>15 DEF RemoveObject, At, Goto, AtStage, Typed, On
    <2>2. Goes(w, "save")
      BY <1>1, <1>15 DEF RemoveObject, At, Goto, Goes, Typed, Stages
    <2>. QED
      BY <2>1, <2>2, GoesStep
  <1>16. CASE SaveKey(w)
    <2>1. On(w) \in Products /\ pc[w] = "save" /\ Free(w, On(w))
      BY <1>16, Working DEF SaveKey
    <2>2. PICK l : pc' = [pc EXCEPT ![w] = l] /\ \/ l = "drop" /\ Supersedes(w)
                                                 \/ l = "commit"
      BY <1>16 DEF SaveKey, Goto
    <2>3. lock' = [lock EXCEPT ![On(w)] = w] /\ UNCHANGED <<product, req, got>>
      BY <1>16 DEF SaveKey
    <2>4. AtStage(w)'
      BY <1>1, <2>1, <2>2, <2>3 DEF AtStage, Typed, On, Supersedes
    <2>5. Goes(w, l)
      BY <1>1, <2>1, <2>2, <2>3 DEF Goes, Typed, Stages, Free
    <2>. QED
      BY <2>4, <2>5, GoesStep
  <1>17. CASE DropOld(w)
    <2>1. AtStage(w)'
      BY <1>1, <1>17 DEF DropOld, Goto, AtStage, Typed, On
    <2>2. Goes(w, "commit")
      BY <1>1, <1>17 DEF DropOld, Goto, Goes, Typed, Stages
    <2>. QED
      BY <2>1, <2>2, GoesStep
  <1>18. CASE CommitImage(w)
    <2>1. lock[On(w)] = w /\ pc[w] = "commit"
      BY <1>1, <1>18 DEF CommitImage, AtStage
    <2>. QED
      BY <1>4, <1>18, <2>1, RowsWritten DEF CommitImage
  <1>. QED
    BY <1>2, <1>5, <1>6, <1>7, <1>8, <1>9, <1>10, <1>11, <1>12, <1>13, <1>14, <1>15, <1>16, <1>17, <1>18

\* The rows, the locks and the requests fit each other in every state.
LEMMA RowsInvariant == Spec => []RowsInv
  <1>1. RowsInv /\ [Next]_vars => RowsInv'
    <2>1. ASSUME RowsInv, UNCHANGED vars PROVE RowsInv'
      BY <2>1 DEF RowsInv, Typed, AtStage, vars, On, Supersedes
    <2>. QED
      BY <2>1, RowsStep DEF Next
  <1>. QED
    BY <1>1, RowsInitOK, PTL DEF Spec

\* A column of p that changes is a change of w's request, at its end.
LEMMA Changed ==
  ASSUME RowsInv, NEW w \in Workers, NEW row, Commit(w, row), NEW p \in Products, NEW c \in Columns,
         product[p] # None, product'[p][c] # product[p][c], pc[w] # "idle",
         row[c] # product[On(w)][c] => c \in Writes(req[w])
  PROVE  pc[w] # "idle" /\ pc'[w] = "idle" /\ On(w) = p /\ c \in Writes(req[w])
  <1>1. Typed /\ On(w) \in Products
    BY Working DEF RowsInv
  <1>. QED
    BY <1>1 DEF Typed, Commit, End, Goto

\* A PATCH, an image and a checkout on one product, in any order, never take one
\* another's columns back.
THEOREM EveryColumnKept == Spec => ColumnsKept
  <1>1. ASSUME RowsInv, [Next]_vars, NEW p \in Products, NEW c \in Columns,
               product[p] # None, product'[p][c] # product[p][c]
        PROVE  \E w \in Workers : pc[w] # "idle" /\ pc'[w] = "idle" /\ On(w) = p /\ c \in Writes(req[w])
    <2>1. ~ UNCHANGED product
      BY <1>1
    <2>2. PICK w \in Workers :
            \/ InsertProduct(w) \/ SavePatch(w) \/ Deactivate(w) \/ Hold(w) \/ Settle(w) \/ CommitImage(w)
      BY <1>1, <2>1 DEF Next, Arrive, Fail, CheckSku, LockProduct, ReadProduct, Upload, RemoveObject,
         SaveKey, DropOld, Refuse, vars
    <2>3. pc[w] # "idle" /\ Typed /\ AtStage(w)
      BY <1>1, <2>2 DEF InsertProduct, SavePatch, Deactivate, Hold, Settle, CommitImage, At, RowsInv
    <2>4. On(w) \in Products /\ req[w] \in Request
      BY <1>1, <2>3, Working
    <2>5. ~ Refuse(w)
      BY <2>1 DEF Refuse
    <2>6. ASSUME product[On(w)] # None PROVE product[On(w)] \in Row
      BY <2>3, <2>4, <2>6 DEF Typed, GoodRow
    <2>7. CASE InsertProduct(w)
      <3>1. product[On(w)] = None /\ Commit(w, Merged(Blank, req[w].body))
        BY <2>5, <2>7 DEF InsertProduct
      <3>. QED
        BY <1>1, <2>3, <2>4, <3>1 DEF Commit, Typed
    <2>8. CASE SavePatch(w)
      <3>1. /\ Commit(w, Merged(got[w], req[w].body)) /\ got[w] = product[On(w)] /\ req[w].op = "patch"
        BY <2>3, <2>5, <2>8 DEF SavePatch, At, AtStage
      <3>2. Merged(got[w], req[w].body)[c] # product[On(w)][c] => c \in Writes(req[w])
        BY <1>1, <3>1 DEF Merged, Writes
      <3>. QED
        BY <1>1, <2>3, <3>1, <3>2, Changed
    <2>9. CASE Deactivate(w)
      <3>1. Commit(w, [product[On(w)] EXCEPT !.active = FALSE]) /\ req[w].op = "delete" /\ product[On(w)] \in Row
        BY <2>3, <2>6, <2>9 DEF Deactivate, At, AtStage
      <3>2. [product[On(w)] EXCEPT !.active = FALSE][c] # product[On(w)][c] => c \in Writes(req[w])
        BY <1>1, <3>1 DEF Writes, Row, Columns
      <3>. QED
        BY <1>1, <2>3, <3>1, <3>2, Changed
    <2>10. CASE Hold(w)
      <3>1. Commit(w, [product[On(w)] EXCEPT !.reserved = @ + 1]) /\ req[w].op = "hold" /\ product[On(w)] \in Row
        BY <2>3, <2>5, <2>6, <2>10 DEF Hold, At, AtStage
      <3>2. [product[On(w)] EXCEPT !.reserved = @ + 1][c] # product[On(w)][c] => c \in Writes(req[w])
        BY <1>1, <3>1 DEF Writes, Row, Columns
      <3>. QED
        BY <1>1, <2>3, <3>1, <3>2, Changed
    <2>11. CASE Settle(w)
      <3>. DEFINE new == [product[On(w)] EXCEPT !.reserved = @ - 1,
                                                !.stock = IF req[w].op = "settle" THEN @ - 1 ELSE @]
      <3>1. Commit(w, new) /\ req[w].op \in {"settle", "release"} /\ product[On(w)] \in Row
        BY <2>5, <2>6, <2>11 DEF Settle
      <3>2. new[c] # product[On(w)][c] => c \in {"reserved"} \cup IF req[w].op = "settle" THEN {"stock"} ELSE {}
        BY <1>1, <3>1 DEF Row, Columns
      <3>3. new[c] # product[On(w)][c] => c \in Writes(req[w])
        BY <3>1, <3>2 DEF Writes
      <3>. HIDE DEF new
      <3>. QED
        BY <1>1, <2>3, <3>1, <3>3, Changed
    <2>12. CASE CommitImage(w)
      <3>1. Commit(w, [product[On(w)] EXCEPT !.image = req[w].file]) /\ req[w].op \in {"upload", "unset"}
            /\ product[On(w)] \in Row
        BY <2>3, <2>6, <2>12 DEF CommitImage, AtStage
      <3>2. [product[On(w)] EXCEPT !.image = req[w].file][c] # product[On(w)][c] => c \in Writes(req[w])
        BY <1>1, <3>1 DEF Writes, Row, Columns
      <3>. QED
        BY <1>1, <2>3, <3>1, <3>2, Changed
    <2>. QED
      BY <2>2, <2>7, <2>8, <2>9, <2>10, <2>11, <2>12
  <1>2. RowsInv /\ [Next]_vars =>
          [\A p \in Products, c \in Columns :
             (product[p] # None /\ product'[p][c] # product[p][c]) =>
               \E w \in Workers : /\ pc[w] # "idle" /\ pc'[w] = "idle"
                                  /\ On(w) = p /\ c \in Writes(req[w])]_vars
    BY <1>1
  <1>. QED
    BY <1>2, RowsInvariant, PTL DEF Spec, ColumnsKept

------------------------------------------------------------------------------
(* Images *)

\* The objects of the request's product, statement by statement.
ImageStage(w) ==
  /\ pc[w] \in {"read", "upload", "remove"} => Stored(On(w)) = Current(On(w))
  /\ pc[w] \in {"upload", "remove", "save", "drop"} => got[w].image = product[On(w)].image
  /\ pc[w] \in {"save", "drop"} /\ req[w].op = "upload" =>
       Stored(On(w)) = Current(On(w)) \cup {Key(On(w), req[w].file)}
  /\ pc[w] = "save" /\ req[w].op = "unset" => Stored(On(w)) = {}
  /\ pc[w] = "commit" =>
       Stored(On(w)) = IF req[w].file = None THEN {} ELSE {Key(On(w), req[w].file)}

AboutImageOf(w, p) == AboutImage(w) /\ On(w) = p
Alone(p) == \A v, w \in Workers : AboutImageOf(v, p) /\ AboutImageOf(w, p) => v = w

Pictures(p) ==
  /\ Alone(p)
  /\ (\A w \in Workers : ~AboutImageOf(w, p)) => Stored(p) = Current(p)
  /\ \A w \in Workers : AboutImageOf(w, p) => ImageStage(w)

ImageInv == \A p \in Products \ spoilt : Pictures(p)

SameImage(p) ==
  IF product[p] = None THEN product'[p] = None \/ product'[p].image = None
  ELSE product'[p] # None /\ product'[p].image = product[p].image

\* A step that is not about the image of p, and touches neither its objects nor its key.
LEMMA PictureFrame ==
  ASSUME RowsInv, NEW w \in Workers, StepOf(w), NEW p \in Products, Pictures(p),
         Stored(p)' = Stored(p), SameImage(p), ~AboutImageOf(w, p), ~AboutImageOf(w, p)'
  PROVE  Pictures(p)'
  <1>1. Current(p)' = Current(p)
    BY DEF SameImage, Current, Key
  <1>2. \A v \in Workers : AboutImageOf(v, p)' <=> AboutImageOf(v, p)
    BY DEF StepOf, AboutImageOf, AboutImage, On
  <1>3. ASSUME NEW v \in Workers, AboutImageOf(v, p) PROVE ImageStage(v)'
    <2>1. v \in Workers \ {w} /\ ImageStage(v) /\ On(v) = p /\ On(v)' = p /\ AtStage(v)
      BY <1>2, <1>3 DEF Pictures, AboutImageOf, RowsInv
    <2>2. pc'[v] = pc[v] /\ req'[v] = req[v] /\ got'[v] = got[v]
      BY <2>1 DEF StepOf
    <2>3. pc[v] \in {"upload", "remove", "save", "drop"} => product'[p].image = product[p].image
      BY <2>1 DEF AtStage, SameImage
    <2>4. /\ pc[v] \in {"read", "upload", "remove"} => Stored(p)' = Current(p)'
          /\ pc[v] \in {"upload", "remove", "save", "drop"} => got'[v].image = product'[p].image
          /\ pc[v] \in {"save", "drop"} /\ req[v].op = "upload" =>
               Stored(p)' = Current(p)' \cup {Key(p, req[v].file)}
          /\ pc[v] = "save" /\ req[v].op = "unset" => Stored(p)' = {}
          /\ pc[v] = "commit" => Stored(p)' = IF req[v].file = None THEN {} ELSE {Key(p, req[v].file)}
      BY <1>1, <2>1, <2>2, <2>3 DEF ImageStage
    <2>. QED
      BY <2>1, <2>2, <2>4 DEF ImageStage, Key
  <1>. QED
    BY <1>1, <1>2, <1>3 DEF Pictures, Alone

\* A statement of the one request about the image of p.
LEMMA PictureOwn ==
  ASSUME NEW w \in Workers, StepOf(w), NEW p \in Products, Pictures(p), AboutImageOf(w, p),
         req'[w] = req[w], ImageStage(w)'
  PROVE  Pictures(p)'
  <1>1. \A v \in Workers : AboutImageOf(v, p)' <=> AboutImageOf(v, p)
    BY DEF StepOf, AboutImageOf, AboutImage, On
  <1>2. \A v \in Workers : AboutImageOf(v, p) => v = w
    BY DEF Pictures, Alone
  <1>. QED
    BY <1>1, <1>2 DEF Pictures, Alone

\* Its end.
LEMMA PictureEnds ==
  ASSUME NEW w \in Workers, StepOf(w), NEW p \in Products, Pictures(p), AboutImageOf(w, p),
         req'[w] = None, Stored(p)' = Current(p)'
  PROVE  Pictures(p)'
  <1>1. \A v \in Workers : ~AboutImageOf(v, p)'
    <2>1. \A v \in Workers \ {w} : ~AboutImageOf(v, p)
      BY DEF Pictures, Alone
    <2>2. \A v \in Workers \ {w} : ~AboutImageOf(v, p)'
      BY <2>1 DEF StepOf, AboutImageOf, AboutImage, On
    <2>3. ~AboutImageOf(w, p)'
      BY DEF AboutImageOf, AboutImage
    <2>. QED
      BY <2>2, <2>3
  <1>. QED
    BY <1>1 DEF Pictures, Alone

\* The row a request that is not about an image commits has the image the row had.
LEMMA ImageColumnKept ==
  ASSUME RowsInv, NEW w \in Workers, NEW p \in Products,
         \/ InsertProduct(w) \/ SavePatch(w) \/ Deactivate(w) \/ Hold(w) \/ Settle(w)
  PROVE  SameImage(p)
  <1>1. Typed /\ AtStage(w) /\ RowsInv' /\ StepOf(w)
    BY RowsStep DEF RowsInv
  <1>2. pc[w] # "idle" /\ ~AboutImage(w)
    BY <1>1 DEF InsertProduct, SavePatch, Deactivate, Hold, Settle, At, AboutImage, AtStage
  <1>3. On(w) \in Products /\ req[w] \in Request
    BY <1>2, Working
  <1>4. None \notin GoodRow
    BY CatalogAssumption DEF GoodRow
  <1>5. CASE UNCHANGED product
    BY <1>5 DEF SameImage
  <1>6. ASSUME NEW row \in GoodRow, product' = [product EXCEPT ![On(w)] = row],
               row.image = IF product[On(w)] = None THEN None ELSE product[On(w)].image
        PROVE  SameImage(p)
    BY <1>1, <1>3, <1>4, <1>6 DEF SameImage, Typed
  <1>7. ASSUME product[On(w)] # None PROVE product[On(w)] \in Row
    BY <1>1, <1>3, <1>7 DEF Typed, GoodRow
  <1>8. ASSUME NEW row, product' = [product EXCEPT ![On(w)] = row], row # None PROVE row \in GoodRow
    <2>1. product'[On(w)] = row
      BY <1>1, <1>3, <1>8 DEF Typed
    <2>. QED
      BY <1>1, <1>3, <1>8, <2>1 DEF RowsInv, Typed
  <1>9. req[w].body \in Bodies /\ "image" \notin DOMAIN req[w].body
    BY <1>3, CatalogAssumption DEF Request
  <1>10. CASE InsertProduct(w)
    <2>1. CASE product[On(w)] = None /\ product' = [product EXCEPT ![On(w)] = Merged(Blank, req[w].body)]
      <3>1. Merged(Blank, req[w].body).image = None
        BY <1>9 DEF Merged, Columns, Blank
      <3>2. Merged(Blank, req[w].body) # None
        BY <1>10, RowsWritten, CatalogAssumption
      <3>. QED
        BY <1>6, <1>8, <2>1, <3>1, <3>2
    <2>. QED
      BY <1>5, <1>10, <2>1 DEF InsertProduct, Refuse, Commit
  <1>11. CASE SavePatch(w)
    <2>1. CASE product' = [product EXCEPT ![On(w)] = Merged(got[w], req[w].body)]
      <3>1. product[On(w)] # None /\ got[w] = product[On(w)]
        BY <1>1, <1>11 DEF SavePatch, At, AtStage
      <3>2. Merged(got[w], req[w].body).image = got[w].image
        BY <1>9 DEF Merged, Columns
      <3>3. Merged(got[w], req[w].body) # None
        BY <1>11, RowsWritten, CatalogAssumption
      <3>. QED
        BY <1>6, <1>8, <2>1, <3>1, <3>2, <3>3
    <2>. QED
      BY <1>5, <1>11, <2>1 DEF SavePatch, Refuse, Commit
  <1>12. CASE Deactivate(w)
    <2>1. product[On(w)] \in Row /\ product[On(w)] # None
          /\ product' = [product EXCEPT ![On(w)] = [product[On(w)] EXCEPT !.active = FALSE]]
          /\ [product[On(w)] EXCEPT !.active = FALSE] \in GoodRow
      BY <1>1, <1>7, <1>12, RowsWritten DEF Deactivate, At, AtStage, Commit
    <2>2. [product[On(w)] EXCEPT !.active = FALSE].image = product[On(w)].image
      BY <2>1 DEF Row
    <2>. QED
      BY <1>6, <2>1, <2>2
  <1>13. CASE Hold(w)
    <2>1. CASE product' = [product EXCEPT ![On(w)] = [product[On(w)] EXCEPT !.reserved = @ + 1]]
      <3>1. product[On(w)] # None /\ product[On(w)] \in Row
        BY <1>1, <1>7, <1>13 DEF Hold, At, AtStage
      <3>2. [product[On(w)] EXCEPT !.reserved = @ + 1].image = product[On(w)].image
        BY <3>1 DEF Row
      <3>3. [product[On(w)] EXCEPT !.reserved = @ + 1] \in GoodRow
        <4>1. \/ /\ product'[On(w)] = [product[On(w)] EXCEPT !.reserved = @ + 1]
                 /\ product'[On(w)] # product[On(w)]
              \/ [product[On(w)] EXCEPT !.reserved = @ + 1] = product[On(w)]
          BY <1>1, <1>3, <2>1 DEF Typed
        <4>2. product'[On(w)] # product[On(w)] => product'[On(w)] # None
          BY <1>1, <1>3 DEF StepOf
        <4>. QED
          BY <1>1, <1>3, <1>8, <2>1, <3>1, <4>1, <4>2 DEF Typed
      <3>. QED
        BY <1>6, <2>1, <3>1, <3>2, <3>3
    <2>. QED
      BY <1>5, <1>13, <2>1 DEF Hold, Refuse, Commit
  <1>14. CASE Settle(w)
    <2>. DEFINE new == [product[On(w)] EXCEPT !.reserved = @ - 1,
                                              !.stock = IF req[w].op = "settle" THEN @ - 1 ELSE @]
    <2>1. CASE product' = [product EXCEPT ![On(w)] = new] /\ product[On(w)] # None /\ product[On(w)].reserved # 0
      <3>1. product[On(w)] \in Row /\ new \in GoodRow
        BY <1>7, <1>14, <2>1, RowsWritten
      <3>2. new.image = product[On(w)].image
        BY <3>1 DEF Row
      <3>. HIDE DEF new
      <3>. QED
        BY <1>6, <2>1, <3>1, <3>2
    <2>. QED
      BY <1>5, <1>14, <2>1 DEF Settle, Refuse, Commit
  <1>. QED
    BY <1>10, <1>11, <1>12, <1>13, <1>14

\* The objects of the other products.
LEMMA OtherObjects ==
  ASSUME NEW p, NEW q, p # q, NEW ext,
         bucket' = bucket \cup {Key(q, ext)} \/ bucket' = bucket \ {Key(q, ext)}
  PROVE  Stored(p)' = Stored(p)
  BY DEF Stored, Key

\* What a step of one's own does to the objects of one's product.
LEMMA OwnObjects ==
  ASSUME NEW p, NEW ext
  PROVE  /\ bucket' = bucket \cup {Key(p, ext)} => Stored(p)' = Stored(p) \cup {Key(p, ext)}
         /\ bucket' = bucket \ {Key(p, ext)} => Stored(p)' = Stored(p) \ {Key(p, ext)}
  BY DEF Stored, Key

\* Every step keeps the pictures of every product that is not spoilt by it.
LEMMA ImageStep ==
  ASSUME RowsInv, ImageInv, NEW w \in Workers,
         \/ Arrive(w) \/ Fail(w)
         \/ CheckSku(w) \/ InsertProduct(w) \/ LockProduct(w) \/ SavePatch(w)
         \/ ReadProduct(w) \/ Deactivate(w) \/ Hold(w) \/ Settle(w)
         \/ Upload(w) \/ RemoveObject(w) \/ SaveKey(w) \/ DropOld(w) \/ CommitImage(w)
  PROVE  ImageInv'
  <1>. SUFFICES ASSUME NEW p \in Products \ spoilt' PROVE Pictures(p)'
    BY DEF ImageInv
  <1>1. RowsInv' /\ StepOf(w) /\ Typed /\ AtStage(w)
    BY RowsStep DEF RowsInv
  <1>2. spoilt \subseteq spoilt'
    BY DEF Arrive, Fail, CheckSku, InsertProduct, LockProduct, SavePatch, ReadProduct, Deactivate, Hold,
       Settle, Upload, RemoveObject, SaveKey, DropOld, CommitImage, Refuse, Commit, End
  <1>3. Pictures(p) /\ p \in Products
    BY <1>2 DEF ImageInv
  <1>4. ASSUME UNCHANGED product PROVE SameImage(p) /\ Current(p)' = Current(p)
    BY <1>4 DEF SameImage, Current
  <1>5. ASSUME UNCHANGED bucket PROVE Stored(p)' = Stored(p)
    BY <1>5 DEF Stored
  <1>6. ASSUME AboutImageOf(w, p) PROVE ImageStage(w) /\ On(w) = p /\ req[w].op \in {"upload", "unset"} /\ req[w] \in Request
    BY <1>1, <1>3, <1>6, Working DEF Pictures, AboutImageOf, AboutImage, AtStage
  \* the end of a request that has written nothing
  <1>7. ASSUME pc[w] \notin {"idle", "save", "drop", "commit"}, UNCHANGED <<product, bucket>>, req'[w] = None
        PROVE  Pictures(p)'
    <2>1. CASE AboutImageOf(w, p)
      <3>1. Stored(p)' = Current(p)'
        <4>1. pc[w] \in {"read", "upload", "remove"}
          BY <1>1, <1>6, <1>7, <2>1 DEF AtStage, Typed, Stages
        <4>. QED
          BY <1>4, <1>5, <1>6, <1>7, <2>1, <4>1 DEF ImageStage
      <3>. QED
        BY <1>1, <1>3, <1>7, <2>1, <3>1, PictureEnds
    <2>2. CASE ~AboutImageOf(w, p)
      <3>1. ~AboutImageOf(w, p)'
        BY <1>7 DEF AboutImageOf, AboutImage
      <3>. QED
        BY <1>1, <1>3, <1>4, <1>5, <1>7, <2>2, <3>1, PictureFrame
    <2>. QED
      BY <2>1, <2>2
  <1>8. ASSUME Refuse(w), pc[w] \notin {"idle", "save", "drop", "commit"} PROVE Pictures(p)'
    BY <1>1, <1>7, <1>8 DEF Refuse, End, Typed
  \* a request that goes on and is not about the image of p
  <1>9. ASSUME req'[w] = req[w], ~AboutImageOf(w, p), SameImage(p), Stored(p)' = Stored(p)
        PROVE  Pictures(p)'
    <2>1. ~AboutImageOf(w, p)'
      BY <1>9 DEF AboutImageOf, AboutImage, On
    <2>. QED
      BY <1>1, <1>3, <1>9, <2>1, PictureFrame
  <1>10. ASSUME req'[w] = req[w], pc[w] \in {"check", "lock"}, UNCHANGED <<product, bucket>> PROVE Pictures(p)'
    <2>1. ~AboutImageOf(w, p)
      BY <1>1, <1>10 DEF AtStage, AboutImageOf, AboutImage
    <2>. QED
      BY <1>4, <1>5, <1>9, <1>10, <2>1
  <1>11. CASE Arrive(w)
    <2>1. PICK r \in Request :
            /\ req' = [req EXCEPT ![w] = r] /\ pc' = [pc EXCEPT ![w] = FirstStage(r.op)]
            /\ spoilt' = spoilt \cup IF /\ r.op \in {"upload", "unset"}
                                        /\ \E v \in Workers \ {w} : AboutImage(v) /\ On(v) = r.on
                                     THEN {r.on} ELSE {}
      BY <1>11 DEF Arrive, Goto
    <2>2. UNCHANGED <<product, bucket, got>> /\ ~AboutImageOf(w, p) /\ req'[w] = r
      BY <1>1, <1>11, <2>1 DEF Arrive, AtStage, AboutImageOf, AboutImage, Typed
    <2>3. CASE ~(r.op \in {"upload", "unset"} /\ r.on = p)
      <3>1. ~AboutImageOf(w, p)'
        BY <2>2, <2>3 DEF AboutImageOf, AboutImage, On
      <3>. QED
        BY <1>1, <1>3, <1>4, <1>5, <2>2, <3>1, PictureFrame
    <2>4. CASE r.op \in {"upload", "unset"} /\ r.on = p
      <3>1. \A v \in Workers \ {w} : ~AboutImageOf(v, p)
        BY <2>1, <2>4 DEF AboutImageOf
      <3>2. \A v \in Workers : ~AboutImageOf(v, p)
        BY <2>2, <3>1
      <3>3. Stored(p)' = Current(p)'
        BY <1>3, <1>4, <1>5, <2>2, <3>2 DEF Pictures
      <3>4. \A v \in Workers \ {w} : ~AboutImageOf(v, p)'
        BY <1>1, <3>1 DEF StepOf, AboutImageOf, AboutImage, On
      <3>5. pc'[w] = "read" /\ On(w)' = p
        BY <1>1, <2>1, <2>2, <2>4 DEF Typed, FirstStage, On
      <3>6. ImageStage(w)'
        BY <3>3, <3>5 DEF ImageStage
      <3>. QED
        BY <3>3, <3>4, <3>6 DEF Pictures, Alone
    <2>. QED
      BY <2>3, <2>4
  <1>12. CASE Fail(w)
    <2>1. UNCHANGED <<product, bucket>> /\ pc[w] # "idle" /\ req'[w] = None
      BY <1>1, <1>12 DEF Fail, Typed
    <2>2. CASE pc[w] \in {"save", "drop", "commit"}
      <3>1. On(w) # p
        BY <1>12, <2>2 DEF Fail
      <3>2. ~AboutImageOf(w, p) /\ ~AboutImageOf(w, p)'
        BY <2>1, <3>1 DEF AboutImageOf, AboutImage
      <3>. QED
        BY <1>1, <1>3, <1>4, <1>5, <2>1, <3>2, PictureFrame
    <2>. QED
      BY <1>7, <2>1, <2>2
  <1>13. CASE CheckSku(w)
    BY <1>8, <1>10, <1>13 DEF CheckSku, At
  <1>14. CASE LockProduct(w)
    BY <1>8, <1>10, <1>14 DEF LockProduct
  <1>15. CASE InsertProduct(w) \/ SavePatch(w) \/ Deactivate(w) \/ Hold(w) \/ Settle(w)
    <2>1. SameImage(p)
      BY <1>15, ImageColumnKept
    <2>2. UNCHANGED bucket /\ req'[w] = None
      BY <1>1, <1>15 DEF InsertProduct, SavePatch, Deactivate, Hold, Settle, Refuse, Commit, End, Typed
    <2>3. ~AboutImageOf(w, p) /\ ~AboutImageOf(w, p)'
      BY <1>1, <1>15, <2>2 DEF InsertProduct, SavePatch, Deactivate, Hold, Settle, At, AtStage, AboutImageOf, AboutImage
    <2>. QED
      BY <1>1, <1>3, <1>5, <2>1, <2>2, <2>3, PictureFrame
  <1>16. CASE ReadProduct(w)
    <2>1. CASE /\ product[On(w)] # None
               /\ got' = [got EXCEPT ![w] = product[On(w)]]
               /\ Goto(w, CASE req[w].op = "delete" -> "write"
                            [] req[w].op = "upload" -> "upload"
                            [] OTHER -> "remove")
               /\ UNCHANGED <<product, bucket, lock, arrived, req, spoilt>>
      <3>1. CASE ~AboutImageOf(w, p)
        BY <1>4, <1>5, <1>9, <2>1, <3>1
      <3>2. CASE AboutImageOf(w, p)
        <4>1. ImageStage(w) /\ On(w) = p /\ pc[w] = "read" /\ req[w].op \in {"upload", "unset"}
          BY <1>6, <1>16, <3>2 DEF ReadProduct
        <4>2. pc'[w] \in {"upload", "remove"} /\ got'[w] = product[p] /\ On(w)' = p
          BY <1>1, <2>1, <4>1 DEF Goto, Typed, On
        <4>3. ImageStage(w)'
          BY <1>4, <1>5, <2>1, <4>1, <4>2 DEF ImageStage
        <4>. QED
          BY <1>1, <1>3, <2>1, <3>2, <4>3, PictureOwn
      <3>. QED
        BY <3>1, <3>2
    <2>. QED
      BY <1>8, <1>16, <2>1 DEF ReadProduct
  <1>17. CASE Upload(w)
    <2>1. /\ bucket' = bucket \cup {Key(On(w), req[w].file)} /\ pc'[w] = "save"
          /\ UNCHANGED <<product, req, got>> /\ pc[w] = "upload" /\ req[w].op = "upload"
      BY <1>1, <1>17 DEF Upload, At, Goto, Typed
    <2>2. CASE ~AboutImageOf(w, p)
      <3>1. On(w) # p
        BY <1>1, <2>1, <2>2 DEF AboutImageOf, AboutImage, AtStage
      <3>. QED
        BY <1>4, <1>9, <2>1, <2>2, <3>1, OtherObjects
    <2>3. CASE AboutImageOf(w, p)
      <3>1. ImageStage(w) /\ On(w) = p /\ On(w)' = p
        BY <1>6, <2>1, <2>3 DEF On
      <3>2. Stored(p)' = Current(p)' \cup {Key(p, req[w].file)}
        BY <1>4, <2>1, <3>1, OwnObjects DEF ImageStage
      <3>3. ImageStage(w)'
        BY <2>1, <3>1, <3>2 DEF ImageStage, Key
      <3>. QED
        BY <1>1, <1>3, <2>1, <2>3, <3>3, PictureOwn
    <2>. QED
      BY <2>2, <2>3
  <1>18. CASE RemoveObject(w)
    <2>1. /\ bucket' = bucket \ {Key(On(w), got[w].image)} /\ pc'[w] = "save"
          /\ UNCHANGED <<product, req, got>> /\ pc[w] = "remove" /\ req[w].op = "unset"
      BY <1>1, <1>18 DEF RemoveObject, At, Goto, Typed
    <2>2. CASE ~AboutImageOf(w, p)
      <3>1. On(w) # p
        BY <1>1, <2>1, <2>2 DEF AboutImageOf, AboutImage, AtStage
      <3>. QED
        BY <1>4, <1>9, <2>1, <2>2, <3>1, OtherObjects
    <2>3. CASE AboutImageOf(w, p)
      <3>1. ImageStage(w) /\ On(w) = p /\ On(w)' = p
        BY <1>6, <2>1, <2>3 DEF On
      <3>2. Stored(p)' = Current(p) \ {Key(p, product[p].image)} /\ got[w].image = product[p].image
        BY <2>1, <3>1, OwnObjects DEF ImageStage
      <3>3. Stored(p)' = {}
        BY <3>2 DEF Current
      <3>4. ImageStage(w)'
        BY <2>1, <3>1, <3>2, <3>3 DEF ImageStage
      <3>. QED
        BY <1>1, <1>3, <2>1, <2>3, <3>4, PictureOwn
    <2>. QED
      BY <2>2, <2>3
  <1>19. CASE SaveKey(w)
    <2>1. /\ UNCHANGED <<product, bucket, req, got>> /\ pc[w] = "save"
          /\ pc'[w] = IF Supersedes(w) THEN "drop" ELSE "commit"
      BY <1>1, <1>19 DEF SaveKey, Goto, Typed
    <2>2. CASE ~AboutImageOf(w, p)
      BY <1>4, <1>5, <1>9, <2>1, <2>2
    <2>3. CASE AboutImageOf(w, p)
      <3>1. /\ ImageStage(w) /\ On(w) = p /\ On(w)' = p /\ req[w].op \in {"upload", "unset"}
            /\ req[w].op = "upload" <=> req[w].file # None
            /\ product[p] # None
        BY <1>1, <1>6, <2>1, <2>3 DEF On, AtStage
      <3>2. got[w].image = product[p].image
        BY <2>1, <3>1 DEF ImageStage
      <3>3. CASE Supersedes(w)
        <4>1. req[w].op = "upload" /\ pc'[w] = "drop"
          BY <2>1, <3>3 DEF Supersedes
        <4>2. Stored(p)' = Current(p)' \cup {Key(p, req[w].file)}
          BY <1>4, <1>5, <2>1, <3>1, <4>1 DEF ImageStage
        <4>3. ImageStage(w)'
          BY <2>1, <3>1, <3>2, <4>1, <4>2 DEF ImageStage, Key
        <4>. QED
          BY <1>1, <1>3, <2>1, <2>3, <4>3, PictureOwn
      <3>4. CASE ~Supersedes(w)
        <4>1. pc'[w] = "commit"
          BY <2>1, <3>4
        <4>2. Stored(p) = IF req[w].file = None THEN {} ELSE {Key(p, req[w].file)}
          <5>1. CASE req[w].op = "unset"
            BY <2>1, <3>1, <5>1 DEF ImageStage
          <5>2. CASE req[w].op = "upload"
            <6>1. product[p].image \in {None, req[w].file}
              BY <3>2, <3>4, <5>2 DEF Supersedes
            <6>2. Stored(p) = Current(p) \cup {Key(p, req[w].file)}
              BY <2>1, <3>1, <5>2 DEF ImageStage
            <6>. QED
              BY <3>1, <5>2, <6>1, <6>2 DEF Current
          <5>. QED
            BY <3>1, <5>1, <5>2
        <4>3. ImageStage(w)'
          BY <1>5, <2>1, <3>1, <4>1, <4>2 DEF ImageStage, Key
        <4>. QED
          BY <1>1, <1>3, <2>1, <2>3, <4>3, PictureOwn
      <3>. QED
        BY <3>3, <3>4
    <2>. QED
      BY <2>2, <2>3
  <1>20. CASE DropOld(w)
    <2>1. /\ bucket' = bucket \ {Key(On(w), got[w].image)} /\ pc'[w] = "commit"
          /\ UNCHANGED <<product, req, got>> /\ pc[w] = "drop" /\ Supersedes(w)
      BY <1>1, <1>20 DEF DropOld, Goto, Typed, AtStage
    <2>2. CASE ~AboutImageOf(w, p)
      <3>1. On(w) # p
        BY <1>1, <2>1, <2>2 DEF AboutImageOf, AboutImage, AtStage
      <3>. QED
        BY <1>4, <1>9, <2>1, <2>2, <3>1, OtherObjects
    <2>3. CASE AboutImageOf(w, p)
      <3>1. /\ ImageStage(w) /\ On(w) = p /\ On(w)' = p /\ product[p] # None
            /\ req[w].op = "upload" /\ req[w].file # None
        BY <1>1, <1>6, <2>1, <2>3 DEF On, AtStage, Supersedes
      <3>2. got[w].image = product[p].image /\ product[p].image \notin {None, req[w].file}
        BY <2>1, <3>1 DEF ImageStage, Supersedes
      <3>3. Stored(p) = {Key(p, product[p].image), Key(p, req[w].file)}
        BY <2>1, <3>1, <3>2 DEF ImageStage, Current
      <3>4. Stored(p)' = {Key(p, req[w].file)}
        BY <2>1, <3>1, <3>2, <3>3, OwnObjects DEF Key
      <3>5. ImageStage(w)'
        BY <2>1, <3>1, <3>4 DEF ImageStage, Key
      <3>. QED
        BY <1>1, <1>3, <2>1, <2>3, <3>5, PictureOwn
    <2>. QED
      BY <2>2, <2>3
  <1>21. CASE CommitImage(w)
    <2>1. /\ product' = [product EXCEPT ![On(w)] = [product[On(w)] EXCEPT !.image = req[w].file]]
          /\ UNCHANGED bucket /\ req'[w] = None /\ pc[w] = "commit"
      BY <1>1, <1>21 DEF CommitImage, Commit, End, Typed
    <2>2. On(w) \in Products /\ product[On(w)] \in Row /\ product[On(w)] # None
          /\ req[w].op \in {"upload", "unset"} /\ req[w] # None
      <3>1. On(w) \in Products /\ product[On(w)] # None /\ req[w] # None
        BY <1>1, <2>1, Working DEF AtStage
      <3>. QED
        BY <1>1, <2>1, <3>1 DEF Typed, AtStage, GoodRow
    <2>3. CASE ~AboutImageOf(w, p)
      <3>1. On(w) # p
        BY <2>2, <2>3 DEF AboutImageOf, AboutImage
      <3>2. SameImage(p)
        BY <1>1, <2>1, <3>1 DEF SameImage, Typed
      <3>3. ~AboutImageOf(w, p)'
        BY <2>1 DEF AboutImageOf, AboutImage
      <3>. QED
        BY <1>1, <1>3, <1>5, <2>1, <2>3, <3>2, <3>3, PictureFrame
    <2>4. CASE AboutImageOf(w, p)
      <3>1. ImageStage(w) /\ On(w) = p
        BY <1>6, <2>4
      <3>2. Stored(p)' = IF req[w].file = None THEN {} ELSE {Key(p, req[w].file)}
        BY <1>5, <2>1, <3>1 DEF ImageStage
      <3>3. product'[p] = [product[p] EXCEPT !.image = req[w].file] /\ product'[p] # None
        <4>1. product'[p] = [product[p] EXCEPT !.image = req[w].file]
          BY <1>1, <2>1, <2>2, <3>1 DEF Typed
        <4>2. req[w].file \in Formats \cup {None}
          BY <1>1, <2>2 DEF Typed, Request
        <4>3. [product[p] EXCEPT !.image = req[w].file] \in Row
          BY <2>2, <3>1, <4>2 DEF Row
        <4>. QED
          BY <4>1, <4>3, CatalogAssumption
      <3>4. product'[p].image = req[w].file
        BY <2>2, <3>1, <3>3 DEF Row
      <3>5. Stored(p)' = Current(p)'
        BY <3>2, <3>3, <3>4 DEF Current, Key
      <3>. QED
        BY <1>1, <1>3, <2>1, <2>4, <3>5, PictureEnds
    <2>. QED
      BY <2>3, <2>4
  <1>. QED
    BY <1>11, <1>12, <1>13, <1>14, <1>15, <1>16, <1>17, <1>18, <1>19, <1>20, <1>21

\* A product's image is in the bucket, and nothing else of it is, once the requests
\* about it are done: whatever else changes the product meanwhile.
THEOREM ImagesServed == Spec => []ImageServed
  <1>1. Init => ImageInv
    <2>. SUFFICES ASSUME Init, NEW p \in Products PROVE Pictures(p)
      BY DEF ImageInv
    <2>1. \A w \in Workers : ~AboutImageOf(w, p)
      BY DEF Init, AboutImageOf, AboutImage
    <2>2. Stored(p) = Current(p)
      BY DEF Init, Stored, Current, Named, Key
    <2>. QED
      BY <2>1, <2>2 DEF Pictures, Alone
  <1>2. RowsInv /\ ImageInv /\ [Next]_vars => ImageInv'
    <2>1. ASSUME RowsInv, ImageInv, UNCHANGED vars PROVE ImageInv'
      BY <2>1 DEF ImageInv, Pictures, Alone, AboutImageOf, AboutImage, On, ImageStage, Stored, Current, Key, vars
    <2>. QED
      BY <2>1, ImageStep DEF Next
  <1>3. ImageInv => ImageServed
    BY DEF ImageInv, Pictures, AboutImageOf, ImageServed
  <1>. QED
    BY <1>1, <1>2, <1>3, RowsInvariant, PTL DEF Spec

==============================================================================
