------------------------------ MODULE Catalog ------------------------------
(***************************************************************************)
(* A tenant's products and their pictures: the admin endpoints that create,*)
(* patch and switch off a product or replace its primary image, and the    *)
(* checkouts that move its counters meanwhile.                             *)
(*                                                                         *)
(* A request is one transaction of several statements; its last write and  *)
(* its commit are one step, except where an object-store call lies between *)
(* them.  The store knows nothing of transactions: what a request uploaded *)
(* or deleted stays so when it fails.                                      *)
(***************************************************************************)
EXTENDS Naturals, FiniteSets

CONSTANTS
  Products,     \* by SKU: uniq_product_sku_per_tenant makes them ids
  Formats,      \* file extensions
  Prices,
  Workers,
  Bodies,       \* bodies of a PATCH: some columns with their values
  Stocked,      \* the tables there may be at first
  MaxStock,     \* bound: stock_quantity
  MaxRequests,  \* bound: requests in one behaviour
  None

\* price stands for all that describes the product; its currency is bound to the
\* carts that hold it, which is CartService's matter.
Row == [price : Prices, active : BOOLEAN, image : Formats \cup {None},
        stock : 0..MaxStock, reserved : 0..MaxStock]
Columns == {"price", "active", "image", "stock", "reserved"}

\* A body's columns in place of the row's.
Merged(row, body) == [c \in Columns |-> IF c \in DOMAIN body THEN body[c] ELSE row[c]]

Ops == {"create", "patch", "delete", "upload", "unset", "hold", "settle", "release"}
Request == [op : Ops, on : Products, file : Formats \cup {None}, body : Bodies]

ASSUME CatalogAssumption ==
  /\ None \notin Row \cup Formats \cup Workers \cup Request
  /\ Prices # {}
  /\ \A b \in Bodies :
       /\ DOMAIN b \subseteq {"price", "active", "stock"}
       /\ \A row \in Row : Merged(row, b) \in Row
  /\ \A t \in Stocked :
       /\ t \in [Products -> Row \cup {None}]
       /\ \A p \in Products : t[p] # None => t[p].reserved <= t[p].stock
  /\ MaxStock \in Nat /\ MaxRequests \in Nat

VARIABLES
  product,    \* committed rows
  bucket,     \* objects of the media bucket: product and extension
  lock,       \* per product: the worker whose transaction holds its row
  arrived,    \* requests so far
  req, pc,    \* per worker: its request and the statement it is at
  got,        \* per worker: the row as it read it
  spoilt      \* products whose image requests overlapped, or failed half way

vars == <<product, bucket, lock, arrived, req, pc, got, spoilt>>

AboutImage(w) == req[w] # None /\ req[w].op \in {"upload", "unset"}
On(w) == req[w].on
Key(p, ext) == <<p, ext>>
\* The objects of the rows' images.
Named(rows) == {Key(p, rows[p].image) : p \in {q \in Products : rows[q] # None
                                                               /\ rows[q].image # None}}

Init ==
  /\ product \in Stocked
  /\ bucket = Named(product)
  /\ lock = [p \in Products |-> None]
  /\ arrived = 0
  /\ req = [w \in Workers |-> None]
  /\ pc = [w \in Workers |-> "idle"]
  /\ got = [w \in Workers |-> None]
  /\ spoilt = {}

-----------------------------------------------------------------------------
Goto(w, s) == pc' = [pc EXCEPT ![w] = s]
At(w, s, op) == pc[w] = s /\ req[w].op = op
Free(w, p) == lock[p] \in {None, w}

\* The request ends, and its transaction and locks with it.
End(w) ==
  /\ Goto(w, "idle")
  /\ req' = [req EXCEPT ![w] = None]
  /\ got' = [got EXCEPT ![w] = None]
  /\ lock' = [p \in Products |-> IF lock[p] = w THEN None ELSE lock[p]]
  /\ UNCHANGED <<bucket, arrived, spoilt>>
Commit(w, row) == product' = [product EXCEPT ![On(w)] = row] /\ End(w)
Refuse(w) == UNCHANGED product /\ End(w)

FirstStage(op) ==
  CASE op = "create" -> "check"
    [] op \in {"patch", "hold"} -> "lock"
    [] op \in {"settle", "release"} -> "write"
    [] OTHER -> "read"

Arrive(w) ==
  /\ pc[w] = "idle" /\ arrived < MaxRequests
  /\ arrived' = arrived + 1
  /\ \E r \in Request :
       /\ r.op = "upload" <=> r.file # None
       /\ r.op \notin {"patch", "create"} => r.body = <<>>
       /\ req' = [req EXCEPT ![w] = r]
       /\ Goto(w, FirstStage(r.op))
       /\ spoilt' = spoilt \cup IF /\ r.op \in {"upload", "unset"}
                                   /\ \E v \in Workers \ {w} : AboutImage(v) /\ On(v) = r.on
                                THEN {r.on} ELSE {}
  /\ UNCHANGED <<product, bucket, lock, got>>

\* An exception, a refusal by a rule that is not modelled here or a dead worker.
Fail(w) ==
  /\ pc[w] # "idle"
  /\ UNCHANGED <<product, bucket, arrived>>
  /\ Goto(w, "idle")
  /\ req' = [req EXCEPT ![w] = None]
  /\ got' = [got EXCEPT ![w] = None]
  /\ lock' = [p \in Products |-> IF lock[p] = w THEN None ELSE lock[p]]
  /\ spoilt' = spoilt \cup IF pc[w] \in {"save", "drop", "commit"} THEN {On(w)} ELSE {}

-----------------------------------------------------------------------------
(* Rows. *)

Blank == [price |-> CHOOSE n \in Prices : TRUE, active |-> TRUE, image |-> None,
          stock |-> 0, reserved |-> 0]

\* validate_sku looks first; the unique constraint has the last word.
CheckSku(w) ==
  /\ At(w, "check", "create")
  /\ IF product[On(w)] # None THEN Refuse(w)
     ELSE Goto(w, "insert") /\ UNCHANGED <<product, bucket, lock, arrived, req, got, spoilt>>

InsertProduct(w) ==
  /\ At(w, "insert", "create")
  /\ IF product[On(w)] # None THEN Refuse(w) ELSE Commit(w, Merged(Blank, req[w].body))

\* Variant: PATCH reads the product as the other views do.
LockProductNot(w) ==
  /\ pc[w] = "lock"
  /\ IF product[On(w)] = None THEN Refuse(w)
     ELSE /\ got' = [got EXCEPT ![w] = product[On(w)]]
          /\ Goto(w, "write")
          /\ UNCHANGED <<product, bucket, lock, arrived, req, spoilt>>

\* select_for_update().get(...)
LockProduct(w) ==
  /\ pc[w] = "lock" /\ Free(w, On(w))
  /\ IF product[On(w)] = None THEN Refuse(w)
     ELSE /\ lock' = [lock EXCEPT ![On(w)] = w]
          /\ got' = [got EXCEPT ![w] = product[On(w)]]
          /\ Goto(w, "write")
          /\ UNCHANGED <<product, bucket, arrived, req, spoilt>>

\* s.save() writes every column, the image key and the counters among them, as
\* they were when the row was locked.
SavePatch(w) ==
  /\ At(w, "write", "patch") /\ Free(w, On(w))
  /\ LET new == Merged(got[w], req[w].body) IN
     IF new.stock < new.reserved THEN Refuse(w) ELSE Commit(w, new)

\* _get_product, without a lock.
ReadProduct(w) ==
  /\ pc[w] = "read"
  /\ LET row == product[On(w)] IN
     IF \/ row = None
        \/ req[w].op = "delete" /\ ~row.active
        \/ req[w].op = "unset" /\ row.image = None
     THEN Refuse(w)
     ELSE /\ got' = [got EXCEPT ![w] = row]
          /\ Goto(w, CASE req[w].op = "delete" -> "write"
                       [] req[w].op = "upload" -> "upload"
                       [] OTHER -> "remove")
          /\ UNCHANGED <<product, bucket, lock, arrived, req, spoilt>>

\* save(update_fields=["is_active", ...])
Deactivate(w) ==
  /\ At(w, "write", "delete") /\ Free(w, On(w))
  /\ Commit(w, [product[On(w)] EXCEPT !.active = FALSE])

\* A checkout's phase 3, under the row's lock.
Hold(w) ==
  /\ At(w, "write", "hold")
  /\ IF got[w].stock - got[w].reserved < 1 THEN Refuse(w)
     ELSE Commit(w, [product[On(w)] EXCEPT !.reserved = @ + 1])

\* F-expressions on the row as it is when the UPDATE gets it.
Settle(w) ==
  LET row == product[On(w)] IN
  /\ pc[w] = "write" /\ req[w].op \in {"settle", "release"} /\ Free(w, On(w))
  /\ IF row = None THEN Refuse(w)
     ELSE IF row.reserved = 0 THEN Refuse(w)
     ELSE Commit(w, [row EXCEPT !.reserved = @ - 1,
                                !.stock = IF req[w].op = "settle" THEN @ - 1 ELSE @])

-----------------------------------------------------------------------------
(* Images. *)

\* validate_upload, then the object is written in place of one at its key.
Upload(w) ==
  /\ At(w, "upload", "upload")
  /\ bucket' = bucket \cup {Key(On(w), req[w].file)}
  /\ Goto(w, "save")
  /\ UNCHANGED <<product, lock, arrived, req, got, spoilt>>

\* DELETE removes the object before it clears the key.
RemoveObject(w) ==
  /\ At(w, "remove", "unset")
  /\ bucket' = bucket \ {Key(On(w), got[w].image)}
  /\ Goto(w, "save")
  /\ UNCHANGED <<product, lock, arrived, req, got, spoilt>>

\* Is there an old object to drop, at another key than the new one?
Supersedes(w) == req[w].op = "upload" /\ got[w].image \notin {None, req[w].file}

\* Variant: the old object is dropped whatever its key is.
SaveKeyAndDrop(w) ==
  /\ pc[w] = "save" /\ Free(w, On(w))
  /\ lock' = [lock EXCEPT ![On(w)] = w]
  /\ Goto(w, IF req[w].op = "upload" /\ got[w].image # None THEN "drop" ELSE "commit")
  /\ UNCHANGED <<product, bucket, arrived, req, got, spoilt>>

\* save(update_fields=["image_key", ...]); the row stays locked to the commit.
SaveKey(w) ==
  /\ pc[w] = "save" /\ Free(w, On(w))
  /\ lock' = [lock EXCEPT ![On(w)] = w]
  /\ Goto(w, IF Supersedes(w) THEN "drop" ELSE "commit")
  /\ UNCHANGED <<product, bucket, arrived, req, got, spoilt>>

\* The old object goes while the request can still fail.
DropOld(w) ==
  /\ pc[w] = "drop"
  /\ bucket' = bucket \ {Key(On(w), got[w].image)}
  /\ Goto(w, "commit")
  /\ UNCHANGED <<product, lock, arrived, req, got, spoilt>>

CommitImage(w) ==
  /\ pc[w] = "commit"
  /\ Commit(w, [product[On(w)] EXCEPT !.image = req[w].file])

-----------------------------------------------------------------------------
Next ==
  \E w \in Workers :
    \/ Arrive(w) \/ Fail(w)
    \/ CheckSku(w) \/ InsertProduct(w) \/ LockProduct(w) \/ SavePatch(w)
    \/ ReadProduct(w) \/ Deactivate(w) \/ Hold(w) \/ Settle(w)
    \/ Upload(w) \/ RemoveObject(w) \/ SaveKey(w) \/ DropOld(w) \/ CommitImage(w)

Spec == Init /\ [][Next]_vars

-----------------------------------------------------------------------------
\* What a request means to change.
Writes(r) ==
  CASE r.op = "patch" -> DOMAIN r.body
    [] r.op = "delete" -> {"active"}
    [] r.op \in {"upload", "unset"} -> {"image"}
    [] r.op = "settle" -> {"stock", "reserved"}
    [] OTHER -> {"reserved"}

\* A committed column changes only by a request that is about it: PATCH saves the
\* whole row, but it has locked it, so it takes back no image, no reservation and
\* no sale that was committed meanwhile.
ColumnsKept ==
  [][\A p \in Products, c \in Columns :
       (product[p] # None /\ product'[p][c] # product[p][c]) =>
         \E w \in Workers : /\ pc[w] # "idle" /\ pc'[w] = "idle"
                            /\ On(w) = p /\ c \in Writes(req[w])]_vars

\* The objects of p, and the one its row names.
Stored(p) == {k \in bucket : k[1] = p}
Current(p) == IF product[p] = None \/ product[p].image = None THEN {}
              ELSE {Key(p, product[p].image)}

\* A product's image is in the bucket and nothing else of the product is, whenever
\* no request about its image is under way, whatever PATCHes and checkouts run
\* beside them: as long as such requests came one after the other and none
\* failed once it had touched the bucket.
ImageServed ==
  \A p \in Products \ spoilt :
    (\A w \in Workers : AboutImage(w) => On(w) # p) => Stored(p) = Current(p)

\* The same without the proviso, as AdminProductImageView promises.
ImageAlwaysServed == \A p \in Products : Current(p) \subseteq bucket
=============================================================================
