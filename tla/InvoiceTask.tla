----------------------------- MODULE InvoiceTask ----------------------------
(***************************************************************************)
(* generate_invoice on the Celery workers: the request or webhook that     *)
(* enqueues it, the queue with its retries, redeliveries and dead letters, *)
(* the tenant and request contexts a worker enters, and the two halves of  *)
(* the task (the invoice row, the uploaded PDF).                           *)
(*                                                                         *)
(* Workers run in autocommit: one action is one statement, one call to the *)
(* object store or one exchange with the broker.  Any of them may raise.   *)
(* acks_late keeps a message until its task has ended, so a worker that    *)
(* dies, or whose connection drops while the task goes on, makes the       *)
(* broker deliver it again.                                                *)
(***************************************************************************)
EXTENDS Naturals, FiniteSets

CONSTANTS
  Orders,
  Tenants,
  TenantOf,     \* [Orders -> Tenants]
  Workers,
  MaxRetries,   \* max_retries of generate_invoice (5); the runs use a smaller one
  MaxLosses,    \* bound: dead workers and dropped connections in one behaviour
  None

ASSUME InvoiceAssumption ==
  /\ TenantOf \in [Orders -> Tenants]
  /\ MaxRetries \in Nat
  /\ MaxLosses \in Nat
  /\ None \notin Orders \cup Tenants \cup [order : Orders, tries : 0..MaxRetries]

Messages == [order : Orders, tries : 0..MaxRetries]

\* Where a worker is: waiting, in __call__, in the task, on its way out.
Stages == {"idle", "start", "read", "number", "insert", "upload", "save",
           "raised", "done", "retried", "rejected", "failed", "ack"}
Working == {"read", "number", "insert", "upload", "save"}
Ends == {"done", "retried", "rejected", "failed"}

VARIABLES
  request,    \* the transaction that pays each order
  published,  \* orders generate_invoice was enqueued for
  queue,      \* copies of each message acme.default holds ready
  dlq,        \* orders with a record in acme.dlq
  logged,     \* orders whose death certificate could only be logged
  losses,     \* dead workers and dropped connections so far
  seq,        \* last value drawn from each tenant's invoice_number_seq
  number,     \* invoice_number of each order's invoice, 0 while it has none
  stored,     \* orders whose PDF is in the object store
  filed,      \* orders whose invoice has a pdf_url
  pc, job, held,  \* per worker: stage, message, is it still to be acknowledged
  drawn,          \* per worker: the number drawn for the row to insert
  end,            \* per worker: how the task ended
  ctx, guc, rid   \* per worker: tenant contextvar, app.current_tenant, request id

broker == <<published, queue, dlq, logged>>
rows   == <<number, stored, filed>>
worker == <<pc, job, held, drawn, end, ctx, guc, rid>>
vars   == <<request, broker, losses, seq, rows, worker>>

\* create_per_tenant_sequences: one per tenant; none of them has been drawn from.
Sequences == [t \in Tenants |-> 0]

Init ==
  /\ request = [o \in Orders |-> "open"]
  /\ published = {} /\ dlq = {} /\ logged = {}
  /\ queue = [m \in Messages |-> 0]
  /\ losses = 0
  /\ seq = Sequences
  /\ number = [o \in Orders |-> 0] /\ stored = {} /\ filed = {}
  /\ pc = [w \in Workers |-> "idle"]
  /\ job = [w \in Workers |-> None]
  /\ held = [w \in Workers |-> FALSE]
  /\ drawn = [w \in Workers |-> 0]
  /\ end = [w \in Workers |-> "done"]
  /\ ctx = [w \in Workers |-> None]
  /\ guc = [w \in Workers |-> None]
  /\ rid = [w \in Workers |-> None]

-----------------------------------------------------------------------------
(* The transaction that pays the order, and the enqueue. *)

\* A publish reaches the exchange, or the producer raises and the caller logs
\* it (checkout) or is retried as a duplicate event (webhook).
Publish(o) ==
  \/ /\ published' = published \cup {o}
     /\ queue' = [queue EXCEPT ![[order |-> o, tries |-> 0]] = @ + 1]
  \/ UNCHANGED <<published, queue>>

\* A synchronous checkout enqueues inside its own transaction, before the
\* request commits.
EnqueueEarly(o) ==
  /\ request[o] = "open"
  /\ request' = [request EXCEPT ![o] = "enqueued"]
  /\ Publish(o)
  /\ UNCHANGED <<dlq, logged, losses, seq, rows, worker>>

EndRequest(o) ==
  /\ request[o] = "enqueued"
  /\ \E s \in {"committed", "rolled_back"} : request' = [request EXCEPT ![o] = s]
  /\ UNCHANGED <<broker, losses, seq, rows, worker>>

\* A captured webhook enqueues after its commit.
EnqueueOnCommit(o) ==
  /\ request[o] = "open"
  /\ request' = [request EXCEPT ![o] = "committed"]
  /\ Publish(o)
  /\ UNCHANGED <<dlq, logged, losses, seq, rows, worker>>

-----------------------------------------------------------------------------
(* A worker. *)

Goto(w, s) == pc' = [pc EXCEPT ![w] = s]
\* A worker waits again, with nothing in hand.
Wait(w) ==
  /\ Goto(w, "idle")
  /\ job' = [job EXCEPT ![w] = None]
  /\ held' = [held EXCEPT ![w] = FALSE]
  /\ drawn' = [drawn EXCEPT ![w] = 0]
  /\ end' = [end EXCEPT ![w] = "done"]
  /\ rid' = [rid EXCEPT ![w] = None]

MyOrder(w) == job[w].order
MyTenant(w) == TenantOf[MyOrder(w)]

\* Delivery, and the prerun signal that restores the request id of the header.
Deliver(w) ==
  /\ pc[w] = "idle"
  /\ \E m \in Messages :
       /\ queue[m] > 0
       /\ queue' = [queue EXCEPT ![m] = @ - 1]
       /\ job' = [job EXCEPT ![w] = m]
       /\ rid' = [rid EXCEPT ![w] = m.order]
  /\ held' = [held EXCEPT ![w] = TRUE]
  /\ Goto(w, "start")
  /\ UNCHANGED <<request, published, dlq, logged, losses, seq, rows, drawn, end, ctx, guc>>

\* __call__ sets the contextvar and the session variable.  When the SET raises
\* the task fails outside autoretry: the contextvar is reset, nothing is retried.
Enter(w) ==
  /\ pc[w] = "start"
  /\ \/ /\ ctx' = [ctx EXCEPT ![w] = MyTenant(w)]
        /\ guc' = [guc EXCEPT ![w] = MyTenant(w)]
        /\ Goto(w, "read")
        /\ UNCHANGED end
     \/ /\ Goto(w, "ack")
        /\ end' = [end EXCEPT ![w] = "failed"]
        /\ UNCHANGED <<ctx, guc>>
  /\ UNCHANGED <<request, broker, losses, seq, rows, job, held, drawn, rid>>

\* Order.objects.get and its invoice: an order whose transaction has not
\* committed, or never will, raises DoesNotExist.
ReadOrder(w) ==
  /\ pc[w] = "read"
  /\ Goto(w, IF request[MyOrder(w)] # "committed" THEN "raised"
             ELSE IF number[MyOrder(w)] = 0 THEN "number"
             ELSE IF MyOrder(w) \in filed THEN "done"
             ELSE "upload")
  /\ UNCHANGED <<request, broker, losses, seq, rows, job, held, drawn, end, ctx, guc, rid>>

\* Variant: currval, the last number another run drew.
CurrentNumber(w) ==
  /\ pc[w] = "number"
  /\ drawn' = [drawn EXCEPT ![w] = seq[MyTenant(w)]]
  /\ Goto(w, "insert")
  /\ UNCHANGED <<request, broker, losses, seq, rows, job, held, end, ctx, guc, rid>>

\* nextval is never rolled back.
NextNumber(w) ==
  /\ pc[w] = "number"
  /\ seq' = [seq EXCEPT ![MyTenant(w)] = @ + 1]
  /\ drawn' = [drawn EXCEPT ![w] = seq[MyTenant(w)] + 1]
  /\ Goto(w, "insert")
  /\ UNCHANGED <<request, broker, losses, rows, job, held, end, ctx, guc, rid>>

\* Variant: the row is written without the one-to-one constraint on the order.
InsertInvoiceAgain(w) ==
  /\ pc[w] = "insert"
  /\ number' = [number EXCEPT ![MyOrder(w)] = drawn[w]]
  /\ Goto(w, "upload")
  /\ UNCHANGED <<request, broker, losses, seq, stored, filed, job, held, drawn, end, ctx, guc, rid>>

\* The one-to-one constraint refuses the row of a run that came second.
InsertInvoice(w) ==
  /\ pc[w] = "insert"
  /\ IF number[MyOrder(w)] = 0
     THEN /\ number' = [number EXCEPT ![MyOrder(w)] = drawn[w]]
          /\ Goto(w, "upload")
     ELSE /\ UNCHANGED number
          /\ Goto(w, "raised")
  /\ UNCHANGED <<request, broker, losses, seq, stored, filed, job, held, drawn, end, ctx, guc, rid>>

\* The upload may raise after the object was written.
Upload(w) ==
  /\ pc[w] = "upload"
  /\ stored' = stored \cup {MyOrder(w)}
  /\ \E s \in {"save", "raised"} : Goto(w, s)
  /\ UNCHANGED <<request, broker, losses, seq, number, filed, job, held, drawn, end, ctx, guc, rid>>

SaveUrl(w) ==
  /\ pc[w] = "save"
  /\ filed' = filed \cup {MyOrder(w)}
  /\ Goto(w, "done")
  /\ UNCHANGED <<request, broker, losses, seq, number, stored, job, held, drawn, end, ctx, guc, rid>>

\* Any statement, the renderer or the object store raises.
Raise(w) ==
  /\ pc[w] \in Working
  /\ Goto(w, "raised")
  /\ UNCHANGED <<request, broker, losses, seq, rows, job, held, drawn, end, ctx, guc, rid>>

\* autoretry_for: a copy with one more try is published, or, when that raises
\* too, the message is rejected; after max_retries the exception goes on.
Retry(w) ==
  LET m == job[w] IN
  /\ pc[w] = "raised"
  /\ \/ /\ m.tries < MaxRetries
        /\ queue' = [queue EXCEPT ![[m EXCEPT !.tries = @ + 1]] = @ + 1]
        /\ Goto(w, "retried")
     \/ /\ m.tries < MaxRetries
        /\ Goto(w, "rejected")
        /\ UNCHANGED queue
     \/ /\ m.tries = MaxRetries
        /\ Goto(w, "failed")
        /\ UNCHANGED queue
  /\ UNCHANGED <<request, published, dlq, logged, losses, seq, rows, job, held, drawn, end, ctx, guc, rid>>

\* Variant: __call__ without the inner finally, so that an exception skips the RESET.
LeaveUnreset(w) ==
  /\ pc[w] \in Ends
  /\ ctx' = [ctx EXCEPT ![w] = None]
  /\ guc' = [guc EXCEPT ![w] = IF pc[w] = "done" THEN None ELSE @]
  /\ end' = [end EXCEPT ![w] = pc[w]]
  /\ Goto(w, "ack")
  /\ UNCHANGED <<request, broker, losses, seq, rows, job, held, drawn, rid>>

\* The two finally blocks.  A RESET that raises has lost its connection, and
\* its exception replaces whatever the task was ending with.
Leave(w) ==
  /\ pc[w] \in Ends
  /\ ctx' = [ctx EXCEPT ![w] = None]
  /\ guc' = [guc EXCEPT ![w] = None]
  /\ \E e \in {pc[w], "failed"} : end' = [end EXCEPT ![w] = e]
  /\ Goto(w, "ack")
  /\ UNCHANGED <<request, broker, losses, seq, rows, job, held, drawn, rid>>

\* Variant: a task without _DeadLetterMixin.
SettleSilently(w) ==
  /\ pc[w] = "ack"
  /\ dlq' = IF end[w] = "rejected" /\ held[w] THEN dlq \cup {MyOrder(w)} ELSE dlq
  /\ Wait(w)
  /\ UNCHANGED <<request, published, queue, logged, losses, seq, rows, ctx, guc>>

\* on_failure publishes a death certificate, or logs that it could not; the
\* postrun signal drops the request id; the message is acknowledged, or
\* rejected into the dead-letter exchange.  A worker that lost its connection
\* can do neither.
Settle(w) ==
  /\ pc[w] = "ack"
  /\ CASE end[w] = "failed" ->
            \/ dlq' = dlq \cup {MyOrder(w)} /\ UNCHANGED logged
            \/ logged' = logged \cup {MyOrder(w)} /\ UNCHANGED dlq
       [] end[w] = "rejected" /\ held[w] ->
            dlq' = dlq \cup {MyOrder(w)} /\ UNCHANGED logged
       [] OTHER -> UNCHANGED <<dlq, logged>>
  /\ Wait(w)
  /\ UNCHANGED <<request, published, queue, losses, seq, rows, ctx, guc>>

\* Variant: acks_late off, a dead worker takes its message with it.
KilledAfterAck(w) ==
  /\ pc[w] # "idle" /\ losses < MaxLosses
  /\ losses' = losses + 1
  /\ Wait(w)
  /\ ctx' = [ctx EXCEPT ![w] = None]
  /\ guc' = [guc EXCEPT ![w] = None]
  /\ UNCHANGED <<request, broker, seq, rows>>

Redelivered(w) ==
  queue' = IF held[w] THEN [queue EXCEPT ![job[w]] = @ + 1] ELSE queue

\* The worker process dies: reject_on_worker_lost requeues what it held.
Killed(w) ==
  /\ pc[w] # "idle" /\ losses < MaxLosses
  /\ losses' = losses + 1
  /\ Redelivered(w)
  /\ Wait(w)
  /\ ctx' = [ctx EXCEPT ![w] = None]
  /\ guc' = [guc EXCEPT ![w] = None]
  /\ UNCHANGED <<request, published, dlq, logged, seq, rows>>

\* Its broker connection drops: the message is delivered again while the task
\* goes on.
Disconnected(w) ==
  /\ held[w] /\ losses < MaxLosses
  /\ losses' = losses + 1
  /\ Redelivered(w)
  /\ held' = [held EXCEPT ![w] = FALSE]
  /\ UNCHANGED <<request, published, dlq, logged, seq, rows, pc, job, drawn, end, ctx, guc, rid>>

Step(w) == Enter(w) \/ ReadOrder(w) \/ NextNumber(w) \/ InsertInvoice(w) \/ Upload(w)
           \/ SaveUrl(w) \/ Raise(w) \/ Retry(w) \/ Leave(w) \/ Settle(w)

Next ==
  \/ \E o \in Orders : EnqueueEarly(o) \/ EndRequest(o) \/ EnqueueOnCommit(o)
  \/ \E w \in Workers : Deliver(w) \/ Step(w) \/ Killed(w) \/ Disconnected(w)

\* A request ends, a ready message is delivered to a free worker, and a worker
\* that is alive goes on.
Fairness ==
  /\ \A o \in Orders : WF_vars(EndRequest(o))
  /\ \A w \in Workers : WF_vars(Deliver(w)) /\ WF_vars(Step(w))

Spec == Init /\ [][Next]_vars
FairSpec == Spec /\ Fairness
-----------------------------------------------------------------------------
TypeOK ==
  /\ request \in [Orders -> {"open", "enqueued", "committed", "rolled_back"}]
  /\ published \subseteq Orders /\ dlq \subseteq Orders /\ logged \subseteq Orders
  /\ queue \in [Messages -> Nat]
  /\ losses \in 0..MaxLosses
  /\ seq \in [Tenants -> Nat]
  /\ number \in [Orders -> Nat] /\ stored \subseteq Orders /\ filed \subseteq Orders
  /\ pc \in [Workers -> Stages]
  /\ job \in [Workers -> Messages \cup {None}]
  /\ \A w \in Workers : pc[w] # "idle" => job[w] \in Messages
  /\ \A w \in Workers : held[w] => pc[w] # "idle"
  /\ \A w \in Workers : pc[w] = "insert" => drawn[w] > 0
  /\ held \in [Workers -> BOOLEAN]
  /\ drawn \in [Workers -> Nat]
  /\ end \in [Workers -> Ends]
  /\ ctx \in [Workers -> Tenants \cup {None}]
  /\ guc \in [Workers -> Tenants \cup {None}]
  /\ rid \in [Workers -> Orders \cup {None}]

\* How far an order's invoice has come; uploading once more, or saving the URL
\* once more, takes it no further.
Reached(o) == CASE o \in filed -> "filed"
                [] o \in stored \ filed -> "stored"
                [] o \notin stored \cup filed -> IF number[o] = 0 THEN "none" ELSE "numbered"

Issue == INSTANCE InvoiceIssue WITH number <- number, stage <- [o \in Orders |-> Reached(o)]

\* With every retry, redelivery and pair of concurrent runs, an order is
\* invoiced once, its number never changes and is no other order's, and a URL
\* is saved only for an uploaded document (the two idempotent halves of
\* generate_invoice).
IssueSpec == Issue!Spec

\* While a task touches rows its worker is in the context of the order's
\* tenant, on both layers, and logs under the id of the request that enqueued
\* it; between tasks no context is left behind (TenantAwareTask.__call__).
OwnContext ==
  \A w \in Workers :
    /\ pc[w] \in Working \cup {"raised"} =>
         ctx[w] = MyTenant(w) /\ guc[w] = MyTenant(w) /\ rid[w] = MyOrder(w)
    /\ pc[w] = "idle" => ctx[w] = None /\ guc[w] = None /\ rid[w] = None

\* Someone still answers for the invoice of o: a message that is ready, a
\* worker that will settle one, or a record an operator can find.
Carried(o) ==
  \/ o \in filed \cup dlq \cup logged
  \/ \E m \in Messages : m.order = o /\ queue[m] > 0
  \/ \E w \in Workers : pc[w] # "idle" /\ held[w] /\ MyOrder(w) = o

\* An invoice that was enqueued is never forgotten: it is filed, dead-lettered
\* or at least logged, or a message for it is still on its way, whatever the
\* order of failures (acks_late, autoretry and the death certificate).
NotForgotten == \A o \in published : Carried(o)

\* Every enqueued invoice is settled: filed, or given up where someone can see it.
Settled == \A o \in Orders : o \in published ~> o \in filed \cup dlq \cup logged
=============================================================================
