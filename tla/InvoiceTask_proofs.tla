------------------------- MODULE InvoiceTask_proofs -------------------------
(***************************************************************************)
(* Proofs about generate_invoice, for every set of orders, tenants and     *)
(* workers, every number of retries and of lost workers.                   *)
(*                                                                         *)
(* The inductive invariant is InvoiceInv.  Numbering says where every      *)
(* number drawn from a sequence can be: in one invoice row, in the hands   *)
(* of one worker, or nowhere.  Halves says what a worker's stage implies   *)
(* of the invoice.  Contexts follows the two contexts through __call__.    *)
(* Answered strengthens NotForgotten: a worker that has published a retry  *)
(* no longer counts as one that will settle the invoice, or the argument   *)
(* would break when it acknowledges its own copy.                          *)
(***************************************************************************)
EXTENDS InvoiceTask, TLAPS

Numbering ==
  /\ \A o \in Orders : number[o] <= seq[TenantOf[o]]
  /\ \A o, p \in Orders :
       TenantOf[o] = TenantOf[p] /\ number[o] = number[p] /\ number[o] # 0 => o = p
  /\ \A w \in Workers : pc[w] = "insert" =>
       /\ drawn[w] <= seq[MyTenant(w)]
       /\ \A o \in Orders : TenantOf[o] = MyTenant(w) => number[o] # drawn[w]
       /\ \A v \in Workers :
            pc[v] = "insert" /\ MyTenant(v) = MyTenant(w) /\ drawn[v] = drawn[w] => v = w

Halves ==
  /\ \A o \in stored : number[o] # 0
  /\ filed \subseteq stored
  /\ \A w \in Workers :
       /\ pc[w] \in {"upload", "save"} => number[MyOrder(w)] # 0
       /\ pc[w] = "save" => MyOrder(w) \in stored
       /\ pc[w] = "done" \/ (pc[w] = "ack" /\ end[w] = "done") => MyOrder(w) \in filed

InContext == Working \cup Ends \cup {"raised"}

Contexts ==
  \A w \in Workers :
    /\ pc[w] \in InContext => ctx[w] = MyTenant(w) /\ guc[w] = MyTenant(w)
    /\ pc[w] \notin InContext => ctx[w] = None /\ guc[w] = None
    /\ rid[w] = IF pc[w] = "idle" THEN None ELSE MyOrder(w)

\* A worker that still has to settle what it holds.
Carrier(w) ==
  pc[w] \notin {"idle", "retried"} /\ held[w] /\ (pc[w] = "ack" => end[w] # "retried")

Ready(o) == \E m \in Messages : m.order = o /\ queue[m] > 0

Answered(o) ==
  o \in filed \cup dlq \cup logged \/ Ready(o) \/ \E w \in Workers : Carrier(w) /\ MyOrder(w) = o

AllAnswered == \A o \in published : Answered(o)

InvoiceInv == TypeOK /\ Numbering /\ Halves /\ Contexts /\ AllAnswered

------------------------------------------------------------------------------
\* Putting a copy of a message in the queue, and taking a ready one.
LEMMA QueueSteps ==
  ASSUME queue \in [Messages -> Nat], NEW m \in Messages
  PROVE  /\ [queue EXCEPT ![m] = @ + 1] \in [Messages -> Nat]
         /\ queue[m] > 0 => [queue EXCEPT ![m] = @ - 1] \in [Messages -> Nat]
  OBVIOUS

\* Every step keeps the types.
LEMMA TypeStep ==
  ASSUME TypeOK, [Next]_vars
  PROVE  TypeOK'
  <1>. USE InvoiceAssumption DEF TypeOK, Messages, Stages, Working, Ends, MyOrder, MyTenant,
          broker, rows, worker
  <1>1. ASSUME NEW o \in Orders, EnqueueEarly(o)  PROVE TypeOK'
    <2>1. queue' \in [Messages -> Nat]
      <3>1. [order |-> o, tries |-> 0] \in Messages
        BY InvoiceAssumption DEF Messages
      <3>. HIDE DEF Messages
      <3>. QED
        BY <1>1, <3>1, QueueSteps DEF EnqueueEarly, Publish, TypeOK
    <2>. QED
      BY <1>1, <2>1 DEF EnqueueEarly, Publish
  <1>2. ASSUME NEW o \in Orders, EndRequest(o)  PROVE TypeOK'
    BY <1>2 DEF EndRequest
  <1>3. ASSUME NEW o \in Orders, EnqueueOnCommit(o)  PROVE TypeOK'
    <2>1. queue' \in [Messages -> Nat]
      <3>1. [order |-> o, tries |-> 0] \in Messages
        BY InvoiceAssumption DEF Messages
      <3>. HIDE DEF Messages
      <3>. QED
        BY <1>3, <3>1, QueueSteps DEF EnqueueOnCommit, Publish, TypeOK
    <2>. QED
      BY <1>3, <2>1 DEF EnqueueOnCommit, Publish
  <1>4. ASSUME NEW w \in Workers, Deliver(w)  PROVE TypeOK'
    <2>1. queue' \in [Messages -> Nat]
      <3>1. PICK m \in Messages : queue[m] > 0 /\ queue' = [queue EXCEPT ![m] = @ - 1]
        BY <1>4 DEF Deliver
      <3>. HIDE DEF Messages
      <3>. QED
        BY <3>1, QueueSteps DEF TypeOK
    <2>. QED
      BY <1>4, <2>1 DEF Deliver, Goto
  <1>5. ASSUME NEW w \in Workers, Enter(w)  PROVE TypeOK'
    BY <1>5, SMTT(30) DEF Enter, Goto
  <1>6. ASSUME NEW w \in Workers, ReadOrder(w)  PROVE TypeOK'
    BY <1>6 DEF ReadOrder, Goto
  <1>7. ASSUME NEW w \in Workers, NextNumber(w)  PROVE TypeOK'
    BY <1>7 DEF NextNumber, Goto
  <1>8. ASSUME NEW w \in Workers, InsertInvoice(w)  PROVE TypeOK'
    BY <1>8, SMTT(30) DEF InsertInvoice, Goto
  <1>9. ASSUME NEW w \in Workers, Upload(w)  PROVE TypeOK'
    BY <1>9 DEF Upload, Goto
  <1>10. ASSUME NEW w \in Workers, SaveUrl(w)  PROVE TypeOK'
    BY <1>10 DEF SaveUrl, Goto
  <1>11. ASSUME NEW w \in Workers, Raise(w)  PROVE TypeOK'
    BY <1>11 DEF Raise, Goto
  <1>12. ASSUME NEW w \in Workers, Retry(w)  PROVE TypeOK'
    <2>1. queue' \in [Messages -> Nat]
      <3>1. job[w].tries < MaxRetries => [job[w] EXCEPT !.tries = @ + 1] \in Messages
        BY <1>12, InvoiceAssumption DEF Retry, TypeOK, Messages
      <3>. HIDE DEF Messages
      <3>. QED
        BY <1>12, <3>1, QueueSteps DEF Retry, TypeOK
    <2>. QED
      BY <1>12, <2>1 DEF Retry, Goto
  <1>13. ASSUME NEW w \in Workers, Leave(w)  PROVE TypeOK'
    BY <1>13 DEF Leave, Goto
  <1>14. ASSUME NEW w \in Workers, Settle(w)  PROVE TypeOK'
    BY <1>14 DEF Settle, Wait, Goto
  <1>15. ASSUME NEW w \in Workers, Killed(w)  PROVE TypeOK'
    <2>1. queue' \in [Messages -> Nat]
      <3>1. held[w] => job[w] \in Messages
        BY <1>15 DEF Killed, TypeOK
      <3>. HIDE DEF Messages
      <3>. QED
        BY <1>15, <3>1, QueueSteps DEF Killed, Redelivered, TypeOK
    <2>. QED
      BY <1>15, <2>1 DEF Killed, Redelivered, Wait, Goto
  <1>16. ASSUME NEW w \in Workers, Disconnected(w)  PROVE TypeOK'
    <2>1. queue' \in [Messages -> Nat]
      <3>1. held[w] => job[w] \in Messages
        BY <1>16 DEF Disconnected, TypeOK
      <3>. HIDE DEF Messages
      <3>. QED
        BY <1>16, <3>1, QueueSteps DEF Disconnected, Redelivered, TypeOK
    <2>. QED
      BY <1>16, <2>1 DEF Disconnected, Redelivered
  <1>17. CASE UNCHANGED vars
    BY <1>17 DEF vars
  <1>. QED
    BY <1>1, <1>2, <1>3, <1>4, <1>5, <1>6, <1>7, <1>8, <1>9, <1>10, <1>11, <1>12, <1>13,
       <1>14, <1>15, <1>16, <1>17 DEF Next, Step

\* Every number drawn stays in one place: seq only grows, and a row takes its worker's number.
LEMMA NumberingStep ==
  ASSUME TypeOK, Numbering, [Next]_vars
  PROVE  Numbering'
  <1>. USE InvoiceAssumption DEF TypeOK, Numbering, Messages, MyOrder, MyTenant, broker, rows,
          worker
  <1>1. ASSUME NEW o \in Orders, EnqueueEarly(o)  PROVE Numbering'
    BY <1>1 DEF EnqueueEarly, Publish
  <1>2. ASSUME NEW o \in Orders, EndRequest(o)  PROVE Numbering'
    BY <1>2 DEF EndRequest
  <1>3. ASSUME NEW o \in Orders, EnqueueOnCommit(o)  PROVE Numbering'
    BY <1>3 DEF EnqueueOnCommit, Publish
  <1>4. ASSUME NEW w \in Workers, Deliver(w)  PROVE Numbering'
    BY <1>4 DEF Deliver, Goto
  <1>5. ASSUME NEW w \in Workers, Enter(w)  PROVE Numbering'
    BY <1>5 DEF Enter, Goto
  <1>6. ASSUME NEW w \in Workers, ReadOrder(w)  PROVE Numbering'
    BY <1>6 DEF ReadOrder, Goto
  <1>7. ASSUME NEW w \in Workers, NextNumber(w)  PROVE Numbering'
    BY <1>7 DEF NextNumber, Goto
  <1>8. ASSUME NEW w \in Workers, InsertInvoice(w)  PROVE Numbering'
    <2>1. MyOrder(w) \in Orders /\ seq' = seq /\ drawn' = drawn /\ job' = job
      BY <1>8 DEF InsertInvoice, TypeOK, MyOrder, Messages
    <2>2. \A v \in Workers : pc'[v] = "insert" => pc[v] = "insert" /\ v # w
      BY <1>8 DEF InsertInvoice, Goto, TypeOK
    <2>3. \A o \in Orders : number'[o] = number[o] \/ (o = MyOrder(w) /\ number'[o] = drawn[w])
      BY <1>8, <2>1 DEF InsertInvoice, TypeOK
    <2>4. \A o \in Orders : number'[o] <= seq[TenantOf[o]]
      BY <1>8, <2>3 DEF InsertInvoice, Numbering, MyTenant
    <2>5. \A o, p \in Orders :
            TenantOf[o] = TenantOf[p] /\ number'[o] = number'[p] /\ number'[o] # 0 => o = p
      BY <1>8, <2>1, <2>3 DEF InsertInvoice, Numbering, MyTenant
    <2>6. \A v \in Workers : pc'[v] = "insert" => \A o \in Orders : TenantOf[o] = MyTenant(v) => number'[o] # drawn[v]
      BY <1>8, <2>1, <2>2, <2>3 DEF InsertInvoice, Numbering, MyTenant
    <2>. QED
      BY <2>1, <2>2, <2>4, <2>5, <2>6 DEF Numbering, MyTenant, MyOrder
  <1>9. ASSUME NEW w \in Workers, Upload(w)  PROVE Numbering'
    BY <1>9 DEF Upload, Goto
  <1>10. ASSUME NEW w \in Workers, SaveUrl(w)  PROVE Numbering'
    BY <1>10 DEF SaveUrl, Goto
  <1>11. ASSUME NEW w \in Workers, Raise(w)  PROVE Numbering'
    BY <1>11 DEF Raise, Goto
  <1>12. ASSUME NEW w \in Workers, Retry(w)  PROVE Numbering'
    BY <1>12 DEF Retry, Goto
  <1>13. ASSUME NEW w \in Workers, Leave(w)  PROVE Numbering'
    BY <1>13 DEF Leave, Goto
  <1>14. ASSUME NEW w \in Workers, Settle(w)  PROVE Numbering'
    BY <1>14 DEF Settle, Wait, Goto
  <1>15. ASSUME NEW w \in Workers, Killed(w)  PROVE Numbering'
    BY <1>15 DEF Killed, Redelivered, Wait, Goto
  <1>16. ASSUME NEW w \in Workers, Disconnected(w)  PROVE Numbering'
    BY <1>16 DEF Disconnected, Redelivered
  <1>17. CASE UNCHANGED vars
    BY <1>17 DEF vars
  <1>. QED
    BY <1>1, <1>2, <1>3, <1>4, <1>5, <1>6, <1>7, <1>8, <1>9, <1>10, <1>11, <1>12, <1>13,
       <1>14, <1>15, <1>16, <1>17 DEF Next, Step

\* The two halves of the task happen in their order, whoever runs them.
LEMMA HalvesStep ==
  ASSUME TypeOK, Halves, [Next]_vars
  PROVE  Halves'
  <1>. USE InvoiceAssumption DEF TypeOK, Halves, Messages, MyOrder, Ends, Working, broker,
          rows, worker
  <1>1. ASSUME NEW o \in Orders, EnqueueEarly(o)  PROVE Halves'
    BY <1>1 DEF EnqueueEarly, Publish
  <1>2. ASSUME NEW o \in Orders, EndRequest(o)  PROVE Halves'
    BY <1>2 DEF EndRequest
  <1>3. ASSUME NEW o \in Orders, EnqueueOnCommit(o)  PROVE Halves'
    BY <1>3 DEF EnqueueOnCommit, Publish
  <1>4. ASSUME NEW w \in Workers, Deliver(w)  PROVE Halves'
    BY <1>4 DEF Deliver, Goto
  <1>5. ASSUME NEW w \in Workers, Enter(w)  PROVE Halves'
    BY <1>5 DEF Enter, Goto
  <1>6. ASSUME NEW w \in Workers, ReadOrder(w)  PROVE Halves'
    BY <1>6 DEF ReadOrder, Goto
  <1>7. ASSUME NEW w \in Workers, NextNumber(w)  PROVE Halves'
    BY <1>7 DEF NextNumber, Goto
  <1>8. ASSUME NEW w \in Workers, InsertInvoice(w)  PROVE Halves'
    BY <1>8 DEF InsertInvoice, Goto
  <1>9. ASSUME NEW w \in Workers, Upload(w)  PROVE Halves'
    BY <1>9 DEF Upload, Goto
  <1>10. ASSUME NEW w \in Workers, SaveUrl(w)  PROVE Halves'
    BY <1>10 DEF SaveUrl, Goto
  <1>11. ASSUME NEW w \in Workers, Raise(w)  PROVE Halves'
    BY <1>11 DEF Raise, Goto
  <1>12. ASSUME NEW w \in Workers, Retry(w)  PROVE Halves'
    BY <1>12 DEF Retry, Goto
  <1>13. ASSUME NEW w \in Workers, Leave(w)  PROVE Halves'
    <2>1. end'[w] = "done" => pc[w] = "done"
      BY <1>13 DEF Leave, Goto
    <2>2. pc'[w] = "ack" /\ \A v \in Workers \ {w} : pc'[v] = pc[v] /\ end'[v] = end[v]
      BY <1>13 DEF Leave, Goto, TypeOK
    <2>. QED
      BY <1>13, <2>1, <2>2 DEF Leave
  <1>14. ASSUME NEW w \in Workers, Settle(w)  PROVE Halves'
    BY <1>14 DEF Settle, Wait, Goto
  <1>15. ASSUME NEW w \in Workers, Killed(w)  PROVE Halves'
    BY <1>15 DEF Killed, Redelivered, Wait, Goto
  <1>16. ASSUME NEW w \in Workers, Disconnected(w)  PROVE Halves'
    BY <1>16 DEF Disconnected, Redelivered
  <1>17. CASE UNCHANGED vars
    BY <1>17 DEF vars
  <1>. QED
    BY <1>1, <1>2, <1>3, <1>4, <1>5, <1>6, <1>7, <1>8, <1>9, <1>10, <1>11, <1>12, <1>13,
       <1>14, <1>15, <1>16, <1>17 DEF Next, Step

\* __call__ leaves every context it entered.
LEMMA ContextsStep ==
  ASSUME TypeOK, Contexts, [Next]_vars
  PROVE  Contexts'
  <1>. USE InvoiceAssumption DEF TypeOK, Contexts, InContext, Messages, Ends, Working, MyOrder,
          MyTenant, broker, rows, worker
  <1>1. ASSUME NEW o \in Orders, EnqueueEarly(o)  PROVE Contexts'
    BY <1>1 DEF EnqueueEarly, Publish
  <1>2. ASSUME NEW o \in Orders, EndRequest(o)  PROVE Contexts'
    BY <1>2 DEF EndRequest
  <1>3. ASSUME NEW o \in Orders, EnqueueOnCommit(o)  PROVE Contexts'
    BY <1>3 DEF EnqueueOnCommit, Publish
  <1>4. ASSUME NEW w \in Workers, Deliver(w)  PROVE Contexts'
    BY <1>4 DEF Deliver, Goto
  <1>5. ASSUME NEW w \in Workers, Enter(w)  PROVE Contexts'
    BY <1>5 DEF Enter, Goto
  <1>6. ASSUME NEW w \in Workers, ReadOrder(w)  PROVE Contexts'
    BY <1>6 DEF ReadOrder, Goto
  <1>7. ASSUME NEW w \in Workers, NextNumber(w)  PROVE Contexts'
    BY <1>7 DEF NextNumber, Goto
  <1>8. ASSUME NEW w \in Workers, InsertInvoice(w)  PROVE Contexts'
    BY <1>8 DEF InsertInvoice, Goto
  <1>9. ASSUME NEW w \in Workers, Upload(w)  PROVE Contexts'
    BY <1>9 DEF Upload, Goto
  <1>10. ASSUME NEW w \in Workers, SaveUrl(w)  PROVE Contexts'
    BY <1>10 DEF SaveUrl, Goto
  <1>11. ASSUME NEW w \in Workers, Raise(w)  PROVE Contexts'
    BY <1>11 DEF Raise, Goto
  <1>12. ASSUME NEW w \in Workers, Retry(w)  PROVE Contexts'
    BY <1>12 DEF Retry, Goto
  <1>13. ASSUME NEW w \in Workers, Leave(w)  PROVE Contexts'
    BY <1>13 DEF Leave, Goto
  <1>14. ASSUME NEW w \in Workers, Settle(w)  PROVE Contexts'
    BY <1>14 DEF Settle, Wait, Goto
  <1>15. ASSUME NEW w \in Workers, Killed(w)  PROVE Contexts'
    BY <1>15 DEF Killed, Redelivered, Wait, Goto
  <1>16. ASSUME NEW w \in Workers, Disconnected(w)  PROVE Contexts'
    BY <1>16 DEF Disconnected, Redelivered
  <1>17. CASE UNCHANGED vars
    BY <1>17 DEF vars
  <1>. QED
    BY <1>1, <1>2, <1>3, <1>4, <1>5, <1>6, <1>7, <1>8, <1>9, <1>10, <1>11, <1>12, <1>13,
       <1>14, <1>15, <1>16, <1>17 DEF Next, Step

\* What answers for an invoice goes on answering when nothing that answers is
\* taken away.
LEMMA StillAnswered ==
  ASSUME NEW o \in Orders, Answered(o),
         filed \cup dlq \cup logged \subseteq filed' \cup dlq' \cup logged',
         \A m \in Messages : m.order = o /\ queue[m] > 0 => Answered(o)' \/ queue'[m] > 0,
         \A w \in Workers : Carrier(w) /\ MyOrder(w) = o =>
           Answered(o)' \/ (Carrier(w) /\ MyOrder(w) = o)'
  PROVE  Answered(o)'
  BY DEF Answered, Ready

\* Every step leaves someone who answers for each published invoice.
LEMMA AnsweredStep ==
  ASSUME TypeOK, TypeOK', Halves, AllAnswered, [Next]_vars
  PROVE  AllAnswered'
  <1>. USE DEF AllAnswered
  <1>1. ASSUME NEW p \in Orders, EnqueueEarly(p) \/ EnqueueOnCommit(p)
        PROVE  AllAnswered'
    <2>1. [order |-> p, tries |-> 0] \in Messages
      BY InvoiceAssumption DEF Messages
    <2>2. \A m \in Messages : queue'[m] >= queue[m]
      BY <1>1, <2>1 DEF EnqueueEarly, EnqueueOnCommit, Publish, TypeOK
    <2>3. \A w \in Workers : Carrier(w)' = Carrier(w) /\ MyOrder(w)' = MyOrder(w)
      BY <1>1 DEF EnqueueEarly, EnqueueOnCommit, Carrier, MyOrder, worker
    <2>4. ASSUME NEW o \in published'  PROVE Answered(o)'
      <3>1. CASE o \in published
        <4>1. o \in Orders /\ Answered(o)
          BY <3>1 DEF TypeOK
        <4>2. \A m \in Messages : m.order = o /\ queue[m] > 0 => queue'[m] > 0
          BY <2>2 DEF TypeOK
        <4>3. filed' = filed /\ dlq' = dlq /\ logged' = logged
          BY <1>1 DEF EnqueueEarly, EnqueueOnCommit, rows
        <4>. QED
          BY <4>1, <4>2, <4>3, <2>3, StillAnswered
      <3>2. CASE o \notin published
        <4>1. o = p /\ queue' = [queue EXCEPT ![[order |-> p, tries |-> 0]] = @ + 1]
          BY <1>1, <2>4, <3>2 DEF EnqueueEarly, EnqueueOnCommit, Publish
        <4>. QED
          BY <4>1, <2>1 DEF Answered, Ready, TypeOK
      <3>. QED
        BY <3>1, <3>2
    <2>. QED
      BY <2>4
  <1>2. ASSUME published' = published,
               \A o \in published : Answered(o)'
        PROVE  AllAnswered'
    BY <1>2
  <1>3. ASSUME NEW w \in Workers, Deliver(w)  PROVE AllAnswered'
    <2>1. PICK m \in Messages : /\ queue[m] > 0
                                /\ queue' = [queue EXCEPT ![m] = @ - 1]
                                /\ job' = [job EXCEPT ![w] = m]
      BY <1>3 DEF Deliver
    <2>2. Carrier(w)' /\ MyOrder(w)' = m.order
      BY <1>3, <2>1 DEF Deliver, Goto, Carrier, MyOrder, TypeOK
    <2>3. ASSUME NEW o \in published  PROVE Answered(o)'
      <3>1. o \in Orders /\ Answered(o)
        BY DEF TypeOK
      <3>2. \A n \in Messages : n.order = o /\ queue[n] > 0 => Answered(o)' \/ queue'[n] > 0
        BY <2>1, <2>2 DEF Answered, TypeOK
      <3>3. \A v \in Workers : Carrier(v) => v # w /\ Carrier(v)' /\ MyOrder(v)' = MyOrder(v)
        BY <1>3, <2>1 DEF Deliver, Goto, Carrier, MyOrder, TypeOK
      <3>4. filed' = filed /\ dlq' = dlq /\ logged' = logged
        BY <1>3 DEF Deliver, rows
      <3>. QED
        BY <3>1, <3>2, <3>3, <3>4, StillAnswered
    <2>. QED
      BY <1>3, <2>3, <1>2 DEF Deliver
  <1>4. ASSUME NEW w \in Workers,
               Enter(w) \/ ReadOrder(w) \/ NextNumber(w) \/ InsertInvoice(w) \/ Upload(w)
                 \/ SaveUrl(w) \/ Raise(w)
        PROVE  AllAnswered'
    <2>1. \A v \in Workers : Carrier(v) => Carrier(v)' /\ MyOrder(v)' = MyOrder(v)
      BY <1>4 DEF Enter, ReadOrder, NextNumber, InsertInvoice, Upload, SaveUrl, Raise, Goto, Working,
                  Carrier, MyOrder, TypeOK
    <2>2. queue' = queue /\ published' = published /\ dlq' = dlq /\ logged' = logged /\ filed \subseteq filed'
      BY <1>4 DEF Enter, ReadOrder, NextNumber, InsertInvoice, Upload, SaveUrl, Raise, broker, rows
    <2>3. ASSUME NEW o \in published  PROVE Answered(o)'
      <3>1. o \in Orders /\ Answered(o)
        BY DEF TypeOK
      <3>. QED
        BY <3>1, <2>1, <2>2, StillAnswered
    <2>. QED
      BY <2>2, <2>3
  <1>5. ASSUME NEW w \in Workers, Retry(w)  PROVE AllAnswered'
    <2>1. job[w] \in Messages
      BY <1>5 DEF Retry, TypeOK
    <2>2. \A v \in Workers : v # w => Carrier(v)' = Carrier(v) /\ MyOrder(v)' = MyOrder(v)
      BY <1>5 DEF Retry, Goto, Carrier, MyOrder, TypeOK
    <2>3. CASE pc'[w] = "retried"
      <3>1. [job[w] EXCEPT !.tries = @ + 1] \in Messages
        BY <1>5, <2>1, <2>3, InvoiceAssumption DEF Retry, Goto, TypeOK, Messages
      <3>2. queue' = [queue EXCEPT ![[job[w] EXCEPT !.tries = @ + 1]] = @ + 1]
        BY <1>5, <2>3 DEF Retry, Goto, TypeOK
      <3>3. Ready(MyOrder(w))'
        <4>1. [job[w] EXCEPT !.tries = @ + 1].order = MyOrder(w) /\ MyOrder(w)' = MyOrder(w)
          BY <1>5, <2>1 DEF Retry, MyOrder, Messages
        <4>2. queue'[[job[w] EXCEPT !.tries = @ + 1]] > 0
          BY <3>1, <3>2 DEF TypeOK
        <4>. QED
          BY <4>1, <4>2, <3>1 DEF Ready
      <3>4. ASSUME NEW o \in published  PROVE Answered(o)'
        <4>1. o \in Orders /\ Answered(o)
          BY DEF TypeOK
        <4>2. \A n \in Messages : queue[n] > 0 => queue'[n] > 0
          BY <3>1, <3>2 DEF TypeOK
        <4>3. MyOrder(w) = o => Answered(o)'
          BY <3>3, <1>5 DEF Answered, Retry, MyOrder, Ready
        <4>4. filed' = filed /\ dlq' = dlq /\ logged' = logged
          BY <1>5 DEF Retry, rows
        <4>. QED
          BY <4>1, <4>2, <4>3, <4>4, <2>2, StillAnswered
      <3>. QED
        BY <1>5, <3>4 DEF Retry
    <2>4. CASE pc'[w] # "retried"
      <3>1. /\ queue' = queue /\ filed' = filed /\ dlq' = dlq /\ logged' = logged
            /\ published' = published
        BY <1>5, <2>4 DEF Retry, Goto, TypeOK, rows
      <3>2. Carrier(w) => Carrier(w)' /\ MyOrder(w)' = MyOrder(w)
        BY <1>5, <2>4 DEF Retry, Goto, Carrier, MyOrder, TypeOK
      <3>3. ASSUME NEW o \in published  PROVE Answered(o)'
        <4>1. o \in Orders /\ Answered(o)
          BY DEF TypeOK
        <4>. QED
          BY <4>1, <3>1, <3>2, <2>2, StillAnswered
      <3>. QED
        BY <3>1, <3>3
    <2>. QED
      BY <2>3, <2>4
  <1>6. ASSUME NEW w \in Workers, Leave(w)  PROVE AllAnswered'
    <2>1. \A v \in Workers : Carrier(v) => Carrier(v)' /\ MyOrder(v)' = MyOrder(v)
      BY <1>6 DEF Leave, Goto, Carrier, MyOrder, TypeOK, Ends
    <2>2. /\ queue' = queue /\ filed' = filed /\ dlq' = dlq /\ logged' = logged
          /\ published' = published
      BY <1>6 DEF Leave, broker, rows
    <2>3. ASSUME NEW o \in published  PROVE Answered(o)'
      <3>1. o \in Orders /\ Answered(o)
        BY DEF TypeOK
      <3>. QED
        BY <3>1, <2>1, <2>2, StillAnswered
    <2>. QED
      BY <2>2, <2>3
  <1>7. ASSUME NEW w \in Workers, Settle(w)  PROVE AllAnswered'
    <2>1. \A v \in Workers : v # w => Carrier(v)' = Carrier(v) /\ MyOrder(v)' = MyOrder(v)
      BY <1>7 DEF Settle, Wait, Goto, Carrier, MyOrder, TypeOK
    <2>2. /\ queue' = queue /\ filed' = filed /\ published' = published
          /\ dlq \subseteq dlq' /\ logged \subseteq logged'
      BY <1>7 DEF Settle, rows
    <2>3. end[w] \in {"done", "failed", "retried", "rejected"}
      BY DEF TypeOK, Ends
    <2>4. Carrier(w) => MyOrder(w) \in filed' \cup dlq' \cup logged'
      <3>1. CASE end[w] = "done"
        BY <3>1, <1>7, <2>2 DEF Settle, Halves
      <3>2. CASE end[w] = "failed"
        BY <3>2, <1>7 DEF Settle
      <3>3. CASE end[w] = "rejected"
        BY <3>3, <1>7 DEF Settle, Carrier
      <3>4. CASE end[w] = "retried"
        BY <3>4, <1>7 DEF Settle, Carrier
      <3>. QED
        BY <2>3, <3>1, <3>2, <3>3, <3>4
    <2>5. ASSUME NEW o \in published  PROVE Answered(o)'
      <3>1. o \in Orders /\ Answered(o)
        BY DEF TypeOK
      <3>2. Carrier(w) /\ MyOrder(w) = o => Answered(o)'
        BY <2>4 DEF Answered
      <3>. QED
        BY <3>1, <3>2, <2>1, <2>2, StillAnswered
    <2>. QED
      BY <2>2, <2>5
  <1>8. ASSUME NEW w \in Workers, Killed(w) \/ Disconnected(w)  PROVE AllAnswered'
    <2>1. \A v \in Workers : v # w => Carrier(v)' = Carrier(v) /\ MyOrder(v)' = MyOrder(v)
      BY <1>8 DEF Killed, Disconnected, Wait, Goto, Carrier, MyOrder, TypeOK
    <2>2. /\ filed' = filed /\ dlq' = dlq /\ logged' = logged /\ published' = published
      BY <1>8 DEF Killed, Disconnected, rows
    <2>3. held[w] => job[w] \in Messages /\ queue' = [queue EXCEPT ![job[w]] = @ + 1]
      BY <1>8 DEF Killed, Disconnected, Redelivered, TypeOK
    <2>4. ~ held[w] => queue' = queue
      BY <1>8 DEF Killed, Disconnected, Redelivered
    <2>5. ASSUME NEW o \in Orders, Carrier(w), MyOrder(w) = o  PROVE Ready(o)'
      <3>1. job[w] \in Messages /\ job[w].order = o /\ queue'[job[w]] > 0
        BY <2>3, <2>5 DEF Carrier, MyOrder, TypeOK
      <3>. QED
        BY <3>1 DEF Ready
    <2>6. \A n \in Messages : queue[n] > 0 => queue'[n] > 0
      BY <2>3, <2>4 DEF TypeOK
    <2>7. ASSUME NEW o \in published  PROVE Answered(o)'
      <3>1. o \in Orders /\ Answered(o)
        BY DEF TypeOK
      <3>2. Carrier(w) /\ MyOrder(w) = o => Answered(o)'
        BY <2>5, <3>1 DEF Answered
      <3>. QED
        BY <3>1, <3>2, <2>1, <2>2, <2>6, StillAnswered
    <2>. QED
      BY <2>2, <2>7
  <1>9. ASSUME NEW o \in Orders, EndRequest(o)  PROVE AllAnswered'
    BY <1>9 DEF EndRequest, broker, rows, worker, Answered, Ready, Carrier, MyOrder
  <1>10. CASE UNCHANGED vars
    BY <1>10 DEF vars, broker, rows, worker, Answered, Ready, Carrier, MyOrder
  <1>. QED
    BY <1>1, <1>3, <1>4, <1>5, <1>6, <1>7, <1>8, <1>9, <1>10 DEF Next, Step

------------------------------------------------------------------------------
\* The invariant holds at first.
LEMMA InitInv == Init => InvoiceInv
  <1>1. Init => TypeOK
    BY InvoiceAssumption DEF Init, Sequences, TypeOK, Stages, Ends, Messages
  <1>2. Init => Numbering /\ Halves /\ Contexts /\ AllAnswered
    BY InvoiceAssumption DEF Init, Sequences, Numbering, Halves, Contexts, AllAnswered, InContext, Working, Ends
  <1>. QED
    BY <1>1, <1>2 DEF InvoiceInv

\* Every step keeps it.
LEMMA StepInv == InvoiceInv /\ [Next]_vars => InvoiceInv'
  BY TypeStep, NumberingStep, HalvesStep, ContextsStep, AnsweredStep DEF InvoiceInv

\* The invariant of the invoice task: types, numbering, halves of an invoice, the
\* workers' tenant contexts and a request's answer, in every reachable state.
THEOREM Inductive == Spec => []InvoiceInv
  BY InitInv, StepInv, PTL DEF Spec

\* The rows, queue, workers and contexts of generate_invoice keep their types.
THEOREM TypeCorrect == Spec => []TypeOK
  <1>1. InvoiceInv => TypeOK
    BY DEF InvoiceInv
  <1>. QED
    BY <1>1, Inductive, PTL

\* A task touches rows in its tenant's context and under its request's id
\* only, and leaves neither behind (TenantAwareTask.__call__, task_prerun).
THEOREM OwnContextHolds == Spec => []OwnContext
  <1>1. InvoiceInv => OwnContext
    BY DEF InvoiceInv, Contexts, OwnContext, InContext, Working, Ends
  <1>. QED
    BY <1>1, Inductive, PTL

\* An enqueued invoice is never forgotten, whatever is retried, redelivered,
\* rejected or killed (acks_late, autoretry_for, _DeadLetterMixin).
THEOREM NeverForgotten == Spec => []NotForgotten
  <1>1. InvoiceInv => NotForgotten
    BY DEF InvoiceInv, AllAnswered, Answered, Ready, Carrier, NotForgotten, Carried
  <1>. QED
    BY <1>1, Inductive, PTL

------------------------------------------------------------------------------
(* Refinement *)

\* No invoice has been issued at first.
LEMMA IssueInit == Init => Issue!Init
  BY DEF Init, Issue!Init, Reached

\* Every step of the workers is a step of InvoiceIssue or leaves its rows alone.
LEMMA IssueStep ==
  ASSUME InvoiceInv, [Next]_vars
  PROVE  [Issue!Next]_(Issue!issue)
  <1>. USE DEF InvoiceInv
  <1>1. ASSUME NEW w \in Workers, InsertInvoice(w)  PROVE [Issue!Next]_(Issue!issue)
    <2>1. PICK o \in Orders : o = MyOrder(w)
      BY <1>1 DEF InsertInvoice, MyOrder, TypeOK, Messages
    <2>2. CASE number[o] # 0
      BY <1>1, <2>1, <2>2 DEF InsertInvoice, Issue!issue, Reached
    <2>3. CASE number[o] = 0
      <3>1. /\ number' = [number EXCEPT ![o] = drawn[w]] /\ number'[o] = drawn[w]
            /\ stored' = stored /\ filed' = filed
        BY <1>1, <2>1, <2>3 DEF InsertInvoice, TypeOK
      <3>2. drawn[w] \in Nat \ {0}
        BY <1>1 DEF InsertInvoice, TypeOK
      <3>3. Reached(o) = "none" /\ Reached(o)' = "numbered"
        BY <2>3, <3>1, <3>2 DEF Halves, Reached
      <3>4. \A p \in Orders \ {o} : Reached(p)' = Reached(p)
        BY <3>1 DEF Reached, TypeOK
      <3>5. Issue!Free(o, drawn[w])
        BY <1>1, <2>1, <3>3 DEF InsertInvoice, Numbering, MyTenant, Issue!Free
      <3>6. Issue!Number(o)
        BY <3>1, <3>2, <3>3, <3>4, <3>5 DEF Issue!Number
      <3>. QED
        BY <3>6 DEF Issue!Next
    <2>. QED
      BY <2>2, <2>3
  <1>2. ASSUME NEW w \in Workers, Upload(w)  PROVE [Issue!Next]_(Issue!issue)
    <2>1. PICK o \in Orders : o = MyOrder(w) /\ number[o] # 0
      BY <1>2 DEF Upload, MyOrder, TypeOK, Messages, Halves
    <2>2. number' = number /\ stored' = stored \cup {o} /\ filed' = filed
      BY <1>2, <2>1 DEF Upload
    <2>3. CASE o \in stored
      BY <2>2, <2>3 DEF Issue!issue, Reached
    <2>4. CASE o \notin stored
      <3>1. Reached(o) = "numbered" /\ Reached(o)' = "stored"
        BY <2>1, <2>2, <2>4 DEF Halves, Reached
      <3>2. \A p \in Orders \ {o} : Reached(p)' = Reached(p)
        BY <2>2 DEF Reached
      <3>3. Issue!Store(o)
        BY <2>2, <3>1, <3>2 DEF Issue!Store
      <3>. QED
        BY <3>3 DEF Issue!Next
    <2>. QED
      BY <2>3, <2>4
  <1>3. ASSUME NEW w \in Workers, SaveUrl(w)  PROVE [Issue!Next]_(Issue!issue)
    <2>1. PICK o \in Orders : o = MyOrder(w) /\ o \in stored
      BY <1>3 DEF SaveUrl, MyOrder, TypeOK, Messages, Halves
    <2>2. number' = number /\ stored' = stored /\ filed' = filed \cup {o}
      BY <1>3, <2>1 DEF SaveUrl
    <2>3. CASE o \in filed
      BY <2>2, <2>3 DEF Issue!issue, Reached
    <2>4. CASE o \notin filed
      <3>1. Reached(o) = "stored" /\ Reached(o)' = "filed"
        BY <2>1, <2>2, <2>4 DEF Reached
      <3>2. \A p \in Orders \ {o} : Reached(p)' = Reached(p)
        BY <2>2 DEF Reached
      <3>3. Issue!File(o)
        BY <2>2, <3>1, <3>2 DEF Issue!File
      <3>. QED
        BY <3>3 DEF Issue!Next
    <2>. QED
      BY <2>3, <2>4
  <1>4. ASSUME NEW o \in Orders, EnqueueEarly(o) \/ EndRequest(o) \/ EnqueueOnCommit(o)
        PROVE  UNCHANGED Issue!issue
    BY <1>4 DEF EnqueueEarly, EndRequest, EnqueueOnCommit, rows, Issue!issue, Reached
  <1>5. ASSUME NEW w \in Workers,
               Deliver(w) \/ Enter(w) \/ ReadOrder(w) \/ NextNumber(w) \/ Raise(w) \/ Retry(w)
                 \/ Leave(w) \/ Settle(w) \/ Killed(w) \/ Disconnected(w)
        PROVE  UNCHANGED Issue!issue
    BY <1>5 DEF Deliver, Enter, ReadOrder, NextNumber, Raise, Retry, Leave, Settle, Killed,
                Disconnected, rows, Issue!issue, Reached
  <1>6. CASE UNCHANGED vars
    BY <1>6 DEF vars, rows, Issue!issue, Reached
  <1>. QED
    BY <1>1, <1>2, <1>3, <1>4, <1>5, <1>6 DEF Next, Step

\* With every interleaving of workers, retries and losses, generate_invoice
\* does what InvoiceIssue promises: one invoice per order, its number its own
\* and for good, its URL that of a document already uploaded.  What is done
\* twice stutters.
THEOREM Implements == Spec => IssueSpec
  <1>1. InvoiceInv /\ [Next]_vars => [Issue!Next]_(Issue!issue)
    BY IssueStep
  <1>. QED
    BY IssueInit, <1>1, Inductive, PTL DEF Spec, IssueSpec, Issue!Spec

=============================================================================
