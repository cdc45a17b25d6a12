------------------------------- MODULE Wallet -------------------------------
(***************************************************************************)
(* The saved payment methods of a tenant's customers and its gateway       *)
(* configurations: the endpoints that change them, each a transaction of   *)
(* several statements under READ COMMITTED, and the payment calls of       *)
(* checkout and of the reconciliation sweep, which read them and then go   *)
(* through the gateway adapters.                                           *)
(*                                                                         *)
(* One action is one statement or one gateway call; a request's last write *)
(* and its commit are one step.  A row a transaction has written or        *)
(* selected FOR UPDATE stays locked until then, and what it has written is *)
(* seen by no other.                                                       *)
(***************************************************************************)
EXTENDS Naturals, FiniteSets, Accounts

CONSTANTS
  Business,             \* the customers with is_b2b
  Methods, Configs,     \* ids of rows
  Payments,             \* ids of payments
  Workers, Processes,
  Process,              \* the process each worker is a thread of
  Merchants,            \* whose credentials a configuration may hold
  Offered,              \* gateway names the requests mention
  Bodies,               \* bodies of a PATCH: gateway_name, whose credentials, is_active, is_default
  Provisioned,          \* the tables there may be at first
  MaxRequests           \* bound: requests in one behaviour

\* GatewayName, and those of it that the registry knows.
Names == {"mock", "stripe", "stripe_live", "hyperpay", "tap"}
Registered == {"mock", "stripe", "stripe_live"}

\* Where an adapter's calls have to go: STRIPE_API_BASE or api.stripe.com; the
\* mock calls nobody.
Hosts == {"env", "live"}
Host(name) == CASE name = "stripe" -> "env" [] name = "stripe_live" -> "live" [] OTHER -> None

\* An account at a gateway, which is where a call goes with a configuration's
\* credentials (build_credentials), and what issues tokens and transactions.
Seats == [name : Names, account : Merchants]

Rows == Methods \cup Configs
Tri == BOOLEAN \cup {None}   \* a field of a body that may be left out

Ops == {"save", "default", "delete", "charge", "retrieve", "add", "patch", "drop"}
Request == [op : Ops, row : Rows \cup Payments, who : Customers \cup {None},
            gateway : Names \cup {None}, account : Merchants \cup {None}, token : BOOLEAN,
            default : Tri, active : Tri]

\* token: the seat the card was saved for; that the client's token was really
\* issued there is checked nowhere.  A purchase order has neither.
MethodRow == [who : Customers, config : Configs \cup {None}, token : Seats \cup {None}]
ConfigRow == [seat : Seats, active : BOOLEAN]
\* at: the seat that holds the transaction.
PaymentRow == [config : Configs, at : Seats, status : {"pending", "captured"}]

Tables == [method : [Methods -> MethodRow \cup {None}],
           config : [Configs -> ConfigRow \cup {None}], default : SUBSET Rows]
Present(table) == {x \in DOMAIN table : table[x] # None}

\* Where a row may be the one default: at its customer's, or in the tenant.
Scope(methods, x) == IF x \in Configs THEN None ELSE methods[x].who

\* What the constraints of the two tables admit.
Sound(t) ==
  /\ t.default \subseteq Present(t.method) \cup Present(t.config)
  /\ \A x, y \in t.default : Scope(t.method, x) = Scope(t.method, y) => x = y
  /\ \A c, d \in Present(t.config) : t.config[c].seat.name = t.config[d].seat.name => c = d
  /\ \A m \in Present(t.method) : LET row == t.method[m] IN
       IF row.config = None THEN row.token = None
       ELSE t.config[row.config] # None /\ row.token = t.config[row.config].seat

ASSUME WalletAssumption ==
  /\ Business \subseteq Customers
  /\ Offered \subseteq Names
  /\ Bodies \subseteq (Names \cup {None}) \X (Merchants \cup {None}) \X Tri \X Tri
  /\ Process \in [Workers -> Processes]
  /\ MaxRequests \in Nat
  /\ \A t \in Provisioned : t \in Tables /\ Sound(t)
  /\ Methods \cap Configs = {} /\ Rows \cap Payments = {}
  /\ None \notin Rows \cup Payments \cup Customers \cup Workers
  /\ None \notin Names \cup Merchants \cup Seats /\ None \notin Hosts /\ None \notin BOOLEAN
  /\ None \notin Request \cup MethodRow \cup ConfigRow \cup PaymentRow

VARIABLES
  allowMock,                 \* PAYMENTS_ALLOW_MOCK_GATEWAY
  method, config, payment,   \* committed rows, None if there is none
  isDefault,                 \* committed rows with is_default
  used,                      \* ids that were ever given out
  locked,                    \* per row: the worker whose transaction holds it
  sdk,                       \* per process: the Stripe SDK's api_base
  arrived,                   \* requests so far
  req, pc,
  got,                       \* per worker: what the view has read
  todo, cleared,             \* per worker: rows its UPDATE found, and rows it cleared
  call,                      \* per worker: its last gateway call
  on,                        \* per worker: gateways active since its request came
  moved                      \* configurations a PATCH has given another seat, or deleted ones

tables == <<method, config, payment, isDefault>>
work   == <<req, pc, got, todo, cleared, call>>
wallet   == <<allowMock, tables, used, locked, sdk, arrived, work, on, moved>>

Stages == {"idle", "lock", "read", "resolve", "scan", "clear", "write",
           "aim", "call", "result", "reread"}
Calls == {"authorize", "capture", "retrieve"}

\* seat: of the configuration it has read; token: the seat the card was saved
\* for, then the one that holds the transaction; of: the configuration the
\* method or the payment names.
Nothing == [seat |-> None, config |-> None, of |-> None, token |-> None, active |-> None,
            default |-> None, next |-> None]
Got == [seat : Seats \cup {None}, config : Configs \cup {None}, of : Configs \cup {None},
        token : Seats \cup {None}, active : Tri, default : Tri, next : Calls \cup {None}]
Made == [op : Calls, seat : Seats, host : Hosts \cup {None}, token : Seats, of : Configs]

\* The defaults of a customer, or of the tenant.
DefaultsOf(who) == {x \in isDefault : Scope(method, x) = who}
ActiveNames == {config[c].seat.name : c \in {d \in Configs : config[d] # None /\ config[d].active}}
Named(name) == {c \in Configs : config[c] # None /\ config[c].seat.name = name}

WalletInit ==
  /\ \E t \in Provisioned :
       /\ method = t.method /\ config = t.config /\ isDefault = t.default
       /\ used = Present(t.method) \cup Present(t.config)
  /\ allowMock \in BOOLEAN
  /\ payment = [p \in Payments |-> None]
  /\ moved = {}
  /\ locked = [x \in Rows |-> None]
  /\ sdk = [p \in Processes |-> "live"]
  /\ arrived = 0
  /\ req = [w \in Workers |-> None] /\ pc = [w \in Workers |-> "idle"]
  /\ got = [w \in Workers |-> Nothing]
  /\ todo = [w \in Workers |-> {}] /\ cleared = [w \in Workers |-> {}]
  /\ call = [w \in Workers |-> None]
  /\ on = [w \in Workers |-> {}]

-----------------------------------------------------------------------------
(* A request's life. *)

Goto(w, s) == pc' = [pc EXCEPT ![w] = s]

\* What a gateway is on for: bookkeeping of the model, no variable of the code.
Watch == on' = [w \in Workers |-> IF pc'[w] = "idle" THEN {} ELSE on[w] \cup ActiveNames']

\* The answer: the transaction ends and its locks with it.
End(w) ==
  /\ Goto(w, "idle")
  /\ req' = [req EXCEPT ![w] = None]
  /\ got' = [got EXCEPT ![w] = Nothing]
  /\ todo' = [todo EXCEPT ![w] = {}] /\ cleared' = [cleared EXCEPT ![w] = {}]
  /\ call' = [call EXCEPT ![w] = None]
  /\ locked' = [x \in Rows |-> IF locked[x] = w THEN None ELSE locked[x]]

\* An error answer: everything it wrote is rolled back.
Abort(w) == End(w) /\ UNCHANGED <<tables, moved>>

Free(w, x) == locked[x] \in {None, w}

\* Where each operation starts.
FirstStage(r) ==
  CASE r.op = "default" -> "lock"
    [] r.op = "save" -> IF r.gateway = None THEN "scan" ELSE "resolve"
    [] r.op = "add" -> "scan"
    [] r.op = "delete" -> "write"
    [] OTHER -> "read"

Start(w, r) ==
  /\ pc[w] = "idle" /\ arrived < MaxRequests
  /\ arrived' = arrived + 1
  /\ req' = [req EXCEPT ![w] = r]
  /\ Goto(w, FirstStage(r))
  /\ UNCHANGED <<tables, locked, sdk, got, todo, cleared, call, moved>>

Body(op, row) == [op |-> op, row |-> row, who |-> None, gateway |-> None, account |-> None,
                  token |-> FALSE, default |-> None, active |-> None]

\* The seat a POST names, and the one a PATCH leaves its configuration with.
Posted(r) == [name |-> r.gateway, account |-> r.account]
Sent(field, read) == IF field = None THEN read ELSE field
Patched(r, seat) == [name |-> Sent(r.gateway, seat.name), account |-> Sent(r.account, seat.account)]

\* POST payment-methods; a purchase order is for business customers only.
StartSave(w) ==
  \E m \in Methods \ used, c \in Customers, g \in Offered \cup {None}, given, d \in BOOLEAN :
    /\ g = None => c \in Business /\ ~given
    /\ Start(w, [Body("save", m) EXCEPT !.who = c, !.gateway = g, !.token = given, !.default = d])
    /\ used' = used \cup {m}

\* PUT default, DELETE, and a checkout with that method selected.
StartOnMethod(w) ==
  \E op \in {"default", "delete", "charge"}, m \in used \cap Methods, c \in Customers :
    /\ op = "charge" /\ method[m] # None => c = method[m].who
    /\ Start(w, [Body(op, m) EXCEPT !.who = c, !.default = IF op = "default" THEN TRUE ELSE None])
    /\ UNCHANGED used

\* The sweep picks a payment that is stuck.
StartRetrieve(w) ==
  \E p \in Payments :
    /\ payment[p] # None /\ payment[p].status = "pending"
    /\ Start(w, Body("retrieve", p)) /\ UNCHANGED used

\* POST, PATCH and DELETE of a gateway configuration.
StartAdd(w) ==
  \E c \in Configs \ used, g \in Offered, a \in Merchants, active, d \in BOOLEAN :
    /\ Start(w, [Body("add", c) EXCEPT !.gateway = g, !.account = a, !.active = active, !.default = d])
    /\ used' = used \cup {c}

StartPatch(w) ==
  \E c \in used \cap Configs, b \in Bodies :
    /\ Start(w, [Body("patch", c) EXCEPT !.gateway = b[1], !.account = b[2],
                                       !.active = b[3], !.default = b[4]])
    /\ UNCHANGED used

StartDrop(w) == \E c \in used \cap Configs : Start(w, Body("drop", c)) /\ UNCHANGED used

-----------------------------------------------------------------------------
(* One default among the rows of a scope. *)

\* filter(id=method_id, customer_id=customer_id)
Owns(w) == LET m == req[w].row IN method[m] # None /\ method[m].who = req[w].who

\* Variant: no FOR UPDATE.
LockTargetNot(w) ==
  LET m == req[w].row IN
  /\ pc[w] = "lock"
  /\ IF ~Owns(w) THEN Abort(w)
     ELSE /\ got' = [got EXCEPT ![w].default = m \in isDefault]
          /\ Goto(w, "scan")
          /\ UNCHANGED <<tables, locked, req, todo, cleared, call, moved>>
  /\ UNCHANGED <<used, sdk, arrived>>

\* select_for_update().get(...): waits for the row, then reads it.
LockTarget(w) ==
  LET m == req[w].row IN
  /\ pc[w] = "lock" /\ Free(w, m)
  /\ IF ~Owns(w) THEN Abort(w)
     ELSE /\ locked' = [locked EXCEPT ![m] = w]
          /\ got' = [got EXCEPT ![w].default = m \in isDefault]
          /\ Goto(w, "scan")
          /\ UNCHANGED <<tables, req, todo, cleared, call, moved>>
  /\ UNCHANGED <<used, sdk, arrived>>

\* Variant: every other row of the customer is updated.
ScanAll(w) ==
  /\ pc[w] = "scan"
  /\ todo' = [todo EXCEPT ![w] =
               IF req[w].default # TRUE THEN {}
               ELSE {x \in Rows \ {req[w].row} :
                       IF req[w].who = None THEN x \in Configs /\ config[x] # None
                       ELSE x \in Methods /\ method[x] # None /\ method[x].who = req[w].who}]
  /\ Goto(w, "clear")
  /\ UNCHANGED <<tables, used, locked, sdk, arrived, req, got, cleared, call, moved>>

\* filter(is_default=True).exclude(id): what the UPDATE's snapshot shows.
Scan(w) ==
  /\ pc[w] = "scan"
  /\ todo' = [todo EXCEPT ![w] = IF req[w].default = TRUE
                                  THEN DefaultsOf(req[w].who) \ {req[w].row} ELSE {}]
  /\ Goto(w, "clear")
  /\ UNCHANGED <<tables, used, locked, sdk, arrived, req, got, cleared, call, moved>>

\* .update(is_default=False): waits for a row, then tests it again.
Clear(w) ==
  /\ pc[w] = "clear"
  /\ \/ \E x \in todo[w] :
          /\ Free(w, x)
          /\ todo' = [todo EXCEPT ![w] = @ \ {x}]
          /\ IF x \in isDefault
             THEN /\ locked' = [locked EXCEPT ![x] = w]
                  /\ cleared' = [cleared EXCEPT ![w] = @ \cup {x}]
             ELSE UNCHANGED <<locked, cleared>>
          /\ UNCHANGED pc
     \/ todo[w] = {} /\ Goto(w, "write") /\ UNCHANGED <<todo, cleared, locked>>
  /\ UNCHANGED <<tables, used, sdk, arrived, req, got, call, moved>>

\* The transaction commits with x as a default or not.  Another default that
\* it has not cleared violates one_default_method_per_customer or
\* one_default_gateway_per_tenant.
Commits(w, x, default) ==
  /\ default => DefaultsOf(req[w].who) \subseteq cleared[w] \cup {x}
  /\ isDefault' = ((isDefault \ cleared[w]) \ {x}) \cup IF default THEN {x} ELSE {}
  /\ End(w)

\* An IntegrityError answers 500.
CommitsOrFails(w, x, default, refused, change) ==
  IF refused \/ (default /\ ~ DefaultsOf(req[w].who) \subseteq cleared[w] \cup {x})
  THEN Abort(w)
  ELSE Commits(w, x, default) /\ change

-----------------------------------------------------------------------------
(* Saved methods. *)

InsertMethod(w) ==
  LET m == req[w].row IN
  /\ pc[w] = "write" /\ req[w].op = "save"
  /\ CommitsOrFails(w, m, req[w].default = TRUE,
       \* the deferred foreign key, at the commit
       got[w].config # None /\ config[got[w].config] = None,
       /\ method' = [method EXCEPT ![m] = [who |-> req[w].who, config |-> got[w].config,
                                            token |-> got[w].seat]]
       /\ UNCHANGED <<config, payment, moved>>)
  /\ UNCHANGED <<used, sdk, arrived>>

\* if not target.is_default: save(update_fields=["is_default"])
SetDefault(w) ==
  LET m == req[w].row IN
  /\ pc[w] = "write" /\ req[w].op = "default"
  /\ IF got[w].default
     THEN /\ isDefault' = isDefault \ cleared[w]
          /\ End(w) /\ UNCHANGED <<method, config, payment, moved>>
     ELSE CommitsOrFails(w, m, TRUE, method[m] = None,
            UNCHANGED <<method, config, payment, moved>>)
  /\ UNCHANGED <<used, sdk, arrived>>

\* Carts that have selected it are set to NULL.
DeleteMethod(w) ==
  LET m == req[w].row IN
  /\ pc[w] = "write" /\ req[w].op = "delete" /\ Free(w, m)
  /\ IF ~Owns(w) THEN Abort(w)
     ELSE /\ method' = [method EXCEPT ![m] = None]
          /\ isDefault' = isDefault \ {m}
          /\ End(w) /\ UNCHANGED <<config, payment, moved>>
  /\ UNCHANGED <<used, sdk, arrived>>

-----------------------------------------------------------------------------
(* Gateway configurations. *)

InsertConfig(w) ==
  LET c == req[w].row IN
  /\ pc[w] = "write" /\ req[w].op = "add"
  /\ CommitsOrFails(w, c, req[w].default = TRUE, Named(req[w].gateway) # {},
       /\ config' = [config EXCEPT ![c] = [seat |-> Posted(req[w]),
                                            active |-> req[w].active]]
       /\ UNCHANGED <<method, payment, moved>>)
  /\ UNCHANGED <<used, sdk, arrived>>

ReadConfig(w) ==
  LET c == req[w].row IN
  /\ pc[w] = "read" /\ req[w].op = "patch"
  /\ IF config[c] = None THEN Abort(w)
     ELSE /\ got' = [got EXCEPT ![w].seat = config[c].seat, ![w].active = config[c].active,
                                 ![w].default = c \in isDefault]
          /\ Goto(w, "scan")
          /\ UNCHANGED <<tables, locked, req, todo, cleared, call, moved>>
  /\ UNCHANGED <<used, sdk, arrived>>

\* Variant: partial=True left out, a field that is not sent is saved as null.
SaveConfigWhole(w) ==
  LET c == req[w].row IN
  /\ pc[w] = "write" /\ req[w].op = "patch" /\ Free(w, c)
  /\ CommitsOrFails(w, c, req[w].default = TRUE, ~ Named(req[w].gateway) \subseteq {c},
       /\ config' = [config EXCEPT ![c] = [seat |-> Posted(req[w]),
                                            active |-> req[w].active]]
       /\ UNCHANGED <<method, payment, moved>>)
  /\ UNCHANGED <<used, sdk, arrived>>

\* s.save(): every column of the row as it was read, with the body's in place
\* of them; a row that was deleted meanwhile is inserted again.
SaveConfig(w) ==
  LET c == req[w].row
      seat == Patched(req[w], got[w].seat)
  IN
  /\ pc[w] = "write" /\ req[w].op = "patch" /\ Free(w, c)
  /\ CommitsOrFails(w, c, Sent(req[w].default, got[w].default), ~ Named(seat.name) \subseteq {c},
       /\ config' = [config EXCEPT ![c] = [seat |-> seat,
                                            active |-> Sent(req[w].active, got[w].active)]]
       /\ moved' = IF seat = got[w].seat THEN moved ELSE moved \cup {c}
       /\ UNCHANGED <<method, payment>>)
  /\ UNCHANGED <<used, sdk, arrived>>

\* on_delete=PROTECT.
Referenced(c) ==
  \/ \E m \in Methods : method[m] # None /\ method[m].config = c
  \/ \E p \in Payments : payment[p] # None /\ payment[p].config = c

CollectConfig(w) ==
  /\ pc[w] = "read" /\ req[w].op = "drop"
  /\ IF config[req[w].row] = None \/ Referenced(req[w].row) THEN Abort(w)
     ELSE /\ Goto(w, "write")
          /\ UNCHANGED <<tables, locked, req, got, todo, cleared, call, moved>>
  /\ UNCHANGED <<used, sdk, arrived>>

\* A reference committed since fails the foreign key at the commit.
DeleteConfig(w) ==
  LET c == req[w].row IN
  /\ pc[w] = "write" /\ req[w].op = "drop" /\ Free(w, c)
  /\ IF Referenced(c) THEN Abort(w)
     ELSE /\ config' = [config EXCEPT ![c] = None]
          /\ isDefault' = isDefault \ {c}
          /\ moved' = moved \cup {c}
          /\ End(w) /\ UNCHANGED <<method, payment>>
  /\ UNCHANGED <<used, sdk, arrived>>

-----------------------------------------------------------------------------
(* Gateway calls. *)

\* authorize_payment reads the method; one without a gateway is invoiced.
ReadMethod(w) ==
  LET m == req[w].row IN
  /\ pc[w] = "read" /\ req[w].op = "charge"
  /\ IF method[m] = None \/ method[m].config = None THEN Abort(w)
     ELSE /\ got' = [got EXCEPT ![w].seat = config[method[m].config].seat,
                                 ![w].of = method[m].config, ![w].token = method[m].token,
                                 ![w].next = "authorize"]
          /\ Goto(w, "resolve")
          /\ UNCHANGED <<tables, locked, req, todo, cleared, call, moved>>
  /\ UNCHANGED <<used, sdk, arrived>>

\* Variant: the configuration the method names, whether it is on or not.
ResolveSaved(w) ==
  /\ pc[w] = "resolve"
  /\ IF req[w].op = "charge"
     THEN /\ got' = [got EXCEPT ![w].config = got[w].of, ![w].seat = config[got[w].of].seat]
          /\ Goto(w, "aim")
          /\ UNCHANGED <<tables, locked, req, todo, cleared, call, moved>>
     ELSE LET active == {c \in Named(req[w].gateway) : config[c].active} IN
          IF \/ req[w].gateway = "mock" /\ ~allowMock
             \/ active = {}
             \/ ~req[w].token /\ req[w].gateway # "mock"
          THEN Abort(w)
          ELSE \E c \in active :
                 /\ got' = [got EXCEPT ![w].config = c, ![w].seat = config[c].seat]
                 /\ Goto(w, "scan")
                 /\ UNCHANGED <<tables, locked, req, todo, cleared, call, moved>>
  /\ UNCHANGED <<used, sdk, arrived>>

\* resolve_gateway_config, then registry.get: for a charge always, for a save
\* only to tokenize, which the mock alone can do.
Resolve(w) ==
  LET name == IF req[w].op = "save" THEN req[w].gateway ELSE got[w].seat.name
      active == {c \in Named(name) : config[c].active}
  IN
  /\ pc[w] = "resolve"
  /\ IF \/ name = "mock" /\ ~allowMock
        \/ active = {}
        \/ req[w].op = "charge" /\ name \notin Registered
        \/ req[w].op = "save" /\ ~req[w].token /\ name # "mock"
     THEN Abort(w)
     ELSE \E c \in active :
            /\ got' = [got EXCEPT ![w].config = c, ![w].seat = config[c].seat]
            /\ Goto(w, IF req[w].op = "save" THEN "scan" ELSE "aim")
            /\ UNCHANGED <<tables, locked, req, todo, cleared, call, moved>>
  /\ UNCHANGED <<used, sdk, arrived>>

\* The sweep asks for the payment's own configuration.
ReadPayment(w) ==
  LET p == payment[req[w].row] IN
  /\ pc[w] = "read" /\ req[w].op = "retrieve"
  /\ IF config[p.config].seat.name \notin Registered THEN Abort(w)
     ELSE /\ got' = [got EXCEPT ![w].seat = config[p.config].seat, ![w].config = p.config,
                                 ![w].of = p.config, ![w].token = p.at, ![w].next = "retrieve"]
          /\ Goto(w, "aim")
          /\ UNCHANGED <<tables, locked, req, todo, cleared, call, moved>>
  /\ UNCHANGED <<used, sdk, arrived>>

\* _configure_sdk, which the mock has no need of.
Aim(w) ==
  LET host == Host(got[w].seat.name) IN
  /\ pc[w] = "aim"
  /\ sdk' = IF host = None THEN sdk ELSE [sdk EXCEPT ![Process[w]] = host]
  /\ Goto(w, "call")
  /\ UNCHANGED <<tables, used, locked, arrived, req, got, todo, cleared, call, moved>>

\* authorize, capture or retrieve_payment: the request goes where the SDK of
\* the process points now.
CallGateway(w) ==
  /\ pc[w] = "call"
  /\ call' = [call EXCEPT ![w] =
               [op |-> got[w].next, seat |-> got[w].seat, token |-> got[w].token, of |-> got[w].of,
                host |-> IF Host(got[w].seat.name) = None THEN None ELSE sdk[Process[w]]]]
  /\ Goto(w, "result")
  /\ UNCHANGED <<tables, used, locked, sdk, arrived, req, got, todo, cleared, moved>>

\* The payment row, with the request's commit; its foreign key is checked then.
Pay(w, status) ==
  IF config[got[w].config] = None THEN Abort(w)
  ELSE \E p \in Payments :
         /\ payment[p] = None
         /\ payment' = [payment EXCEPT ![p] = [config |-> got[w].config, at |-> got[w].token,
                                               status |-> status]]
         /\ End(w) /\ UNCHANGED <<method, config, isDefault, moved>>

\* Declined, waiting for the customer, or authorised: then it is captured.
Authorized(w) ==
  /\ pc[w] = "result" /\ got[w].next = "authorize"
  /\ \/ Abort(w) /\ UNCHANGED <<used, sdk, arrived>>
     \/ /\ got' = [got EXCEPT ![w].token = got[w].seat, ![w].of = got[w].config]
        /\ Goto(w, "reread")
        /\ UNCHANGED <<tables, used, locked, sdk, arrived, req, todo, cleared, call, moved>>

\* A payment that waits for the customer ends the request; an authorised one is
\* read again, with its configuration, by capture_payment.
Waits(w) == pc[w] = "reread" /\ Pay(w, "pending") /\ UNCHANGED <<used, sdk, arrived>>

Reread(w) ==
  LET c == got[w].config IN
  /\ pc[w] = "reread"
  /\ IF config[c] = None \/ config[c].seat.name \notin Registered THEN Abort(w)
     ELSE /\ got' = [got EXCEPT ![w].seat = config[c].seat, ![w].next = "capture"]
          /\ Goto(w, "aim")
          /\ UNCHANGED <<tables, locked, req, todo, cleared, call, moved>>
  /\ UNCHANGED <<used, sdk, arrived>>

Captured(w) ==
  /\ pc[w] = "result" /\ got[w].next = "capture"
  /\ Abort(w) \/ Pay(w, "captured")
  /\ UNCHANGED <<used, sdk, arrived>>

\* The gateway has news of the payment, or not.
Retrieved(w) ==
  /\ pc[w] = "result" /\ got[w].next = "retrieve"
  /\ \/ Abort(w)
     \/ /\ payment' = [payment EXCEPT ![req[w].row].status = "captured"]
        /\ End(w) /\ UNCHANGED <<method, config, isDefault, moved>>
  /\ UNCHANGED <<used, sdk, arrived>>

-----------------------------------------------------------------------------
Act(w) ==
  \/ StartSave(w) \/ StartOnMethod(w) \/ StartRetrieve(w)
  \/ StartAdd(w) \/ StartPatch(w) \/ StartDrop(w)
  \/ LockTarget(w) \/ Scan(w) \/ Clear(w)
  \/ InsertMethod(w) \/ SetDefault(w) \/ DeleteMethod(w)
  \/ InsertConfig(w) \/ ReadConfig(w) \/ SaveConfig(w)
  \/ CollectConfig(w) \/ DeleteConfig(w)
  \/ ReadMethod(w) \/ Resolve(w) \/ ReadPayment(w)
  \/ Aim(w) \/ CallGateway(w)
  \/ Authorized(w) \/ Waits(w) \/ Reread(w) \/ Captured(w) \/ Retrieved(w)

WalletNext == \E w \in Workers : Act(w) /\ Watch /\ UNCHANGED allowMock

WalletSpec == WalletInit /\ [][WalletNext]_wallet

-----------------------------------------------------------------------------
\* The variables hold what the code can put there.
WalletTypeOK ==
  /\ allowMock \in BOOLEAN
  /\ method \in [Methods -> MethodRow \cup {None}]
  /\ config \in [Configs -> ConfigRow \cup {None}]
  /\ payment \in [Payments -> PaymentRow \cup {None}]
  /\ isDefault \subseteq {m \in Methods : method[m] # None} \cup {c \in Configs : config[c] # None}
  /\ used \subseteq Rows /\ moved \subseteq Configs
  /\ locked \in [Rows -> Workers \cup {None}]
  /\ sdk \in [Processes -> Hosts]
  /\ arrived \in 0..MaxRequests
  /\ req \in [Workers -> Request \cup {None}] /\ pc \in [Workers -> Stages]
  /\ got \in [Workers -> Got]
  /\ todo \in [Workers -> SUBSET Rows] /\ cleared \in [Workers -> SUBSET Rows]
  /\ call \in [Workers -> Made \cup {None}]
  /\ on \in [Workers -> SUBSET Names]

\* A customer who has a default method has exactly one after every commit,
\* unless it was the default that was deleted: setting another one leaves "no
\* window where the customer has two defaults or none", whatever the requests
\* do between one's SELECT and its UPDATEs.
DefaultKept ==
  [][\A c \in Customers :
       DefaultsOf(c) # {} =>
         \/ Cardinality(DefaultsOf(c)') = 1
         \/ \E m \in DefaultsOf(c) : method'[m] = None]_wallet

\* A worker that shares its process, and with it the SDK's globals, with none.
ProcessOfItsOwn(w) == \A v \in Workers \ {w} : Process[v] # Process[w]

\* Every payment call is made with the credentials, and through the adapter,
\* that its card was saved for or that its transaction was made with, unless
\* the configuration was given others or was deleted; a charge is put through
\* a gateway that was on at some time since the request came, never the mock
\* where it is not allowed; and the call of a worker that has its process to
\* itself goes to the host of its adapter.
PaidWhereItBelongs ==
  \A w \in Workers :
    LET made == call[w] IN
    made # None =>
      /\ made.seat = made.token \/ made.of \in moved
      /\ made.op = "authorize" =>
           made.seat.name \in on[w] /\ (made.seat.name = "mock" => allowMock)
      /\ ProcessOfItsOwn(w) => made.host = Host(made.seat.name)

\* _configure_sdk's comment: with two gateways in one process "we must re-set
\* them before every call", or the last instance wins "for whoever runs second"
\* (payments/gateways/stripe.py:114-121).  Setting them is not one step with
\* the call, and the threads of runserver share one process.
CallsOwnHost ==
  \A w \in Workers : call[w] # None => call[w].host = Host(call[w].seat.name)

\* The row a worker's next statement has to wait for.
Wants(w) ==
  CASE pc[w] = "lock" -> {req[w].row}
    [] pc[w] = "clear" -> todo[w]
    [] pc[w] = "write" -> {req[w].row}
    [] OTHER -> {}
WaitsFor(w) == {locked[x] : x \in Wants(w)} \ {w, None}

\* No circle of transactions each waiting for a row of the next: the rows of one
\* customer, or the configurations, are not locked in an order that depends on
\* the request.
NoCircularWait ==
  \A S \in (SUBSET Workers) \ {{}} :
    \E w \in S : \/ WaitsFor(w) \cap S = {}
                  \* it may update another row first
                 \/ pc[w] = "clear" /\ \E x \in todo[w] : Free(w, x)
=============================================================================
