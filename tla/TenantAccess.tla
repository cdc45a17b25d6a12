---------------------------- MODULE TenantAccess ----------------------------
(***************************************************************************)
(* Who may act in which tenant: the middleware stack that resolves the     *)
(* tenant, opens the row-level-security session and authenticates, the     *)
(* permission classes, and the endpoints that change what they look at     *)
(* (customers, tenants, memberships, tokens), each run by one of several   *)
(* threads with a pooled connection.                                       *)
(*                                                                         *)
(* One action is one layer of the stack or one statement of a view; a      *)
(* view's last write and its commit are one step.  Between any two of them *)
(* other requests commit.                                                  *)
(***************************************************************************)
EXTENDS Naturals, Sequences

CONSTANTS
  Tenants,
  Reserved,     \* TENANT_RESERVED_SUBDOMAINS
  Emails,
  Root,         \* the superuser
  Admins,       \* the other Django users
  Workers,      \* threads, each with its connections
  Requests,     \* the requests that may arrive
  Provisioned,  \* the sets of tenants there may be at first
  MaxRequests,  \* bound: requests in one behaviour
  None

Users == Admins \cup {Root}
Customers == Tenants \X Emails
\* TenantMembership: one per user and tenant.
Memberships == Admins \X Tenants
\* An address: the tenant column and the customer.
Addresses == Tenants \X Customers

\* A customer row.  active: not blocked; papers: tax_id and company_name are
\* both set.
Fields == {"active", "b2b", "papers"}
Row == [Fields -> BOOLEAN]

\* What the body of a PATCH or POST may set.
Changes == UNION {[set -> BOOLEAN] : set \in SUBSET Fields}

\* The endpoints, by the part of the URL space they are in.
Ops == [storefront |-> {"add_address", "delete_address"},
        admin      |-> {"create", "patch", "delete"},
        platform   |-> {"create_tenant", "patch_tenant", "assign", "revoke", "reconcile"},
        auth       |-> {"login", "logout"}]

\* host: its labels before TENANT_DOMAIN_SUFFIX; who: X-Customer-Id, or the
\* user who logs in or whose key is presented; on: the row the URL or body names.
Request == [kind : DOMAIN Ops, op : UNION {Ops[k] : k \in DOMAIN Ops},
            host : Seq(Tenants \cup Reserved), who : Customers \cup Users, key : Nat,
            on : Customers \cup Tenants \cup Memberships \cup {None},
            change : Changes]

RoutedRight(r) ==
  /\ r.op \in Ops[r.kind]
  /\ r.who \in IF r.kind = "storefront" THEN Customers ELSE Users
  /\ r.op \in Ops.admin => r.on \in Customers
  /\ r.op \in {"create_tenant", "patch_tenant"} => r.on \in Tenants
  /\ r.op \in {"assign", "revoke"} => r.on \in Memberships

ASSUME AccessAssumption ==
  /\ None \notin Row \cup Tenants \cup Customers \cup Requests \cup BOOLEAN
  /\ Root \notin Admins
  /\ MaxRequests \in Nat
  /\ Provisioned \subseteq SUBSET Tenants
  /\ Requests \subseteq Request
  /\ \A r \in Requests : RoutedRight(r)

VARIABLES
  tenant,     \* tenants_tenant: None, or is it active
  customer,   \* customers_customer
  address,    \* addresses: the tenant column and the customer
  account,    \* Django users that exist
  member,     \* iam_tenantmembership
  token,      \* per user: the key in authtoken_token, 0 if none
  minted,     \* per user: keys issued so far
  stale,      \* users whose key is older than ADMIN_TOKEN_TTL_SECONDS
  arrived,    \* requests so far
  req, pc,    \* per worker: the request and where in the stack it is
  ctx,        \* per worker: the tenant contextvar
  local,      \* per worker: app.current_tenant as SET LOCAL in its transaction
  session,    \* per worker: app.current_tenant as SET on its connection
  held,       \* per worker: what the view has read
  had         \* per worker: the grants its request needs, held since it arrived

rows   == <<tenant, customer, address, account, member, token, minted, stale>>
layers == <<ctx, local, session>>
vars   == <<rows, arrived, req, pc, layers, held, had>>

Stages == {"idle", "resolve", "session", "customer", "token", "permit",
           "view", "write", "sweep", "leave"}

-----------------------------------------------------------------------------
(* The stack. *)

\* The label next to the domain suffix, unless it is reserved.
Subdomain(r) ==
  IF r.host = <<>> \/ r.host[Len(r.host)] \in Reserved THEN None ELSE r.host[Len(r.host)]

\* GLOBAL_EXEMPT_PATHS: no tenant is resolved.
Exempt(r) == r.kind \in {"platform", "auth"}

\* What the policy's predicate compares tenant_id with.
Setting(w) == IF local[w] # None THEN local[w] ELSE session[w]

\* A row passes TenantManager's filter and the policy.
Visible(w, id) == id[1] = ctx[w] /\ id[1] = Setting(w)

\* The tenant a worker is at work for.
Serves(w) ==
  CASE pc[w] \in {"customer", "token", "permit", "view", "write"} ->
         IF Exempt(req[w]) THEN None ELSE Subdomain(req[w])
    [] pc[w] = "sweep" -> held[w]
    [] OTHER -> None

\* What a request relies on, and what of it is granted now.
Needs(r) ==
  CASE r.kind = "storefront" -> {<<"tenant", Subdomain(r)>>, <<"customer", r.who>>}
    [] r.kind = "admin" -> {<<"tenant", Subdomain(r)>>, <<"key", r.who, r.key>>}
                             \cup IF r.who = Root THEN {}
                                  ELSE {<<"member", r.who, Subdomain(r)>>}
    [] r.op = "login" -> {}
    [] OTHER -> {<<"key", r.who, r.key>>}

Granted ==
  {<<"tenant", t>> : t \in {s \in Tenants : tenant[s] = TRUE}}
  \cup {<<"customer", id>> : id \in {c \in Customers : customer[c] # None /\ customer[c].active}}
  \cup {<<"key", u, token[u]>> : u \in Users \ stale}
  \cup {<<"member", m[1], m[2]>> : m \in member}

Goto(w, s) == pc' = [pc EXCEPT ![w] = s]
\* had after a step: bookkeeping of the model, no variable of the code.
Watch == had' = [w \in Workers |->
                   IF pc'[w] = "idle" THEN {}
                   ELSE had[w] \cup (Needs(req'[w]) \cap Granted')]

\* A provisioned system: some tenants, with their customers and admins.
Init ==
  /\ \E there \in Provisioned :
       /\ tenant = [t \in Tenants |-> IF t \in there THEN TRUE ELSE None]
       /\ customer = [c \in Customers |->
                        IF c[1] \in there
                        THEN [a \in Fields |-> a # "b2b"] ELSE None]
       /\ member = {m \in Memberships : m[2] \in there}
  /\ address = {}
  /\ account = Users
  /\ token = [u \in Users |-> 1] /\ minted = [u \in Users |-> 1]
  /\ stale = {}
  /\ arrived = 0
  /\ req = [w \in Workers |-> None] /\ pc = [w \in Workers |-> "idle"]
  /\ ctx = [w \in Workers |-> None]
  /\ local = [w \in Workers |-> None] /\ session = [w \in Workers |-> None]
  /\ held = [w \in Workers |-> None]
  /\ had = [w \in Workers |-> {}]

Arrive(w, r) ==
  /\ pc[w] = "idle" /\ arrived < MaxRequests
  /\ arrived' = arrived + 1
  /\ req' = [req EXCEPT ![w] = r]
  /\ Goto(w, IF Exempt(r) THEN "session" ELSE "resolve")
  /\ UNCHANGED <<rows, layers, held>>

\* TenantResolverMiddleware; a refusal (400 or 404) unwinds the stack.
Resolve(w) ==
  /\ pc[w] = "resolve"
  /\ LET t == Subdomain(req[w]) IN
       IF t # None /\ tenant[t] = TRUE
       THEN ctx' = [ctx EXCEPT ![w] = t] /\ Goto(w, "session")
       ELSE ctx' = ctx /\ Goto(w, "leave")
  /\ UNCHANGED <<rows, arrived, req, local, session, held>>

\* What authenticates the request once its session is open: the middleware, or the
\* authentication_classes of its view.
Gate(r) ==
  CASE r.kind = "storefront" -> "customer"
    [] r.op = "login" -> "view"
    [] OTHER -> "token"

\* TenantDBSessionMiddleware: BEGIN and SET LOCAL, nothing without a tenant.
OpenSession(w) ==
  /\ pc[w] = "session"
  /\ local' = [local EXCEPT ![w] = ctx[w]]
  /\ Goto(w, Gate(req[w]))
  /\ UNCHANGED <<rows, arrived, req, ctx, session, held>>

\* CustomerAuthMiddleware: the row of X-Customer-Id, as far as it is visible.
AuthCustomer(w) ==
  /\ pc[w] = "customer"
  /\ LET id == req[w].who IN
       Goto(w, IF Visible(w, id) /\ customer[id] # None /\ customer[id].active
               THEN "view" ELSE "leave")
  /\ UNCHANGED <<rows, arrived, req, layers, held>>

\* Variant: the login keeps the key it finds, so a key outlives the next login.
AuthTokenEver(w) ==
  /\ pc[w] = "token"
  /\ Goto(w, IF req[w].key <= minted[req[w].who]
             THEN IF req[w].kind = "auth" THEN "view" ELSE "permit"
             ELSE "leave")
  /\ UNCHANGED <<rows, arrived, req, layers, held>>

\* ExpiringTokenAuthentication.
AuthToken(w) ==
  /\ pc[w] = "token"
  /\ Goto(w, IF /\ token[req[w].who] = req[w].key
                /\ req[w].who \notin stale
             THEN IF req[w].kind = "auth" THEN "view" ELSE "permit"
             ELSE "leave")
  /\ UNCHANGED <<rows, arrived, req, layers, held>>

IsPlatformAdmin(u) == u = Root
\* A live query on every request.
IsTenantAdmin(u, t) == IsPlatformAdmin(u) \/ <<u, t>> \in member

\* The permission class of the view.
Permit(w) ==
  /\ pc[w] = "permit"
  /\ LET u == req[w].who IN
       Goto(w, IF IF req[w].kind = "admin" THEN IsTenantAdmin(u, Subdomain(req[w]))
                                           ELSE IsPlatformAdmin(u)
               THEN "view" ELSE "leave")
  /\ UNCHANGED <<rows, arrived, req, layers, held>>

\* Whatever the view did or raised, the way out ends the transaction, and
\* with it SET LOCAL, and then resets the contextvar.
Leave(w) ==
  /\ pc[w] = "leave"
  /\ Goto(w, "idle")
  /\ req' = [req EXCEPT ![w] = None]
  /\ held' = [held EXCEPT ![w] = None]
  /\ local' = [local EXCEPT ![w] = None]
  /\ ctx' = [ctx EXCEPT ![w] = None]
  /\ UNCHANGED <<rows, arrived, session>>

-----------------------------------------------------------------------------
(* The views. *)

At(w, s, op) == pc[w] = s /\ req[w].op = op
\* A view reads a row it goes on with, or answers and unwinds.
Read(w, row) ==
  /\ held' = [held EXCEPT ![w] = row]
  /\ Goto(w, IF row = None THEN "leave" ELSE "write")
  /\ UNCHANGED <<rows, arrived, req, layers>>
Answer(w) == Goto(w, "leave") /\ UNCHANGED <<arrived, req, layers, held>>

\* The tenant that save() gives a row.
OwnTenant(w) == ctx[w]

\* Of one's own customer id only.
AddAddress(w) ==
  /\ At(w, "view", "add_address") /\ Answer(w)
  /\ address' = IF Setting(w) = OwnTenant(w) THEN address \cup {<<OwnTenant(w), req[w].who>>}
                ELSE address
  /\ UNCHANGED <<tenant, customer, account, member, token, minted, stale>>

DeleteAddress(w) ==
  /\ At(w, "view", "delete_address") /\ Answer(w)
  /\ address' = {a \in address : ~(Visible(w, a) /\ a[2] = req[w].who)}
  /\ UNCHANGED <<tenant, customer, account, member, token, minted, stale>>

\* The row with the columns of the body.
Patched(row, change) ==
  [a \in Fields |-> IF a \in DOMAIN change THEN change[a] ELSE row[a]]
\* _validate_b2b_fields
Invoiceable(row) == row.b2b => row.papers

\* validate_email, and uniq_customer_email_per_tenant under it.
Taken(id) == customer[id] # None

\* The e-mail named by the body, in the tenant of the context.
CreateCustomer(w) ==
  /\ At(w, "view", "create") /\ Answer(w)
  /\ LET id == <<OwnTenant(w), req[w].on[2]>>
         new == Patched([a \in Fields |-> a = "active"], req[w].change)
     IN  customer' = IF ~Taken(id) /\ Invoiceable(new)
                     THEN [customer EXCEPT ![id] = new] ELSE customer
  /\ UNCHANGED <<tenant, address, account, member, token, minted, stale>>

ReadCustomer(w) ==
  /\ At(w, "view", "patch") \/ At(w, "view", "delete")
  /\ Read(w, IF Visible(w, req[w].on) THEN customer[req[w].on] ELSE None)

\* Variant: PATCH saves only the columns of its body.
SaveCustomerFields(w) ==
  /\ At(w, "write", "patch") /\ Answer(w)
  /\ LET id == req[w].on
     IN  customer' = IF Invoiceable(Patched(held[w], req[w].change))
                     THEN [customer EXCEPT ![id] = Patched(@, req[w].change)] ELSE customer
  /\ UNCHANGED <<tenant, address, account, member, token, minted, stale>>

\* PATCH validates the body over the row as read, and saves every column.
SaveCustomer(w) ==
  /\ At(w, "write", "patch") /\ Answer(w)
  /\ LET new == Patched(held[w], req[w].change)
     IN  customer' = IF Invoiceable(new) THEN [customer EXCEPT ![req[w].on] = new] ELSE customer
  /\ UNCHANGED <<tenant, address, account, member, token, minted, stale>>

\* DELETE blocks: only is_active is written, and only if it was set.
BlockCustomer(w) ==
  /\ At(w, "write", "delete") /\ Answer(w)
  /\ customer' = IF held[w].active THEN [customer EXCEPT ![req[w].on].active = FALSE]
                 ELSE customer
  /\ UNCHANGED <<tenant, address, account, member, token, minted, stale>>

CreateTenant(w) ==
  /\ At(w, "view", "create_tenant") /\ Answer(w)
  /\ LET t == req[w].on IN
       tenant' = IF tenant[t] = None THEN [tenant EXCEPT ![t] = TRUE] ELSE tenant
  /\ UNCHANGED <<customer, address, account, member, token, minted, stale>>

ReadTenant(w) == At(w, "view", "patch_tenant") /\ Read(w, tenant[req[w].on])

\* tenant.save(): every column, is_active among them.
SaveTenant(w) ==
  /\ At(w, "write", "patch_tenant") /\ Answer(w)
  /\ LET f == req[w].change IN
       tenant' = [tenant EXCEPT ![req[w].on] =
                    IF "active" \in DOMAIN f THEN f.active ELSE held[w]]
  /\ UNCHANGED <<customer, address, account, member, token, minted, stale>>

\* Variant: the membership is made without looking the tenant up.
AssignUnchecked(w) ==
  /\ At(w, "view", "assign") /\ Answer(w)
  /\ account' = account \cup {req[w].on[1]}
  /\ member' = member \cup {req[w].on}
  /\ UNCHANGED <<tenant, customer, address, token, minted, stale>>

\* PlatformMembershipCreateView, with or without createUserIfMissing.
Assign(w) ==
  /\ At(w, "view", "assign") /\ Answer(w)
  /\ LET m == req[w].on IN
       IF tenant[m[2]] = None THEN UNCHANGED <<account, member>>
       ELSE \/ account' = account \cup {m[1]} /\ member' = member \cup {m}
            \/ m[1] \notin account /\ UNCHANGED <<account, member>>
  /\ UNCHANGED <<tenant, customer, address, token, minted, stale>>

Revoke(w) ==
  /\ At(w, "view", "revoke") /\ Answer(w)
  /\ member' = member \ {req[w].on}
  /\ UNCHANGED <<tenant, customer, address, account, token, minted, stale>>

\* The login view drops the user's token, waiting for the row if another
\* login has it ...
LoginDelete(w) ==
  /\ At(w, "view", "login")
  /\ IF req[w].who \in account
     THEN Read(w, token[req[w].who])
     ELSE Answer(w) /\ UNCHANGED rows

\* ... and inserts a new one, refused if another login's is there by then.
LoginCreate(w) ==
  /\ At(w, "write", "login") /\ Answer(w)
  /\ LET u == req[w].who IN
       IF token[u] \in {0, held[w]}
       THEN /\ minted' = [minted EXCEPT ![u] = @ + 1]
            /\ token' = [token EXCEPT ![u] = minted[u] + 1]
            /\ stale' = stale \ {u}
       ELSE UNCHANGED <<token, minted, stale>>
  /\ UNCHANGED <<tenant, customer, address, account, member>>

\* Whichever token the caller's user has by now.
Logout(w) ==
  /\ At(w, "view", "logout") /\ Answer(w)
  /\ token' = [token EXCEPT ![req[w].who] = 0]
  /\ UNCHANGED <<tenant, customer, address, account, member, minted, stale>>

\* The reconcile trigger runs the sweep in the request: per payment it enters
\* the payment's tenant, with SET, not SET LOCAL, ...
SweepEnter(w, t) ==
  /\ At(w, "view", "reconcile")
  /\ tenant[t] # None
  /\ ctx' = [ctx EXCEPT ![w] = t]
  /\ session' = [session EXCEPT ![w] = t]
  /\ held' = [held EXCEPT ![w] = t]
  /\ Goto(w, "sweep")
  /\ UNCHANGED <<rows, arrived, req, local>>

\* Variant: the sweep does not reset app.current_tenant.
SweepLeaveSet(w) ==
  /\ pc[w] = "sweep"
  /\ ctx' = [ctx EXCEPT ![w] = None]
  /\ held' = [held EXCEPT ![w] = None]
  /\ Goto(w, "view")
  /\ UNCHANGED <<rows, arrived, req, local, session>>

\* ... and leaves it, with RESET.
SweepLeave(w) ==
  /\ pc[w] = "sweep"
  /\ ctx' = [ctx EXCEPT ![w] = None]
  /\ local' = [local EXCEPT ![w] = None]
  /\ session' = [session EXCEPT ![w] = None]
  /\ held' = [held EXCEPT ![w] = None]
  /\ Goto(w, "view")
  /\ UNCHANGED <<rows, arrived, req>>

SweepDone(w) == At(w, "view", "reconcile") /\ Answer(w) /\ UNCHANGED rows

\* Time passes.
Expire(u) ==
  /\ token[u] # 0
  /\ stale' = stale \cup {u}
  /\ UNCHANGED <<tenant, customer, address, account, member, token, minted,
                 arrived, req, pc, layers, held>>

Step(w) ==
  \/ Resolve(w) \/ OpenSession(w) \/ AuthCustomer(w) \/ AuthToken(w) \/ Permit(w) \/ Leave(w)
  \/ AddAddress(w) \/ DeleteAddress(w)
  \/ CreateCustomer(w) \/ ReadCustomer(w) \/ SaveCustomer(w) \/ BlockCustomer(w)
  \/ CreateTenant(w) \/ ReadTenant(w) \/ SaveTenant(w)
  \/ Assign(w) \/ Revoke(w) \/ LoginDelete(w) \/ LoginCreate(w) \/ Logout(w)
  \/ (\E t \in Tenants : SweepEnter(w, t)) \/ SweepLeave(w) \/ SweepDone(w)

Next ==
  /\ \/ \E w \in Workers : Step(w) \/ \E r \in Requests : Arrive(w, r)
     \/ \E u \in Users : Expire(u)
  /\ Watch

Spec == Init /\ [][Next]_vars

-----------------------------------------------------------------------------
(* Properties. *)

\* Types; memberships are of existing users and tenants, keys were minted.
TypeOK ==
  /\ tenant \in [Tenants -> BOOLEAN \cup {None}]
  /\ customer \in [Customers -> Row \cup {None}]
  /\ address \subseteq Addresses
  /\ account \subseteq Users
  /\ \A m \in member : m[1] \in account \cap Admins /\ m[2] \in Tenants /\ tenant[m[2]] # None
  /\ arrived \in 0..MaxRequests
  /\ minted \in [Users -> Nat]
  /\ token \in [Users -> Nat] /\ \A u \in Users : token[u] <= minted[u]
  /\ stale \subseteq Users
  /\ pc \in [Workers -> Stages]
  /\ req \in [Workers -> Requests \cup {None}]
  /\ ctx \in [Workers -> Tenants \cup {None}]
  /\ local \in [Workers -> Tenants \cup {None}]
  /\ session \in [Workers -> Tenants \cup {None}]

\* While a view runs, the contextvar (TenantManager) and app.current_tenant
\* (the row-level policy) each confine it to the tenant it serves, without the
\* other's help; a thread and a connection that serve nobody are in no tenant,
\* so that an exempt path sees no row.  What was written under them is in its
\* customer's tenant.
Isolated ==
  /\ \A w \in Workers : pc[w] \notin {"session", "leave"} =>
       ctx[w] = Serves(w) /\ Setting(w) = Serves(w)
  /\ \A a \in address : a[1] = a[2][1]

\* A view runs only for a request everything of which was granted at some
\* moment since it arrived: a blocked customer, a deactivated tenant, a revoked
\* membership, a key replaced by a login or dropped by a logout is refused from
\* the next request on, whatever was checked for earlier ones.  The customer is
\* one of the tenant asked for.
Admitted ==
  \A w \in Workers : pc[w] \in {"view", "write", "sweep"} =>
    /\ Needs(req[w]) \subseteq had[w]
    /\ req[w].kind = "storefront" => req[w].who[1] = Subdomain(req[w])

\* A B2B customer can be invoiced, although two PATCHes may each validate their
\* body over a row the other one replaces: each saves the whole row it checked.
B2BHasPapers == \A id \in Customers : customer[id] # None => Invoiceable(customer[id])

\* A blocked customer is unblocked only by a request that asks for it.
BlockStays ==
  [][\A id \in Customers :
       (customer[id] # None /\ ~customer[id].active /\ customer'[id].active) =>
         \E w \in Workers : /\ pc[w] = "write" /\ pc'[w] = "leave"
                            /\ req[w].on = id
                            /\ "active" \in DOMAIN req[w].change /\ req[w].change.active]_vars

==============================================================================
