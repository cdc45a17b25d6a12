------------------------- MODULE TenantAccess_proofs -------------------------
(***************************************************************************)
(* Proofs about TenantAccess, for any tenants, users, threads and requests.*)
(*                                                                         *)
(* Isolation rests on Layered: at every stage of the stack it says what    *)
(* the three layers of a thread hold, so that what one request leaves      *)
(* behind is what the next one may rely on.  Admission rests on Vouched:   *)
(* what the stages a request has passed have seen granted.                 *)
(***************************************************************************)
EXTENDS TenantAccess, TLAPS

\* The tenant a request asks for.
Asked(r) == IF Exempt(r) THEN None ELSE Subdomain(r)

\* Between the opening of the session and the way out.
Inside == {"customer", "token", "permit", "view", "write"}

Typed ==
  /\ pc \in [Workers -> Stages]
  /\ req \in [Workers -> Requests \cup {None}]
  /\ ctx \in [Workers -> Tenants \cup {None}]
  /\ local \in [Workers -> Tenants \cup {None}]
  /\ session \in [Workers -> Tenants \cup {None}]
  /\ DOMAIN held = Workers

LayeredAt(w) ==
  /\ pc[w] # "idle" => req[w] \in Requests
  /\ pc[w] \in {"idle", "resolve"} => ctx[w] = None
  /\ pc[w] = "resolve" => ~Exempt(req[w])
  /\ pc[w] \in Inside \cup {"session"} => ctx[w] = Asked(req[w])
  /\ pc[w] \in Inside => local[w] = ctx[w]
  /\ pc[w] \in {"idle", "resolve", "session", "sweep"} => local[w] = None
  /\ pc[w] = "sweep" => Exempt(req[w]) /\ held[w] \in Tenants /\ ctx[w] = held[w] /\ session[w] = held[w]
  /\ pc[w] # "sweep" => session[w] = None
  /\ pc[w] \in Inside \cup {"session"} => Exempt(req[w]) \/ ctx[w] # None
  /\ pc[w] \in {"view", "write"} /\ req[w].kind = "storefront" => req[w].who[1] = ctx[w]
  /\ pc[w] = "customer" => req[w].kind = "storefront"
  /\ pc[w] \in {"token", "permit"} => req[w].kind # "storefront"

Layered == \A w \in Workers : LayeredAt(w)
Placed == \A a \in address : a[1] = a[2][1]
IsolationInv == Typed /\ Layered /\ Placed

------------------------------------------------------------------------------
\* The subdomain of a request is a tenant, if it has one.
LEMMA SubdomainType ==
  ASSUME NEW r \in Requests
  PROVE  Subdomain(r) \in Tenants \cup {None}
  <1>1. r.host \in Seq(Tenants \cup Reserved)
    BY AccessAssumption DEF Request
  <1>2. CASE r.host = <<>>
    BY <1>2 DEF Subdomain
  <1>3. CASE r.host # <<>>
    <2>1. r.host[Len(r.host)] \in Tenants \cup Reserved
      BY <1>1, <1>3
    <2>. QED
      BY <2>1 DEF Subdomain
  <1>. QED
    BY <1>2, <1>3

\* What the URL of an endpoint says of its request.
LEMMA Routes ==
  ASSUME NEW r \in Requests
  PROVE  /\ r.kind \in {"storefront", "admin", "platform", "auth"}
         /\ r.op \in {"add_address", "delete_address"} => r.kind = "storefront"
         /\ r.op \in {"create", "patch", "delete"} => r.kind = "admin" /\ r.on \in Customers
         /\ r.op \in {"create_tenant", "patch_tenant", "assign", "revoke", "reconcile"}
               => r.kind = "platform"
         /\ r.op \in {"login", "logout"} => r.kind = "auth"
         /\ r.op \in {"create_tenant", "patch_tenant"} => r.on \in Tenants
         /\ r.op \in {"assign", "revoke"} => r.on \in Memberships
         /\ r.kind = "storefront" => r.who \in Customers
         /\ r.kind # "storefront" => r.who \in Users
         /\ r.change \in Changes
  <1>1. r \in Request /\ RoutedRight(r)
    BY AccessAssumption
  <1>2. r.kind \in {"storefront", "admin", "platform", "auth"} /\ r.change \in Changes
    BY <1>1 DEF Request, Ops
  <1>3. r.op \in Ops[r.kind]
    BY <1>1 DEF RoutedRight
  <1>4. /\ r.kind = "storefront" => r.op \in {"add_address", "delete_address"}
        /\ r.kind = "admin" => r.op \in {"create", "patch", "delete"}
        /\ r.kind = "platform" => r.op \in {"create_tenant", "patch_tenant", "assign", "revoke", "reconcile"}
        /\ r.kind = "auth" => r.op \in {"login", "logout"}
    BY <1>2, <1>3 DEF Ops
  <1>. QED
    BY <1>1, <1>2, <1>4 DEF RoutedRight, Ops

------------------------------------------------------------------------------
\* A step of one thread, or of no thread, leaves the layers of the others alone.
Apart(w) ==
  \A v \in Workers \ {w} :
    /\ pc'[v] = pc[v] /\ req'[v] = req[v] /\ held'[v] = held[v]
    /\ ctx'[v] = ctx[v] /\ local'[v] = local[v] /\ session'[v] = session[v]

\* A step of one thread leaves what the others have been through.
LEMMA OthersLayered ==
  ASSUME NEW w \in Workers, Layered, Apart(w), LayeredAt(w)'
  PROVE  Layered'
  BY DEF Layered, Apart, LayeredAt, Asked, Exempt, Subdomain

\* An endpoint that answers goes on to the way out.
LEMMA AnswerLayered ==
  ASSUME NEW w \in Workers, Typed, Layered, Answer(w), pc[w] \in {"view", "write"}
  PROVE  Typed' /\ Layered'
  <1>1. Typed'
    BY DEF Typed, Answer, Goto, Stages, layers
  <1>2. LayeredAt(w)'
    BY DEF Typed, Layered, LayeredAt, Answer, Goto, layers, Inside
  <1>3. Apart(w)
    BY DEF Typed, Apart, Answer, Goto, layers
  <1>. QED
    BY <1>1, <1>2, <1>3, OthersLayered

\* So does one that finds no row to go on with.
LEMMA ReadLayered ==
  ASSUME NEW w \in Workers, NEW row, Typed, Layered, Read(w, row), pc[w] = "view"
  PROVE  Typed' /\ Layered'
  <1>1. Typed'
    BY DEF Typed, Read, Goto, Stages, layers
  <1>2. LayeredAt(w)'
    BY DEF Typed, Layered, LayeredAt, Read, Goto, layers, Inside, Asked, Exempt, Subdomain
  <1>3. Apart(w)
    BY DEF Typed, Apart, Read, Goto, layers
  <1>. QED
    BY <1>1, <1>2, <1>3, OthersLayered

\* The layers of the middleware stack on the way in and on the way out.
LEMMA StackLayered ==
  ASSUME NEW w \in Workers, Typed, Layered,
         Resolve(w) \/ OpenSession(w) \/ AuthCustomer(w) \/ AuthToken(w) \/ Permit(w) \/ Leave(w)
  PROVE  Typed' /\ Layered'
  <1>. USE DEF Typed, Layered, LayeredAt, Goto, Stages, layers, Inside, Asked
  <1>1. CASE Resolve(w)
    <2>1. req[w] \in Requests /\ Subdomain(req[w]) \in Tenants \cup {None}
      BY <1>1, SubdomainType DEF Resolve
    <2>2. Typed' /\ Apart(w)
      BY <1>1, <2>1 DEF Resolve, Apart
    <2>3. LayeredAt(w)'
      BY <1>1, <2>1 DEF Resolve, Exempt
    <2>. QED
      BY <2>2, <2>3, OthersLayered
  <1>2. CASE OpenSession(w)
    <2>1. req[w] \in Requests
      BY <1>2 DEF OpenSession
    <2>2. Typed' /\ Apart(w)
      BY <1>2 DEF OpenSession, Apart, Gate
    <2>3. LayeredAt(w)'
      BY <1>2, <2>1, Routes DEF OpenSession, Gate, Exempt
    <2>. QED
      BY <2>2, <2>3, OthersLayered
  <1>3. CASE AuthCustomer(w)
    <2>1. Typed' /\ Apart(w)
      BY <1>3 DEF AuthCustomer, Apart
    <2>2. LayeredAt(w)'
      BY <1>3 DEF AuthCustomer, Visible
    <2>. QED
      BY <2>1, <2>2, OthersLayered
  <1>4. CASE AuthToken(w)
    <2>1. Typed' /\ Apart(w)
      BY <1>4 DEF AuthToken, Apart
    <2>2. LayeredAt(w)'
      BY <1>4 DEF AuthToken
    <2>. QED
      BY <2>1, <2>2, OthersLayered
  <1>5. CASE Permit(w)
    <2>1. Typed' /\ Apart(w)
      BY <1>5 DEF Permit, Apart
    <2>2. LayeredAt(w)'
      BY <1>5 DEF Permit
    <2>. QED
      BY <2>1, <2>2, OthersLayered
  <1>6. CASE Leave(w)
    <2>1. Typed' /\ Apart(w)
      BY <1>6 DEF Leave, Apart
    <2>2. LayeredAt(w)'
      BY <1>6 DEF Leave
    <2>. QED
      BY <2>1, <2>2, OthersLayered
  <1>. QED
    BY <1>1, <1>2, <1>3, <1>4, <1>5, <1>6

\* The reconcile trigger's detour through the tenants of the payments.
LEMMA SweepLayered ==
  ASSUME NEW w \in Workers, Typed, Layered,
         (\E t \in Tenants : SweepEnter(w, t)) \/ SweepLeave(w)
  PROVE  Typed' /\ Layered'
  <1>. USE DEF Typed, Layered, LayeredAt, Goto, Stages, layers, Inside, Asked
  <1>0. None \notin Tenants
    BY AccessAssumption
  <1>1. ASSUME NEW t \in Tenants, SweepEnter(w, t) PROVE Typed' /\ Layered'
    <2>1. req[w] \in Requests /\ Exempt(req[w])
      BY <1>1, Routes DEF SweepEnter, At, Exempt
    <2>2. Typed' /\ Apart(w)
      BY <1>1 DEF SweepEnter, Apart
    <2>3. LayeredAt(w)'
      BY <1>0, <1>1, <2>1 DEF SweepEnter, At, Exempt
    <2>. QED
      BY <2>2, <2>3, OthersLayered
  <1>2. CASE SweepLeave(w)
    <2>1. Typed' /\ Apart(w)
      BY <1>2 DEF SweepLeave, Apart
    <2>2. LayeredAt(w)'
      BY <1>2 DEF SweepLeave, Exempt
    <2>. QED
      BY <2>1, <2>2, OthersLayered
  <1>. QED
    BY <1>1, <1>2

\* A request comes in on an idle thread, in no tenant.
LEMMA ArriveLayered ==
  ASSUME NEW w \in Workers, NEW r \in Requests, Typed, Layered, Arrive(w, r)
  PROVE  Typed' /\ Layered'
  <1>. USE DEF Typed, Layered, LayeredAt, Arrive, Goto, Stages, layers, Inside, Asked, Exempt
  <1>1. Typed' /\ Apart(w)
    BY DEF Apart
  <1>2. LayeredAt(w)'
    BY DEF Apart
  <1>. QED
    BY <1>1, <1>2, OthersLayered

\* Every step keeps the order of the layers.
LEMMA LayeredStep ==
  ASSUME Typed, Layered, [Next]_vars
  PROVE  Typed' /\ Layered'
  <1>1. ASSUME NEW w \in Workers, NEW r \in Requests, Arrive(w, r) PROVE Typed' /\ Layered'
    BY <1>1, ArriveLayered
  <1>2. ASSUME NEW u \in Users, Expire(u) PROVE Typed' /\ Layered'
    BY <1>2 DEF Expire, layers, Typed, Layered, LayeredAt, Asked, Exempt, Subdomain
  <1>3. ASSUME NEW w \in Workers, Step(w) PROVE Typed' /\ Layered'
    <2>1. CASE Resolve(w) \/ OpenSession(w) \/ AuthCustomer(w) \/ AuthToken(w) \/ Permit(w) \/ Leave(w)
      BY <2>1, StackLayered
    <2>2. CASE (\E t \in Tenants : SweepEnter(w, t)) \/ SweepLeave(w)
      BY <2>2, SweepLayered
    <2>3. CASE Answer(w) /\ pc[w] \in {"view", "write"}
      BY <2>3, AnswerLayered
    <2>4. CASE pc[w] = "view" /\ \E row : Read(w, row)
      BY <2>4, ReadLayered
    <2>5. CASE AddAddress(w) \/ DeleteAddress(w) \/ CreateCustomer(w) \/ SaveCustomer(w)
               \/ BlockCustomer(w) \/ CreateTenant(w) \/ SaveTenant(w) \/ Assign(w) \/ Revoke(w)
               \/ LoginCreate(w) \/ Logout(w) \/ SweepDone(w)
      BY <2>3, <2>5 DEF AddAddress, DeleteAddress, CreateCustomer, SaveCustomer, BlockCustomer,
         CreateTenant, SaveTenant, Assign, Revoke, LoginCreate, Logout, SweepDone, At
    <2>6. CASE ReadCustomer(w) \/ ReadTenant(w) \/ LoginDelete(w)
      BY <2>3, <2>4, <2>6 DEF ReadCustomer, ReadTenant, LoginDelete, At
    <2>. QED
      BY <1>3, <2>1, <2>2, <2>5, <2>6 DEF Step
  <1>4. CASE UNCHANGED vars
    BY <1>4 DEF vars, layers, Typed, Layered, LayeredAt, Asked, Exempt, Subdomain
  <1>. QED
    BY <1>1, <1>2, <1>3, <1>4 DEF Next

\* What is written under the layers is the tenant's of its customer.
LEMMA PlacedStep ==
  ASSUME Typed, Layered, Placed, [Next]_vars
  PROVE  Placed'
  <1>. SUFFICES ASSUME address' # address PROVE Placed'
    BY DEF Placed
  <1>1. PICK w \in Workers : AddAddress(w) \/ DeleteAddress(w)
    BY ZenonT(60) DEF Next, Step, Arrive, Expire, Resolve, OpenSession, AuthCustomer, AuthToken, Permit, Leave,
       CreateCustomer, ReadCustomer, SaveCustomer, BlockCustomer, CreateTenant, ReadTenant,
       SaveTenant, Assign, Revoke, LoginDelete, LoginCreate, Logout, SweepEnter, SweepLeave,
       SweepDone, Read, rows, vars
  <1>2. CASE AddAddress(w)
    <2>1. req[w] \in Requests /\ pc[w] = "view" /\ req[w].kind = "storefront"
      BY <1>2, Routes DEF AddAddress, At, Layered, LayeredAt
    <2>2. req[w].who[1] = ctx[w]
      BY <2>1 DEF Layered, LayeredAt
    <2>3. address' \subseteq address \cup {<<ctx[w], req[w].who>>}
      BY <1>2 DEF AddAddress, OwnTenant
    <2>. QED
      BY <2>2, <2>3 DEF Placed
  <1>3. CASE DeleteAddress(w)
    BY <1>3 DEF DeleteAddress, Placed
  <1>. QED
    BY <1>1, <1>2, <1>3

\* Initially no thread serves a request.
LEMMA IsolationInit == Init => IsolationInv
  BY DEF Init, IsolationInv, Typed, Layered, LayeredAt, Placed, Stages, Inside

\* The layers of every thread at every stage, and the tenant of what is written.
THEOREM IsolationHolds == Spec => []IsolationInv
  <1>1. IsolationInv /\ [Next]_vars => IsolationInv'
    BY LayeredStep, PlacedStep DEF IsolationInv
  <1>. QED
    BY <1>1, IsolationInit, PTL DEF Spec

\* While a view runs, the context variable and the session setting each confine it
\* to the tenant it serves; idle threads and connections are in no tenant.
THEOREM RequestsIsolated == Spec => []Isolated
  <1>1. IsolationInv => Isolated
    <2>. SUFFICES ASSUME IsolationInv, NEW w \in Workers, pc[w] \notin {"session", "leave"}
                  PROVE  ctx[w] = Serves(w) /\ Setting(w) = Serves(w)
      BY DEF IsolationInv, Isolated, Placed
    <2>. USE DEF IsolationInv, Layered, LayeredAt, Serves, Setting, Asked, Inside
    <2>1. pc[w] \in Stages
      BY DEF Typed
    <2>2. CASE pc[w] \in Inside
      BY <2>2
    <2>3. CASE pc[w] = "sweep"
      BY <2>3
    <2>4. CASE pc[w] \in {"idle", "resolve"}
      BY <2>4
    <2>. QED
      BY <2>1, <2>2, <2>3, <2>4 DEF Stages
  <1>. QED
    BY <1>1, IsolationHolds, PTL

------------------------------------------------------------------------------
\* What a request has shown to have once it is at a stage.
Passed(s, r) ==
  CASE s \in {"session", "customer", "token"} -> {n \in Needs(r) : n[1] = "tenant"}
    [] s = "permit" -> {n \in Needs(r) : n[1] \in {"tenant", "key"}}
    [] s \in {"view", "write", "sweep"} -> Needs(r)
    [] OTHER -> {}

VouchedAt(w) == Passed(pc[w], req[w]) \subseteq had[w]
Vouched == \A w \in Workers : VouchedAt(w)

\* had keeps what a request had, and gains what it needs and is granted.
LEMMA Witnessed ==
  ASSUME NEW w \in Workers, Watch, VouchedAt(w), req'[w] = req[w],
         Passed(pc'[w], req[w]) \subseteq Passed(pc[w], req[w]) \cup Granted'
  PROVE  VouchedAt(w)'
  <1>1. CASE pc'[w] = "idle"
    BY <1>1 DEF VouchedAt, Passed
  <1>2. CASE pc'[w] # "idle"
    <2>1. had'[w] = had[w] \cup (Needs(req'[w]) \cap Granted')
      BY <1>2 DEF Watch
    <2>2. Passed(pc'[w], req[w]) \subseteq Needs(req'[w])
      BY DEF Passed
    <2>. QED
      BY <2>1, <2>2 DEF VouchedAt
  <1>. QED
    BY <1>1, <1>2

\* The needs of each kind of request.
LEMMA NeedsOf ==
  ASSUME NEW r \in Requests
  PROVE  /\ r.kind = "storefront" =>
              Needs(r) = {<<"tenant", Subdomain(r)>>, <<"customer", r.who>>}
         /\ r.kind = "admin" =>
              Needs(r) = {<<"tenant", Subdomain(r)>>, <<"key", r.who, r.key>>}
                           \cup IF r.who = Root THEN {} ELSE {<<"member", r.who, Subdomain(r)>>}
         /\ r.kind \in {"platform", "auth"} =>
              Needs(r) = IF r.op = "login" THEN {} ELSE {<<"key", r.who, r.key>>}
  BY Routes DEF Needs

\* Each stage of the stack looks at one thing the request needs.
LEMMA StackVouched ==
  ASSUME NEW w \in Workers, Typed, Layered, VouchedAt(w), Watch,
         Resolve(w) \/ OpenSession(w) \/ AuthCustomer(w) \/ AuthToken(w) \/ Permit(w) \/ Leave(w)
  PROVE  VouchedAt(w)'
  <1>1. CASE Leave(w)
    BY <1>1 DEF Leave, Goto, VouchedAt, Passed, Typed
  <1>2. CASE Resolve(w)
    <2>1. req[w] \in Requests /\ ~Exempt(req[w])
      BY <1>2 DEF Resolve, Layered, LayeredAt
    <2>2. Subdomain(req[w]) \in Tenants \cup {None}
      BY <2>1, SubdomainType
    <2>3. req[w].kind \in {"storefront", "admin"}
      BY <2>1, Routes DEF Exempt
    <2>4. {n \in Needs(req[w]) : n[1] = "tenant"} = {<<"tenant", Subdomain(req[w])>>}
      BY <2>1, <2>3, NeedsOf
    <2>5. CASE pc'[w] = "session"
      <3>1. <<"tenant", Subdomain(req[w])>> \in Granted'
        BY <1>2, <2>2, <2>5 DEF Resolve, Goto, Typed, rows, Granted
      <3>. QED
        BY <1>2, <2>4, <2>5, <3>1, Witnessed DEF Resolve, Passed
    <2>6. CASE pc'[w] = "leave"
      BY <1>2, <2>6, Witnessed DEF Resolve, Passed
    <2>. QED
      BY <1>2, <2>5, <2>6 DEF Resolve, Goto, Typed
  <1>3. CASE OpenSession(w)
    <2>1. req[w] \in Requests
      BY <1>3 DEF OpenSession, Layered, LayeredAt
    <2>2. pc'[w] = Gate(req[w]) /\ pc[w] = "session" /\ req' = req
      BY <1>3 DEF OpenSession, Goto, Typed
    <2>3. Passed(pc'[w], req[w]) \subseteq Passed(pc[w], req[w])
      BY <2>1, <2>2, NeedsOf, Routes DEF Gate, Passed
    <2>. QED
      BY <2>2, <2>3, Witnessed
  <1>4. CASE AuthCustomer(w)
    <2>1. req[w] \in Requests /\ req[w].kind = "storefront" /\ pc[w] = "customer" /\ req' = req
      BY <1>4 DEF AuthCustomer, Layered, LayeredAt
    <2>2. CASE pc'[w] = "view"
      <3>1. <<"customer", req[w].who>> \in Granted'
        BY <1>4, <2>1, <2>2, Routes DEF AuthCustomer, Goto, Typed, rows, Granted
      <3>. QED
        BY <2>1, <2>2, <3>1, NeedsOf, Witnessed DEF Passed
    <2>3. CASE pc'[w] = "leave"
      BY <2>1, <2>3, Witnessed DEF Passed
    <2>. QED
      BY <1>4, <2>2, <2>3 DEF AuthCustomer, Goto, Typed
  <1>5. CASE AuthToken(w)
    <2>1. req[w] \in Requests /\ req[w].kind # "storefront" /\ pc[w] = "token" /\ req' = req
      BY <1>5 DEF AuthToken, Layered, LayeredAt
    <2>2. CASE pc'[w] = "leave"
      BY <2>1, <2>2, Witnessed DEF Passed
    <2>3. CASE pc'[w] # "leave"
      <3>1. <<"key", req[w].who, req[w].key>> \in Granted'
        BY <1>5, <2>1, <2>3, Routes DEF AuthToken, Goto, Typed, rows, Granted
      <3>2. pc'[w] = IF req[w].kind = "auth" THEN "view" ELSE "permit"
        BY <1>5, <2>3 DEF AuthToken, Goto, Typed
      <3>3. Passed(pc'[w], req[w]) \subseteq Passed(pc[w], req[w]) \cup Granted'
        BY <2>1, <3>1, <3>2, NeedsOf, Routes DEF Passed
      <3>. QED
        BY <2>1, <3>3, Witnessed
    <2>. QED
      BY <2>2, <2>3
  <1>6. CASE Permit(w)
    <2>1. req[w] \in Requests /\ req[w].kind # "storefront" /\ pc[w] = "permit" /\ req' = req
      BY <1>6 DEF Permit, Layered, LayeredAt
    <2>2. CASE pc'[w] = "leave"
      BY <2>1, <2>2, Witnessed DEF Passed
    <2>3. CASE pc'[w] # "leave"
      <3>1. /\ pc'[w] = "view"
            /\ req[w].kind = "admin" /\ req[w].who # Root =>
                 <<"member", req[w].who, Subdomain(req[w])>> \in Granted'
        BY <1>6, <2>3 DEF Permit, IsTenantAdmin, IsPlatformAdmin, Goto, Typed, rows, Granted
      <3>2. Passed(pc'[w], req[w]) \subseteq Passed(pc[w], req[w]) \cup Granted'
        BY <2>1, <3>1, NeedsOf, Routes DEF Passed
      <3>. QED
        BY <2>1, <3>2, Witnessed
    <2>. QED
      BY <2>2, <2>3
  <1>. QED
    BY <1>1, <1>2, <1>3, <1>4, <1>5, <1>6

\* The thread a step is of, and what the step leaves of its request.
Moves(w) ==
  /\ req' = req
  /\ \E s \in Stages : pc' = [pc EXCEPT ![w] = s]
  /\ pc[w] \in {"view", "write", "sweep"}

\* A view goes on with what its request has shown to have.
LEMMA ViewMoves ==
  ASSUME NEW w \in Workers, Step(w),
         ~(Resolve(w) \/ OpenSession(w) \/ AuthCustomer(w) \/ AuthToken(w) \/ Permit(w) \/ Leave(w))
  PROVE  Moves(w)
  <1>. USE DEF Moves, Goto, Stages
  <1>1. CASE Answer(w) /\ pc[w] \in {"view", "write"}
    BY <1>1 DEF Answer
  <1>2. CASE pc[w] = "view" /\ \E row : Read(w, row)
    BY <1>2 DEF Read
  <1>3. CASE AddAddress(w) \/ DeleteAddress(w) \/ CreateCustomer(w) \/ SaveCustomer(w)
             \/ BlockCustomer(w) \/ CreateTenant(w) \/ SaveTenant(w) \/ Assign(w) \/ Revoke(w)
             \/ LoginCreate(w) \/ Logout(w) \/ SweepDone(w)
    BY <1>1, <1>3 DEF AddAddress, DeleteAddress, CreateCustomer, SaveCustomer, BlockCustomer,
       CreateTenant, SaveTenant, Assign, Revoke, LoginCreate, Logout, SweepDone, At
  <1>4. CASE ReadCustomer(w) \/ ReadTenant(w) \/ LoginDelete(w)
    BY <1>1, <1>2, <1>4 DEF ReadCustomer, ReadTenant, LoginDelete, At
  <1>5. CASE (\E t \in Tenants : SweepEnter(w, t)) \/ SweepLeave(w)
    BY <1>5 DEF SweepEnter, SweepLeave, At
  <1>. QED
    BY <1>3, <1>4, <1>5 DEF Step

\* No step takes from a thread what its request has shown to have.
LEMMA VouchedStep ==
  ASSUME Typed, Layered, Vouched, [Next]_vars
  PROVE  Vouched'
  <1>1. ASSUME NEW v \in Workers, Watch, pc'[v] = pc[v], req'[v] = req[v]
        PROVE  VouchedAt(v)'
    BY <1>1, Witnessed DEF Vouched
  <1>2. ASSUME NEW w \in Workers, NEW r \in Requests, Arrive(w, r), Watch
        PROVE  Vouched'
    <2>1. ASSUME NEW v \in Workers, v # w PROVE VouchedAt(v)'
      BY <1>1, <1>2, <2>1 DEF Arrive, Goto, Typed
    <2>2. pc'[w] = (IF Exempt(r) THEN "session" ELSE "resolve") /\ req'[w] = r
      BY <1>2 DEF Arrive, Goto, Typed
    <2>3. Passed(pc'[w], r) = {}
      BY <2>2, NeedsOf, Routes DEF Passed, Exempt
    <2>4. VouchedAt(w)'
      BY <2>2, <2>3 DEF VouchedAt
    <2>. QED
      BY <2>1, <2>4 DEF Vouched
  <1>3. ASSUME NEW w \in Workers, Step(w), Watch
        PROVE  Vouched'
    <2>1. ASSUME NEW v \in Workers, v # w PROVE VouchedAt(v)'
      <3>1. pc'[v] = pc[v] /\ req'[v] = req[v]
        <4>1. CASE Resolve(w) \/ OpenSession(w) \/ AuthCustomer(w) \/ AuthToken(w) \/ Permit(w) \/ Leave(w)
          BY <2>1, <4>1 DEF Resolve, OpenSession, AuthCustomer, AuthToken, Permit, Leave, Goto, Typed
        <4>2. CASE Moves(w)
          BY <2>1, <4>2 DEF Moves, Typed
        <4>. QED
          BY <1>3, <4>1, <4>2, ViewMoves
      <3>. QED
        BY <1>1, <1>3, <3>1
    <2>2. VouchedAt(w)'
      <3>1. CASE Resolve(w) \/ OpenSession(w) \/ AuthCustomer(w) \/ AuthToken(w) \/ Permit(w) \/ Leave(w)
        BY <1>3, <3>1, StackVouched DEF Vouched
      <3>2. CASE Moves(w)
        <4>1. Passed(pc'[w], req[w]) \subseteq Passed(pc[w], req[w])
          BY <3>2 DEF Moves, Passed
        <4>. QED
          BY <1>3, <3>2, <4>1, Witnessed DEF Moves, Vouched
      <3>. QED
        BY <1>3, <3>1, <3>2, ViewMoves
    <2>. QED
      BY <2>1, <2>2 DEF Vouched
  <1>4. ASSUME NEW u \in Users, Expire(u), Watch
        PROVE  Vouched'
    BY <1>1, <1>4 DEF Expire, Vouched
  <1>5. CASE UNCHANGED vars
    BY <1>5 DEF vars, Vouched, VouchedAt
  <1>. QED
    BY <1>2, <1>3, <1>4, <1>5 DEF Next

\* Initially nobody has been let in.
LEMMA VouchedInit == Init => Vouched
  BY DEF Init, Vouched, VouchedAt, Passed

\* A view runs only for a request all of whose needs were granted at some moment since
\* it arrived, and for a customer of the tenant asked for.
THEOREM RequestsAdmitted == Spec => []Admitted
  <1>1. Vouched /\ IsolationInv /\ [Next]_vars => Vouched'
    BY VouchedStep DEF IsolationInv
  <1>2. Spec => []Vouched
    BY <1>1, VouchedInit, IsolationHolds, PTL DEF Spec
  <1>3. IsolationInv /\ Vouched => Admitted
    <2>. SUFFICES ASSUME IsolationInv, Vouched, NEW w \in Workers, pc[w] \in {"view", "write", "sweep"}
                  PROVE  /\ Needs(req[w]) \subseteq had[w]
                         /\ req[w].kind = "storefront" => req[w].who[1] = Subdomain(req[w])
      BY DEF Admitted
    <2>1. Needs(req[w]) \subseteq had[w]
      BY DEF Vouched, VouchedAt, Passed
    <2>2. req[w].kind = "storefront" => req[w].who[1] = Subdomain(req[w])
      BY DEF IsolationInv, Layered, LayeredAt, Asked, Exempt, Inside
    <2>. QED
      BY <2>1, <2>2
  <1>. QED
    BY <1>2, <1>3, IsolationHolds, PTL

------------------------------------------------------------------------------
\* What a view that is about to write has read.
HeldRows ==
  \A w \in Workers : pc[w] = "write" =>
    /\ req[w].op \in {"patch", "delete"} =>
         held[w] \in Row /\ customer[req[w].on] # None
    /\ req[w].op = "patch_tenant" => held[w] \in BOOLEAN

TypeInv == IsolationInv /\ TypeOK /\ HeldRows

\* The absent value is none of the others.
LEMMA NoneIsNone ==
  None \notin Row /\ None \notin Tenants /\ None \notin Customers /\ None \notin BOOLEAN
  BY AccessAssumption

\* A row patched with the columns of a body is a row.
LEMMA PatchedType ==
  ASSUME NEW row \in Row, NEW change \in Changes
  PROVE  Patched(row, change) \in Row
  <1>1. PICK set \in SUBSET Fields : change \in [set -> BOOLEAN]
    BY DEF Changes
  <1>2. \A a \in Fields : (IF a \in DOMAIN change THEN change[a] ELSE row[a]) \in BOOLEAN
    BY <1>1 DEF Row
  <1>. QED
    BY <1>2 DEF Patched, Row

\* Customers are never deleted, keep their type, and can be invoiced if they could.
LEMMA CustomerStep ==
  ASSUME TypeInv, [Next]_vars
  PROVE  /\ customer' \in [Customers -> Row \cup {None}]
         /\ \A id \in Customers : customer[id] # None => customer'[id] # None
         /\ B2BHasPapers => B2BHasPapers'
  <1>. DEFINE Kept == /\ customer' \in [Customers -> Row \cup {None}]
                      /\ \A id \in Customers : customer[id] # None => customer'[id] # None
                      /\ B2BHasPapers => B2BHasPapers'
  <1>0. customer \in [Customers -> Row \cup {None}]
    BY DEF TypeInv, TypeOK
  <1>1. ASSUME NEW id \in Customers, NEW row \in Row, customer' = [customer EXCEPT ![id] = row],
               B2BHasPapers => Invoiceable(row)
        PROVE  Kept
    BY <1>0, <1>1, NoneIsNone DEF B2BHasPapers
  <1>2. CASE customer' = customer
    BY <1>0, <1>2 DEF B2BHasPapers
  <1>3. ASSUME NEW w \in Workers, CreateCustomer(w) PROVE Kept
    <2>1. req[w] \in Requests /\ req[w].kind = "admin" /\ req[w].on \in Customers
      BY <1>3, Routes DEF CreateCustomer, At, TypeInv, IsolationInv, Layered, LayeredAt
    <2>2. ctx[w] \in Tenants
      BY <1>3, <2>1 DEF CreateCustomer, At, TypeInv, IsolationInv, Typed, Layered, LayeredAt, Inside, Exempt
    <2>3. <<OwnTenant(w), req[w].on[2]>> \in Customers
      BY <2>1, <2>2 DEF OwnTenant, Customers
    <2>4. [a \in Fields |-> a = "active"] \in Row
      BY DEF Row
    <2>5. Patched([a \in Fields |-> a = "active"], req[w].change) \in Row
      BY <2>1, <2>4, PatchedType, Routes
    <2>. QED
      BY <1>1, <1>2, <1>3, <2>3, <2>5 DEF CreateCustomer
  <1>4. ASSUME NEW w \in Workers, SaveCustomer(w) PROVE Kept
    <2>1. req[w] \in Requests /\ req[w].on \in Customers /\ req[w].change \in Changes
      BY <1>4, Routes DEF SaveCustomer, At, TypeInv, IsolationInv, Layered, LayeredAt
    <2>2. Patched(held[w], req[w].change) \in Row
      BY <1>4, <2>1, PatchedType DEF SaveCustomer, At, TypeInv, HeldRows
    <2>. QED
      BY <1>1, <1>2, <1>4, <2>1, <2>2 DEF SaveCustomer
  <1>5. ASSUME NEW w \in Workers, BlockCustomer(w) PROVE Kept
    <2>1. req[w] \in Requests /\ req[w].on \in Customers
      BY <1>5, Routes DEF BlockCustomer, At, TypeInv, IsolationInv, Layered, LayeredAt
    <2>2. customer[req[w].on] \in Row
      BY <1>0, <1>5, <2>1 DEF BlockCustomer, At, TypeInv, HeldRows
    <2>3. CASE held[w].active
      <3>. DEFINE new == [customer[req[w].on] EXCEPT !.active = FALSE]
      <3>1. new \in Row /\ new.b2b = customer[req[w].on].b2b /\ new.papers = customer[req[w].on].papers
        BY <2>2 DEF Row, Fields
      <3>2. customer' = [customer EXCEPT ![req[w].on] = new]
        BY <1>0, <1>5, <2>1, <2>3 DEF BlockCustomer
      <3>3. B2BHasPapers => Invoiceable(new)
        BY <2>1, <2>2, <3>1, NoneIsNone DEF B2BHasPapers, Invoiceable
      <3>. HIDE DEF new
      <3>. QED
        BY <1>1, <2>1, <3>1, <3>2, <3>3
    <2>. QED
      BY <1>2, <1>5, <2>3 DEF BlockCustomer
  <1>6. customer' = customer \/ \E w \in Workers : CreateCustomer(w) \/ SaveCustomer(w) \/ BlockCustomer(w)
    BY ZenonT(60) DEF Next, Step, Arrive, Expire, Resolve, OpenSession, AuthCustomer, AuthToken, Permit, Leave,
       AddAddress, DeleteAddress, ReadCustomer, CreateTenant, ReadTenant, SaveTenant, Assign, Revoke,
       LoginDelete, LoginCreate, Logout, SweepEnter, SweepLeave, SweepDone, Read, rows, vars
  <1>. QED
    BY <1>2, <1>3, <1>4, <1>5, <1>6

\* Tenants are never deleted and keep their type.
LEMMA TenantStep ==
  ASSUME TypeInv, [Next]_vars
  PROVE  /\ tenant' \in [Tenants -> BOOLEAN \cup {None}]
         /\ \A t \in Tenants : tenant[t] # None => tenant'[t] # None
  <1>0. tenant \in [Tenants -> BOOLEAN \cup {None}]
    BY DEF TypeInv, TypeOK
  <1>1. ASSUME NEW w \in Workers, CreateTenant(w) \/ SaveTenant(w)
        PROVE  \E t \in Tenants, b \in BOOLEAN : tenant' \in {tenant, [tenant EXCEPT ![t] = b]}
    <2>1. req[w] \in Requests /\ req[w].on \in Tenants /\ req[w].change \in Changes
      BY <1>1, Routes DEF CreateTenant, SaveTenant, At, TypeInv, IsolationInv, Layered, LayeredAt
    <2>2. CASE CreateTenant(w)
      BY <2>1, <2>2 DEF CreateTenant
    <2>3. CASE SaveTenant(w)
      <3>1. PICK set \in SUBSET Fields : req[w].change \in [set -> BOOLEAN]
        BY <2>1 DEF Changes
      <3>2. "active" \in DOMAIN req[w].change => req[w].change.active \in BOOLEAN
        BY <3>1
      <3>3. held[w] \in BOOLEAN
        BY <2>3 DEF SaveTenant, At, TypeInv, HeldRows
      <3>. QED
        BY <2>1, <2>3, <3>2, <3>3 DEF SaveTenant
    <2>. QED
      BY <1>1, <2>2, <2>3
  <1>2. tenant' = tenant \/ \E w \in Workers : CreateTenant(w) \/ SaveTenant(w)
    BY ZenonT(60) DEF Next, Step, Arrive, Expire, Resolve, OpenSession, AuthCustomer, AuthToken, Permit, Leave,
       AddAddress, DeleteAddress, CreateCustomer, ReadCustomer, SaveCustomer, BlockCustomer,
       ReadTenant, Assign, Revoke, LoginDelete, LoginCreate, Logout, SweepEnter, SweepLeave,
       SweepDone, Read, rows, vars
  <1>. QED
    BY <1>0, <1>1, <1>2, NoneIsNone

\* Accounts, memberships and tokens.
Accounts ==
  /\ account \subseteq Users
  /\ \A m \in member : m[1] \in account \cap Admins /\ m[2] \in Tenants /\ tenant[m[2]] # None
  /\ minted \in [Users -> Nat]
  /\ token \in [Users -> Nat] /\ \A u \in Users : token[u] <= minted[u]
  /\ stale \subseteq Users

\* Memberships are made of existing tenants, keys are counted as they are minted.
LEMMA AccountStep ==
  ASSUME TypeInv, [Next]_vars
  PROVE  Accounts'
  <1>0. Accounts /\ \A t \in Tenants : tenant[t] # None => tenant'[t] # None
    BY TenantStep DEF TypeInv, TypeOK, Accounts
  <1>1. CASE UNCHANGED <<account, member, token, minted, stale>>
    BY <1>0, <1>1 DEF Accounts
  <1>2. ASSUME NEW w \in Workers, Assign(w) PROVE Accounts'
    <2>1. req[w] \in Requests /\ req[w].on \in Memberships
      BY <1>2, Routes DEF Assign, At, TypeInv, IsolationInv, Layered, LayeredAt
    <2>2. req[w].on[1] \in Admins /\ req[w].on[2] \in Tenants
      BY <2>1 DEF Memberships
    <2>3. UNCHANGED <<tenant, token, minted, stale>>
      BY <1>2 DEF Assign
    <2>4. \/ UNCHANGED <<account, member>>
          \/ /\ tenant[req[w].on[2]] # None
             /\ account' = account \cup {req[w].on[1]} /\ member' = member \cup {req[w].on}
      BY <1>2 DEF Assign
    <2>. QED
      BY <1>0, <2>2, <2>3, <2>4 DEF Accounts, Users
  <1>3. ASSUME NEW w \in Workers, Revoke(w) PROVE Accounts'
    BY <1>0, <1>3 DEF Revoke, Accounts
  <1>4. ASSUME NEW w \in Workers, LoginCreate(w) PROVE Accounts'
    <2>1. req[w] \in Requests /\ req[w].who \in Users
      BY <1>4, Routes DEF LoginCreate, At, TypeInv, IsolationInv, Layered, LayeredAt
    <2>. QED
      BY <1>0, <1>4, <2>1 DEF LoginCreate, Accounts
  <1>5. ASSUME NEW w \in Workers, Logout(w) PROVE Accounts'
    <2>1. req[w] \in Requests /\ req[w].who \in Users
      BY <1>5, Routes DEF Logout, At, TypeInv, IsolationInv, Layered, LayeredAt
    <2>. QED
      BY <1>0, <1>5, <2>1 DEF Logout, Accounts
  <1>6. ASSUME NEW u \in Users, Expire(u) PROVE Accounts'
    BY <1>0, <1>6 DEF Expire, Accounts
  <1>7. ASSUME NEW w \in Workers, Step(w), ~Assign(w), ~Revoke(w), ~LoginCreate(w), ~Logout(w)
        PROVE  UNCHANGED <<account, member, token, minted, stale>>
    BY <1>7 DEF Step, Resolve, OpenSession, AuthCustomer, AuthToken, Permit, Leave,
       AddAddress, DeleteAddress, CreateCustomer, ReadCustomer, SaveCustomer, BlockCustomer,
       CreateTenant, ReadTenant, SaveTenant, LoginDelete, SweepEnter, SweepLeave,
       SweepDone, Read, rows
  <1>8. ASSUME NEW w \in Workers, NEW r \in Requests, Arrive(w, r)
        PROVE  UNCHANGED <<account, member, token, minted, stale>>
    BY <1>8 DEF Arrive, rows
  <1>9. CASE UNCHANGED vars
    BY <1>1, <1>9 DEF vars, rows
  <1>. QED
    BY <1>1, <1>2, <1>3, <1>4, <1>5, <1>6, <1>7, <1>8, <1>9 DEF Next

\* Only the read before it brings a view to a write.
LEMMA HeldStep ==
  ASSUME TypeInv, [Next]_vars
  PROVE  HeldRows'
  <1>. DEFINE HeldAt(w) == pc[w] = "write" =>
                /\ req[w].op \in {"patch", "delete"} =>
                     held[w] \in Row /\ customer[req[w].on] # None
                /\ req[w].op = "patch_tenant" => held[w] \in BOOLEAN
  <1>0. \A w \in Workers : pc[w] = "write" => req[w] \in Requests
    BY DEF TypeInv, IsolationInv, Layered, LayeredAt
  <1>1. ASSUME NEW v \in Workers, req'[v] = req[v], held'[v] = held[v], pc'[v] = pc[v]
        PROVE  HeldAt(v)'
    BY <1>0, <1>1, CustomerStep, Routes DEF TypeInv, HeldRows
  <1>2. ASSUME NEW w \in Workers, Apart(w), pc'[w] # "write" PROVE HeldRows'
    <2>1. ASSUME NEW v \in Workers, v # w PROVE HeldAt(v)'
      BY <1>1, <1>2, <2>1 DEF Apart
    <2>. QED
      BY <1>2, <2>1 DEF HeldRows
  <1>3. ASSUME NEW w \in Workers, NEW row, Read(w, row), At(w, "view", "patch") \/ At(w, "view", "delete"),
               row \in Row \cup {None}, row # None => customer[req[w].on] = row
        PROVE  HeldRows'
    <2>1. Apart(w)
      BY <1>3 DEF Apart, Read, Goto, layers, TypeInv, IsolationInv, Typed
    <2>2. ASSUME NEW v \in Workers, v # w PROVE HeldAt(v)'
      BY <1>1, <2>1, <2>2 DEF Apart
    <2>3. HeldAt(w)'
      BY <1>3 DEF Read, Goto, At, rows, TypeInv, IsolationInv, Typed
    <2>. QED
      BY <2>2, <2>3 DEF HeldRows
  <1>4. ASSUME NEW w \in Workers, ReadTenant(w) PROVE HeldRows'
    <2>1. Apart(w)
      BY <1>4 DEF Apart, ReadTenant, Read, Goto, layers, TypeInv, IsolationInv, Typed
    <2>2. ASSUME NEW v \in Workers, v # w PROVE HeldAt(v)'
      BY <1>1, <2>1, <2>2 DEF Apart
    <2>3. req[w] \in Requests /\ req[w].on \in Tenants
      BY <1>4, Routes DEF ReadTenant, At, TypeInv, IsolationInv, Layered, LayeredAt
    <2>4. tenant[req[w].on] \in BOOLEAN \cup {None}
      BY <2>3 DEF TypeInv, TypeOK
    <2>5. HeldAt(w)'
      BY <1>4, <2>4 DEF ReadTenant, Read, Goto, At, TypeInv, IsolationInv, Typed
    <2>. QED
      BY <2>2, <2>5 DEF HeldRows
  <1>5. ASSUME NEW w \in Workers, LoginDelete(w) PROVE HeldRows'
    <2>1. Apart(w)
      BY <1>5 DEF Apart, LoginDelete, Read, Answer, Goto, layers, TypeInv, IsolationInv, Typed
    <2>2. ASSUME NEW v \in Workers, v # w PROVE HeldAt(v)'
      BY <1>1, <2>1, <2>2 DEF Apart
    <2>3. req'[w].op = "login"
      BY <1>5 DEF LoginDelete, Read, Answer, At
    <2>. QED
      BY <2>2, <2>3 DEF HeldRows
  <1>6. ASSUME NEW w \in Workers, ReadCustomer(w) PROVE HeldRows'
    <2>1. req[w] \in Requests /\ req[w].on \in Customers
      BY <1>6, Routes DEF ReadCustomer, At, TypeInv, IsolationInv, Layered, LayeredAt
    <2>2. customer[req[w].on] \in Row \cup {None}
      BY <2>1 DEF TypeInv, TypeOK
    <2>. QED
      BY <1>3, <1>6, <2>2 DEF ReadCustomer
  <1>7. ASSUME NEW w \in Workers, Step(w), ~ReadCustomer(w), ~ReadTenant(w), ~LoginDelete(w) PROVE HeldRows'
    <2>. USE DEF Apart, Goto, TypeInv, IsolationInv, Typed
    <2>1. CASE Resolve(w) \/ OpenSession(w) \/ AuthCustomer(w) \/ AuthToken(w) \/ Permit(w) \/ Leave(w)
      BY <1>2, <2>1 DEF Resolve, OpenSession, AuthCustomer, AuthToken, Permit, Leave, Gate, layers
    <2>2. CASE (\E t \in Tenants : SweepEnter(w, t)) \/ SweepLeave(w)
      BY <1>2, <2>2 DEF SweepEnter, SweepLeave
    <2>3. CASE Answer(w)
      BY <1>2, <2>3 DEF Answer, layers
    <2>. QED
      BY <1>7, <2>1, <2>2, <2>3 DEF Step, AddAddress, DeleteAddress, CreateCustomer, SaveCustomer,
         BlockCustomer, CreateTenant, SaveTenant, Assign, Revoke, LoginCreate, Logout, SweepDone
  <1>8. ASSUME NEW w \in Workers, NEW r \in Requests, Arrive(w, r) PROVE HeldRows'
    BY <1>2, <1>8 DEF Arrive, Goto, Apart, layers, TypeInv, IsolationInv, Typed
  <1>9. CASE UNCHANGED <<req, pc, held>>
    BY <1>1, <1>9 DEF HeldRows
  <1>. QED
    BY <1>4, <1>5, <1>6, <1>7, <1>8, <1>9 DEF Next, Expire, vars

\* The types of what is stored and of the threads.
LEMMA TypeStep ==
  ASSUME TypeInv, [Next]_vars
  PROVE  TypeOK'
  <1>1. Typed'
    BY LayeredStep DEF TypeInv, IsolationInv
  <1>2. address' \subseteq Addresses
    <2>1. ASSUME NEW w \in Workers, AddAddress(w) PROVE address' \subseteq Addresses
      <3>1. req[w] \in Requests /\ ~Exempt(req[w]) /\ req[w].who \in Customers
        BY <2>1, Routes DEF AddAddress, At, Exempt, TypeInv, IsolationInv, Layered, LayeredAt
      <3>2. ctx[w] \in Tenants
        BY <2>1, <3>1 DEF AddAddress, At, TypeInv, IsolationInv, Typed, Layered, LayeredAt, Inside
      <3>. QED
        BY <2>1, <3>1, <3>2 DEF AddAddress, OwnTenant, TypeInv, TypeOK, Addresses
    <2>2. ASSUME NEW w \in Workers, DeleteAddress(w) PROVE address' \subseteq Addresses
      BY <2>2 DEF DeleteAddress, TypeInv, TypeOK
    <2>3. ASSUME NEW w \in Workers, Step(w), ~AddAddress(w), ~DeleteAddress(w) PROVE address' = address
      BY <2>3 DEF Step, Resolve, OpenSession, AuthCustomer, AuthToken, Permit, Leave,
         CreateCustomer, ReadCustomer, SaveCustomer, BlockCustomer, CreateTenant, ReadTenant,
         SaveTenant, Assign, Revoke, LoginDelete, LoginCreate, Logout, SweepEnter, SweepLeave,
         SweepDone, Read, rows
    <2>4. address \subseteq Addresses
      BY DEF TypeInv, TypeOK
    <2>. QED
      BY <2>1, <2>2, <2>3, <2>4 DEF Next, Arrive, Expire, rows, vars
  <1>3. arrived' \in 0..MaxRequests
    <2>1. ASSUME NEW w \in Workers, Step(w) PROVE arrived' = arrived
      BY <2>1 DEF Step, Resolve, OpenSession, AuthCustomer, AuthToken, Permit, Leave, AddAddress,
         DeleteAddress, CreateCustomer, ReadCustomer, SaveCustomer, BlockCustomer, CreateTenant,
         ReadTenant, SaveTenant, Assign, Revoke, LoginDelete, LoginCreate, Logout, SweepEnter,
         SweepLeave, SweepDone, Read, Answer
    <2>2. ASSUME NEW w \in Workers, NEW r \in Requests, Arrive(w, r) PROVE arrived' \in 0..MaxRequests
      BY <2>2, AccessAssumption DEF Arrive, TypeInv, TypeOK
    <2>3. arrived \in 0..MaxRequests
      BY DEF TypeInv, TypeOK
    <2>. QED
      BY <2>1, <2>2, <2>3 DEF Next, Expire, vars
  <1>. QED
    BY <1>1, <1>2, <1>3, CustomerStep, TenantStep, AccountStep DEF TypeOK, Typed, Accounts

\* Initially the variables are of their types.
LEMMA TypeInit == Init => TypeInv /\ B2BHasPapers
  <1>. SUFFICES ASSUME Init PROVE TypeInv /\ B2BHasPapers
    OBVIOUS
  <1>1. PICK there \in Provisioned :
          /\ tenant = [t \in Tenants |-> IF t \in there THEN TRUE ELSE None]
          /\ customer = [c \in Customers |->
                           IF c[1] \in there THEN [a \in Fields |-> a # "b2b"] ELSE None]
          /\ member = {m \in Memberships : m[2] \in there}
    BY DEF Init
  <1>2. [a \in Fields |-> a # "b2b"] \in Row /\ Invoiceable([a \in Fields |-> a # "b2b"])
    BY DEF Row, Fields, Invoiceable
  <1>3. customer \in [Customers -> Row \cup {None}] /\ B2BHasPapers
    BY <1>1, <1>2 DEF B2BHasPapers
  <1>4. \A m \in member : m[1] \in account \cap Admins /\ m[2] \in Tenants /\ tenant[m[2]] # None
    <2>1. account = Users
      BY DEF Init
    <2>2. ASSUME NEW t \in there PROVE t \in Tenants /\ tenant[t] # None
      BY <1>1, <2>2, NoneIsNone, AccessAssumption
    <2>3. ASSUME NEW m \in member PROVE m[1] \in Admins /\ m[2] \in there
      BY <1>1, <2>3 DEF Memberships
    <2>. QED
      BY <2>1, <2>2, <2>3 DEF Users
  <1>5. tenant \in [Tenants -> BOOLEAN \cup {None}]
    BY <1>1
  <1>6. TypeOK
    <2>1. Typed
      BY IsolationInit DEF IsolationInv
    <2>2. arrived = 0 /\ address = {} /\ account = Users /\ stale = {}
          /\ minted = [u \in Users |-> 1] /\ token = [u \in Users |-> 1]
      BY DEF Init
    <2>3. arrived \in 0..MaxRequests
      BY <2>2, AccessAssumption
    <2>. QED
      BY <1>3, <1>4, <1>5, <2>1, <2>2, <2>3 DEF TypeOK, Typed
  <1>. QED
    BY <1>3, <1>6, IsolationInit DEF Init, TypeInv, HeldRows

\* They are of their types in every state.
LEMMA TypeInvHolds == Spec => [](TypeInv /\ B2BHasPapers)
  <1>1. TypeInv /\ B2BHasPapers /\ [Next]_vars => (TypeInv /\ B2BHasPapers)'
    BY LayeredStep, PlacedStep, TypeStep, HeldStep, CustomerStep DEF TypeInv, IsolationInv
  <1>. QED
    BY <1>1, TypeInit, PTL DEF Spec

\* Types; memberships are of existing users and tenants, keys were minted.
THEOREM TypeCorrect == Spec => []TypeOK
  BY TypeInvHolds, PTL DEF TypeInv

\* A B2B customer can be invoiced, however the PATCHes of its row overlap.
THEOREM B2BCanBeInvoiced == Spec => []B2BHasPapers
  BY TypeInvHolds, PTL

==============================================================================
