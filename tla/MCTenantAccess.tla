--------------------------- MODULE MCTenantAccess ---------------------------
(***************************************************************************)
(* A small instance of TenantAccess: two tenants with a customer each, one *)
(* tenant admin, one superuser, and the requests that get in each other's  *)
(* way.                                                                    *)
(***************************************************************************)
EXTENDS TenantAccess, TLC

CONSTANTS t1, t2, api, e1, ana, root

\* The threads are alike.
Threads == Permutations(Workers)

\* t1.acme.test, api.t2.acme.test, acme.test
OfOne == <<t1>>
OfTwo == <<api, t2>>
Bare == <<>>
One == <<t1, e1>>
Two == <<t2, e1>>

Ask(kind, op, host, who, key, on, change) ==
  [kind |-> kind, op |-> op, host |-> host, who |-> who, key |-> key, on |-> on,
   change |-> change]

Nothing == <<>>
Blocked == [f \in {"active"} |-> FALSE]
Unblocked == [f \in {"active"} |-> TRUE]
Business == [f \in {"b2b", "papers"} |-> TRUE]
NoPapers == [f \in {"papers"} |-> FALSE]
BusinessNow == [f \in {"b2b"} |-> TRUE]

Shopping ==
  {Ask("storefront", "add_address", h, c, 1, None, Nothing) : h \in {OfOne, OfTwo}, c \in {One, Two}}
  \cup {Ask("storefront", "add_address", Bare, One, 1, None, Nothing)}
  \cup {Ask("storefront", "delete_address", OfOne, One, 1, None, Nothing)}
Administration ==
  {Ask("admin", "patch", OfOne, ana, k, One, Blocked) : k \in {1, 2}}
  \cup {Ask("admin", "patch", OfOne, ana, 1, One, f) : f \in {Unblocked, NoPapers, BusinessNow}}
  \cup {Ask("admin", "patch", OfTwo, u, 1, One, Blocked) : u \in {ana, root}}
  \cup {Ask("admin", "delete", OfOne, root, 1, One, Nothing),
        Ask("admin", "create", OfTwo, root, 1, Two, Business)}
Platform ==
  {Ask("platform", "patch_tenant", <<>>, root, 1, t1, f) : f \in {Blocked, Unblocked, Nothing}}
  \cup {Ask("platform", "assign", <<>>, root, 1, <<ana, t2>>, Nothing),
        Ask("platform", "revoke", <<>>, root, 1, <<ana, t1>>, Nothing)}
  \cup {Ask("platform", "create_tenant", <<>>, root, 1, t2, Nothing),
        Ask("platform", "reconcile", <<>>, root, 1, None, Nothing),
        Ask("platform", "reconcile", <<>>, ana, 1, None, Nothing)}
Accounts ==
  {Ask("auth", op, <<>>, ana, 1, None, Nothing) : op \in {"login", "logout"}}

AllRequests == Shopping \cup Administration \cup Platform \cup Accounts
==============================================================================
