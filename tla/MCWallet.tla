------------------------------ MODULE MCWallet ------------------------------
(***************************************************************************)
(* A small instance of Wallet: two customers and two workers, from empty   *)
(* tables and from stocked ones.                                           *)
(***************************************************************************)
EXTENDS Wallet, TLC

CONSTANTS ana, bob, m1, m2, m3, c1, c2, shop, other

\* runserver --nothreading, or a Celery worker with -P solo: one thread each.
OneThreadEach == [w \in Workers |-> w]

\* runserver as the Dockerfile and the Makefile start it: a thread a request.
OneProcess == [w \in Workers |-> CHOOSE p \in Processes : TRUE]

At(name) == [name |-> name, account |-> shop]

Card == [who |-> ana, config |-> c1, token |-> At("stripe")]
TestCard == [who |-> ana, config |-> c2, token |-> At("mock")]
On(name) == [seat |-> At(name), active |-> TRUE]

Empty == [method |-> [m \in Methods |-> None], config |-> [c \in Configs |-> None],
          default |-> {}]
\* Stripe, and a mock configuration left over from testing.
Stocked == [method |-> [m \in Methods |-> CASE m = m1 -> Card [] m = m2 -> TestCard
                                             [] OTHER -> None],
            config |-> [c \in Configs |-> CASE c = c1 -> On("stripe") [] c = c2 -> On("mock")
                                             [] OTHER -> None],
            default |-> {m1, c1}]
BothTables == {Empty, Stocked}
\* The sandbox and the live Stripe, each with a saved card.
TwoStripes == {[Stocked EXCEPT !.config[c2] = On("stripe_live"),
                               !.method[m2].token = At("stripe_live")]}

\* One field of a configuration at a time, or the two flags together.
OneField ==
  {<<g, None, None, None>> : g \in {"stripe_live", "hyperpay"}}
    \cup {<<None, other, None, None>>, <<None, None, FALSE, None>>,
          <<None, None, None, TRUE>>, <<None, None, TRUE, FALSE>>}

Alike == Permutations(Workers)
=============================================================================
