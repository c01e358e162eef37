--------------------------- MODULE MCAsyncClient ---------------------------
(* Small instances of AsyncClient.  Each mix gives the frontend operations *)
(* of a run and what each of them does.                                    *)
EXTENDS AsyncClient, TLC

CONSTANTS c1, c2, c3, s1, s2, n1

OneSubId == {s1}
TwoSubIds == {s1, s2}
OneMethod == {n1}

Mix(c, d, e) == (c1 :> c) @@ (c2 :> d) @@ (c3 :> e)

TwoOps == {c1, c2}
ThreeOps == {c1, c2, c3}

\* A call, a subscription and a batch that share the id counter.
CallsMix == Mix("call", "subscribe", "batch")
\* Two handlers for one method, and an outgoing notification.
HandlerMix == Mix("register", "register", "notify")
\* Two subscriptions.
SubscribeMix == (c1 :> "subscribe") @@ (c2 :> "subscribe")
\* A call and a subscription.
PairMix == (c1 :> "call") @@ (c2 :> "subscribe")
\* A subscription whose messages compete with a notification for to_back.
FaultMix == (c1 :> "notify") @@ (c2 :> "subscribe")
\* A batch and a handler registration.
MixedPair == (c1 :> "batch") @@ (c2 :> "register")

MethodOfThree == [c \in ThreeOps |-> n1]
MethodOfTwo == [c \in TwoOps |-> n1]
=============================================================================
