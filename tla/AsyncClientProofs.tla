------------------------- MODULE AsyncClientProofs --------------------------
(***************************************************************************)
(* The safety properties of the asynchronous client, for every number of   *)
(* operations, subscription ids, methods and request ids and every         *)
(* capacity of the channels: the send task and the read task keep its      *)
(* invariant.  The second half is about the streams: a Subscription that   *)
(* its user still holds ends only for a reason, and a notification enters  *)
(* the channel of the subscription it names and no other.                  *)
(***************************************************************************)
EXTENDS AsyncClient, TLAPS

(* None is not a natural number, so it is no request id. *)
LEMMA NoneIsNoId == None \notin RequestIds
BY ManagerAssumption DEF RequestIds

(* The entries an operation may put into the table of requests. *)
LEMMA KindTypes ==
  ASSUME NEW unsub \in RequestIds \cup {None}, NEW tx \in Senders \cup {None}
  PROVE  /\ Vacant \in Kinds
         /\ PendingMethodCall(tx) \in Kinds
         /\ PendingSubscription(unsub, tx) \in Kinds
         /\ Subscription(unsub, tx) \in Kinds
BY Zenon DEF Kinds, Kind, Vacant, PendingMethodCall, PendingSubscription, Subscription

(* A new manager has no entries, so nothing in it can disagree.            *)
LEMMA EmptyConsistent == EmptyManager \in Managers /\ Consistent(EmptyManager)
<1>1. EmptyManager \in Managers
  BY Zenon, KindTypes DEF EmptyManager, Managers
<1>2. Consistent(EmptyManager)
  BY Zenon DEF EmptyManager, Consistent, TablesAgree, UnsubIdsReserved, SubscriptionsHaveSinks,
         HoldsUnsubId, request_status, Vacant, Kind
<1> QED BY Zenon, <1>1, <1>2

(* insert_pending_call fills a vacant id, which no subscription uses.      *)
LEMMA InsertPendingCallConsistent ==
  ASSUME NEW m \in Managers, Consistent(m),
         NEW id \in RequestIds, NEW tx \in Senders \cup {None}
  PROVE  /\ insert_pending_call(m, id, tx).m \in Managers
         /\ Consistent(insert_pending_call(m, id, tx).m)
<1> DEFINE n == [m EXCEPT !.requests[id] = PendingMethodCall(tx)]
<1>1. CASE m.requests[id] # Vacant
  BY Zenon, <1>1 DEF insert_pending_call, Err
<1>2. CASE m.requests[id] = Vacant
  <2>1. insert_pending_call(m, id, tx).m = n
    BY Zenon, <1>2 DEF insert_pending_call, Ok
  <2>2. n \in Managers
    BY Zenon, KindTypes DEF Managers
  <2>3. Consistent(n)
    BY <1>2 DEF Managers, Consistent, TablesAgree, UnsubIdsReserved, SubscriptionsHaveSinks,
      HoldsUnsubId, request_status, Vacant, PendingMethodCall, Kind
  <2> QED BY Zenon, <2>1, <2>2, <2>3
<1> QED BY Zenon, <1>1, <1>2

(* insert_pending_subscription reserves the unsubscribe id with the entry.      *)
(* The two ids are vacant and distinct, so no other subscription counts on them. *)
LEMMA InsertPendingSubscriptionConsistent ==
  ASSUME NEW m \in Managers, Consistent(m),
         NEW sub \in RequestIds, NEW unsub \in RequestIds, NEW tx \in Senders
  PROVE  /\ insert_pending_subscription(m, sub, unsub, tx).m \in Managers
         /\ Consistent(insert_pending_subscription(m, sub, unsub, tx).m)
<1> DEFINE n == [m EXCEPT !.requests[sub] = PendingSubscription(unsub, tx),
                         !.requests[unsub] = PendingMethodCall(None)]
<1>1. CASE ~(m.requests[sub] = Vacant /\ m.requests[unsub] = Vacant /\ sub # unsub)
  BY Zenon, <1>1 DEF insert_pending_subscription, Err
<1>2. CASE m.requests[sub] = Vacant /\ m.requests[unsub] = Vacant /\ sub # unsub
  <2>1. insert_pending_subscription(m, sub, unsub, tx).m = n
    BY Zenon, <1>2 DEF insert_pending_subscription, Ok
  <2>2. n \in Managers
    BY Zenon, KindTypes DEF Managers, Ranges
  <2>3. TablesAgree(n)
    BY <1>2 DEF Managers, Consistent, TablesAgree, UnsubIdsReserved, HoldsUnsubId,
       request_status, Vacant, PendingMethodCall, PendingSubscription, Subscription, Kind
  <2>4. UnsubIdsReserved(n) /\ SubscriptionsHaveSinks(n)
    BY <1>2 DEF Managers, Consistent, TablesAgree, UnsubIdsReserved, SubscriptionsHaveSinks,
       HoldsUnsubId, Unclaimed, request_status, Vacant, PendingMethodCall, PendingSubscription, Subscription, Kind
  <2> QED BY Zenon, <2>1, <2>2, <2>3, <2>4 DEF Consistent
<1> QED BY Zenon, <1>1, <1>2

(* insert_subscription needs the unsubscribe id to be still reserved and free of other claims. *)
LEMMA InsertSubscriptionConsistent ==
  ASSUME NEW m \in Managers, Consistent(m),
         NEW sub \in RequestIds, NEW unsub \in RequestIds, NEW tx \in Senders,
         NEW sid \in SubscriptionIds,
         m.requests[unsub] = PendingMethodCall(None), Unclaimed(m, unsub)
  PROVE  /\ insert_subscription(m, sub, unsub, sid, tx).m \in Managers
         /\ Consistent(insert_subscription(m, sub, unsub, sid, tx).m)
<1> DEFINE n == [m EXCEPT !.requests[sub] = Subscription(unsub, tx),
                         !.subscriptions[sid] = sub]
<1>1. CASE ~(m.requests[sub] = Vacant /\ m.subscriptions[sid] = None)
  BY Zenon, <1>1 DEF insert_subscription, Err
<1>2. CASE m.requests[sub] = Vacant /\ m.subscriptions[sid] = None
  <2>1. insert_subscription(m, sub, unsub, sid, tx).m = n
    BY Zenon, <1>2 DEF insert_subscription, Ok
  <2>2. n \in Managers
    BY Zenon, KindTypes DEF Managers, Ranges
  <2>3. TablesAgree(n)
    <3>1. /\ \A s \in SubscriptionIds : n.subscriptions[s] = IF s = sid THEN sub ELSE m.subscriptions[s]
          /\ \A i \in RequestIds : request_status(n, i) = IF i = sub THEN "Subscription"
                                                          ELSE request_status(m, i)
      BY Zenon DEF Managers, request_status, Subscription, Kind
    <3>2. \A s \in SubscriptionIds : m.subscriptions[s] # sub
      BY <1>2, NoneIsNoId DEF Consistent, TablesAgree, request_status, Vacant, Kind
    <3> HIDE DEF n
    <3> QED BY <3>1, <3>2, <1>2, NoneIsNoId DEF Managers, Consistent, TablesAgree
  <2>4. UnsubIdsReserved(n) /\ SubscriptionsHaveSinks(n)
    BY <1>2 DEF Managers, Consistent, TablesAgree, UnsubIdsReserved, SubscriptionsHaveSinks,
       HoldsUnsubId, Unclaimed, request_status, Vacant, PendingMethodCall, PendingSubscription, Subscription, Kind
  <2> QED BY Zenon, <2>1, <2>2, <2>3, <2>4 DEF Consistent
<1> QED BY Zenon, <1>1, <1>2

(* complete_pending_subscription frees the entry and keeps the reservation. *)
LEMMA CompletePendingSubscriptionConsistent ==
  ASSUME NEW m \in Managers, Consistent(m), NEW id \in RequestIds
  PROVE  /\ complete_pending_subscription(m, id).m \in Managers
         /\ Consistent(complete_pending_subscription(m, id).m)
<1> DEFINE n == [m EXCEPT !.requests[id] = Vacant]
<1>1. CASE ~(m.requests[id].st = "PendingSubscription")
  BY Zenon, <1>1 DEF complete_pending_subscription, Err
<1>2. CASE m.requests[id].st = "PendingSubscription"
  <2>1. complete_pending_subscription(m, id).m = n
    BY Zenon, <1>2 DEF complete_pending_subscription, Ok
  <2>2. n \in Managers
    BY Zenon, KindTypes DEF Managers, Ranges
  <2>3. TablesAgree(n)
    BY <1>2 DEF Managers, Consistent, TablesAgree, UnsubIdsReserved, HoldsUnsubId,
       request_status, Vacant, PendingMethodCall, PendingSubscription, Subscription, Kind
  <2>4. UnsubIdsReserved(n) /\ SubscriptionsHaveSinks(n)
    BY <1>2 DEF Managers, Consistent, TablesAgree, UnsubIdsReserved, SubscriptionsHaveSinks,
       HoldsUnsubId, Unclaimed, request_status, Vacant, PendingMethodCall, PendingSubscription, Subscription, Kind
  <2> QED BY Zenon, <2>1, <2>2, <2>3, <2>4 DEF Consistent
<1> QED BY Zenon, <1>1, <1>2

(* complete_pending_call may only free an id no subscription counts on. *)
LEMMA CompletePendingCallConsistent ==
  ASSUME NEW m \in Managers, Consistent(m), NEW id \in RequestIds, Unclaimed(m, id)
  PROVE  /\ complete_pending_call(m, id).m \in Managers
         /\ Consistent(complete_pending_call(m, id).m)
<1> DEFINE n == [m EXCEPT !.requests[id] = Vacant]
<1>1. CASE ~(m.requests[id].st = "PendingMethodCall")
  BY Zenon, <1>1 DEF complete_pending_call, Err
<1>2. CASE m.requests[id].st = "PendingMethodCall"
  <2>1. complete_pending_call(m, id).m = n
    BY Zenon, <1>2 DEF complete_pending_call, Ok
  <2>2. n \in Managers
    BY Zenon, KindTypes DEF Managers, Ranges
  <2>3. TablesAgree(n)
    BY <1>2 DEF Managers, Consistent, TablesAgree, UnsubIdsReserved, HoldsUnsubId,
       request_status, Vacant, PendingMethodCall, PendingSubscription, Subscription, Kind
  <2>4. UnsubIdsReserved(n) /\ SubscriptionsHaveSinks(n)
    BY <1>2 DEF Managers, Consistent, TablesAgree, UnsubIdsReserved, SubscriptionsHaveSinks,
       HoldsUnsubId, Unclaimed, request_status, Vacant, PendingMethodCall, PendingSubscription, Subscription, Kind
  <2> QED BY Zenon, <2>1, <2>2, <2>3, <2>4 DEF Consistent
<1> QED BY Zenon, <1>1, <1>2

(* remove_subscription frees both entries when they belong together. *)
LEMMA RemoveSubscriptionConsistent ==
  ASSUME NEW m \in Managers, Consistent(m),
         NEW id \in RequestIds, NEW sid \in SubscriptionIds, m.subscriptions[sid] = id
  PROVE  /\ remove_subscription(m, id, sid).m \in Managers
         /\ Consistent(remove_subscription(m, id, sid).m)
<1> DEFINE n == [m EXCEPT !.requests[id] = Vacant, !.subscriptions[sid] = None]
<1>1. CASE ~(m.requests[id].st = "Subscription" /\ m.subscriptions[sid] # None)
  BY Zenon, <1>1 DEF remove_subscription, Err
<1>2. CASE m.requests[id].st = "Subscription" /\ m.subscriptions[sid] # None
  <2>1. remove_subscription(m, id, sid).m = n
    BY Zenon, <1>2 DEF remove_subscription, Ok
  <2>2. n \in Managers
    BY Zenon, KindTypes DEF Managers, Ranges
  <2>3. TablesAgree(n)
    BY <1>2 DEF Managers, Consistent, TablesAgree, UnsubIdsReserved, HoldsUnsubId,
       request_status, Vacant, PendingMethodCall, PendingSubscription, Subscription, Kind
  <2>4. UnsubIdsReserved(n) /\ SubscriptionsHaveSinks(n)
    BY <1>2 DEF Managers, Consistent, TablesAgree, UnsubIdsReserved, SubscriptionsHaveSinks,
       HoldsUnsubId, Unclaimed, request_status, Vacant, PendingMethodCall, PendingSubscription, Subscription, Kind
  <2> QED BY Zenon, <2>1, <2>2, <2>3, <2>4 DEF Consistent
<1> QED BY Zenon, <1>1, <1>2

(* unsubscribe turns the entry into an occupied id nobody waits for. *)
LEMMA UnsubscribeConsistent ==
  ASSUME NEW m \in Managers, Consistent(m),
         NEW id \in RequestIds, NEW sid \in SubscriptionIds, m.subscriptions[sid] = id
  PROVE  /\ unsubscribe(m, id, sid).m \in Managers
         /\ Consistent(unsubscribe(m, id, sid).m)
<1> DEFINE n == [m EXCEPT !.requests[id] = PendingMethodCall(None), !.subscriptions[sid] = None]
<1>1. CASE ~(m.requests[id].st = "Subscription" /\ m.subscriptions[sid] # None)
  BY Zenon, <1>1 DEF unsubscribe, Err
<1>2. CASE m.requests[id].st = "Subscription" /\ m.subscriptions[sid] # None
  <2>1. unsubscribe(m, id, sid).m = n
    BY Zenon, <1>2 DEF unsubscribe, Ok
  <2>2. n \in Managers
    BY Zenon, KindTypes DEF Managers, Ranges
  <2>3. TablesAgree(n)
    BY <1>2 DEF Managers, Consistent, TablesAgree, UnsubIdsReserved, HoldsUnsubId,
       request_status, Vacant, PendingMethodCall, PendingSubscription, Subscription, Kind
  <2>4. UnsubIdsReserved(n) /\ SubscriptionsHaveSinks(n)
    BY <1>2 DEF Managers, Consistent, TablesAgree, UnsubIdsReserved, SubscriptionsHaveSinks,
       HoldsUnsubId, Unclaimed, request_status, Vacant, PendingMethodCall, PendingSubscription, Subscription, Kind
  <2> QED BY Zenon, <2>1, <2>2, <2>3, <2>4 DEF Consistent
<1> QED BY Zenon, <1>1, <1>2

(* The answer to a subscribe request: process_single_response completes the *)
(* pending subscription, enters the active one and, when nobody takes it,   *)
(* unsubscribes it again.  Each of the three managers is consistent and     *)
(* differs from m only in the entry of the request.                         *)
LEMMA SubscriptionCompleted ==
  ASSUME NEW m \in Managers, Consistent(m), NEW id \in RequestIds,
         m.requests[id].st = "PendingSubscription",
         NEW m1, m1 = complete_pending_subscription(m, id).m
  PROVE  /\ \A i \in RequestIds : m1.requests[i] = IF i = id THEN Vacant ELSE m.requests[i]
         /\ m1.batches = m.batches /\ m1.handlers = m.handlers
         /\ m1 \in Managers /\ Consistent(m1)
<1>1. m1 = [m EXCEPT !.requests[id] = Vacant]
  BY Zenon DEF complete_pending_subscription, Ok
<1>2. m1 \in Managers /\ Consistent(m1)
  BY Zenon, CompletePendingSubscriptionConsistent
<1> QED BY Zenon, <1>1, <1>2 DEF Managers

\* The manager n in which the active subscription took the place of the pending one.
Entering(m, id, sid, n) ==
  LET m1 == complete_pending_subscription(m, id).m
      res == insert_subscription(m1, id, m.requests[id].unsub, sid, m.requests[id].tx)
  IN  res.ok /\ n = res.m

(* Second step: the active subscription takes the place of the pending one. *)
LEMMA SubscriptionEntered ==
  ASSUME NEW m \in Managers, Consistent(m), NEW id \in RequestIds, NEW sid \in SubscriptionIds,
         m.requests[id].st = "PendingSubscription",
         NEW unsub, unsub = m.requests[id].unsub, NEW tx, tx = m.requests[id].tx,
         NEW n, Entering(m, id, sid, n)
  PROVE  /\ \A i \in RequestIds :
              n.requests[i] = IF i = id THEN Subscription(unsub, tx) ELSE m.requests[i]
         /\ n.batches = m.batches /\ n.handlers = m.handlers
         /\ n \in Managers /\ Consistent(n)
         /\ n.subscriptions[sid] = id
<1> DEFINE m1 == complete_pending_subscription(m, id).m
<1>1. /\ \A i \in RequestIds : m1.requests[i] = IF i = id THEN Vacant ELSE m.requests[i]
      /\ m1.batches = m.batches /\ m1.handlers = m.handlers
      /\ m1 \in Managers /\ Consistent(m1)
  BY Zenon, SubscriptionCompleted
<1>0. insert_subscription(m1, id, unsub, sid, tx).ok /\ n = insert_subscription(m1, id, unsub, sid, tx).m
  BY Zenon DEF Entering
<1> HIDE DEF m1
<1>2. /\ HoldsUnsubId(m, id) /\ unsub \in RequestIds /\ tx \in Senders
      /\ m.requests[unsub] = PendingMethodCall(None)
  BY Zenon DEF Consistent, UnsubIdsReserved, SubscriptionsHaveSinks, HoldsUnsubId, request_status
<1>3. unsub # id
  BY <1>2 DEF PendingMethodCall, Kind
<1>4. m1.requests[unsub] = PendingMethodCall(None)
  BY Zenon, <1>1, <1>2, <1>3
<1>5. Unclaimed(m1, unsub)
  BY <1>1, <1>2 DEF Unclaimed, HoldsUnsubId, request_status, Consistent, UnsubIdsReserved,
     Vacant, Kind
<1>6. n \in Managers /\ Consistent(n)
  BY Zenon, <1>0, <1>1, <1>2, <1>4, <1>5, InsertSubscriptionConsistent
<1>7. n = [m1 EXCEPT !.requests[id] = Subscription(unsub, tx), !.subscriptions[sid] = id]
  BY Zenon, <1>0 DEF insert_subscription, Ok, Err
<1>8. /\ \A i \in RequestIds :
           n.requests[i] = IF i = id THEN Subscription(unsub, tx) ELSE m1.requests[i]
      /\ n.batches = m1.batches /\ n.handlers = m1.handlers
      /\ n.subscriptions[sid] = id
  BY Zenon, <1>1, <1>7 DEF Managers
<1>9. \A i \in RequestIds :
        n.requests[i] = IF i = id THEN Subscription(unsub, tx) ELSE m.requests[i]
  <2> TAKE i \in RequestIds
  <2>1. CASE i = id
    BY Zenon, <1>8, <2>1
  <2>2. CASE i # id
    <3>1. n.requests[i] = m1.requests[i]
      BY Zenon, <1>8, <2>2
    <3>2. m1.requests[i] = m.requests[i]
      BY Zenon, <1>1, <2>2
    <3> QED BY Zenon, <2>2, <3>1, <3>2
  <2> QED BY Zenon, <2>1, <2>2
<1>10. n.batches = m.batches /\ n.handlers = m.handlers /\ n.subscriptions[sid] = id
  BY Zenon, <1>1, <1>8
<1> QED BY Zenon, <1>6, <1>9, <1>10

(* Third step, for a subscription nobody takes.                            *)
LEMMA SubscriptionLeft ==
  ASSUME NEW n \in Managers, Consistent(n), NEW id \in RequestIds, NEW sid \in SubscriptionIds,
         n.subscriptions[sid] = id,
         NEW u, u = unsubscribe(n, id, sid).m
  PROVE  /\ \A i \in RequestIds :
              u.requests[i] = IF i = id THEN PendingMethodCall(None) ELSE n.requests[i]
         /\ u.batches = n.batches /\ u.handlers = n.handlers
         /\ u \in Managers /\ Consistent(u)
<1>1. u \in Managers /\ Consistent(u)
  BY Zenon, UnsubscribeConsistent
<1>2. n.requests[id].st = "Subscription" /\ n.subscriptions[sid] # None
  BY Zenon, NoneIsNoId DEF Consistent, TablesAgree, request_status
<1>3. u = [n EXCEPT !.requests[id] = PendingMethodCall(None), !.subscriptions[sid] = None]
  BY Zenon, <1>2 DEF unsubscribe, Ok
<1> QED BY <1>1, <1>3 DEF Managers

\* The manager u after all three steps.
Leaving(m, id, sid, u) ==
  \E n : Entering(m, id, sid, n) /\ u = unsubscribe(n, id, sid).m

(* All three steps together, for a subscription nobody takes.              *)
LEMMA SubscriptionAbandoned ==
  ASSUME NEW m \in Managers, Consistent(m), NEW id \in RequestIds, NEW sid \in SubscriptionIds,
         m.requests[id].st = "PendingSubscription",
         NEW u, Leaving(m, id, sid, u)
  PROVE  /\ \A i \in RequestIds :
              u.requests[i] = IF i = id THEN PendingMethodCall(None) ELSE m.requests[i]
         /\ u.batches = m.batches /\ u.handlers = m.handlers
         /\ u \in Managers /\ Consistent(u)
<1>1. PICK n : Entering(m, id, sid, n) /\ u = unsubscribe(n, id, sid).m
  BY Zenon DEF Leaving
<1>2. /\ \A i \in RequestIds :
           n.requests[i] = IF i = id THEN Subscription(m.requests[id].unsub, m.requests[id].tx)
                           ELSE m.requests[i]
      /\ n.batches = m.batches /\ n.handlers = m.handlers
      /\ n \in Managers /\ Consistent(n) /\ n.subscriptions[sid] = id
  BY <1>1, SubscriptionEntered
<1>3. /\ \A i \in RequestIds :
           u.requests[i] = IF i = id THEN PendingMethodCall(None) ELSE n.requests[i]
      /\ u.batches = n.batches /\ u.handlers = n.handlers
      /\ u \in Managers /\ Consistent(u)
  BY <1>1, <1>2, SubscriptionLeft
<1>4. \A i \in RequestIds : i # id => u.requests[i] = m.requests[i]
  BY Zenon, <1>2, <1>3
<1>5. u.requests[id] = PendingMethodCall(None)
  BY Zenon, <1>3
<1> QED BY Zenon, <1>2, <1>3, <1>4, <1>5

-----------------------------------------------------------------------------
(* The parts of the invariant, the frontend and the life of the tasks *)

\* An operation that has its ids keeps them.
SettledKept == \A c \in Senders : Settled(c) => Settled(c)'

(* RequestIdManager stays within the id space.                             *)
LEMMA FetchAddType ==
  ASSUME nextId \in RequestIds, FetchAdd PROVE nextId' \in RequestIds
BY ManagerAssumption DEF FetchAdd, RequestIds

(* A message of a frontend operation that has its ids is a well-formed     *)
(* message.                                                                *)
LEMMA MessageOfSettled ==
  ASSUME NEW c \in Senders, Settled(c)
  PROVE  MessageOf(c) \in FrontToBack /\ MessageSettled(MessageOf(c))
BY Zenon, ClientAssumption DEF MessageOf, Msg, FrontToBack, MessageSettled

(* So is the message that closes its stream.                               *)
LEMMA CloseMessageSettled ==
  ASSUME NEW c \in Senders, Settled(c),
         CallKind[c] = "subscribe" => call[c].sid \in SubscriptionIds,
         CallKind[c] \in {"subscribe", "register"}
  PROVE  CloseMessage(c) \in FrontToBack /\ MessageSettled(CloseMessage(c))
BY Zenon DEF CloseMessage, Msg, SubscriptionClosed, FrontToBack, MessageSettled

(* oneshot::Sender::send changes at most the phase of its receiver, from   *)
(* waiting to ready.                                                       *)
LEMMA DeliverFacts ==
  ASSUME call \in CallStates, NEW c \in Senders, NEW got \in {"ok", "err"},
         NEW from \in Senders
  PROVE  /\ Deliver(c, got, from) \in CallStates
         /\ \A x \in Senders : LET d == Deliver(c, got, from)[x]
                               IN  /\ d.id = call[x].id
                                   /\ d.unsub = call[x].unsub
                                   /\ d.sid = call[x].sid
                                   /\ \/ d = call[x]
                                      \/ /\ x = c /\ call[x].phase = "waiting"
                                         /\ d.phase = "ready" /\ d.got = got /\ d.from = from
<1>1. CASE call[c].phase # "waiting"
  BY Zenon, <1>1 DEF Deliver
<1>2. CASE call[c].phase = "waiting"
  <2> DEFINE d == [call EXCEPT ![c] = [@ EXCEPT !.phase = "ready", !.got = got, !.from = from]]
  <2>1. Deliver(c, got, from) = d
    BY Zenon, <1>2 DEF Deliver
  <2>2. d \in CallStates
    BY DEF CallStates, Phases
  <2>3. /\ d[c].id = call[c].id /\ d[c].unsub = call[c].unsub /\ d[c].sid = call[c].sid
        /\ d[c].phase = "ready" /\ d[c].got = got /\ d[c].from = from
    BY Zenon DEF CallStates
  <2>4. \A x \in Senders : x # c => d[x] = call[x]
    BY Zenon DEF CallStates
  <2> HIDE DEF d
  <2> QED BY Zenon, <1>2, <2>1, <2>2, <2>3, <2>4
<1> QED BY Zenon, <1>1, <1>2

(* A step that only moves an operation to a later phase keeps what is      *)
(* known of the operations.                                                *)
LEMMA PhaseStep ==
  ASSUME TypeOK, OperationsSettled, ResponsesReachTheirCaller,
         NEW c \in Senders, NEW p \in Phases \ {"idle", "allocating"},
         call' = [call EXCEPT ![c].phase = p],
         call[c].phase # "idle", call[c].phase # "allocating", call[c].phase # "err",
         CallKind[c] = "subscribe" /\ p \in {"active", "unsubscribing"}
           => call[c].sid \in SubscriptionIds,
         p \in {"active", "unsubscribing", "draining"}
           => CallKind[c] \in {"subscribe", "register"},
         p # "ready"
  PROVE  /\ call' \in CallStates /\ SettledKept /\ Settled(c)'
         /\ OperationsSettled' /\ ResponsesReachTheirCaller'
<1>1. call' \in CallStates
  BY DEF TypeOK, CallStates
<1>2. \A x \in Senders : /\ call'[x].id = call[x].id /\ call'[x].unsub = call[x].unsub
                         /\ call'[x].sid = call[x].sid /\ call'[x].got = call[x].got
                         /\ call'[x].from = call[x].from
                         /\ call'[x].phase = IF x = c THEN p ELSE call[x].phase
  BY Zenon DEF TypeOK, CallStates
<1>3. SettledKept
  BY Zenon, <1>2 DEF SettledKept, Settled
<1>4. Settled(c)'
  BY Zenon, <1>3 DEF SettledKept, OperationsSettled
<1>5. OperationsSettled'
  BY <1>2, <1>3, <1>4 DEF SettledKept, OperationsSettled
<1>6. ResponsesReachTheirCaller'
  BY <1>2 DEF ResponsesReachTheirCaller
<1> QED BY Zenon, <1>1, <1>3, <1>4, <1>5, <1>6

(* Messages stay settled while operations keep their ids.                  *)
LEMMA MessageStaysSettled ==
  ASSUME SettledKept, NEW msg \in FrontToBack, MessageSettled(msg)
  PROVE  MessageSettled(msg)'
<1>1. msg.t # "SubscriptionClosed" => msg.c \in Senders
  BY Zenon DEF FrontToBack
<1> QED BY Zenon, <1>1 DEF MessageSettled, SettledKept

(* Messages nobody touched stay settled.                                   *)
LEMMA QueueUnchanged ==
  ASSUME TypeOK, MessagesSettled, SettledKept, UNCHANGED <<toBack, flush>>
  PROVE  MessagesSettled'
<1>1. \A i \in 1 .. Len(toBack) : toBack[i] \in FrontToBack
  BY DEF TypeOK
<1> QED BY Zenon, <1>1, MessageStaysSettled DEF MessagesSettled, TypeOK

(* So do they when another settled message joins them,                     *)
LEMMA QueueAppendMessages ==
  ASSUME TypeOK, MessagesSettled, SettledKept,
         NEW msg \in FrontToBack, MessageSettled(msg)', HasRoom,
         toBack' = Append(toBack, msg)
  PROVE  /\ toBack' \in Seq(FrontToBack) /\ Len(toBack') <= QueueCap
         /\ (\A i \in 1 .. Len(toBack) : MessageSettled(toBack[i]))'
<1>1. \A i \in 1 .. Len(toBack) : toBack[i] \in FrontToBack
  BY DEF TypeOK
<1>2. toBack' \in Seq(FrontToBack) /\ Len(toBack') = Len(toBack) + 1
  BY DEF TypeOK
<1>3. \A i \in 1 .. Len(toBack') : toBack'[i] = IF i = Len(toBack) + 1 THEN msg ELSE toBack[i]
  BY <1>2 DEF TypeOK
<1>4. (\A i \in 1 .. Len(toBack) : MessageSettled(toBack[i]))'
  <2> SUFFICES ASSUME NEW i \in 1 .. Len(toBack') PROVE MessageSettled(toBack[i])'
    BY Zenon
  <2>1. CASE i = Len(toBack) + 1
    BY Zenon, <2>1, <1>3 DEF MessageSettled, Settled
  <2>2. CASE i # Len(toBack) + 1
    <3>1. i \in 1 .. Len(toBack) /\ toBack'[i] = toBack[i]
      BY <2>2, <1>2, <1>3 DEF TypeOK
    <3>2. PICK m \in FrontToBack : m = toBack[i] /\ MessageSettled(m)
      BY Zenon, <3>1, <1>1 DEF MessagesSettled
    <3>3. MessageSettled(m)'
      BY Zenon, <3>2, MessageStaysSettled
    <3> QED BY Zenon, <3>1, <3>2, <3>3 DEF MessageSettled, Settled
  <2> QED BY Zenon, <2>1, <2>2
<1>5. Len(toBack') <= QueueCap
  BY <1>2, ClientAssumption DEF HasRoom, TypeOK
<1> QED BY Zenon, <1>2, <1>4, <1>5

(* which keeps the channel to the background within its capacity.          *)
LEMMA QueueAppend ==
  ASSUME TypeOK, MessagesSettled, SettledKept, UNCHANGED flush,
         NEW msg \in FrontToBack, MessageSettled(msg)', HasRoom,
         toBack' = Append(toBack, msg)
  PROVE  MessagesSettled' /\ toBack' \in Seq(FrontToBack) /\ Len(toBack') <= QueueCap
<1>1. (\A m \in flush : MessageSettled(m))'
  BY Zenon, MessageStaysSettled DEF MessagesSettled, TypeOK
<1> QED BY Zenon, <1>1, QueueAppendMessages DEF MessagesSettled

(* Receiving the first message leaves the others settled.                  *)
LEMMA QueueTail ==
  ASSUME TypeOK, MessagesSettled, SettledKept, UNCHANGED flush,
         toBack # <<>>, toBack' = Tail(toBack)
  PROVE  MessagesSettled' /\ toBack' \in Seq(FrontToBack) /\ Len(toBack') <= QueueCap
<1>1. \A i \in 1 .. Len(toBack) : toBack[i] \in FrontToBack
  BY DEF TypeOK
<1>2. /\ toBack' \in Seq(FrontToBack) /\ Len(toBack) \in Nat \ {0}
      /\ Len(toBack') = Len(toBack) - 1
  BY DEF TypeOK
<1>3. \A i \in 1 .. Len(toBack') : i + 1 \in 1 .. Len(toBack) /\ toBack'[i] = toBack[i + 1]
  BY <1>2 DEF TypeOK
<1>4. (\A i \in 1 .. Len(toBack) : MessageSettled(toBack[i]))'
  <2> SUFFICES ASSUME NEW i \in 1 .. Len(toBack') PROVE MessageSettled(toBack[i])'
    BY Zenon
  <2>1. PICK m \in FrontToBack : m = toBack[i + 1] /\ MessageSettled(m)
    BY Zenon, <1>1, <1>3 DEF MessagesSettled
  <2>2. MessageSettled(m)'
    BY Zenon, <2>1, MessageStaysSettled
  <2> QED BY Zenon, <1>3, <2>1, <2>2 DEF MessageSettled, Settled
<1>5. Len(toBack') <= QueueCap
  BY <1>2, ClientAssumption DEF TypeOK
<1>6. (\A m \in flush : MessageSettled(m))'
  BY Zenon, MessageStaysSettled DEF MessagesSettled, TypeOK
<1> QED BY Zenon, <1>2, <1>4, <1>5, <1>6 DEF MessagesSettled

(* What a step keeps that touches neither the manager nor the wire.        *)
LEMMA ManagerFrame ==
  ASSUME TypeOK, Consistent(manager), EntriesOwned, AnswersAreExpected, WireSettled,
         SettledKept, UNCHANGED <<manager, wire>>
  PROVE  Consistent(manager)' /\ EntriesOwned' /\ AnswersAreExpected' /\ WireSettled'
<1>1. \A id \in RequestIds : HoldsUnsubId(manager, id) => manager.requests[id].tx \in Senders
  BY Zenon DEF Consistent, SubscriptionsHaveSinks
<1>2. Consistent(manager)'
  BY Zenon DEF Consistent, TablesAgree, UnsubIdsReserved, SubscriptionsHaveSinks, HoldsUnsubId,
         request_status
<1>3. EntriesOwned'
  BY Zenon, <1>1 DEF EntriesOwned, SettledKept, HoldsUnsubId, request_status
<1>4. AnswersAreExpected'
  BY Zenon DEF AnswersAreExpected, Expected, request_status
<1>5. WireSettled'
  BY Zenon DEF WireSettled, Unclaimed, HoldsUnsubId, request_status
<1> QED BY Zenon, <1>2, <1>3, <1>4, <1>5

-----------------------------------------------------------------------------
(* Frontend steps.                                                         *)

(* An operation starts.                                                    *)
LEMMA StartStep ==
  ASSUME IInv, NEW c \in Senders, Start(c) PROVE IInv'
<1> USE DEF IInv
<1> DEFINE Fresh(p, i) ==
      /\ call' \in CallStates
      /\ \A x \in Senders : x # c => call'[x] = call[x]
      /\ call'[c].phase = p /\ call'[c].id = i /\ call'[c].sid = call[c].sid
      /\ call'[c].got = call[c].got /\ call'[c].from = call[c].from
      /\ p = "allocating" => CallKind[c] = "subscribe" /\ i \in RequestIds
      /\ p = "sending" => CallKind[c] # "subscribe"
      /\ p = "sending" /\ CallKind[c] # "register" => i \in RequestIds
      /\ p = "sending" /\ CallKind[c] = "batch" => i + BatchLen \in RequestIds
<1>1. PICK p \in {"sending", "allocating", "err"}, i \in RequestIds \cup {None} : Fresh(p, i)
  <2>1. CASE CallKind[c] = "register"
    <3>1. call' = [call EXCEPT ![c].phase = "sending"]
      BY Zenon, <2>1 DEF Start
    <3>2. Fresh("sending", call[c].id)
      BY <2>1, <3>1 DEF TypeOK, CallStates, Phases
    <3>3. call[c].id \in RequestIds \cup {None}
      BY Zenon DEF TypeOK, CallStates
    <3> QED BY Zenon, <3>2, <3>3
  <2>2. CASE CallKind[c] = "subscribe"
    <3>1. call' = [call EXCEPT ![c] = [@ EXCEPT !.phase = "allocating", !.id = nextId]]
      BY Zenon, <2>2 DEF Start
    <3>2. Fresh("allocating", nextId)
      BY <2>2, <3>1 DEF TypeOK, CallStates, Phases
    <3> QED BY Zenon, <3>2 DEF TypeOK
  <2>3. CASE CallKind[c] = "batch" /\ nextId + BatchLen >= IdSpace
    <3>1. call' = [call EXCEPT ![c].phase = "err"]
      BY Zenon, <2>3 DEF Start
    <3>2. Fresh("err", call[c].id)
      BY <2>3, <3>1 DEF TypeOK, CallStates, Phases
    <3>3. call[c].id \in RequestIds \cup {None}
      BY Zenon DEF TypeOK, CallStates
    <3> QED BY Zenon, <3>2, <3>3
  <2>4. CASE /\ CallKind[c] \notin {"register", "subscribe"}
             /\ ~(CallKind[c] = "batch" /\ nextId + BatchLen >= IdSpace)
    <3>1. call' = [call EXCEPT ![c] = [@ EXCEPT !.phase = "sending", !.id = nextId]]
      BY Zenon, <2>4 DEF Start
    <3>2. CallKind[c] = "batch" => nextId + BatchLen \in RequestIds
      BY <2>4, ClientAssumption, ManagerAssumption DEF TypeOK, RequestIds
    <3>3. Fresh("sending", nextId)
      BY <2>4, <3>1, <3>2 DEF TypeOK, CallStates, Phases
    <3> QED BY Zenon, <3>3 DEF TypeOK
  <2> QED BY Zenon, <2>1, <2>2, <2>3, <2>4
<1>2. nextId' \in RequestIds
  BY Zenon, FetchAddType DEF Start, TypeOK
<1>3. SettledKept
  BY Zenon, <1>1 DEF SettledKept, Settled, Start
<1>4. TypeOK'
  BY Zenon, <1>1, <1>2 DEF TypeOK, Start, taskVars
<1>5. OperationsSettled'
  BY <1>1, <1>3 DEF OperationsSettled, Settled, SettledKept
<1>6. ResponsesReachTheirCaller'
  BY Zenon, <1>1 DEF ResponsesReachTheirCaller
<1>7. MessagesSettled'
  BY Zenon, <1>3, QueueUnchanged DEF Start
<1> QED BY Zenon, <1>3, <1>4, <1>5, <1>6, <1>7, ManagerFrame DEF Start

(* subscribe takes the second id.                                          *)
LEMMA AllocateUnsubIdStep ==
  ASSUME IInv, NEW c \in Senders, AllocateUnsubId(c) PROVE IInv'
<1> USE DEF IInv
<1>1. /\ call' \in CallStates
      /\ \A x \in Senders : x # c => call'[x] = call[x]
      /\ call'[c].phase = "sending" /\ call'[c].unsub \in RequestIds
      /\ call'[c].id = call[c].id /\ call'[c].sid = call[c].sid
      /\ call'[c].got = call[c].got /\ call'[c].from = call[c].from
  BY DEF AllocateUnsubId, TypeOK, CallStates, Phases
<1>2. CallKind[c] = "subscribe" /\ call[c].id \in RequestIds
  BY Zenon DEF AllocateUnsubId, OperationsSettled
<1>3. nextId' \in RequestIds
  BY Zenon, FetchAddType DEF AllocateUnsubId, TypeOK
<1>4. SettledKept /\ Settled(c)'
  BY Zenon, <1>1, <1>2 DEF SettledKept, Settled, AllocateUnsubId
<1>5. TypeOK'
  BY Zenon, <1>1, <1>3 DEF TypeOK, AllocateUnsubId, taskVars
<1>6. OperationsSettled'
  BY Zenon, <1>1, <1>4 DEF OperationsSettled, SettledKept
<1>7. ResponsesReachTheirCaller'
  BY Zenon, <1>1 DEF ResponsesReachTheirCaller
<1>8. MessagesSettled'
  BY Zenon, <1>4, QueueUnchanged DEF AllocateUnsubId
<1> QED BY Zenon, <1>4, <1>5, <1>6, <1>7, <1>8, ManagerFrame DEF AllocateUnsubId

(* An operation hands its message to the background.                       *)
LEMMA EnqueueStep ==
  ASSUME IInv, NEW c \in Senders, Enqueue(c) PROVE IInv'
<1> USE DEF IInv
<1>1. PICK p \in {"disconnected", "ok", "waiting"} : call' = [call EXCEPT ![c].phase = p]
  BY Zenon DEF Enqueue
<1>2. /\ call' \in CallStates /\ SettledKept /\ Settled(c)'
      /\ OperationsSettled' /\ ResponsesReachTheirCaller'
  BY Zenon, <1>1, PhaseStep DEF Enqueue, Phases
<1>3. MessagesSettled' /\ toBack' \in Seq(FrontToBack) /\ Len(toBack') <= QueueCap
  <2>1. CASE UNCHANGED toBack
    BY Zenon, <2>1, <1>2, QueueUnchanged DEF Enqueue, TypeOK
  <2>2. CASE HasRoom /\ toBack' = Append(toBack, MessageOf(c))
    <3>1. Settled(c)
      BY Zenon DEF Enqueue, OperationsSettled
    <3>2. MessageOf(c) \in FrontToBack /\ MessageSettled(MessageOf(c))
      BY Zenon, <3>1, MessageOfSettled
    <3>3. MessageSettled(MessageOf(c))'
      BY Zenon, <3>2, <1>2, MessageStaysSettled
    <3> QED BY Zenon, <2>2, <3>2, <3>3, <1>2, QueueAppend DEF Enqueue
  <2> QED BY Zenon, <2>1, <2>2 DEF Enqueue
<1>4. TypeOK'
  BY Zenon, <1>2, <1>3 DEF TypeOK, Enqueue, taskVars
<1> QED BY Zenon, <1>2, <1>3, <1>4, ManagerFrame DEF Enqueue

(* The steps that end an operation or a subscription and close its         *)
(* receiver without sending a message.                                     *)
LEMMA CloseReceiverStep ==
  ASSUME IInv, NEW c \in Senders,
         Abandon(c) \/ StreamEnds(c) \/ AbandonUnsubscribe(c)
  PROVE  IInv'
<1> USE DEF IInv
<1>1. PICK p \in {"abandoned", "closed"} : call' = [call EXCEPT ![c].phase = p]
  BY Zenon DEF Abandon, StreamEnds, AbandonUnsubscribe
<1>2. call[c].phase \notin {"idle", "allocating", "err"}
  BY Zenon DEF Abandon, StreamEnds, AbandonUnsubscribe
<1>3. /\ call' \in CallStates /\ SettledKept
      /\ OperationsSettled' /\ ResponsesReachTheirCaller'
  BY Zenon, <1>1, <1>2, PhaseStep DEF Phases
<1>4. chan' \in ChanStates
  BY DEF Abandon, StreamEnds, AbandonUnsubscribe, TypeOK, ChanStates
<1>5. UNCHANGED <<nextId, toBack, flush, manager, wire, served, taskVars, alive>>
  BY Zenon DEF Abandon, StreamEnds, AbandonUnsubscribe
<1>6. TypeOK'
  BY Zenon, <1>3, <1>4, <1>5 DEF TypeOK, taskVars
<1>7. MessagesSettled'
  BY Zenon, <1>3, <1>5, QueueUnchanged
<1> QED BY Zenon, <1>3, <1>5, <1>6, <1>7, ManagerFrame

(* The steps that only look at a channel and move on.                      *)
LEMMA ObserveStep ==
  ASSUME IInv, NEW c \in Senders, Observe(c) \/ ReadError(c) \/ Unsubscribe(c)
  PROVE  IInv'
<1> USE DEF IInv
<1>1. PICK p \in {"err", "active", "ok", "disconnected", "restart", "noreason", "unsubscribing"} :
        /\ call' = [call EXCEPT ![c].phase = p]
        /\ CallKind[c] = "subscribe" /\ p \in {"active", "unsubscribing"}
             => call[c].sid \in SubscriptionIds
        /\ p \in {"active", "unsubscribing"} => CallKind[c] \in {"subscribe", "register"}
  <2>1. CASE Observe(c)
    <3> DEFINE p == IF call[c].phase = "waiting" THEN "disconnected"
                    ELSE IF call[c].got = "err" THEN "err"
                    ELSE IF CallKind[c] \in {"subscribe", "register"} THEN "active" ELSE "ok"
    <3>1. call' = [call EXCEPT ![c].phase = p]
      BY Zenon, <2>1 DEF Observe
    <3>2. p = "active" => call[c].phase = "ready" /\ call[c].got # "err"
                          /\ CallKind[c] \in {"subscribe", "register"}
      BY Zenon, <2>1 DEF Observe
    <3>3. p \in {"disconnected", "err", "active", "ok"}
      BY Zenon
    <3> HIDE DEF p
    <3> QED BY Zenon, <3>1, <3>2, <3>3 DEF OperationsSettled
  <2>2. CASE ReadError(c)
    BY Zenon, <2>2 DEF ReadError
  <2>3. CASE Unsubscribe(c)
    BY Zenon, <2>3 DEF Unsubscribe, OperationsSettled
  <2> QED BY Zenon, <2>1, <2>2, <2>3
<1>2. call[c].phase \notin {"idle", "allocating", "err"}
  BY Zenon DEF Observe, ReadError, Unsubscribe
<1>3. /\ call' \in CallStates /\ SettledKept
      /\ OperationsSettled' /\ ResponsesReachTheirCaller'
  BY Zenon, <1>1, <1>2, PhaseStep DEF Phases
<1>4. UNCHANGED <<nextId, chan, toBack, flush, manager, wire, served, taskVars, alive>>
  BY Zenon DEF Observe, ReadError, Unsubscribe
<1>5. TypeOK'
  BY Zenon, <1>3, <1>4 DEF TypeOK, taskVars
<1>6. MessagesSettled'
  BY Zenon, <1>3, <1>4, QueueUnchanged
<1> QED BY Zenon, <1>3, <1>4, <1>5, <1>6, ManagerFrame

(* A subscription is polled.                                               *)
LEMMA PollNextStep ==
  ASSUME IInv, NEW c \in Senders, PollNext(c) PROVE IInv'
<1> USE DEF IInv
<1>1. chan' \in ChanStates
  <2>1. chan[c].len - 1 \in 0 .. SubCap
    BY ClientAssumption DEF PollNext, TypeOK, ChanStates
  <2>2. chan' = [chan EXCEPT ![c].len = chan[c].len - 1]
    BY Zenon DEF PollNext
  <2> QED BY Zenon, <2>1, <2>2 DEF TypeOK, ChanStates
<1>2. SettledKept
  BY Zenon DEF PollNext, SettledKept, Settled
<1>3. TypeOK'
  BY Zenon, <1>1 DEF TypeOK, PollNext, taskVars
<1>4. OperationsSettled' /\ ResponsesReachTheirCaller'
  BY Zenon DEF PollNext, OperationsSettled, ResponsesReachTheirCaller, Settled
<1>5. MessagesSettled'
  BY Zenon, <1>2, QueueUnchanged DEF PollNext
<1> QED BY Zenon, <1>2, <1>3, <1>4, <1>5, ManagerFrame DEF PollNext

(* The steps that put the close message of a Subscription into to_back, or *)
(* fail to.                                                                *)
LEMMA CloseMessageStep ==
  ASSUME IInv, NEW c \in Senders, DropSubscription(c) \/ UnsubscribeEnqueue(c)
  PROVE  IInv'
<1> USE DEF IInv
<1>1. PICK p \in {"closed", "draining"} : call' = [call EXCEPT ![c].phase = p]
  BY Zenon DEF DropSubscription, UnsubscribeEnqueue
<1>2. /\ call[c].phase \in {"active", "unsubscribing"}
      /\ CallKind[c] \in {"subscribe", "register"} /\ Settled(c)
      /\ CallKind[c] = "subscribe" => call[c].sid \in SubscriptionIds
  BY Zenon DEF DropSubscription, UnsubscribeEnqueue, OperationsSettled
<1>3. /\ call' \in CallStates /\ SettledKept
      /\ OperationsSettled' /\ ResponsesReachTheirCaller'
  BY Zenon, <1>1, <1>2, PhaseStep DEF Phases
<1>4. chan' \in ChanStates
  BY DEF DropSubscription, UnsubscribeEnqueue, TypeOK, ChanStates
<1>5. UNCHANGED <<nextId, flush, manager, wire, served, taskVars, alive>>
  BY Zenon DEF DropSubscription, UnsubscribeEnqueue
<1>6. MessagesSettled' /\ toBack' \in Seq(FrontToBack) /\ Len(toBack') <= QueueCap
  <2>1. CASE UNCHANGED toBack
    BY Zenon, <2>1, <1>3, <1>5, QueueUnchanged DEF TypeOK
  <2>2. CASE HasRoom /\ toBack' = Append(toBack, CloseMessage(c))
    <3>1. CloseMessage(c) \in FrontToBack /\ MessageSettled(CloseMessage(c))
      BY Zenon, <1>2, CloseMessageSettled
    <3>2. PICK m \in FrontToBack : m = CloseMessage(c)
      BY Zenon, <3>1
    <3>3. MessageSettled(m)'
      BY Zenon, <3>1, <3>2, <1>3, MessageStaysSettled
    <3> QED BY Zenon, <2>2, <3>2, <3>3, <1>3, <1>5, QueueAppend
  <2> QED BY Zenon, <2>1, <2>2 DEF DropSubscription, UnsubscribeEnqueue
<1>7. TypeOK'
  BY Zenon, <1>3, <1>4, <1>5, <1>6 DEF TypeOK, taskVars
<1> QED BY Zenon, <1>3, <1>5, <1>6, <1>7, ManagerFrame

-----------------------------------------------------------------------------
(* Steps that only concern the life of the tasks.                          *)

(* The tasks stop, report and shut down, and the client is dropped.        *)
LEMMA TaskStep ==
  ASSUME IInv,
         \/ DropClient \/ PingFails \/ SendTaskStops \/ SendTaskReports
         \/ ReadFails \/ ReadTaskStops \/ ReadTaskReports
         \/ ShutdownOnResult \/ ShutdownOnDrop
  PROVE  IInv'
<1> USE DEF IInv
<1>1. UNCHANGED <<nextId, call, chan, manager, wire, served>>
  BY Zenon DEF DropClient, PingFails, SendTaskStops, SendTaskReports, ReadFails, ReadTaskStops,
         ReadTaskReports, ShutdownOnResult, ShutdownOnDrop, frontVars, readUnchanged
<1>2. SettledKept
  BY Zenon, <1>1 DEF SettledKept, Settled
<1>3. toBack' \in {toBack, <<>>} /\ flush' \in {flush, {}}
  BY Zenon DEF DropClient, PingFails, SendTaskStops, SendTaskReports, ReadFails, ReadTaskStops,
         ReadTaskReports, ShutdownOnResult, ShutdownOnDrop, readUnchanged
<1>4. MessagesSettled'
  <2>1. \A i \in 1 .. Len(toBack') : toBack' = toBack
    BY <1>3
  <2> QED BY <1>1, <1>3, <2>1 DEF MessagesSettled, MessageSettled, Settled
<1>5. TypeOK'
  <2>1. toBack' \in Seq(FrontToBack) /\ Len(toBack') <= QueueCap
    <3>1. CASE toBack' = toBack
      BY Zenon, <3>1 DEF TypeOK
    <3>2. CASE toBack' = <<>>
      BY <3>2, ClientAssumption
    <3> QED BY Zenon, <3>1, <3>2, <1>3
  <2>2. /\ sendTask' \in TaskStates /\ readTask' \in TaskStates
        /\ closeCh' \in {"empty", "ok", "err"} /\ shutdown' \in {"wait", "done"}
        /\ reason' \in BOOLEAN /\ alive' \in BOOLEAN
    BY Zenon DEF TypeOK, DropClient, PingFails, SendTaskStops, SendTaskReports, ReadFails,
           ReadTaskStops, ReadTaskReports, ShutdownOnResult, ShutdownOnDrop, readUnchanged,
           taskVars, TaskStates
  <2> QED BY Zenon, <1>1, <1>3, <2>1, <2>2 DEF TypeOK
<1>6. OperationsSettled' /\ ResponsesReachTheirCaller'
  BY Zenon, <1>1 DEF OperationsSettled, ResponsesReachTheirCaller, Settled
<1> QED BY Zenon, <1>1, <1>2, <1>4, <1>5, <1>6, ManagerFrame

(* A pending unsubscription is handed to the send task.                    *)
LEMMA FlushUnsubscribeStep ==
  ASSUME IInv, NEW msg \in flush, FlushUnsubscribe(msg) PROVE IInv'
<1> USE DEF IInv
<1>1. UNCHANGED <<nextId, call, chan, manager, wire, served, taskVars, alive>>
  BY Zenon DEF FlushUnsubscribe, frontVars
<1>2. SettledKept
  BY Zenon, <1>1 DEF SettledKept, Settled
<1>3. msg \in FrontToBack /\ MessageSettled(msg)'
  <2>1. msg \in FrontToBack /\ MessageSettled(msg)
    BY Zenon DEF MessagesSettled, TypeOK
  <2> QED BY Zenon, <2>1, <1>2, MessageStaysSettled
<1>4. (\A m \in flush : MessageSettled(m))'
  BY Zenon, <1>2, MessageStaysSettled DEF FlushUnsubscribe, MessagesSettled, TypeOK
<1>5. MessagesSettled' /\ toBack' \in Seq(FrontToBack) /\ Len(toBack') <= QueueCap
  <2>1. CASE UNCHANGED toBack
    <3>1. (\A i \in 1 .. Len(toBack) : MessageSettled(toBack[i]))'
      BY Zenon, <2>1, <1>1 DEF MessagesSettled, MessageSettled, Settled
    <3> QED BY Zenon, <2>1, <3>1, <1>4 DEF MessagesSettled, TypeOK
  <2>2. CASE HasRoom /\ toBack' = Append(toBack, msg)
    <3>1. /\ toBack' \in Seq(FrontToBack) /\ Len(toBack') <= QueueCap
          /\ (\A i \in 1 .. Len(toBack) : MessageSettled(toBack[i]))'
      BY Zenon, <2>2, <1>2, <1>3, QueueAppendMessages
    <3> QED BY Zenon, <3>1, <1>4 DEF MessagesSettled
  <2> QED BY Zenon, <2>1, <2>2 DEF FlushUnsubscribe
<1>6. TypeOK'
  BY Zenon, <1>1, <1>5 DEF TypeOK, taskVars, FlushUnsubscribe
<1>7. OperationsSettled' /\ ResponsesReachTheirCaller'
  BY Zenon, <1>1 DEF OperationsSettled, ResponsesReachTheirCaller, Settled
<1> QED BY Zenon, <1>1, <1>2, <1>5, <1>6, <1>7, ManagerFrame

-----------------------------------------------------------------------------
(* What a step of the background tasks leaves of the invariant.            *)

(* The answer to a request stays expected while its entry stays.           *)
LEMMA ExpectedKept ==
  ASSUME NEW w \in Wire, Expected(w),
         w.kind # "batch" => manager'.requests[w.id] = manager.requests[w.id],
         w.kind = "batch" => manager'.batches[<<w.id, w.id + BatchLen>>]
                               = manager.batches[<<w.id, w.id + BatchLen>>]
  PROVE  Expected(w)'
BY Zenon DEF Expected, request_status, Wire

(* A request on the wire occupies its id.                                  *)
LEMMA WireOccupies ==
  ASSUME TypeOK, AnswersAreExpected, NEW w \in wire, w.kind # "batch"
  PROVE  manager.requests[w.id].st \in {"PendingMethodCall", "PendingSubscription"}
<1>1. w.kind \in {"call", "subscribe", "unsubscribe"}
  BY Zenon DEF TypeOK, Wire
<1>2. Expected(w)
  BY Zenon DEF AnswersAreExpected
<1>3. \A tx : PendingMethodCall(tx).st = "PendingMethodCall"
  BY Zenon DEF PendingMethodCall, Kind
<1> QED BY Zenon, <1>1, <1>2, <1>3 DEF Expected, request_status

\* What a step on one request id leaves of the other invariants.
Managed ==
  TypeOK /\ Consistent(manager) /\ EntriesOwned /\ AnswersAreExpected /\ WireSettled

(* Delivering to the operation that asked keeps what is known of the       *)
(* operations.                                                             *)
LEMMA DeliverStep ==
  ASSUME TypeOK, OperationsSettled, ResponsesReachTheirCaller,
         NEW c \in Senders, NEW got \in {"ok", "err"}, call' = Deliver(c, got, c),
         CallKind[c] = "subscribe" => got = "err"
  PROVE  /\ call' \in CallStates /\ SettledKept
         /\ OperationsSettled' /\ ResponsesReachTheirCaller'
<1>1. /\ call' \in CallStates
      /\ \A x \in Senders :
           /\ call'[x].id = call[x].id /\ call'[x].unsub = call[x].unsub
           /\ call'[x].sid = call[x].sid
           /\ \/ call'[x] = call[x]
              \/ /\ x = c /\ call[x].phase = "waiting"
                 /\ call'[x].phase = "ready" /\ call'[x].got = got /\ call'[x].from = c
  BY DeliverFacts DEF TypeOK
<1>2. SettledKept
  BY Zenon, <1>1 DEF SettledKept, Settled
<1>3. OperationsSettled'
  BY <1>1, <1>2 DEF OperationsSettled, SettledKept
<1>4. ResponsesReachTheirCaller'
  BY <1>1 DEF ResponsesReachTheirCaller
<1> QED BY Zenon, <1>1, <1>2, <1>3, <1>4

(* Operations nobody touched keep what is known of them.                   *)
LEMMA CallUnchanged ==
  ASSUME TypeOK, OperationsSettled, ResponsesReachTheirCaller, UNCHANGED call
  PROVE  /\ call' \in CallStates /\ SettledKept
         /\ OperationsSettled' /\ ResponsesReachTheirCaller'
BY Zenon DEF TypeOK, OperationsSettled, ResponsesReachTheirCaller, SettledKept, Settled

(* The handlers are independent of the other tables.                       *)
LEMMA HandlersKeep ==
  ASSUME Managed, SettledKept, NEW n \in Methods, NEW tx \in Senders \cup {None},
         tx # None => CallKind[tx] = "register",
         manager' = [manager EXCEPT !.handlers[n] = tx], UNCHANGED wire
  PROVE  /\ manager' \in Managers /\ Consistent(manager)' /\ EntriesOwned'
         /\ AnswersAreExpected' /\ WireSettled'
<1> USE DEF Managed
<1>1. /\ manager'.requests = manager.requests /\ manager'.batches = manager.batches
      /\ manager'.subscriptions = manager.subscriptions
      /\ \A k \in Methods : manager'.handlers[k] = IF k = n THEN tx ELSE manager.handlers[k]
      /\ manager' \in Managers
  BY Zenon DEF TypeOK, Managers
<1>2. Consistent(manager)'
  BY <1>1 DEF Consistent, TablesAgree, UnsubIdsReserved, SubscriptionsHaveSinks, HoldsUnsubId,
              request_status
<1>3. EntriesOwned'
  BY <1>1 DEF EntriesOwned, SettledKept, Consistent, SubscriptionsHaveSinks, HoldsUnsubId,
     request_status
<1>4. AnswersAreExpected'
  BY <1>1 DEF AnswersAreExpected, Expected, request_status
<1>5. WireSettled'
  BY Zenon, <1>1 DEF WireSettled, Unclaimed, HoldsUnsubId, request_status
<1> QED BY Zenon, <1>1, <1>2, <1>3, <1>4, <1>5

(* A new subscription channel is empty.                                    *)
LEMMA OpenChanType ==
  ASSUME TypeOK, NEW c \in Senders PROVE OpenChan(c) \in ChanStates
BY ClientAssumption DEF TypeOK, OpenChan, ChanStates

-----------------------------------------------------------------------------
(* The send task *)

(* The message the send task receives is settled.                          *)
LEMMA HeadFacts ==
  ASSUME TypeOK, MessagesSettled, NEW t, Receive(t)
  PROVE  Head(toBack) \in FrontToBack /\ MessageSettled(Head(toBack)) /\ Head(toBack).t = t
<1>1. Len(toBack) \in Nat \ {0} /\ Head(toBack) = toBack[1] /\ toBack[1] \in FrontToBack
  BY DEF Receive, TypeOK
<1> QED BY <1>1 DEF Receive, MessagesSettled

(* A call is entered under a vacant id and perhaps sent.                   *)
LEMMA InsertCallKeeps ==
  ASSUME Managed, SettledKept, NEW id \in RequestIds, NEW tx \in Senders \cup {None},
         tx # None => CallKind[tx] = "call",
         manager.requests[id] = Vacant,
         manager' = [manager EXCEPT !.requests[id] = PendingMethodCall(tx)],
         NEW w \in Wire,
         \/ wire' = wire
         \/ wire' = wire \cup {w} /\ tx # None /\ w = OnWire("call", id, tx, None)
         \/ /\ wire' = wire \cup {w} /\ tx = None
            /\ w.kind = "unsubscribe" /\ w.id = id /\ w.sid \in SubscriptionIds
  PROVE  EntriesOwned' /\ AnswersAreExpected' /\ WireSettled'
<1> USE DEF Managed
<1>1. /\ \A i \in RequestIds :
           manager'.requests[i] = IF i = id THEN PendingMethodCall(tx) ELSE manager.requests[i]
      /\ manager'.batches = manager.batches /\ manager'.handlers = manager.handlers
  BY Zenon DEF TypeOK, Managers
<1>2. EntriesOwned'
  BY <1>1 DEF EntriesOwned, SettledKept, Consistent, SubscriptionsHaveSinks, HoldsUnsubId,
     request_status, PendingMethodCall, Kind, Vacant
<1>3. \A v \in wire : v \in Wire /\ (v.kind # "batch" => v.id # id)
  BY WireOccupies DEF TypeOK, Vacant, Kind
<1>4. \A v \in wire : Expected(v)'
  BY <1>1, <1>3, ExpectedKept DEF AnswersAreExpected, Wire
<1>5. Unclaimed(manager, id)
  BY DEF Unclaimed, Consistent, UnsubIdsReserved, PendingMethodCall, Vacant, Kind
<1>6. \A v \in wire' \ wire : v = w /\ v.id = id /\ v.kind # "batch" /\ Expected(v)'
  <2>1. wire' # wire => w.id = id /\ w.kind # "batch" /\ Expected(w)'
    BY <1>1 DEF Expected, OnWire
  <2> QED BY Zenon, <2>1
<1>7. AnswersAreExpected'
  BY Zenon, <1>3, <1>4, <1>6 DEF AnswersAreExpected
<1>8. \A i \in RequestIds : Unclaimed(manager, i) => Unclaimed(manager, i)'
  BY <1>1 DEF Unclaimed, HoldsUnsubId, request_status, PendingMethodCall, Kind
<1>9. WireSettled'
  BY <1>3, <1>5, <1>6, <1>8 DEF WireSettled, OnWire, Wire
<1> QED BY Zenon, <1>2, <1>7, <1>9

(* A pending subscription is entered together with its reservation.        *)
LEMMA InsertPendingSubscriptionKeeps ==
  ASSUME Managed, SettledKept, NEW c \in Senders, CallKind[c] = "subscribe", Settled(c),
         NEW id \in RequestIds, NEW unsub \in RequestIds, id # unsub,
         manager.requests[id] = Vacant, manager.requests[unsub] = Vacant,
         manager' = [manager EXCEPT !.requests[id] = PendingSubscription(unsub, c),
                                    !.requests[unsub] = PendingMethodCall(None)],
         wire' = wire \/ wire' = wire \cup {OnWire("subscribe", id, c, None)}
  PROVE  EntriesOwned' /\ AnswersAreExpected' /\ WireSettled'
<1> USE DEF Managed
<1> DEFINE w == OnWire("subscribe", id, c, None)
<1>1. /\ \A i \in RequestIds :
           manager'.requests[i] = IF i = id THEN PendingSubscription(unsub, c)
                                  ELSE IF i = unsub THEN PendingMethodCall(None)
                                  ELSE manager.requests[i]
      /\ manager'.batches = manager.batches /\ manager'.handlers = manager.handlers
  BY Zenon DEF TypeOK, Managers
<1>2. EntriesOwned'
  BY <1>1 DEF EntriesOwned, SettledKept, Consistent, SubscriptionsHaveSinks, HoldsUnsubId,
     request_status, PendingMethodCall, PendingSubscription, Kind
<1>3. \A v \in wire : v \in Wire /\ (v.kind # "batch" => v.id # id /\ v.id # unsub)
  BY WireOccupies DEF TypeOK, Vacant, Kind
<1>4. \A v \in wire : Expected(v)'
  BY Zenon, <1>1, <1>3, ExpectedKept DEF AnswersAreExpected, Wire
<1>5. w.id = id /\ w.kind = "subscribe" /\ Expected(w)'
  BY <1>1 DEF Expected, OnWire, request_status, PendingSubscription, Kind
<1> HIDE DEF w
<1>6. AnswersAreExpected'
  BY Zenon, <1>3, <1>4, <1>5 DEF AnswersAreExpected, w
<1>7. \A i \in RequestIds : i # unsub /\ Unclaimed(manager, i) => Unclaimed(manager, i)'
  BY <1>1 DEF Unclaimed, HoldsUnsubId, request_status, PendingMethodCall, PendingSubscription, Kind
<1>8. WireSettled'
  BY Zenon, <1>3, <1>5, <1>7 DEF WireSettled, Wire, w
<1> QED BY Zenon, <1>2, <1>6, <1>8

(* A batch is entered under a range of its own.                            *)
LEMMA InsertBatchKeeps ==
  ASSUME Managed, SettledKept, NEW c \in Senders, CallKind[c] = "batch",
         NEW id \in RequestIds, id + BatchLen \in RequestIds,
         manager.batches[<<id, id + BatchLen>>] = None,
         manager' = [manager EXCEPT !.batches[<<id, id + BatchLen>>] = c],
         wire' = wire \/ wire' = wire \cup {OnWire("batch", id, c, None)}
  PROVE  Consistent(manager)' /\ EntriesOwned' /\ AnswersAreExpected' /\ WireSettled'
<1> USE DEF Managed
<1> DEFINE w == OnWire("batch", id, c, None)
           r == <<id, id + BatchLen>>
<1>0. r \in Ranges
  BY Zenon DEF Ranges
<1>1. /\ \A b \in Ranges : manager'.batches[b] = IF b = r THEN c ELSE manager.batches[b]
      /\ manager'.requests = manager.requests /\ manager'.handlers = manager.handlers
      /\ manager'.subscriptions = manager.subscriptions
  BY Zenon, <1>0 DEF TypeOK, Managers
<1>2. Consistent(manager)'
  BY <1>1 DEF Consistent, TablesAgree, UnsubIdsReserved, SubscriptionsHaveSinks, HoldsUnsubId,
              request_status
<1>3. EntriesOwned'
  BY <1>1 DEF EntriesOwned, SettledKept, Consistent, SubscriptionsHaveSinks, HoldsUnsubId,
     request_status
<1>4. \A v \in wire : v \in Wire /\ (v.kind = "batch" =>
        /\ v.id # id /\ <<v.id, v.id + BatchLen>> \in Ranges /\ <<v.id, v.id + BatchLen>> # r)
  <2> SUFFICES ASSUME NEW v \in wire, v.kind = "batch"
               PROVE  v.id # id /\ <<v.id, v.id + BatchLen>> \in Ranges
    BY Zenon DEF TypeOK
  <2>1. manager.batches[<<v.id, v.id + BatchLen>>] = v.c /\ v.c \in Senders /\ v.id \in RequestIds
    BY Zenon DEF AnswersAreExpected, Expected, TypeOK, Wire
  <2>2. v.id + BatchLen \in RequestIds
    BY Zenon DEF WireSettled
  <2> QED BY Zenon, <2>1, <2>2, ManagerAssumption DEF Ranges
<1>5. \A v \in wire : Expected(v)'
  BY Zenon, <1>1, <1>4, ExpectedKept DEF AnswersAreExpected
<1>6. w.id = id /\ w.kind = "batch" /\ Expected(w)'
  BY Zenon, <1>0, <1>1 DEF Expected, OnWire
<1> HIDE DEF w
<1>7. AnswersAreExpected'
  BY Zenon, <1>4, <1>5, <1>6 DEF AnswersAreExpected, w
<1>8. \A i \in RequestIds : Unclaimed(manager, i) => Unclaimed(manager, i)'
  BY Zenon, <1>1 DEF Unclaimed, HoldsUnsubId, request_status
<1>9. WireSettled'
  BY Zenon, <1>4, <1>6, <1>8 DEF WireSettled, Wire, w
<1> QED BY Zenon, <1>2, <1>3, <1>7, <1>9

(* The entry of a subscription becomes an occupied id, and its unsubscribe *)
(* request may go out under the reserved id.                               *)
LEMMA UnsubscribeKeeps ==
  ASSUME Managed, SettledKept, NEW id \in RequestIds, NEW sid \in SubscriptionIds,
         manager.subscriptions[sid] = id,
         manager' = [manager EXCEPT !.requests[id] = PendingMethodCall(None),
                                    !.subscriptions[sid] = None],
         NEW u, u = manager.requests[id].unsub, NEW tx,
         wire' = wire \/ wire' = wire \cup {OnWire("unsubscribe", u, tx, sid)}
  PROVE  EntriesOwned' /\ AnswersAreExpected' /\ WireSettled'
<1> USE DEF Managed
<1> DEFINE w == OnWire("unsubscribe", u, tx, sid)
<1>1. /\ \A i \in RequestIds :
           manager'.requests[i] = IF i = id THEN PendingMethodCall(None) ELSE manager.requests[i]
      /\ manager'.batches = manager.batches /\ manager'.handlers = manager.handlers
  BY Zenon DEF TypeOK, Managers
<1>2. HoldsUnsubId(manager, id) /\ request_status(manager, id) = "Subscription"
  BY Zenon, NoneIsNoId DEF Consistent, TablesAgree, HoldsUnsubId
<1>3. /\ u \in RequestIds /\ manager.requests[u] = PendingMethodCall(None) /\ u # id
      /\ \A i \in RequestIds : i # id /\ HoldsUnsubId(manager, i) => manager.requests[i].unsub # u
  BY <1>2 DEF Consistent, UnsubIdsReserved, request_status, PendingMethodCall, Kind
<1>4. EntriesOwned'
  BY <1>1 DEF EntriesOwned, SettledKept, Consistent, SubscriptionsHaveSinks, HoldsUnsubId,
     request_status, PendingMethodCall, Kind
<1>5. \A v \in wire : v \in Wire /\ (v.kind # "batch" => v.id # id /\ v.id # u)
  <2> SUFFICES ASSUME NEW v \in wire, v.kind # "batch" PROVE v.id # id /\ v.id # u
    BY Zenon DEF TypeOK
  <2>1. v.id # id
    BY Zenon, <1>2, WireOccupies DEF request_status
  <2>2. CASE v.kind = "unsubscribe"
    BY Zenon, <1>2, <2>1, <2>2 DEF WireSettled, Unclaimed
  <2>3. CASE v.kind = "subscribe"
    <3>1. manager.requests[v.id].st = "PendingSubscription"
      BY Zenon, <2>3 DEF AnswersAreExpected, Expected, request_status
    <3> QED BY <1>3, <2>1, <3>1 DEF PendingMethodCall, Kind
  <2>4. CASE v.kind = "call"
    <3>1. v.c \in Senders /\ manager.requests[v.id] = PendingMethodCall(v.c)
      BY Zenon, <2>4 DEF AnswersAreExpected, Expected, TypeOK, Wire
    <3> QED BY <1>3, <2>1, <3>1, ManagerAssumption DEF PendingMethodCall, Kind
  <2> QED BY Zenon, <2>2, <2>3, <2>4 DEF TypeOK, Wire
<1>6. \A v \in wire : Expected(v)'
  BY Zenon, <1>1, <1>5, ExpectedKept DEF AnswersAreExpected, Wire
<1>7. w.id = u /\ w.kind = "unsubscribe" /\ w.sid = sid /\ Expected(w)'
  BY Zenon, <1>1, <1>3 DEF Expected, OnWire
<1>8. \A i \in RequestIds : Unclaimed(manager, i) => Unclaimed(manager, i)'
  BY <1>1 DEF Unclaimed, HoldsUnsubId, request_status, PendingMethodCall, Kind
<1>9. Unclaimed(manager, u)'
  BY <1>1, <1>3 DEF Unclaimed, HoldsUnsubId, request_status, PendingMethodCall, Kind
<1> HIDE DEF w
<1>10. AnswersAreExpected'
  BY Zenon, <1>5, <1>6, <1>7 DEF AnswersAreExpected, w
<1>11. WireSettled'
  BY Zenon, <1>3, <1>5, <1>7, <1>8, <1>9 DEF WireSettled, Wire, w
<1> QED BY Zenon, <1>4, <1>10, <1>11

\* What every step of the send task has to show about the manager and the wire.
SendGoal ==
  /\ call' \in CallStates /\ SettledKept /\ OperationsSettled' /\ ResponsesReachTheirCaller'
  /\ chan' \in ChanStates
  /\ manager' \in Managers /\ Consistent(manager)' /\ EntriesOwned'
  /\ wire' \subseteq Wire /\ AnswersAreExpected' /\ WireSettled'
  /\ sendTask' \in TaskStates

(* A step of the send task that meets its goal keeps the invariant.        *)
LEMMA SendStep ==
  ASSUME IInv, NEW t, Receive(t), UNCHANGED sendUnchanged, SendGoal PROVE IInv'
<1>1. MessagesSettled' /\ toBack' \in Seq(FrontToBack) /\ Len(toBack') <= QueueCap
  BY Zenon, QueueTail DEF IInv, Receive, SendGoal, sendUnchanged
<1>2. TypeOK'
  BY Zenon, <1>1 DEF IInv, TypeOK, SendGoal, sendUnchanged
<1> QED BY Zenon, <1>1, <1>2 DEF IInv, SendGoal

(* What the send task may do to the wire.                                  *)
LEMMA TransmitType ==
  ASSUME TypeOK, NEW w \in Wire, Transmit(w) \/ NothingToTransmit
  PROVE  wire' \subseteq Wire /\ sendTask' \in TaskStates /\ (wire' = wire \/ wire' = wire \cup {w})
BY Zenon DEF TypeOK, Transmit, NothingToTransmit, TaskStates

(* FrontToBack::Request from a caller.                                     *)
LEMMA SendRequestStep ==
  ASSUME IInv, SendRequest PROVE IInv'
<1> USE DEF IInv
<1>1. PICK c \in Senders : c = Head(toBack).c /\ CallKind[c] = "call" /\ Settled(c)
  BY HeadFacts DEF SendRequest, FrontToBack, MessageSettled
<1>2. PICK id \in RequestIds : id = call[c].id
  BY Zenon, <1>1 DEF Settled
<1> DEFINE w == OnWire("call", id, c, None)
<1>3. w \in Wire
  BY Zenon DEF OnWire, Wire
<1>4. chan' \in ChanStates /\ UNCHANGED sendUnchanged /\ Receive("Request")
  BY Zenon DEF SendRequest, TypeOK
<1>5. manager' = insert_pending_call(manager, id, c).m
  BY Zenon, <1>1, <1>2 DEF SendRequest
<1>6. manager' \in Managers /\ Consistent(manager')
  BY Zenon, <1>5, InsertPendingCallConsistent DEF TypeOK
<1>7. CASE manager.requests[id] = Vacant
  <2>1. /\ manager' = [manager EXCEPT !.requests[id] = PendingMethodCall(c)]
        /\ Transmit(w) /\ UNCHANGED call
    BY Zenon, <1>1, <1>2, <1>7 DEF SendRequest, insert_pending_call, Ok
  <2>2. /\ call' \in CallStates /\ SettledKept /\ OperationsSettled' /\ ResponsesReachTheirCaller'
    BY Zenon, <2>1, CallUnchanged
  <2>3. wire' \subseteq Wire /\ sendTask' \in TaskStates /\ (wire' = wire \/ wire' = wire \cup {w})
    BY Zenon, <2>1, <1>3, TransmitType
  <2>4. EntriesOwned' /\ AnswersAreExpected' /\ WireSettled'
    BY Zenon, <1>1, <1>3, <1>7, <2>1, <2>2, <2>3, ManagerAssumption, InsertCallKeeps DEF Managed
  <2> QED BY Zenon, <1>4, <1>6, <2>2, <2>3, <2>4, SendStep DEF SendGoal
<1>8. CASE manager.requests[id] # Vacant
  <2>1. UNCHANGED manager /\ NothingToTransmit /\ call' = Deliver(c, "err", c)
    BY Zenon, <1>1, <1>2, <1>8 DEF SendRequest, insert_pending_call, Err
  <2>2. /\ call' \in CallStates /\ SettledKept /\ OperationsSettled' /\ ResponsesReachTheirCaller'
    BY Zenon, <2>1, DeliverStep
  <2>3. Consistent(manager)' /\ EntriesOwned' /\ AnswersAreExpected' /\ WireSettled'
    BY Zenon, <2>1, <2>2, ManagerFrame DEF NothingToTransmit
  <2> QED BY Zenon, <1>4, <1>6, <2>1, <2>2, <2>3, SendStep DEF SendGoal, NothingToTransmit, TypeOK
<1> QED BY Zenon, <1>7, <1>8

(* FrontToBack::Request for an abandoned subscription.                     *)
LEMMA SendRequestUnsubStep ==
  ASSUME IInv, SendRequestUnsub PROVE IInv'
<1> USE DEF IInv
<1>1. PICK c \in Senders, sid \in SubscriptionIds :
        c = Head(toBack).c /\ sid = Head(toBack).sid /\ CallKind[c] = "subscribe" /\ Settled(c)
  BY Zenon, HeadFacts DEF SendRequestUnsub, FrontToBack, MessageSettled
<1>2. PICK id \in RequestIds : id = call[c].unsub
  BY Zenon, <1>1 DEF Settled
<1> DEFINE w == OnWire("unsubscribe", id, c, sid)
<1>3. w \in Wire /\ w.kind = "unsubscribe" /\ w.id = id /\ w.sid \in SubscriptionIds
  BY Zenon DEF OnWire, Wire
<1>4. chan' \in ChanStates /\ UNCHANGED <<call, sendUnchanged>> /\ Receive("RequestUnsub")
  BY Zenon DEF SendRequestUnsub, TypeOK
<1>5. manager' = insert_pending_call(manager, id, None).m
  BY Zenon, <1>1, <1>2 DEF SendRequestUnsub
<1>6. manager' \in Managers /\ Consistent(manager')
  BY Zenon, <1>5, InsertPendingCallConsistent DEF TypeOK
<1>7. /\ call' \in CallStates /\ SettledKept /\ OperationsSettled' /\ ResponsesReachTheirCaller'
  BY Zenon, <1>4, CallUnchanged
<1>8. CASE manager.requests[id] = Vacant
  <2>1. /\ manager' = [manager EXCEPT !.requests[id] = PendingMethodCall(None)]
        /\ Transmit(w)
    BY Zenon, <1>1, <1>2, <1>8 DEF SendRequestUnsub, insert_pending_call, Ok
  <2>2. wire' \subseteq Wire /\ sendTask' \in TaskStates /\ (wire' = wire \/ wire' = wire \cup {w})
    BY Zenon, <2>1, <1>3, TransmitType
  <2> HIDE DEF w
  <2>3. EntriesOwned' /\ AnswersAreExpected' /\ WireSettled'
    BY Zenon, <1>3, <1>7, <1>8, <2>1, <2>2, InsertCallKeeps DEF Managed
  <2> QED BY Zenon, <1>4, <1>6, <1>7, <2>2, <2>3, SendStep DEF SendGoal
<1>9. CASE manager.requests[id] # Vacant
  <2>1. UNCHANGED manager /\ NothingToTransmit
    BY Zenon, <1>1, <1>2, <1>9 DEF SendRequestUnsub, insert_pending_call, Err
  <2>2. Consistent(manager)' /\ EntriesOwned' /\ AnswersAreExpected' /\ WireSettled'
    BY Zenon, <2>1, <1>7, ManagerFrame DEF NothingToTransmit
  <2> QED BY Zenon, <1>4, <1>6, <1>7, <2>1, <2>2, SendStep DEF SendGoal, NothingToTransmit, TypeOK
<1> QED BY Zenon, <1>8, <1>9

(* FrontToBack::Batch.                                                     *)
LEMMA SendBatchStep ==
  ASSUME IInv, SendBatch PROVE IInv'
<1> USE DEF IInv
<1>1. PICK c \in Senders : c = Head(toBack).c /\ CallKind[c] = "batch" /\ Settled(c)
  BY HeadFacts DEF SendBatch, FrontToBack, MessageSettled
<1>2. PICK id \in RequestIds : id = call[c].id /\ id + BatchLen \in RequestIds
  BY Zenon, <1>1 DEF Settled
<1> DEFINE w == OnWire("batch", id, c, None)
           r == <<id, id + BatchLen>>
<1>3. w \in Wire /\ r \in Ranges /\ BatchRange(c) = r
  BY Zenon, <1>2 DEF OnWire, Wire, Ranges, BatchRange
<1>4. chan' \in ChanStates /\ UNCHANGED sendUnchanged /\ Receive("Batch")
  BY Zenon DEF SendBatch, TypeOK
<1>5. CASE manager.batches[r] = None
  <2>1. /\ manager' = [manager EXCEPT !.batches[r] = c]
        /\ Transmit(w) /\ UNCHANGED call
    BY Zenon, <1>1, <1>2, <1>3, <1>5 DEF SendBatch, insert_pending_batch, Ok
  <2>2. /\ call' \in CallStates /\ SettledKept /\ OperationsSettled' /\ ResponsesReachTheirCaller'
    BY Zenon, <2>1, CallUnchanged
  <2>3. wire' \subseteq Wire /\ sendTask' \in TaskStates /\ (wire' = wire \/ wire' = wire \cup {w})
    BY Zenon, <2>1, <1>3, TransmitType
  <2>4. manager' \in Managers
    BY Zenon, <1>3, <2>1 DEF TypeOK, Managers
  <2>5. Consistent(manager)' /\ EntriesOwned' /\ AnswersAreExpected' /\ WireSettled'
    BY Zenon, <1>1, <1>2, <1>5, <2>1, <2>2, <2>3, InsertBatchKeeps DEF Managed
  <2> QED BY Zenon, <1>4, <2>2, <2>3, <2>4, <2>5, SendStep DEF SendGoal
<1>6. CASE manager.batches[r] # None
  <2>1. UNCHANGED manager /\ NothingToTransmit /\ call' = Deliver(c, "err", c)
    BY Zenon, <1>1, <1>3, <1>6 DEF SendBatch, insert_pending_batch, Err
  <2>2. /\ call' \in CallStates /\ SettledKept /\ OperationsSettled' /\ ResponsesReachTheirCaller'
    BY Zenon, <2>1, DeliverStep
  <2>3. Consistent(manager)' /\ EntriesOwned' /\ AnswersAreExpected' /\ WireSettled'
    BY Zenon, <2>1, <2>2, ManagerFrame DEF NothingToTransmit
  <2> QED BY Zenon, <1>4, <2>1, <2>2, <2>3, SendStep DEF SendGoal, NothingToTransmit, TypeOK
<1> QED BY Zenon, <1>5, <1>6

(* FrontToBack::Notification.                                              *)
LEMMA SendNotificationStep ==
  ASSUME IInv, SendNotification PROVE IInv'
<1> USE DEF IInv
<1>1. /\ UNCHANGED <<call, chan, manager, wire, sendUnchanged>> /\ Receive("Notification")
      /\ sendTask' \in TaskStates
  BY Zenon DEF SendNotification, TypeOK, TaskStates
<1>2. /\ call' \in CallStates /\ SettledKept /\ OperationsSettled' /\ ResponsesReachTheirCaller'
  BY Zenon, <1>1, CallUnchanged
<1>3. Consistent(manager)' /\ EntriesOwned' /\ AnswersAreExpected' /\ WireSettled'
  BY Zenon, <1>1, <1>2, ManagerFrame
<1> QED BY Zenon, <1>1, <1>2, <1>3, SendStep DEF SendGoal, TypeOK

(* FrontToBack::Subscribe.                                                 *)
LEMMA SendSubscribeStep ==
  ASSUME IInv, SendSubscribe PROVE IInv'
<1> USE DEF IInv
<1>1. PICK c \in Senders : c = Head(toBack).c /\ CallKind[c] = "subscribe" /\ Settled(c)
  BY Zenon, HeadFacts DEF SendSubscribe, FrontToBack, MessageSettled
<1>2. PICK id \in RequestIds, unsub \in RequestIds : id = call[c].id /\ unsub = call[c].unsub
  BY Zenon, <1>1 DEF Settled
<1> DEFINE w == OnWire("subscribe", id, c, None)
           vacant == manager.requests[id] = Vacant /\ manager.requests[unsub] = Vacant /\ id # unsub
<1>3. w \in Wire
  BY Zenon DEF OnWire, Wire
<1>4. chan' \in ChanStates /\ UNCHANGED sendUnchanged /\ Receive("Subscribe")
  BY Zenon DEF SendSubscribe, TypeOK
<1>5. manager' = insert_pending_subscription(manager, id, unsub, c).m
  BY Zenon, <1>1, <1>2 DEF SendSubscribe
<1>6. manager' \in Managers /\ Consistent(manager')
  BY Zenon, <1>5, InsertPendingSubscriptionConsistent DEF TypeOK
<1>7. CASE vacant
  <2>1. /\ manager' = [manager EXCEPT !.requests[id] = PendingSubscription(unsub, c),
                                      !.requests[unsub] = PendingMethodCall(None)]
        /\ Transmit(w) /\ UNCHANGED call
    BY Zenon, <1>1, <1>2, <1>7 DEF SendSubscribe, insert_pending_subscription, Ok
  <2>2. /\ call' \in CallStates /\ SettledKept /\ OperationsSettled' /\ ResponsesReachTheirCaller'
    BY Zenon, <2>1, CallUnchanged
  <2>3. wire' \subseteq Wire /\ sendTask' \in TaskStates /\ (wire' = wire \/ wire' = wire \cup {w})
    BY Zenon, <2>1, <1>3, TransmitType
  <2>4. EntriesOwned' /\ AnswersAreExpected' /\ WireSettled'
    BY Zenon, <1>1, <1>7, <2>1, <2>2, <2>3, InsertPendingSubscriptionKeeps DEF Managed
  <2> QED BY Zenon, <1>4, <1>6, <2>2, <2>3, <2>4, SendStep DEF SendGoal
<1>8. CASE ~vacant
  <2>1. UNCHANGED manager /\ NothingToTransmit /\ call' = Deliver(c, "err", c)
    BY Zenon, <1>1, <1>2, <1>8 DEF SendSubscribe, insert_pending_subscription, Err
  <2>2. /\ call' \in CallStates /\ SettledKept /\ OperationsSettled' /\ ResponsesReachTheirCaller'
    BY Zenon, <2>1, DeliverStep
  <2>3. Consistent(manager)' /\ EntriesOwned' /\ AnswersAreExpected' /\ WireSettled'
    BY Zenon, <2>1, <2>2, ManagerFrame DEF NothingToTransmit
  <2> QED BY Zenon, <1>4, <1>6, <2>1, <2>2, <2>3, SendStep DEF SendGoal, NothingToTransmit, TypeOK
<1> QED BY Zenon, <1>7, <1>8

(* FrontToBack::SubscriptionClosed.                                        *)
LEMMA SendSubscriptionClosedStep ==
  ASSUME IInv, SendSubscriptionClosed PROVE IInv'
<1> USE DEF IInv
<1>1. PICK sid \in SubscriptionIds : sid = Head(toBack).sid
  BY HeadFacts DEF SendSubscriptionClosed, FrontToBack
<1>2. chan' \in ChanStates /\ UNCHANGED <<call, sendUnchanged>> /\ Receive("SubscriptionClosed")
  BY Zenon DEF SendSubscriptionClosed, TypeOK
<1>3. /\ call' \in CallStates /\ SettledKept /\ OperationsSettled' /\ ResponsesReachTheirCaller'
  BY Zenon, <1>2, CallUnchanged
<1>4. CASE manager.subscriptions[sid] = None
  <2>1. UNCHANGED manager /\ NothingToTransmit
    BY Zenon, <1>1, <1>4 DEF SendSubscriptionClosed, get_request_id_by_subscription_id
  <2>2. Consistent(manager)' /\ EntriesOwned' /\ AnswersAreExpected' /\ WireSettled'
    BY Zenon, <2>1, <1>3, ManagerFrame DEF NothingToTransmit
  <2> QED BY Zenon, <1>2, <1>3, <2>1, <2>2, SendStep DEF SendGoal, NothingToTransmit, TypeOK
<1>5. CASE manager.subscriptions[sid] # None
  <2>1. PICK id \in RequestIds : id = manager.subscriptions[sid]
    BY Zenon, <1>5 DEF TypeOK, Managers
  <2>2. manager.requests[id].st = "Subscription" /\ HoldsUnsubId(manager, id)
    BY Zenon, <1>5, <2>1 DEF Consistent, TablesAgree, request_status, HoldsUnsubId
  <2>3. PICK u \in RequestIds, tx \in Senders :
          u = manager.requests[id].unsub /\ tx = manager.requests[id].tx
    BY Zenon, <2>2 DEF Consistent, UnsubIdsReserved, SubscriptionsHaveSinks
  <2> DEFINE w == OnWire("unsubscribe", u, tx, sid)
  <2>4. w \in Wire
    BY Zenon DEF OnWire, Wire
  <2>5. manager' = unsubscribe(manager, id, sid).m
    BY Zenon, <1>1, <1>5, <2>1 DEF SendSubscriptionClosed, get_request_id_by_subscription_id
  <2>6. manager' \in Managers /\ Consistent(manager')
    BY Zenon, <2>1, <2>5, UnsubscribeConsistent DEF TypeOK
  <2>7. /\ manager' = [manager EXCEPT !.requests[id] = PendingMethodCall(None),
                                      !.subscriptions[sid] = None]
        /\ Transmit(w)
    BY Zenon, <1>1, <1>5, <2>1, <2>2, <2>3
       DEF SendSubscriptionClosed, get_request_id_by_subscription_id, unsubscribe, Ok
  <2>8. wire' \subseteq Wire /\ sendTask' \in TaskStates /\ (wire' = wire \/ wire' = wire \cup {w})
    BY Zenon, <2>4, <2>7, TransmitType
  <2>9. EntriesOwned' /\ AnswersAreExpected' /\ WireSettled'
    BY Zenon, <1>3, <2>1, <2>3, <2>7, <2>8, UnsubscribeKeeps DEF Managed
  <2> QED BY Zenon, <1>2, <1>3, <2>6, <2>8, <2>9, SendStep DEF SendGoal
<1> QED BY Zenon, <1>4, <1>5

(* FrontToBack::RegisterNotification.                                      *)
LEMMA RegisterNotificationStep ==
  ASSUME IInv, RegisterNotification PROVE IInv'
<1> USE DEF IInv
<1>1. PICK c \in Senders : c = Head(toBack).c /\ CallKind[c] = "register"
  BY HeadFacts DEF RegisterNotification, FrontToBack, MessageSettled
<1>2. MethodOf[c] \in Methods
  BY Zenon, ClientAssumption
<1>3. /\ UNCHANGED <<wire, sendTask, sendUnchanged>> /\ Receive("Register")
      /\ wire' \subseteq Wire /\ sendTask' \in TaskStates
  BY Zenon DEF RegisterNotification, NothingToTransmit, TypeOK
<1>4. chan' \in ChanStates
  BY Zenon, <1>1, OpenChanType DEF RegisterNotification, TypeOK
<1>5. PICK got \in {"ok", "err"} : call' = Deliver(c, got, c)
  BY Zenon, <1>1 DEF RegisterNotification
<1>6. /\ call' \in CallStates /\ SettledKept /\ OperationsSettled' /\ ResponsesReachTheirCaller'
  BY Zenon, <1>1, <1>5, DeliverStep
<1>7. /\ manager' \in Managers /\ Consistent(manager)' /\ EntriesOwned'
      /\ AnswersAreExpected' /\ WireSettled'
  <2>1. CASE manager' = [manager EXCEPT !.handlers[MethodOf[c]] = c]
    BY Zenon, <1>1, <1>2, <1>3, <1>6, <2>1, HandlersKeep DEF Managed
  <2>2. CASE UNCHANGED manager
    BY Zenon, <1>3, <1>6, <2>2, ManagerFrame DEF TypeOK
  <2> QED BY Zenon, <1>1, <2>1, <2>2 DEF RegisterNotification, insert_notification_handler, Ok, Err
<1> QED BY Zenon, <1>3, <1>4, <1>6, <1>7, SendStep DEF SendGoal

(* FrontToBack::UnregisterNotification.                                    *)
LEMMA UnregisterNotificationStep ==
  ASSUME IInv, UnregisterNotification PROVE IInv'
<1> USE DEF IInv
<1>1. PICK c \in Senders : c = Head(toBack).c
  BY Zenon, HeadFacts DEF UnregisterNotification, FrontToBack
<1>2. MethodOf[c] \in Methods
  BY Zenon, ClientAssumption
<1>3. /\ UNCHANGED <<call, chan, wire, sendTask, sendUnchanged>> /\ Receive("Unregister")
      /\ chan' \in ChanStates /\ wire' \subseteq Wire /\ sendTask' \in TaskStates
  BY Zenon DEF UnregisterNotification, NothingToTransmit, TypeOK
<1>4. /\ call' \in CallStates /\ SettledKept /\ OperationsSettled' /\ ResponsesReachTheirCaller'
  BY Zenon, <1>3, CallUnchanged
<1>5. /\ manager' \in Managers /\ Consistent(manager)' /\ EntriesOwned'
      /\ AnswersAreExpected' /\ WireSettled'
  BY Zenon, <1>1, <1>2, <1>3, <1>4, HandlersKeep
     DEF Managed, UnregisterNotification, remove_notification_handler
<1> QED BY Zenon, <1>3, <1>4, <1>5, SendStep DEF SendGoal

(* handle_frontend_messages keeps the invariant.                           *)
LEMMA HandleFrontendStep ==
  ASSUME IInv, HandleFrontend PROVE IInv'
BY Zenon, SendRequestStep, SendRequestUnsubStep, SendBatchStep, SendNotificationStep,
   SendSubscribeStep, SendSubscriptionClosedStep, RegisterNotificationStep,
   UnregisterNotificationStep DEF HandleFrontend

-----------------------------------------------------------------------------
(* The read task *)

ReadGoal ==
  /\ call' \in CallStates /\ SettledKept /\ OperationsSettled' /\ ResponsesReachTheirCaller'
  /\ chan' \in ChanStates
  /\ flush' \subseteq FrontToBack /\ \A msg \in flush' : MessageSettled(msg)'
  /\ manager' \in Managers /\ Consistent(manager)' /\ EntriesOwned'
  /\ wire' \subseteq Wire /\ AnswersAreExpected' /\ WireSettled'
  /\ served' \in ServedStates /\ readTask' \in TaskStates

(* A step of the read task that meets its goal keeps the invariant.        *)
LEMMA ReadStep ==
  ASSUME IInv, UNCHANGED readUnchanged, ReadGoal PROVE IInv'
<1>1. \A i \in 1 .. Len(toBack) : toBack[i] \in FrontToBack
  BY DEF IInv, TypeOK
<1>2. MessagesSettled'
  BY Zenon, <1>1, MessageStaysSettled DEF IInv, MessagesSettled, ReadGoal, readUnchanged
<1>3. TypeOK'
  BY Zenon DEF IInv, TypeOK, ReadGoal, readUnchanged
<1> QED BY Zenon, <1>2, <1>3 DEF IInv, ReadGoal

(* Pending unsubscriptions nobody touched stay settled,                    *)
LEMMA FlushUnchanged ==
  ASSUME TypeOK, MessagesSettled, SettledKept, UNCHANGED flush
  PROVE  flush' \subseteq FrontToBack /\ \A msg \in flush' : MessageSettled(msg)'
BY Zenon, MessageStaysSettled DEF TypeOK, MessagesSettled

(* and so do they when a settled one joins them.                           *)
LEMMA FlushAdd ==
  ASSUME TypeOK, MessagesSettled, SettledKept, NEW m \in FrontToBack, MessageSettled(m),
         flush' = flush \cup {m}
  PROVE  flush' \subseteq FrontToBack /\ \A msg \in flush' : MessageSettled(msg)'
BY Zenon, MessageStaysSettled DEF TypeOK, MessagesSettled

(* Answering a request replaces its entry: by nothing, by an entry without *)
(* a caller, or by one that keeps the claim on the unsubscribe id.         *)
LEMMA AnswerKeeps ==
  ASSUME Managed, SettledKept, NEW w \in wire, w.kind # "batch", NEW k \in Kinds,
         \A i \in RequestIds : manager'.requests[i] = IF i = w.id THEN k ELSE manager.requests[i],
         manager'.batches = manager.batches, manager'.handlers = manager.handlers,
         \/ k = Vacant \/ k = PendingMethodCall(None)
         \/ /\ k.st = "Subscription" /\ HoldsUnsubId(manager, w.id)
            /\ k.unsub = manager.requests[w.id].unsub /\ k.tx = manager.requests[w.id].tx,
         wire' = wire \ {w}
  PROVE  EntriesOwned' /\ wire' \subseteq Wire /\ AnswersAreExpected' /\ WireSettled'
<1> USE DEF Managed
<1>1. w.id \in RequestIds
  BY Zenon DEF TypeOK, Wire
<1>2. EntriesOwned'
  BY <1>1 DEF EntriesOwned, SettledKept, Consistent, SubscriptionsHaveSinks, HoldsUnsubId,
     request_status, PendingMethodCall, Vacant, Kind
<1>3. \A v \in wire' : v \in Wire /\ v \in wire /\ (v.kind # "batch" => v.id # w.id)
  BY Zenon DEF AnswersAreExpected, TypeOK
<1>4. \A v \in wire' : Expected(v)'
  BY Zenon, <1>3, ExpectedKept DEF AnswersAreExpected, Wire
<1>5. AnswersAreExpected'
  BY <1>3, <1>4 DEF AnswersAreExpected
<1>6. \A i \in RequestIds : Unclaimed(manager, i) => Unclaimed(manager, i)'
  BY <1>1 DEF Unclaimed, HoldsUnsubId, request_status, PendingMethodCall, Vacant, Kind
<1>7. WireSettled'
  BY Zenon, <1>3, <1>6 DEF WireSettled, Wire
<1> QED BY Zenon, <1>2, <1>3, <1>5, <1>7

(* What the answered entry looks like, by kind of request.                 *)
LEMMA AnsweredEntry ==
  ASSUME Managed, NEW w \in wire, w.kind # "batch"
  PROVE  /\ w.id \in RequestIds /\ w.c \in Senders
         /\ request_status(manager, w.id) = "PendingMethodCall" =>
              /\ w.kind \in {"call", "unsubscribe"}
              /\ manager.requests[w.id].tx \in {None, w.c}
              /\ Unclaimed(manager, w.id)
         /\ request_status(manager, w.id) = "PendingSubscription" =>
              w.kind = "subscribe" /\ manager.requests[w.id].tx = w.c
         /\ request_status(manager, w.id) \in {"PendingMethodCall", "PendingSubscription"}
<1> USE DEF Managed
<1>1. w.id \in RequestIds /\ w.c \in Senders /\ w.kind \in {"call", "subscribe", "unsubscribe"}
  BY Zenon DEF TypeOK, Wire
<1>2. Expected(w)
  BY Zenon DEF AnswersAreExpected
<1>3. \A tx : PendingMethodCall(tx).st = "PendingMethodCall" /\ PendingMethodCall(tx).tx = tx
  BY Zenon DEF PendingMethodCall, Kind
<1>4. CASE w.kind = "call"
  <2>1. manager.requests[w.id] = PendingMethodCall(w.c)
    BY Zenon, <1>2, <1>4 DEF Expected
  <2>2. manager.requests[w.id] # PendingMethodCall(None)
    BY <1>1, <1>3, <2>1, ManagerAssumption
  <2>3. Unclaimed(manager, w.id)
    BY Zenon, <2>2 DEF Unclaimed, Consistent, UnsubIdsReserved
  <2> QED BY Zenon, <1>1, <1>3, <1>4, <2>1, <2>3 DEF request_status
<1>5. CASE w.kind = "unsubscribe"
  <2>1. manager.requests[w.id] = PendingMethodCall(None) /\ Unclaimed(manager, w.id)
    BY Zenon, <1>2, <1>5 DEF Expected, WireSettled
  <2> QED BY Zenon, <1>1, <1>3, <1>5, <2>1 DEF request_status
<1>6. CASE w.kind = "subscribe"
  BY Zenon, <1>1, <1>2, <1>6 DEF Expected
<1> QED BY Zenon, <1>1, <1>4, <1>5, <1>6

(* The server keeps track of its subscriptions.                            *)
LEMMA ServeType ==
  ASSUME TypeOK, WireSettled, NEW w \in wire, NEW reply \in SubscriptionIds \cup {None}
  PROVE  Serve(w, reply) \in ServedStates
BY Zenon DEF TypeOK, WireSettled, Wire, Serve, ServedStates

(* The answer to a method call frees its entry and reaches its caller.     *)
LEMMA RespondToCallStep ==
  ASSUME IInv, NEW w \in wire, w.kind # "batch",
         request_status(manager, w.id) = "PendingMethodCall", RespondToCall(w),
         wire' = wire \ {w}, served' \in ServedStates
  PROVE  ReadGoal
<1> DEFINE tx == manager.requests[w.id].tx
<1>1. Managed
  BY Zenon DEF IInv, Managed
<1>2. /\ w.id \in RequestIds /\ w.c \in Senders /\ tx \in {None, w.c}
      /\ Unclaimed(manager, w.id)
  BY Zenon, <1>1, AnsweredEntry
<1>3. call' \in CallStates /\ SettledKept /\ OperationsSettled' /\ ResponsesReachTheirCaller'
  <2>1. CASE tx = None
    <3>1. UNCHANGED call
      BY Zenon, <2>1 DEF RespondToCall
    <3> QED BY Zenon, <3>1, CallUnchanged DEF IInv
  <2>2. CASE tx # None
    <3>1. tx = w.c /\ call' = Deliver(w.c, "ok", w.c)
      BY Zenon, <1>2, <2>2 DEF RespondToCall
    <3>2. CallKind[w.c] = "call"
      BY Zenon, <1>2, <2>2, <3>1 DEF IInv, EntriesOwned, request_status
    <3> QED BY Zenon, <1>2, <3>1, <3>2, DeliverStep DEF IInv
  <2> QED BY Zenon, <2>1, <2>2
<1>4. manager' \in Managers /\ Consistent(manager)'
  BY Zenon, <1>2, CompletePendingCallConsistent DEF RespondToCall, IInv, TypeOK
<1>5. manager' = [manager EXCEPT !.requests[w.id] = Vacant]
  BY Zenon DEF RespondToCall, complete_pending_call, request_status, Ok
<1>6. /\ \A i \in RequestIds :
           manager'.requests[i] = IF i = w.id THEN Vacant ELSE manager.requests[i]
      /\ manager'.batches = manager.batches /\ manager'.handlers = manager.handlers
  BY Zenon, <1>2, <1>5 DEF IInv, TypeOK, Managers
<1>7. EntriesOwned' /\ wire' \subseteq Wire /\ AnswersAreExpected' /\ WireSettled'
  BY Zenon, <1>1, <1>3, <1>6, AnswerKeeps, KindTypes
<1>8. chan' \in ChanStates /\ readTask' \in TaskStates /\ UNCHANGED flush
  BY Zenon DEF RespondToCall, IInv, TypeOK
<1>9. flush' \subseteq FrontToBack /\ \A msg \in flush' : MessageSettled(msg)'
  BY Zenon, <1>3, <1>8, FlushUnchanged DEF IInv
<1> QED BY Zenon, <1>3, <1>4, <1>7, <1>8, <1>9 DEF ReadGoal

(* Delivering a subscription records its id.                               *)
LEMMA DeliverSubscription ==
  ASSUME TypeOK, OperationsSettled, ResponsesReachTheirCaller,
         NEW c \in Senders, NEW sid \in SubscriptionIds, call[c].phase = "waiting",
         call' = [Deliver(c, "ok", c) EXCEPT ![c].sid = sid]
  PROVE  /\ call' \in CallStates /\ SettledKept
         /\ OperationsSettled' /\ ResponsesReachTheirCaller'
<1> DEFINE new == [call[c] EXCEPT !.phase = "ready", !.got = "ok", !.from = c, !.sid = sid]
<1>1. call' = [call EXCEPT ![c] = new]
  BY Zenon DEF Deliver, TypeOK, CallStates
<1>2. /\ new.id = call[c].id /\ new.unsub = call[c].unsub /\ new.sid = sid
      /\ new.phase = "ready" /\ new.got = "ok" /\ new.from = c
  BY Zenon DEF TypeOK, CallStates
<1>3. call' \in CallStates
  <2>1. call[c] \in [phase : Phases, id : RequestIds \cup {None}, unsub : RequestIds \cup {None},
                     sid : SubscriptionIds \cup {None}, got : {"none", "ok", "err"},
                     from : Senders \cup {None}]
    BY Zenon DEF TypeOK, CallStates
  <2>2. new \in [phase : Phases, id : RequestIds \cup {None}, unsub : RequestIds \cup {None},
                 sid : SubscriptionIds \cup {None}, got : {"none", "ok", "err"},
                 from : Senders \cup {None}]
    BY Zenon, <2>1 DEF Phases
  <2> HIDE DEF new
  <2> QED BY Zenon, <1>1, <2>2 DEF TypeOK, CallStates
<1> HIDE DEF new
<1>4. \A x \in Senders : call'[x] = IF x = c THEN new ELSE call[x]
  BY Zenon, <1>1 DEF TypeOK, CallStates
<1>5. SettledKept
  BY <1>2, <1>4 DEF SettledKept, Settled
<1>6. OperationsSettled'
  BY <1>2, <1>4, <1>5 DEF OperationsSettled, SettledKept
<1>7. \A x \in Senders : call'[x].got # "none" => call'[x].from = x
  <2> TAKE x \in Senders
  <2>1. CASE x = c
    BY Zenon, <1>2, <1>4, <2>1
  <2>2. CASE x # c
    BY Zenon, <1>4, <2>2 DEF ResponsesReachTheirCaller
  <2> QED BY Zenon, <2>1, <2>2
<1>8. ResponsesReachTheirCaller'
  BY Zenon, <1>7 DEF ResponsesReachTheirCaller
<1> QED BY Zenon, <1>3, <1>5, <1>6, <1>8

(* The answer to a subscribe request that creates no subscription.         *)
LEMMA SubscribeRefusedStep ==
  ASSUME IInv, NEW w \in wire, w.kind # "batch",
         request_status(manager, w.id) = "PendingSubscription",
         manager' = complete_pending_subscription(manager, w.id).m,
         call' = Deliver(w.c, "err", w.c), UNCHANGED <<chan, flush, readTask>>,
         wire' = wire \ {w}, served' \in ServedStates
  PROVE  ReadGoal
<1>1. Managed
  BY Zenon DEF IInv, Managed
<1>2. w.id \in RequestIds /\ w.c \in Senders
  BY Zenon, <1>1, AnsweredEntry
<1>3. call' \in CallStates /\ SettledKept /\ OperationsSettled' /\ ResponsesReachTheirCaller'
  BY Zenon, <1>2, DeliverStep DEF IInv
<1>4. /\ \A i \in RequestIds :
           manager'.requests[i] = IF i = w.id THEN Vacant ELSE manager.requests[i]
      /\ manager'.batches = manager.batches /\ manager'.handlers = manager.handlers
      /\ manager' \in Managers /\ Consistent(manager')
  BY <1>2, SubscriptionCompleted DEF IInv, TypeOK, request_status
<1>5. EntriesOwned' /\ wire' \subseteq Wire /\ AnswersAreExpected' /\ WireSettled'
  BY Zenon, <1>1, <1>3, <1>4, AnswerKeeps, KindTypes
<1>6. flush' \subseteq FrontToBack /\ \A msg \in flush' : MessageSettled(msg)'
  BY Zenon, <1>3, FlushUnchanged DEF IInv
<1>7. Consistent(manager)'
  BY Zenon, <1>4
<1> QED BY Zenon, <1>3, <1>4, <1>5, <1>6, <1>7 DEF ReadGoal, IInv, TypeOK

(* The answer to a subscribe request whose caller takes the subscription.  *)
LEMMA SubscriptionTakenStep ==
  ASSUME IInv, NEW w \in wire, w.kind # "batch", NEW sid \in SubscriptionIds,
         request_status(manager, w.id) = "PendingSubscription",
         NEW n, Entering(manager, w.id, sid, n), manager' = n, call[w.c].phase = "waiting",
         call' = [Deliver(w.c, "ok", w.c) EXCEPT ![w.c].sid = sid],
         chan' = OpenChan(w.c), UNCHANGED <<flush, readTask>>,
         wire' = wire \ {w}, served' \in ServedStates
  PROVE  ReadGoal
<1>1. Managed
  BY Zenon DEF IInv, Managed
<1>2. w.id \in RequestIds /\ w.c \in Senders
  BY Zenon, <1>1, AnsweredEntry
<1>3. call' \in CallStates /\ SettledKept /\ OperationsSettled' /\ ResponsesReachTheirCaller'
  BY Zenon, <1>2, DeliverSubscription DEF IInv
<1> DEFINE k == Subscription(manager.requests[w.id].unsub, manager.requests[w.id].tx)
<1>4. /\ \A i \in RequestIds : manager'.requests[i] = IF i = w.id THEN k ELSE manager.requests[i]
      /\ manager'.batches = manager.batches /\ manager'.handlers = manager.handlers
      /\ manager' \in Managers /\ Consistent(manager')
  <2>1. manager \in Managers /\ Consistent(manager)
    BY Zenon DEF IInv, TypeOK
  <2>2. manager.requests[w.id].st = "PendingSubscription"
    BY Zenon DEF request_status
  <2> QED BY <1>2, <2>1, <2>2, SubscriptionEntered
<1>5. HoldsUnsubId(manager, w.id)
  BY Zenon DEF HoldsUnsubId
<1>6. /\ k \in Kinds /\ k.st = "Subscription"
      /\ k.unsub = manager.requests[w.id].unsub /\ k.tx = manager.requests[w.id].tx
  <2>1. /\ manager.requests[w.id].unsub \in RequestIds \cup {None}
        /\ manager.requests[w.id].tx \in Senders \cup {None}
    BY Zenon, <1>2 DEF IInv, TypeOK, Managers, Kinds
  <2> QED BY Zenon, <2>1, KindTypes DEF Subscription, Kind
<1> HIDE DEF k
<1>7. EntriesOwned' /\ wire' \subseteq Wire /\ AnswersAreExpected' /\ WireSettled'
  BY Zenon, <1>1, <1>3, <1>4, <1>5, <1>6, AnswerKeeps
<1>8. flush' \subseteq FrontToBack /\ \A msg \in flush' : MessageSettled(msg)'
  BY Zenon, <1>3, FlushUnchanged DEF IInv
<1>9. Consistent(manager)'
  BY Zenon, <1>4
<1>10. chan' \in ChanStates
  BY Zenon, <1>2, OpenChanType DEF IInv
<1> QED BY Zenon, <1>3, <1>4, <1>7, <1>8, <1>9, <1>10 DEF ReadGoal, IInv, TypeOK

(* The answer to a subscribe request whose caller is gone: the subscription *)
(* is left at once and an unsubscribe request is queued for the send task.  *)
LEMMA SubscriptionLeftStep ==
  ASSUME IInv, NEW w \in wire, w.kind # "batch", NEW sid \in SubscriptionIds,
         request_status(manager, w.id) = "PendingSubscription",
         NEW n, Leaving(manager, w.id, sid, n), manager' = n,
         chan' = OpenChan(w.c), flush' = flush \cup {RequestUnsub(w.c, sid)},
         UNCHANGED <<call, readTask>>,
         wire' = wire \ {w}, served' \in ServedStates
  PROVE  ReadGoal
<1>1. Managed
  BY Zenon DEF IInv, Managed
<1>2. w.id \in RequestIds /\ w.c \in Senders /\ manager.requests[w.id].tx = w.c
  BY Zenon, <1>1, AnsweredEntry
<1>3. call' \in CallStates /\ SettledKept /\ OperationsSettled' /\ ResponsesReachTheirCaller'
  BY Zenon, CallUnchanged DEF IInv
<1>4. /\ \A i \in RequestIds :
           manager'.requests[i] = IF i = w.id THEN PendingMethodCall(None) ELSE manager.requests[i]
      /\ manager'.batches = manager.batches /\ manager'.handlers = manager.handlers
      /\ manager' \in Managers /\ Consistent(manager')
  <2>1. manager \in Managers /\ Consistent(manager)
    BY Zenon DEF IInv, TypeOK
  <2>2. manager.requests[w.id].st = "PendingSubscription"
    BY Zenon DEF request_status
  <2> QED BY <1>2, <2>1, <2>2, SubscriptionAbandoned
<1>5. EntriesOwned' /\ wire' \subseteq Wire /\ AnswersAreExpected' /\ WireSettled'
  BY Zenon, <1>1, <1>3, <1>4, AnswerKeeps, KindTypes
<1>6. CallKind[w.c] = "subscribe" /\ Settled(w.c)
  BY Zenon, <1>2 DEF IInv, EntriesOwned, HoldsUnsubId
<1>7. RequestUnsub(w.c, sid) \in FrontToBack /\ MessageSettled(RequestUnsub(w.c, sid))
  BY Zenon, <1>2, <1>6 DEF RequestUnsub, FrontToBack, MessageSettled
<1>8. flush' \subseteq FrontToBack /\ \A msg \in flush' : MessageSettled(msg)'
  BY Zenon, <1>3, <1>7, FlushAdd DEF IInv
<1>9. Consistent(manager)'
  BY Zenon, <1>4
<1>10. chan' \in ChanStates
  BY Zenon, <1>2, OpenChanType DEF IInv
<1> QED BY Zenon, <1>3, <1>4, <1>5, <1>8, <1>9, <1>10 DEF ReadGoal, IInv, TypeOK

(* A response to a single request.                                         *)
LEMMA ReceiveResponseStep ==
  ASSUME IInv, NEW w \in wire, NEW reply \in Replies(w), ReceiveResponse(w, reply)
  PROVE  IInv'
<1>1. Managed
  BY Zenon DEF IInv, Managed
<1>2. w.kind # "batch" /\ wire' = wire \ {w} /\ UNCHANGED readUnchanged
  BY Zenon DEF ReceiveResponse
<1>3. reply \in SubscriptionIds \cup {None}
  BY Zenon DEF Replies
<1>4. served' \in ServedStates
  BY Zenon, <1>3, ServeType DEF IInv, ReceiveResponse
<1>5. CASE request_status(manager, w.id) = "PendingMethodCall"
  <2>1. RespondToCall(w)
    BY Zenon, <1>5 DEF ReceiveResponse
  <2> QED BY Zenon, <1>2, <1>4, <1>5, <2>1, RespondToCallStep, ReadStep
<1>6. CASE request_status(manager, w.id) = "PendingSubscription"
  <2> DEFINE m1 == complete_pending_subscription(manager, w.id).m
             res == insert_subscription(m1, w.id, manager.requests[w.id].unsub, reply,
                                        manager.requests[w.id].tx)
  <2>1. RespondToSubscribe(w, reply)
    BY Zenon, <1>6 DEF ReceiveResponse
  <2>2. manager.requests[w.id].tx = w.c
    BY Zenon, <1>1, <1>2, <1>6, AnsweredEntry
  <2>3. PICK n : n = res.m
    BY Zenon
  <2>4. res.ok => Entering(manager, w.id, reply, n)
    BY Zenon, <2>3 DEF Entering
  <2>5. CASE reply = None \/ ~res.ok
    <3>1. /\ manager' = m1 /\ call' = Deliver(w.c, "err", w.c)
          /\ UNCHANGED <<chan, flush, readTask>>
      BY Zenon, <2>1, <2>2, <2>5 DEF RespondToSubscribe
    <3> QED BY Zenon, <1>2, <1>4, <1>6, <3>1, SubscribeRefusedStep, ReadStep
  <2>6. CASE ~(reply = None \/ ~res.ok) /\ call[w.c].phase = "waiting"
    <3>1. /\ manager' = n /\ chan' = OpenChan(w.c) /\ UNCHANGED <<flush, readTask>>
          /\ call' = [Deliver(w.c, "ok", w.c) EXCEPT ![w.c].sid = reply]
      BY Zenon, <2>1, <2>2, <2>3, <2>6 DEF RespondToSubscribe
    <3> QED BY Zenon, <1>2, <1>3, <1>4, <1>6, <2>4, <2>6, <3>1, SubscriptionTakenStep, ReadStep
  <2>7. CASE ~(reply = None \/ ~res.ok) /\ call[w.c].phase # "waiting"
    <3>1. /\ manager' = unsubscribe(n, w.id, reply).m /\ chan' = OpenChan(w.c)
          /\ UNCHANGED <<call, readTask>> /\ flush' = flush \cup {RequestUnsub(w.c, reply)}
      BY Zenon, <2>1, <2>2, <2>3, <2>7 DEF RespondToSubscribe
    <3>2. PICK u : u = manager'
      BY Zenon
    <3>3. Leaving(manager, w.id, reply, u)
      BY Zenon, <2>4, <2>7, <3>1, <3>2 DEF Leaving
    <3> QED BY Zenon, <1>2, <1>3, <1>4, <1>6, <2>7, <3>1, <3>2, <3>3, SubscriptionLeftStep, ReadStep
  <2> QED BY Zenon, <2>5, <2>6, <2>7
<1> QED BY Zenon, <1>1, <1>2, <1>5, <1>6, AnsweredEntry

(* The answer to a batch frees the entry of its range.                     *)
LEMMA ReceiveBatchResponseStep ==
  ASSUME IInv, NEW w \in wire, ReceiveBatchResponse(w)
  PROVE  IInv'
<1> DEFINE range == <<w.id, w.id + BatchLen>>
<1>1. /\ w.kind = "batch" /\ wire' = wire \ {w} /\ UNCHANGED readUnchanged
      /\ UNCHANGED <<chan, flush, served>>
  BY Zenon DEF ReceiveBatchResponse
<1>2. w \in Wire /\ w.id \in RequestIds /\ w.c \in Senders /\ range \in Ranges
  BY Zenon, <1>1 DEF IInv, TypeOK, Wire, WireSettled, Ranges
<1>3. manager.batches[range] = w.c /\ w.c # None
  BY Zenon, <1>1, <1>2, ManagerAssumption DEF IInv, AnswersAreExpected, Expected
<1>4. CallKind[w.c] = "batch"
  BY Zenon, <1>2, <1>3 DEF IInv, EntriesOwned
<1>5. /\ manager' = [manager EXCEPT !.batches[range] = None]
      /\ call' = Deliver(w.c, "ok", w.c) /\ UNCHANGED readTask
  BY Zenon, <1>3 DEF ReceiveBatchResponse, complete_pending_batch, Ok
<1>6. call' \in CallStates /\ SettledKept /\ OperationsSettled' /\ ResponsesReachTheirCaller'
  BY Zenon, <1>2, <1>4, <1>5, DeliverStep DEF IInv
<1>7. /\ manager'.requests = manager.requests /\ manager'.handlers = manager.handlers
      /\ manager'.subscriptions = manager.subscriptions /\ manager' \in Managers
      /\ \A b \in Ranges : manager'.batches[b] = IF b = range THEN None ELSE manager.batches[b]
  BY Zenon, <1>2, <1>5 DEF IInv, TypeOK, Managers
<1>8. Consistent(manager)'
  BY <1>7 DEF IInv, Consistent, TablesAgree, UnsubIdsReserved, SubscriptionsHaveSinks,
     HoldsUnsubId, request_status
<1>9. EntriesOwned'
  BY <1>6, <1>7 DEF IInv, EntriesOwned, SettledKept, Consistent, SubscriptionsHaveSinks,
     HoldsUnsubId, request_status
<1>10. \A v \in wire' : v \in wire /\ v \in Wire /\ (v.kind = "batch" => v.id # w.id)
  BY Zenon, <1>1 DEF IInv, AnswersAreExpected, TypeOK
<1>11. \A v \in wire' : Expected(v)'
  <2> TAKE v \in wire'
  <2>1. Expected(v) /\ v.kind \in {"call", "batch", "subscribe", "unsubscribe"}
    BY Zenon, <1>10 DEF IInv, AnswersAreExpected, Wire
  <2>2. v.kind = "batch" => /\ <<v.id, v.id + BatchLen>> \in Ranges
                            /\ <<v.id, v.id + BatchLen>> # range
    BY Zenon, <1>10 DEF IInv, WireSettled, Ranges, Wire
  <2> HIDE DEF range
  <2> QED BY Zenon, <1>7, <2>1, <2>2 DEF Expected, request_status
<1>12. AnswersAreExpected'
  BY Zenon, <1>10, <1>11 DEF IInv, AnswersAreExpected
<1>13. WireSettled'
  BY Zenon, <1>7, <1>10 DEF IInv, WireSettled, Unclaimed, HoldsUnsubId, request_status
<1>14. flush' \subseteq FrontToBack /\ \A msg \in flush' : MessageSettled(msg)'
  BY Zenon, <1>1, <1>6, FlushUnchanged DEF IInv
<1>15. ReadGoal
  BY Zenon, <1>1, <1>5, <1>6, <1>7, <1>8, <1>9, <1>10, <1>12, <1>13, <1>14 DEF ReadGoal, IInv, TypeOK
<1> QED BY Zenon, <1>1, <1>15, ReadStep

(* Pushing a notification keeps a channel within its capacity.             *)
LEMMA PushChanType ==
  ASSUME TypeOK, NEW c \in Senders PROVE PushChan(c) \in ChanStates
<1>1. /\ chan \in ChanStates /\ chan[c].len \in 0 .. SubCap
      /\ SubCap \in Nat
  BY Zenon, ClientAssumption DEF TypeOK, ChanStates
<1>2. CASE Push(c) = "closed"
  BY Zenon, <1>1, <1>2 DEF PushChan
<1>3. CASE Push(c) = "full"
  BY Zenon, <1>1, <1>3 DEF PushChan, ChanStates
<1>4. CASE Push(c) = "sent"
  <2>1. chan[c].len + 1 \in 0 .. SubCap
    BY <1>1, <1>4 DEF Push
  <2>2. PushChan(c) = [chan EXCEPT ![c].len = @ + 1]
    BY Zenon, <1>4 DEF PushChan
  <2> QED BY Zenon, <1>1, <2>1, <2>2 DEF ChanStates
<1> QED BY Zenon, <1>2, <1>3, <1>4 DEF Push

(* A notification changes a channel and perhaps asks for an unsubscription. *)
LEMMA ReceiveNotificationStep ==
  ASSUME IInv, NEW s \in SubscriptionIds, ReceiveNotification(s)
  PROVE  IInv'
<1>1. UNCHANGED <<call, manager, wire, served, readTask, readUnchanged>>
  BY Zenon DEF ReceiveNotification
<1>2. PICK c : /\ c = as_subscription_mut(manager, manager.subscriptions[s]) /\ c # None
               /\ chan' = PushChan(c)
               /\ flush' = IF Push(c) = "sent" THEN flush ELSE flush \cup {SubscriptionClosed(s)}
  BY Zenon DEF ReceiveNotification
<1>3. manager.subscriptions[s] \in RequestIds
  BY Zenon DEF ReceiveNotification, IInv, TypeOK, Managers
<1>4. c \in Senders
  BY Zenon, <1>2, <1>3 DEF as_subscription_mut, IInv, TypeOK, Managers, Kinds
<1>5. chan' \in ChanStates
  BY Zenon, <1>2, <1>4, PushChanType DEF IInv
<1>6. call' \in CallStates /\ SettledKept /\ OperationsSettled' /\ ResponsesReachTheirCaller'
  BY Zenon, <1>1, CallUnchanged DEF IInv
<1>7. SubscriptionClosed(s) \in FrontToBack /\ MessageSettled(SubscriptionClosed(s))
  BY Zenon DEF SubscriptionClosed, FrontToBack, MessageSettled
<1>8. flush' \subseteq FrontToBack /\ \A msg \in flush' : MessageSettled(msg)'
  BY Zenon, <1>2, <1>6, <1>7, FlushUnchanged, FlushAdd DEF IInv
<1>9. /\ manager' \in Managers /\ Consistent(manager)' /\ EntriesOwned'
      /\ wire' \subseteq Wire /\ AnswersAreExpected' /\ WireSettled'
  BY Zenon, <1>1, <1>6, ManagerFrame DEF IInv, TypeOK
<1>10. ReadGoal
  BY Zenon, <1>1, <1>5, <1>6, <1>8, <1>9 DEF ReadGoal, IInv, TypeOK
<1> QED BY Zenon, <1>1, <1>10, ReadStep

\* The server ends the subscription s of the request id.
Removing(id, s) ==
  manager.subscriptions[s] = id /\ manager' = remove_subscription(manager, id, s).m

(* The server ends a subscription: no request on the wire uses its id.     *)
LEMMA RemoveSubscriptionKeeps ==
  ASSUME Managed, SettledKept, NEW id \in RequestIds, NEW s \in SubscriptionIds,
         Removing(id, s), UNCHANGED wire
  PROVE  /\ manager' \in Managers /\ Consistent(manager)' /\ EntriesOwned'
         /\ AnswersAreExpected' /\ WireSettled'
<1>1. TypeOK /\ Consistent(manager) /\ EntriesOwned /\ AnswersAreExpected /\ WireSettled
  BY Zenon DEF Managed
<1>2. manager' \in Managers /\ Consistent(manager')
  BY Zenon, <1>1, RemoveSubscriptionConsistent DEF TypeOK, Removing
<1>3. manager.requests[id].st = "Subscription" /\ manager.subscriptions[s] # None
  BY Zenon, <1>1, NoneIsNoId DEF Consistent, TablesAgree, request_status, Removing
<1>4. manager' = [manager EXCEPT !.requests[id] = Vacant, !.subscriptions[s] = None]
  BY Zenon, <1>3 DEF remove_subscription, Ok, Removing
<1>5. /\ \A i \in RequestIds :
           manager'.requests[i] = IF i = id THEN Vacant ELSE manager.requests[i]
      /\ manager'.batches = manager.batches /\ manager'.handlers = manager.handlers
  BY Zenon, <1>1, <1>4 DEF TypeOK, Managers
<1>6. EntriesOwned'
  <2>1. Vacant.st = "Vacant"
    BY Zenon DEF Vacant, Kind
  <2>2. \A i \in RequestIds :
          manager'.requests[i].st # "Vacant" => manager'.requests[i] = manager.requests[i]
    BY Zenon, <1>5, <2>1
  <2>3. SubscriptionsHaveSinks(manager) /\ EntriesOwned
    BY Zenon, <1>1 DEF Consistent
  <2> QED BY <1>5, <2>2, <2>3 DEF EntriesOwned, SettledKept, SubscriptionsHaveSinks, HoldsUnsubId,
             request_status
<1>7. \A v \in wire' : v \in Wire /\ v \in wire /\ (v.kind # "batch" => v.id # id)
  BY Zenon, <1>1, <1>3, WireOccupies DEF TypeOK
<1>8. \A v \in wire' : Expected(v)'
  BY Zenon, <1>1, <1>5, <1>7, ExpectedKept DEF AnswersAreExpected, Wire
<1>9. AnswersAreExpected'
  BY Zenon, <1>1, <1>7, <1>8 DEF AnswersAreExpected
<1>10. \A i \in RequestIds : Unclaimed(manager, i) => Unclaimed(manager, i)'
  BY <1>5 DEF Unclaimed, HoldsUnsubId, request_status, Vacant, Kind
<1>11. WireSettled'
  BY Zenon, <1>1, <1>7, <1>10 DEF WireSettled, Wire
<1>12. Consistent(manager)'
  BY Zenon, <1>2
<1> QED BY Zenon, <1>2, <1>6, <1>9, <1>11, <1>12

(* The close notification of a subscription.                               *)
LEMMA ReceiveCloseStep ==
  ASSUME IInv, NEW s \in SubscriptionIds, ReceiveClose(s)
  PROVE  IInv'
<1>1. UNCHANGED <<call, chan, flush, wire, readTask, readUnchanged>>
  BY Zenon DEF ReceiveClose
<1>2. served' \in ServedStates
  BY Zenon DEF ReceiveClose, IInv, TypeOK, ServedStates
<1>3. call' \in CallStates /\ SettledKept /\ OperationsSettled' /\ ResponsesReachTheirCaller'
  BY Zenon, <1>1, CallUnchanged DEF IInv
<1>4. flush' \subseteq FrontToBack /\ \A msg \in flush' : MessageSettled(msg)'
  BY Zenon, <1>1, <1>3, FlushUnchanged DEF IInv
<1>5. /\ manager' \in Managers /\ Consistent(manager)' /\ EntriesOwned'
      /\ AnswersAreExpected' /\ WireSettled'
  <2>1. CASE manager.subscriptions[s] = None
    <3>1. UNCHANGED manager
      BY Zenon, <2>1 DEF ReceiveClose
    <3> QED BY Zenon, <1>1, <1>3, <3>1, ManagerFrame DEF IInv, TypeOK
  <2>2. CASE manager.subscriptions[s] # None
    <3>1. PICK id \in RequestIds : id = manager.subscriptions[s]
      BY Zenon, <2>2 DEF IInv, TypeOK, Managers
    <3>2. Removing(id, s)
      BY Zenon, <2>2, <3>1 DEF ReceiveClose, Removing
    <3> QED BY Zenon, <1>1, <1>3, <3>1, <3>2, RemoveSubscriptionKeeps DEF IInv, Managed
  <2> QED BY Zenon, <2>1, <2>2
<1>6. ReadGoal
  BY Zenon, <1>1, <1>2, <1>3, <1>4, <1>5 DEF ReadGoal, IInv, TypeOK
<1> QED BY Zenon, <1>1, <1>6, ReadStep

(* A notification for a registered method.                                 *)
LEMMA ReceiveMethodNotificationStep ==
  ASSUME IInv, NEW n \in Methods, ReceiveMethodNotification(n)
  PROVE  IInv'
<1>1. UNCHANGED <<call, flush, wire, served, readTask, readUnchanged>>
  BY Zenon DEF ReceiveMethodNotification
<1>2. PICK c : /\ c = manager.handlers[n] /\ c # None /\ chan' = PushChan(c)
               /\ manager' = IF Push(c) = "sent" THEN manager
                             ELSE remove_notification_handler(manager, n)
  BY Zenon DEF ReceiveMethodNotification, as_notification_handler_mut
<1>3. c \in Senders
  BY Zenon, <1>2 DEF IInv, TypeOK, Managers
<1>4. chan' \in ChanStates
  BY Zenon, <1>2, <1>3, PushChanType DEF IInv
<1>5. call' \in CallStates /\ SettledKept /\ OperationsSettled' /\ ResponsesReachTheirCaller'
  BY Zenon, <1>1, CallUnchanged DEF IInv
<1>6. flush' \subseteq FrontToBack /\ \A msg \in flush' : MessageSettled(msg)'
  BY Zenon, <1>1, <1>5, FlushUnchanged DEF IInv
<1>7. /\ manager' \in Managers /\ Consistent(manager)' /\ EntriesOwned'
      /\ AnswersAreExpected' /\ WireSettled'
  <2>1. CASE Push(c) = "sent"
    BY Zenon, <1>1, <1>2, <1>5, <2>1, ManagerFrame DEF IInv, TypeOK
  <2>2. CASE Push(c) # "sent"
    <3>1. manager' = [manager EXCEPT !.handlers[n] = None]
      BY Zenon, <1>2, <2>2 DEF remove_notification_handler
    <3> QED BY Zenon, <1>1, <1>5, <3>1, HandlersKeep DEF IInv, Managed
  <2> QED BY Zenon, <2>1, <2>2
<1>8. ReadGoal
  BY Zenon, <1>1, <1>4, <1>5, <1>6, <1>7 DEF ReadGoal, IInv, TypeOK
<1> QED BY Zenon, <1>1, <1>8, ReadStep

-----------------------------------------------------------------------------
(* The theorems *)

(* A new client satisfies the inductive invariant.                         *)
LEMMA InitInv == Init => IInv
<1> SUFFICES ASSUME Init PROVE IInv
  BY Zenon
<1> USE DEF Init
<1>1. manager \in Managers /\ Consistent(manager)
  BY Zenon, EmptyConsistent
<1>2. TypeOK
  <2>1. nextId \in RequestIds
    BY ManagerAssumption DEF RequestIds
  <2>2. call \in CallStates
    BY Zenon DEF CallStates, Phases
  <2>3. chan \in ChanStates
    BY ClientAssumption DEF ChanStates
  <2>4. served \in ServedStates
    BY Zenon DEF ServedStates
  <2>5. toBack \in Seq(FrontToBack) /\ Len(toBack) <= QueueCap
    BY ClientAssumption
  <2>6. flush \subseteq FrontToBack /\ wire \subseteq Wire
    BY Zenon
  <2> QED BY Zenon, <1>1, <2>1, <2>2, <2>3, <2>4, <2>5, <2>6 DEF TypeOK, TaskStates
<1>3. OperationsSettled /\ ResponsesReachTheirCaller
  BY Zenon DEF OperationsSettled, ResponsesReachTheirCaller
<1>4. MessagesSettled /\ AnswersAreExpected /\ WireSettled
  BY DEF MessagesSettled, AnswersAreExpected, WireSettled
<1>5. EntriesOwned
  BY Zenon DEF EntriesOwned, EmptyManager, HoldsUnsubId, request_status, Vacant, Kind
<1> QED BY Zenon, <1>1, <1>2, <1>3, <1>4, <1>5 DEF IInv

(* Every step of an operation, of the tasks and of the environment keeps   *)
(* the inductive invariant.                                                *)
LEMMA NextInv == IInv /\ [Next]_vars => IInv'
<1> SUFFICES ASSUME IInv, [Next]_vars PROVE IInv'
  BY Zenon
<1>1. CASE UNCHANGED vars
  <2>1. UNCHANGED <<nextId, call, chan, toBack, flush, manager, wire, served, sendTask, readTask,
                    closeCh, shutdown, reason, alive>>
    BY Zenon, <1>1 DEF vars, frontVars, taskVars
  <2>2. call' \in CallStates /\ SettledKept /\ OperationsSettled' /\ ResponsesReachTheirCaller'
    BY Zenon, <2>1, CallUnchanged DEF IInv
  <2>3. MessagesSettled'
    BY Zenon, <2>1, <2>2, QueueUnchanged DEF IInv
  <2>4. Consistent(manager)' /\ EntriesOwned' /\ AnswersAreExpected' /\ WireSettled'
    BY Zenon, <2>1, <2>2, ManagerFrame DEF IInv
  <2>5. TypeOK'
    BY Zenon, <2>1 DEF IInv, TypeOK
  <2> QED BY Zenon, <2>2, <2>3, <2>4, <2>5 DEF IInv
<1>2. ASSUME NEW c \in Senders, Frontend(c) PROVE IInv'
  BY Zenon, <1>2, StartStep, AllocateUnsubIdStep, EnqueueStep, CloseReceiverStep, ObserveStep,
     PollNextStep, CloseMessageStep DEF Frontend
<1>3. CASE SendTask
  BY Zenon, <1>3, HandleFrontendStep, TaskStep DEF SendTask
<1>4. CASE ReadTask
  BY Zenon, <1>4, ReceiveResponseStep, ReceiveBatchResponseStep, ReceiveNotificationStep,
     ReceiveCloseStep, ReceiveMethodNotificationStep, FlushUnsubscribeStep, TaskStep
     DEF ReadTask
<1>5. CASE DropClient \/ ShutdownOnResult \/ ShutdownOnDrop
  BY Zenon, <1>5, TaskStep
<1> QED BY Zenon, <1>1, <1>2, <1>3, <1>4, <1>5 DEF Next

(* The inductive invariant holds throughout: of the operations, the queued *)
(* messages, the manager's entries and the requests on the wire.           *)
THEOREM Invariance == Spec => []IInv
<1>1. IInv /\ [Next]_vars => IInv'
  BY Zenon, NextInv
<1>2. Init => IInv
  BY InitInv
<1> QED BY <1>1, <1>2, PTL DEF Spec

(* Type correctness, including that neither the channel to the background  *)
(* task nor a subscription's channel exceeds its capacity.                 *)
THEOREM TypeCorrect == Spec => []TypeOK
<1>1. IInv => TypeOK
  BY DEF IInv
<1> QED BY <1>1, Invariance, PTL

(* The subscription table and the request table never disagree, so the     *)
(* expect of process_subscription_close_response cannot panic.             *)
THEOREM TablesAlwaysAgree == Spec => []SubscriptionTablesAgree
<1>1. IInv => SubscriptionTablesAgree
  BY DEF IInv, Consistent, SubscriptionTablesAgree
<1> QED BY <1>1, Invariance, PTL

(* insert_pending_subscription's reservation holds as long as the          *)
(* subscription lives, for every size of the id space.                     *)
THEOREM UnsubscribeIdsStayReserved == Spec => []UnsubscribeIdsReserved
<1>1. IInv => UnsubscribeIdsReserved
  BY DEF IInv, Consistent, UnsubscribeIdsReserved
<1> QED BY <1>1, Invariance, PTL

(* No answer of a correct server ends the connection as NotPendingRequest. *)
THEOREM NoAnswerIsRefused == Spec => []AnswersAreExpected
<1>1. IInv => AnswersAreExpected
  BY DEF IInv
<1> QED BY <1>1, Invariance, PTL

(* No operation ever gets the answer of another one, for any number of     *)
(* concurrent operations and however soon request ids are reused.          *)
THEOREM NoAnswerIsMisrouted == Spec => []ResponsesReachTheirCaller
<1>1. IInv => ResponsesReachTheirCaller
  BY DEF IInv
<1> QED BY <1>1, Invariance, PTL

-----------------------------------------------------------------------------
(* Streams: what a step must keep so that a held stream ends for a reason. *)

\* Only messages of M have joined the queues of the tasks.
QueuesGain(M) ==
  /\ flush' \subseteq flush \cup M
  /\ \E k \in {0, 1} : \A i \in 1 .. Len(toBack') :
       \/ i + k \in 1 .. Len(toBack) /\ toBack'[i] = toBack[i + k]
       \/ toBack'[i] \in M

\* The server forgets no subscription.
ServedGrows ==
  \A s \in SubscriptionIds :
    served[s].st # "unused" =>
      /\ served'[s].c = served[s].c /\ served'[s].st # "unused"
      /\ served[s].st = "ended" => served'[s].st = "ended"

\* A subscription id is entered when the server has opened it, and is only
\* lost for a reason.
SubscriptionsKept ==
  \A s \in SubscriptionIds :
    /\ manager'.subscriptions[s] # None =>
         \/ manager'.subscriptions[s] = manager.subscriptions[s] /\ SinkOf(s)' = SinkOf(s)
         \/ served'[s].c = SinkOf(s)' /\ served'[s].st # "unused"
    /\ manager.subscriptions[s] # None /\ manager'.subscriptions[s] = None =>
         served'[s].st = "ended" \/ Lagging(s)'

StillHolds(c) ==
  /\ Holds(c) /\ call'[c].sid = call[c].sid
  /\ chan[c].rx => chan'[c].rx
  /\ chan[c].lagged => chan'[c].lagged

IsHanded(c) ==
  \E s \in SubscriptionIds :
    /\ call'[c].sid = s /\ manager'.subscriptions[s] # None /\ chan'[c].rx
    /\ served[s].st = "unused" /\ served'[s] = [c |-> c, st |-> "open"]

\* A Subscription is handed out for a fresh id, and the channels of those who
\* hold one stay.
HoldersKept ==
  \A c \in Senders : Holds(c)' => StillHolds(c) \/ IsHanded(c)

\* The subscribe of c is neither in to_back nor pending.
NotInQueue(c) ==
  \A i \in 1 .. Len(toBack) : ~(toBack[i].t = "Subscribe" /\ toBack[i].c = c)
NotAsked(c) == NotInQueue(c) /\ \A id \in RequestIds : ~Asking(id, c)

AsksKept ==
  /\ \A id \in RequestIds : \A c \in Senders :
       Asking(id, c)' =>
         Asking(id, c) \/ (call'[c].phase \in Unanswered /\ call'[c].id = id /\ NotInQueue(c)')
  /\ \A c \in Senders :
       CallKind[c] = "subscribe" =>
         \/ call[c].phase \in Unanswered => call'[c].phase \in Unanswered /\ call'[c].id = call[c].id
         \/ NotAsked(c)'

(* What the tasks and the operations do to the queues.                     *)
LEMMA QueueSteps ==
  ASSUME TypeOK, NEW M, flush' \subseteq flush \cup M,
         \/ toBack' = toBack \/ toBack' = <<>>
         \/ toBack # <<>> /\ toBack' = Tail(toBack)
         \/ \E msg \in M : toBack' = Append(toBack, msg)
  PROVE  QueuesGain(M)
<1>1. Len(toBack) \in Nat /\ toBack \in Seq(FrontToBack)
  BY DEF TypeOK
<1>2. CASE toBack' = toBack
  <2>1. \A i \in 1 .. Len(toBack') : i + 0 \in 1 .. Len(toBack) /\ toBack'[i] = toBack[i + 0]
    BY <1>1, <1>2
  <2> QED BY Zenon, <2>1 DEF QueuesGain
<1>3. CASE toBack' = <<>>
  <2>1. Len(toBack') = 0
    BY Zenon, <1>3
  <2> QED BY <2>1 DEF QueuesGain
<1>4. CASE toBack # <<>> /\ toBack' = Tail(toBack)
  <2>1. \A i \in 1 .. Len(toBack') : i + 1 \in 1 .. Len(toBack) /\ toBack'[i] = toBack[i + 1]
    BY <1>1, <1>4
  <2> QED BY Zenon, <2>1 DEF QueuesGain
<1>5. ASSUME NEW msg \in M, toBack' = Append(toBack, msg) PROVE QueuesGain(M)
  <2>1. \A i \in 1 .. Len(toBack') : \/ i + 0 \in 1 .. Len(toBack) /\ toBack'[i] = toBack[i + 0]
                                     \/ toBack'[i] = msg
    BY <1>1, <1>5
  <2> QED BY Zenon, <2>1, <1>5 DEF QueuesGain
<1> QED BY Zenon, <1>2, <1>3, <1>4, <1>5

(* A message in a queue was there before or has just joined it.            *)
LEMMA ClosingKept ==
  ASSUME NEW M, QueuesGain(M), NEW s \in SubscriptionIds, Closing(s)'
  PROVE  Closing(s) \/ SubscriptionClosed(s) \in M
<1>1. SubscriptionClosed(s)' = SubscriptionClosed(s)
  BY Zenon DEF SubscriptionClosed
<1>2. CASE SubscriptionClosed(s) \in flush'
  BY Zenon, <1>2 DEF QueuesGain, Closing
<1>3. ASSUME NEW i \in 1 .. Len(toBack'), toBack'[i] = SubscriptionClosed(s)
      PROVE  Closing(s) \/ SubscriptionClosed(s) \in M
  BY Zenon, <1>3 DEF QueuesGain, Closing
<1> QED BY Zenon, <1>1, <1>2, <1>3 DEF Closing

(* A step that gives nobody a stream keeps the reasons of the others.      *)
LEMMA StreamsKept ==
  ASSUME IInv, StreamInv, NEW M, QueuesGain(M),
         \A s \in SubscriptionIds :
           SubscriptionClosed(s) \in M => Closing(s) \/ (served[s].st # "unused" /\ Lagging(s)'),
         ServedGrows, SubscriptionsKept, HoldersKept
  PROVE  SinksServed' /\ HoldersServed' /\ ClosesJustified'
<1>1. SinksServed'
  BY Zenon DEF SinksServed, StreamInv, ServedGrows, SubscriptionsKept
<1>2. \A c \in Senders : Holds(c) => call[c].sid \in SubscriptionIds
  BY Zenon DEF Holds, IInv, OperationsSettled
<1>3. HoldersServed'
  <2> SUFFICES ASSUME NEW c \in Senders, Holds(c)'
               PROVE  /\ served'[call'[c].sid].c = c /\ served'[call'[c].sid].st # "unused"
                      /\ chan'[c].rx
                      /\ \/ manager'.subscriptions[call'[c].sid] # None
                         \/ chan'[c].lagged
                         \/ served'[call'[c].sid].st = "ended"
    BY Zenon DEF HoldersServed
  <2>1. CASE IsHanded(c)
    BY <2>1 DEF IsHanded
  <2>2. CASE StillHolds(c)
    <3>1. PICK s \in SubscriptionIds : s = call[c].sid /\ s = call'[c].sid
      BY Zenon, <1>2, <2>2 DEF StillHolds
    <3>2. /\ served[s].c = c /\ served[s].st # "unused" /\ chan[c].rx
          /\ manager.subscriptions[s] # None \/ chan[c].lagged \/ served[s].st = "ended"
      BY Zenon, <2>2, <3>1 DEF StreamInv, HoldersServed, StillHolds
    <3>3. Lagging(s)' => chan'[c].lagged
      BY Zenon, <3>1 DEF Lagging
    <3> QED BY <2>2, <3>1, <3>2, <3>3 DEF ServedGrows, SubscriptionsKept, StillHolds
  <2> QED BY Zenon, <2>1, <2>2 DEF HoldersKept
<1>4. ClosesJustified'
  <2> SUFFICES ASSUME NEW s \in SubscriptionIds, Closing(s)'
               PROVE  served'[s].st # "unused" /\ Lagging(s)'
    BY Zenon DEF ClosesJustified
  <2>1. Closing(s) \/ (served[s].st # "unused" /\ Lagging(s)')
    BY Zenon, ClosingKept
  <2>2. CASE Closing(s)
    <3>1. served[s].st # "unused" /\ Lagging(s)
      BY Zenon, <2>2 DEF StreamInv, ClosesJustified
    <3>2. Lagging(s)'
      BY Zenon, <3>1 DEF Lagging, HoldersKept, StillHolds, IsHanded
    <3> QED BY Zenon, <3>1, <3>2 DEF ServedGrows
  <2> QED BY Zenon, <2>1, <2>2 DEF ServedGrows
<1> QED BY Zenon, <1>1, <1>3, <1>4

(* Who asks is a subscribe.                                                *)
LEMMA AskersSubscribe ==
  ASSUME IInv
  PROVE  /\ \A id \in RequestIds : \A c \in Senders : Asking(id, c) => CallKind[c] = "subscribe"
         /\ \A i \in 1 .. Len(toBack) :
              toBack[i].t = "Subscribe" =>
                /\ toBack[i].c \in Senders /\ CallKind[toBack[i].c] = "subscribe"
                /\ toBack[i] = Msg("Subscribe", toBack[i].c)
<1>1. \A i \in 1 .. Len(toBack) : toBack[i] \in FrontToBack /\ MessageSettled(toBack[i])
  BY DEF IInv, TypeOK, MessagesSettled
<1>2. \A msg \in FrontToBack :
        msg.t = "Subscribe" => msg.c \in Senders /\ msg = Msg("Subscribe", msg.c)
  BY DEF FrontToBack, Msg
<1>3. \A id \in RequestIds : \A c \in Senders : Asking(id, c) => CallKind[c] = "subscribe"
  BY Zenon DEF IInv, EntriesOwned, Asking, HoldsUnsubId
<1> QED BY Zenon, <1>1, <1>2, <1>3 DEF MessageSettled

(* A step that asks nothing keeps every subscribe at one place.            *)
LEMMA SubscribesKept ==
  ASSUME IInv, StreamInv, NEW M, QueuesGain(M), \A msg \in M : msg.t # "Subscribe", AsksKept
  PROVE  SubscribesOnce'
<1> USE DEF StreamInv
<1>1. PICK k \in {0, 1} : \A i \in 1 .. Len(toBack') :
        \/ i + k \in 1 .. Len(toBack) /\ toBack'[i] = toBack[i + k]
        \/ toBack'[i] \in M
  BY Zenon DEF QueuesGain
<1>2. ASSUME NEW i \in 1 .. Len(toBack'), toBack'[i].t = "Subscribe"
      PROVE  i + k \in 1 .. Len(toBack) /\ toBack'[i] = toBack[i + k]
  BY Zenon, <1>1, <1>2
<1>3. ASSUME NEW i \in 1 .. Len(toBack'), toBack'[i].t = "Subscribe"
      PROVE  /\ call'[toBack'[i].c].phase \in Unanswered
             /\ \A id \in RequestIds : ~Asking(id, toBack[i].c)'
  <2>1. PICK j \in 1 .. Len(toBack) : toBack'[i] = toBack[j] /\ toBack[j].t = "Subscribe"
    BY Zenon, <1>2, <1>3
  <2>2. PICK c \in Senders : c = toBack[j].c /\ CallKind[c] = "subscribe"
    BY Zenon, <2>1, AskersSubscribe
  <2>3. ~NotInQueue(c)'
    BY Zenon, <1>3, <2>1, <2>2 DEF NotInQueue
  <2>4. call[c].phase \in Unanswered /\ \A id \in RequestIds : ~Asking(id, c)
    BY Zenon, <2>1, <2>2 DEF SubscribesOnce
  <2>5. call'[c].phase \in Unanswered
    BY Zenon, <2>2, <2>3, <2>4 DEF AsksKept, NotAsked
  <2>6. \A id \in RequestIds : ~Asking(id, c)'
    BY Zenon, <2>3, <2>4 DEF AsksKept
  <2>7. toBack'[i].c = c
    BY Zenon, <2>1, <2>2
  <2> QED BY Zenon, <2>5, <2>6, <2>7 DEF Asking
<1>4. ASSUME NEW i \in 1 .. Len(toBack'), NEW j \in 1 .. Len(toBack'),
             toBack'[i].t = "Subscribe", toBack'[i] = toBack'[j]
      PROVE  i = j
  <2>1. /\ i + k \in 1 .. Len(toBack) /\ toBack'[i] = toBack[i + k]
        /\ j + k \in 1 .. Len(toBack) /\ toBack'[j] = toBack[j + k]
    BY Zenon, <1>2, <1>4
  <2>2. i + k = j + k
    BY Zenon, <1>4, <2>1 DEF SubscribesOnce
  <2> QED BY <2>2
<1>5. ASSUME NEW id \in RequestIds, NEW c \in Senders, Asking(id, c)'
      PROVE  call'[c].phase \in Unanswered /\ call'[c].id = id
  <2>1. CASE Asking(id, c)
    <3>1. CallKind[c] = "subscribe" /\ call[c].phase \in Unanswered /\ call[c].id = id
      BY Zenon, <2>1, AskersSubscribe DEF SubscribesOnce
    <3>2. ~NotAsked(c)'
      BY Zenon, <1>5 DEF NotAsked
    <3> QED BY Zenon, <3>1, <3>2 DEF AsksKept
  <2> QED BY Zenon, <1>5, <2>1 DEF AsksKept
<1>6. \A msg \in flush' : msg.t # "Subscribe"
  BY Zenon DEF QueuesGain, SubscribesOnce
<1> QED BY Zenon, <1>3, <1>4, <1>5, <1>6 DEF SubscribesOnce

(* A step of one operation, or of the tasks, that leaves the manager and   *)
(* the server alone.                                                       *)
LEMMA OperationKeeps ==
  ASSUME IInv, StreamInv, NEW M, QueuesGain(M), UNCHANGED <<manager, served>>,
         \A s \in SubscriptionIds :
           SubscriptionClosed(s) \in M => Closing(s) \/ (served[s].st # "unused" /\ Lagging(s)'),
         HoldersKept
  PROVE  /\ SinksServed' /\ HoldersServed' /\ ClosesJustified'
         /\ \A id \in RequestIds : \A c \in Senders : Asking(id, c)' => Asking(id, c)
<1>1. ServedGrows
  BY Zenon DEF ServedGrows
<1>2. SubscriptionsKept
  BY Zenon DEF SubscriptionsKept, SinkOf
<1>3. \A id \in RequestIds : \A c \in Senders : Asking(id, c)' => Asking(id, c)
  BY Zenon DEF Asking, request_status
<1> QED BY Zenon, <1>1, <1>2, <1>3, StreamsKept

(* The steps of an operation that send nothing to the background.          *)
LEMMA QuietOperation ==
  ASSUME IInv, StreamInv, NEW c \in Senders,
         \/ Start(c) \/ AllocateUnsubId(c) \/ Abandon(c) \/ Observe(c) \/ ReadError(c)
         \/ PollNext(c) \/ StreamEnds(c) \/ Unsubscribe(c) \/ AbandonUnsubscribe(c)
  PROVE  StreamInv'
<1>1. UNCHANGED <<toBack, flush, manager, served>>
  BY Zenon DEF Start, AllocateUnsubId, Abandon, Observe, ReadError, PollNext, StreamEnds, Unsubscribe,
         AbandonUnsubscribe
<1>2. \A x \in Senders \ {c} : call'[x] = call[x] /\ chan'[x] = chan[x]
  BY Zenon DEF Start, AllocateUnsubId, Abandon, Observe, ReadError, PollNext, StreamEnds, Unsubscribe,
         AbandonUnsubscribe, IInv, TypeOK, CallStates, ChanStates
<1>3. /\ Holds(c)' => /\ Holds(c) /\ call'[c].sid = call[c].sid
                      /\ chan'[c].rx = chan[c].rx /\ chan'[c].lagged = chan[c].lagged
      /\ call[c].phase \in Unanswered => call'[c].phase \in Unanswered /\ call'[c].id = call[c].id
  <2>1. CASE Start(c)
    <3>1. call'[c].phase \in {"sending", "allocating", "err"} /\ call[c].phase = "idle"
      <4>1. CASE CallKind[c] = "register"
        BY Zenon, <2>1, <4>1 DEF Start, IInv, TypeOK, CallStates
      <4>2. CASE CallKind[c] = "subscribe"
        BY Zenon, <2>1, <4>2 DEF Start, IInv, TypeOK, CallStates
      <4>3. CASE CallKind[c] \notin {"register", "subscribe"}
        BY <2>1, <4>3 DEF Start, IInv, TypeOK, CallStates
      <4> QED BY Zenon, <4>1, <4>2, <4>3
    <3> QED BY Zenon, <3>1 DEF Holds, Unanswered
  <2>2. CASE AllocateUnsubId(c)
    BY Zenon, <2>2 DEF AllocateUnsubId, IInv, TypeOK, CallStates, Holds, Unanswered
  <2>3. CASE Abandon(c) \/ StreamEnds(c) \/ AbandonUnsubscribe(c)
    BY <2>3 DEF Abandon, StreamEnds, AbandonUnsubscribe, IInv, TypeOK, CallStates, Holds, Unanswered
  <2>4. CASE Observe(c)
    BY <2>4 DEF Observe, IInv, TypeOK, CallStates, Holds, Unanswered
  <2>5. CASE ReadError(c) \/ Unsubscribe(c)
    BY <2>5 DEF ReadError, Unsubscribe, IInv, TypeOK, CallStates, Holds, Unanswered
  <2>6. CASE PollNext(c)
    BY Zenon, <2>6 DEF PollNext, IInv, TypeOK, ChanStates, Holds, Unanswered
  <2> QED BY Zenon, <2>1, <2>2, <2>3, <2>4, <2>5, <2>6
<1>4. QueuesGain({})
  BY Zenon, <1>1, QueueSteps DEF IInv
<1>5. HoldersKept
  BY Zenon, <1>2, <1>3 DEF HoldersKept, StillHolds, Holds
<1>6. /\ SinksServed' /\ HoldersServed' /\ ClosesJustified'
      /\ \A id \in RequestIds : \A x \in Senders : Asking(id, x)' => Asking(id, x)
  BY Zenon, <1>1, <1>4, <1>5, OperationKeeps
<1>7. AsksKept
  BY Zenon, <1>2, <1>3, <1>6 DEF AsksKept
<1>8. SubscribesOnce'
  BY Zenon, <1>4, <1>7, SubscribesKept
<1> QED BY Zenon, <1>6, <1>8 DEF StreamInv

(* An operation hands its message to the background: a subscribe is asked  *)
(* for the first time.                                                     *)
LEMMA EnqueueAsks ==
  ASSUME IInv, StreamInv, NEW c \in Senders, Enqueue(c) PROVE StreamInv'
<1> DEFINE msg == MessageOf(c)
<1>1. UNCHANGED <<chan, flush, manager, served>> /\ call[c].phase = "sending"
  BY Zenon DEF Enqueue
<1>2. PICK p \in {"disconnected", "ok", "waiting"} : call' = [call EXCEPT ![c].phase = p]
  BY Zenon DEF Enqueue
<1>3. \A x \in Senders : /\ call'[x].phase = IF x = c THEN p ELSE call[x].phase
                         /\ call'[x].id = call[x].id /\ call'[x].sid = call[x].sid
                         /\ call'[x].got = call[x].got
  BY Zenon, <1>2 DEF IInv, TypeOK, CallStates
<1>4. HoldersKept
  BY Zenon, <1>1, <1>3 DEF HoldersKept, StillHolds, Holds
<1>5. msg.t \in {"Request", "Batch", "Notification", "Subscribe", "Register"} /\ msg.c = c
  BY Zenon, ClientAssumption DEF MessageOf, Msg
<1>6. QueuesGain({msg})
  BY Zenon, <1>1, QueueSteps DEF Enqueue, IInv
<1>7. /\ SinksServed' /\ HoldersServed' /\ ClosesJustified'
      /\ \A id \in RequestIds : \A x \in Senders : Asking(id, x)' => Asking(id, x)
  BY <1>1, <1>4, <1>5, <1>6, OperationKeeps DEF SubscriptionClosed
<1>8. NotAsked(c)
  BY Zenon, <1>1 DEF NotAsked, NotInQueue, StreamInv, SubscribesOnce, Unanswered
<1>9. AsksKept
  BY Zenon, <1>1, <1>3, <1>7 DEF AsksKept, Unanswered
<1>10. CASE toBack' = toBack \/ msg.t # "Subscribe"
  <2>1. \E M : QueuesGain(M) /\ \A m \in M : m.t # "Subscribe"
    <3>1. CASE toBack' = toBack
      <4>1. QueuesGain({})
        BY Zenon, <1>1, <3>1, QueueSteps DEF IInv
      <4> QED BY <4>1
    <3>2. CASE msg.t # "Subscribe"
      BY <1>6, <3>2
    <3> QED BY Zenon, <1>10, <3>1, <3>2
  <2>2. SubscribesOnce'
    BY Zenon, <1>9, <2>1, SubscribesKept
  <2> QED BY Zenon, <1>7, <2>2 DEF StreamInv
<1>11. CASE msg.t = "Subscribe" /\ toBack' # toBack
  <2> HIDE DEF msg
  <2>1. toBack' = Append(toBack, msg) /\ p = "waiting"
    <3>1. CallKind[c] = "subscribe"
      BY Zenon, <1>11, ClientAssumption DEF msg, MessageOf, Msg
    <3>2. toBack' = Append(toBack, msg) /\ call'[c].phase = "waiting"
      BY <1>11, <3>1 DEF Enqueue, IInv, TypeOK, CallStates, msg
    <3> QED BY Zenon, <1>3, <3>2
  <2>2. /\ toBack \in Seq(FrontToBack) /\ Len(toBack) \in Nat /\ Len(toBack') = Len(toBack) + 1
        /\ \A i \in 1 .. Len(toBack) : toBack'[i] = toBack[i]
        /\ toBack'[Len(toBack) + 1] = msg
    BY <2>1 DEF IInv, TypeOK
  <2>3. \A i \in 1 .. Len(toBack') : i \in 1 .. Len(toBack) \/ i = Len(toBack) + 1
    BY <2>2
  <2>4. ASSUME NEW i \in 1 .. Len(toBack), toBack[i].t = "Subscribe"
        PROVE  /\ toBack[i].c \in Senders \ {c} /\ call'[toBack[i].c].phase \in Unanswered
               /\ toBack[i] # msg
    <3>1. toBack[i].c \in Senders /\ call[toBack[i].c].phase \in Unanswered
      BY Zenon, <2>4, AskersSubscribe DEF StreamInv, SubscribesOnce
    <3>2. toBack[i].c # c
      BY Zenon, <1>8, <2>4 DEF NotAsked, NotInQueue
    <3> QED BY Zenon, <1>3, <1>5, <3>1, <3>2
  <2>5. \A i \in 1 .. Len(toBack') :
          toBack'[i].t = "Subscribe" =>
            /\ call'[toBack'[i].c].phase \in Unanswered
            /\ \A id \in RequestIds : ~Asking(id, toBack[i].c)'
    <3> SUFFICES ASSUME NEW i \in 1 .. Len(toBack'), toBack'[i].t = "Subscribe"
                 PROVE  \E x \in Senders : /\ x = toBack'[i].c /\ call'[x].phase \in Unanswered
                                           /\ \A id \in RequestIds : ~Asking(id, x)
      BY Zenon, <1>7 DEF Asking
    <3>1. CASE i \in 1 .. Len(toBack)
      BY Zenon, <2>2, <2>4, <3>1 DEF StreamInv, SubscribesOnce
    <3>2. CASE i = Len(toBack) + 1
      BY Zenon, <1>3, <1>5, <1>8, <2>1, <2>2, <3>2 DEF NotAsked, Unanswered
    <3> QED BY Zenon, <2>3, <3>1, <3>2
  <2>6. \A i, j \in 1 .. Len(toBack') :
          toBack'[i].t = "Subscribe" /\ toBack'[i] = toBack'[j] => i = j
    BY <2>2, <2>3, <2>4 DEF StreamInv, SubscribesOnce
  <2>7. \A id \in RequestIds : \A x \in Senders :
          Asking(id, x)' => call'[x].phase \in Unanswered /\ call'[x].id = id
    BY <1>3, <1>7, <1>8 DEF StreamInv, SubscribesOnce, NotAsked
  <2>8. SubscribesOnce'
    BY Zenon, <1>1, <2>5, <2>6, <2>7 DEF StreamInv, SubscribesOnce
  <2> QED BY Zenon, <1>7, <2>8 DEF StreamInv
<1> QED BY Zenon, <1>10, <1>11

(* The close message of a Subscription: its stream is given up.            *)
LEMMA CloseMessageIsJustified ==
  ASSUME IInv, StreamInv, NEW c \in Senders, DropSubscription(c) \/ UnsubscribeEnqueue(c)
  PROVE  StreamInv'
<1>1. UNCHANGED <<flush, manager, served>> /\ call[c].phase \in {"active", "unsubscribing"}
  BY Zenon DEF DropSubscription, UnsubscribeEnqueue
<1>2. PICK p \in {"closed", "draining"} : call' = [call EXCEPT ![c].phase = p]
  BY Zenon DEF DropSubscription, UnsubscribeEnqueue
<1>3. \A x \in Senders : /\ call'[x].phase = IF x = c THEN p ELSE call[x].phase
                         /\ call'[x].id = call[x].id /\ call'[x].sid = call[x].sid
                         /\ call'[x].got = call[x].got
                         /\ x # c => chan'[x] = chan[x]
  BY <1>2 DEF IInv, TypeOK, CallStates, ChanStates, DropSubscription, UnsubscribeEnqueue
<1>4. ~Holds(c)'
  BY Zenon, <1>3 DEF Holds
<1>5. HoldersKept
  BY Zenon, <1>3, <1>4 DEF HoldersKept, StillHolds, Holds
<1>6. QueuesGain({CloseMessage(c)})
  BY Zenon, <1>1, QueueSteps DEF DropSubscription, UnsubscribeEnqueue, IInv
<1>7. CloseMessage(c).t # "Subscribe"
  BY Zenon DEF CloseMessage, Msg, SubscriptionClosed
<1>8. ASSUME NEW s \in SubscriptionIds, SubscriptionClosed(s) \in {CloseMessage(c)}
      PROVE  served[s].st # "unused" /\ Lagging(s)'
  <2>1. CallKind[c] = "subscribe" /\ call[c].sid = s
    <3>1. CallKind[c] \in {"subscribe", "register"}
      BY Zenon, <1>1 DEF IInv, OperationsSettled
    <3>2. CallKind[c] # "register"
      BY Zenon, <1>8 DEF CloseMessage, Msg, SubscriptionClosed
    <3> QED BY Zenon, <1>8, <3>1, <3>2 DEF CloseMessage, SubscriptionClosed
  <2>2. Holds(c)
    BY Zenon, <1>1, <2>1 DEF Holds
  <2>3. served[s].c = c /\ served[s].st # "unused"
    BY Zenon, <2>1, <2>2 DEF StreamInv, HoldersServed
  <2>4. \A x \in Senders : Holds(x)' => Holds(x) /\ x # c /\ call'[x].sid = call[x].sid
    BY Zenon, <1>3, <1>4 DEF Holds
  <2>5. \A x \in Senders : ~(Holds(x)' /\ call'[x].sid = s)
    BY <2>3, <2>4 DEF StreamInv, HoldersServed
  <2> QED BY Zenon, <2>3, <2>5 DEF Lagging
<1>9. /\ SinksServed' /\ HoldersServed' /\ ClosesJustified'
      /\ \A id \in RequestIds : \A x \in Senders : Asking(id, x)' => Asking(id, x)
  BY Zenon, <1>1, <1>5, <1>6, <1>8, OperationKeeps
<1>10. AsksKept
  BY Zenon, <1>1, <1>3, <1>9 DEF AsksKept, Unanswered
<1>11. SubscribesOnce'
  BY Zenon, <1>6, <1>7, <1>10, SubscribesKept
<1> QED BY Zenon, <1>9, <1>11 DEF StreamInv

(* The tasks stop and drop their queues, or the read task hands a pending  *)
(* unsubscription over.                                                    *)
LEMMA TasksKeepStreams ==
  ASSUME IInv, StreamInv,
         \/ DropClient \/ PingFails \/ SendTaskStops \/ SendTaskReports
         \/ ReadFails \/ ReadTaskStops \/ ReadTaskReports
         \/ ShutdownOnResult \/ ShutdownOnDrop
         \/ \E msg \in flush : FlushUnsubscribe(msg)
         \/ UNCHANGED vars
  PROVE  StreamInv'
<1>1. UNCHANGED <<call, chan, manager, served>>
  BY Zenon DEF DropClient, PingFails, SendTaskStops, SendTaskReports, ReadFails, ReadTaskStops,
         ReadTaskReports, ShutdownOnResult, ShutdownOnDrop, FlushUnsubscribe, frontVars,
         readUnchanged, vars
<1>2. /\ flush' \subseteq flush
      /\ \/ toBack' = toBack \/ toBack' = <<>>
         \/ \E msg \in flush : toBack' = Append(toBack, msg)
  BY Zenon DEF DropClient, PingFails, SendTaskStops, SendTaskReports, ReadFails, ReadTaskStops,
         ReadTaskReports, ShutdownOnResult, ShutdownOnDrop, FlushUnsubscribe, readUnchanged, vars
<1>3. QueuesGain(flush)
  BY Zenon, <1>2, QueueSteps DEF IInv
<1>4. HoldersKept
  BY Zenon, <1>1 DEF HoldersKept, StillHolds, Holds
<1>5. /\ SinksServed' /\ HoldersServed' /\ ClosesJustified'
      /\ \A id \in RequestIds : \A c \in Senders : Asking(id, c)' => Asking(id, c)
  BY Zenon, <1>1, <1>3, <1>4, OperationKeeps DEF Closing
<1>6. AsksKept
  BY Zenon, <1>1, <1>5 DEF AsksKept
<1>7. SubscribesOnce'
  BY Zenon, <1>3, <1>6, SubscribesKept DEF StreamInv, SubscribesOnce
<1> QED BY Zenon, <1>5, <1>7 DEF StreamInv

\* The subscriptions of the manager are left alone.
SinksQuiet ==
  /\ manager'.subscriptions = manager.subscriptions
  /\ \A id \in RequestIds :
       request_status(manager, id) = "Subscription" => manager'.requests[id] = manager.requests[id]

RequestsQuiet ==
  /\ SinksQuiet
  /\ \A id \in RequestIds : \A c \in Senders : Asking(id, c)' => Asking(id, c)

(* Then no subscription id is lost.                                        *)
LEMMA QuietKeepsSubscriptions ==
  ASSUME IInv, SinksQuiet PROVE SubscriptionsKept
<1>1. ASSUME NEW s \in SubscriptionIds, manager.subscriptions[s] # None
      PROVE  SinkOf(s)' = SinkOf(s)
  <2>1. PICK id \in RequestIds : id = manager.subscriptions[s]
    BY Zenon, <1>1 DEF IInv, TypeOK, Managers
  <2>2. request_status(manager, id) = "Subscription"
    BY Zenon, <1>1, <2>1 DEF IInv, Consistent, TablesAgree
  <2> QED BY Zenon, <2>1, <2>2 DEF SinksQuiet, SinkOf
<1> QED BY Zenon, <1>1 DEF SubscriptionsKept, SinksQuiet

(* A step for other operations than a subscribe.                           *)
LEMMA OthersKeepStreams ==
  ASSUME IInv, StreamInv, RequestsQuiet, ServedGrows, QueuesGain({}),
         \A c \in Senders : CallKind[c] = "subscribe" => call'[c] = call[c] /\ chan'[c] = chan[c]
  PROVE  StreamInv'
<1>1. HoldersKept
  BY Zenon DEF HoldersKept, StillHolds, Holds
<1>2. SubscriptionsKept
  BY Zenon, QuietKeepsSubscriptions DEF RequestsQuiet
<1>3. SinksServed' /\ HoldersServed' /\ ClosesJustified'
  BY Zenon, <1>1, <1>2, StreamsKept
<1>4. AsksKept
  BY Zenon DEF AsksKept, RequestsQuiet
<1>5. SubscribesOnce'
  BY Zenon, <1>4, SubscribesKept
<1> QED BY Zenon, <1>3, <1>5 DEF StreamInv

(* insert_pending_call, and the tables of batches and handlers.            *)
LEMMA InsertCallIsQuiet ==
  ASSUME TypeOK, NEW id \in RequestIds, NEW tx \in Senders \cup {None},
         manager' = insert_pending_call(manager, id, tx).m
  PROVE  RequestsQuiet
<1>1. CASE manager.requests[id] = Vacant
  <2>1. manager' = [manager EXCEPT !.requests[id] = PendingMethodCall(tx)]
    BY Zenon, <1>1 DEF insert_pending_call, Ok
  <2>2. /\ \A i \in RequestIds :
             manager'.requests[i] = IF i = id THEN PendingMethodCall(tx) ELSE manager.requests[i]
        /\ manager'.subscriptions = manager.subscriptions
    BY Zenon, <2>1 DEF TypeOK, Managers
  <2> QED BY <1>1, <2>2 DEF RequestsQuiet, SinksQuiet, Asking, request_status, Vacant, PendingMethodCall, Kind
<1>2. CASE manager.requests[id] # Vacant
  BY Zenon, <1>2 DEF insert_pending_call, Err, RequestsQuiet, SinksQuiet, Asking, request_status
<1> QED BY Zenon, <1>1, <1>2

LEMMA SameRequestsAreQuiet ==
  ASSUME manager'.requests = manager.requests, manager'.subscriptions = manager.subscriptions
  PROVE  RequestsQuiet
BY Zenon DEF RequestsQuiet, SinksQuiet, Asking, request_status

(* What the send task does for other operations than a subscribe.          *)
LEMMA SendKeepsStreams ==
  ASSUME IInv, StreamInv,
         \/ SendRequest \/ SendRequestUnsub \/ SendBatch \/ SendNotification
         \/ RegisterNotification \/ UnregisterNotification
  PROVE  StreamInv'
<1>1. UNCHANGED <<flush, served>> /\ \E t : Receive(t)
  BY Zenon DEF SendRequest, SendRequestUnsub, SendBatch, SendNotification, RegisterNotification,
         UnregisterNotification, sendUnchanged
<1>2. QueuesGain({}) /\ ServedGrows
  BY Zenon, <1>1, QueueSteps DEF IInv, Receive, ServedGrows
<1>3. ASSUME NEW c \in Senders, CallKind[c] # "subscribe", NEW got \in {"ok", "err"},
             call' = Deliver(c, got, c), chan' = chan \/ chan' = OpenChan(c)
      PROVE  \A x \in Senders : CallKind[x] = "subscribe" => call'[x] = call[x] /\ chan'[x] = chan[x]
  <2>1. \A x \in Senders \ {c} : call'[x] = call[x]
    BY <1>3, DeliverFacts DEF IInv, TypeOK
  <2>2. \A x \in Senders \ {c} : chan'[x] = chan[x]
    BY Zenon, <1>3 DEF IInv, TypeOK, OpenChan, ChanStates
  <2> QED BY Zenon, <1>3, <2>1, <2>2
<1>4. CASE SendRequest
  <2>1. PICK c \in Senders : c = Head(toBack).c /\ CallKind[c] = "call" /\ Settled(c)
    BY <1>4, HeadFacts DEF SendRequest, FrontToBack, MessageSettled, IInv
  <2>2. call[c].id \in RequestIds /\ manager' = insert_pending_call(manager, call[c].id, c).m
    BY Zenon, <1>4, <2>1 DEF SendRequest, Settled
  <2>3. chan' = chan /\ (call' = call \/ call' = Deliver(c, "err", c))
    BY Zenon, <1>4, <2>1 DEF SendRequest
  <2>4. RequestsQuiet
    BY Zenon, <2>2, InsertCallIsQuiet DEF IInv
  <2> QED BY Zenon, <1>2, <1>3, <2>1, <2>3, <2>4, OthersKeepStreams
<1>5. CASE SendRequestUnsub
  <2>1. PICK c \in Senders : c = Head(toBack).c /\ CallKind[c] = "subscribe" /\ Settled(c)
    BY Zenon, <1>5, HeadFacts DEF SendRequestUnsub, FrontToBack, MessageSettled, IInv
  <2>2. call[c].unsub \in RequestIds /\ manager' = insert_pending_call(manager, call[c].unsub, None).m
    BY Zenon, <1>5, <2>1 DEF SendRequestUnsub, Settled
  <2>3. RequestsQuiet
    BY Zenon, <2>2, InsertCallIsQuiet DEF IInv
  <2> QED BY Zenon, <1>2, <1>5, <2>3, OthersKeepStreams DEF SendRequestUnsub
<1>6. CASE SendBatch
  <2>1. PICK c \in Senders : c = Head(toBack).c /\ CallKind[c] = "batch"
    BY <1>6, HeadFacts DEF SendBatch, FrontToBack, MessageSettled, IInv
  <2>2. manager' = insert_pending_batch(manager, BatchRange(c), c).m
    BY Zenon, <1>6, <2>1 DEF SendBatch
  <2>3. chan' = chan /\ (call' = call \/ call' = Deliver(c, "err", c))
    BY Zenon, <1>6, <2>1 DEF SendBatch
  <2>4. manager'.requests = manager.requests /\ manager'.subscriptions = manager.subscriptions
    BY Zenon, <2>2 DEF insert_pending_batch, Ok, Err, IInv, TypeOK, Managers
  <2> QED BY Zenon, <1>2, <1>3, <2>1, <2>3, <2>4, SameRequestsAreQuiet, OthersKeepStreams
<1>7. CASE SendNotification
  BY Zenon, <1>2, <1>7, SameRequestsAreQuiet, OthersKeepStreams DEF SendNotification
<1>8. CASE RegisterNotification
  <2>1. PICK c \in Senders : c = Head(toBack).c /\ CallKind[c] = "register"
    BY <1>8, HeadFacts DEF RegisterNotification, FrontToBack, MessageSettled, IInv
  <2>2. manager' = insert_notification_handler(manager, MethodOf[c], c).m
    BY Zenon, <1>8, <2>1 DEF RegisterNotification
  <2>3. /\ chan' = chan \/ chan' = OpenChan(c)
        /\ \E got \in {"ok", "err"} : call' = Deliver(c, got, c)
    BY Zenon, <1>8, <2>1 DEF RegisterNotification
  <2>4. manager'.requests = manager.requests /\ manager'.subscriptions = manager.subscriptions
    BY Zenon, <2>2 DEF insert_notification_handler, Ok, Err, IInv, TypeOK, Managers
  <2> QED BY Zenon, <1>2, <1>3, <2>1, <2>3, <2>4, SameRequestsAreQuiet, OthersKeepStreams
<1>9. CASE UnregisterNotification
  <2>1. manager'.requests = manager.requests /\ manager'.subscriptions = manager.subscriptions
    BY Zenon, <1>9 DEF UnregisterNotification, remove_notification_handler, IInv, TypeOK, Managers
  <2> QED BY Zenon, <1>2, <1>9, <2>1, SameRequestsAreQuiet, OthersKeepStreams DEF UnregisterNotification
<1> QED BY Zenon, <1>4, <1>5, <1>6, <1>7, <1>8, <1>9

(* The send task enters a subscribe, or refuses it: it leaves to_back.     *)
LEMMA SendSubscribeAsks ==
  ASSUME IInv, StreamInv, SendSubscribe PROVE StreamInv'
<1>1. PICK c \in Senders : c = Head(toBack).c /\ CallKind[c] = "subscribe" /\ Settled(c)
  BY Zenon, HeadFacts DEF SendSubscribe, FrontToBack, MessageSettled, IInv
<1>2. PICK id \in RequestIds, unsub \in RequestIds : id = call[c].id /\ unsub = call[c].unsub
  BY Zenon, <1>1 DEF Settled
<1>3. /\ toBack \in Seq(FrontToBack) /\ Len(toBack) \in Nat \ {0} /\ toBack' = Tail(toBack)
      /\ toBack[1].t = "Subscribe" /\ toBack[1].c = c
      /\ UNCHANGED <<chan, flush, served>>
  BY <1>1 DEF SendSubscribe, Receive, IInv, TypeOK, sendUnchanged
<1>4. call[c].phase \in Unanswered /\ \A i \in RequestIds : ~Asking(i, c)
  BY <1>3 DEF StreamInv, SubscribesOnce
<1>5. NotInQueue(c)'
  <2>1. \A i \in 1 .. Len(toBack') : i + 1 \in 1 .. Len(toBack) /\ toBack'[i] = toBack[i + 1]
    BY <1>3
  <2>2. \A j \in 1 .. Len(toBack) : toBack[j].t = "Subscribe" /\ toBack[j].c = c => j = 1
    BY <1>3, AskersSubscribe DEF StreamInv, SubscribesOnce
  <2>3. \A i \in 1 .. Len(toBack') : i + 1 # 1
    BY <1>3
  <2> QED BY Zenon, <2>1, <2>2, <2>3 DEF NotInQueue
<1>6. QueuesGain({}) /\ ServedGrows
  BY <1>3, QueueSteps DEF IInv, ServedGrows
<1> DEFINE vacant == manager.requests[id] = Vacant /\ manager.requests[unsub] = Vacant /\ id # unsub
<1>7. CASE vacant
  <2>1. /\ manager' = [manager EXCEPT !.requests[id] = PendingSubscription(unsub, c),
                                      !.requests[unsub] = PendingMethodCall(None)]
        /\ UNCHANGED call
    BY Zenon, <1>1, <1>2, <1>7 DEF SendSubscribe, insert_pending_subscription, Ok
  <2>2. /\ \A i \in RequestIds :
             manager'.requests[i] = IF i = unsub THEN PendingMethodCall(None)
                                    ELSE IF i = id THEN PendingSubscription(unsub, c)
                                    ELSE manager.requests[i]
        /\ manager'.subscriptions = manager.subscriptions
    BY Zenon, <1>7, <2>1 DEF IInv, TypeOK, Managers
  <2>3. SinksQuiet
    BY <1>7, <2>2 DEF SinksQuiet, request_status, Vacant, Kind
  <2>4. \A i \in RequestIds : \A x \in Senders : Asking(i, x)' => Asking(i, x) \/ (i = id /\ x = c)
    BY <2>2 DEF Asking, request_status, PendingMethodCall, PendingSubscription, Kind
  <2>5. AsksKept
    BY Zenon, <1>2, <1>4, <1>5, <2>1, <2>4 DEF AsksKept
  <2>6. HoldersKept
    BY Zenon, <1>3, <2>1 DEF HoldersKept, StillHolds, Holds
  <2>7. SinksServed' /\ HoldersServed' /\ ClosesJustified'
    BY Zenon, <1>6, <2>3, <2>6, QuietKeepsSubscriptions, StreamsKept
  <2>8. SubscribesOnce'
    BY Zenon, <1>6, <2>5, SubscribesKept
  <2> QED BY Zenon, <2>7, <2>8 DEF StreamInv
<1>8. CASE ~vacant
  <2>1. UNCHANGED manager /\ call' = Deliver(c, "err", c)
    BY Zenon, <1>1, <1>2, <1>8 DEF SendSubscribe, insert_pending_subscription, Err
  <2>2. \A x \in Senders : /\ call'[x].id = call[x].id /\ call'[x].sid = call[x].sid
                           /\ call'[x] = call[x] \/ (x = c /\ call'[x].phase = "ready" /\ call'[x].got = "err")
    BY <2>1, DeliverFacts DEF IInv, TypeOK
  <2>3. HoldersKept
    BY Zenon, <1>3, <2>2 DEF HoldersKept, StillHolds, Holds
  <2>4. /\ SinksServed' /\ HoldersServed' /\ ClosesJustified'
        /\ \A i \in RequestIds : \A x \in Senders : Asking(i, x)' => Asking(i, x)
    BY Zenon, <1>3, <1>6, <2>1, <2>3, OperationKeeps
  <2>5. NotAsked(c)'
    BY Zenon, <1>4, <1>5, <2>4 DEF NotAsked
  <2>6. AsksKept
    BY Zenon, <2>2, <2>4, <2>5 DEF AsksKept
  <2>7. SubscribesOnce'
    BY Zenon, <1>6, <2>6, SubscribesKept
  <2> QED BY Zenon, <2>4, <2>7 DEF StreamInv
<1> QED BY Zenon, <1>7, <1>8

(* A subscription leaves the tables: of the others nothing changes.        *)
LEMMA OneSubscriptionLeaves ==
  ASSUME IInv, NEW s \in SubscriptionIds, NEW id \in RequestIds, manager.subscriptions[s] = id,
         NEW k, k = Vacant \/ k = PendingMethodCall(None),
         manager' = [manager EXCEPT !.requests[id] = k, !.subscriptions[s] = None],
         served'[s].st = "ended" \/ Lagging(s)'
  PROVE  /\ SubscriptionsKept
         /\ \A i \in RequestIds : \A c \in Senders : Asking(i, c)' => Asking(i, c)
<1>1. /\ \A i \in RequestIds : manager'.requests[i] = IF i = id THEN k ELSE manager.requests[i]
      /\ \A t \in SubscriptionIds :
           manager'.subscriptions[t] = IF t = s THEN None ELSE manager.subscriptions[t]
  BY Zenon DEF IInv, TypeOK, Managers
<1>2. ASSUME NEW t \in SubscriptionIds, manager'.subscriptions[t] # None
      PROVE  manager'.subscriptions[t] = manager.subscriptions[t] /\ SinkOf(t)' = SinkOf(t)
  <2>1. t # s /\ manager'.subscriptions[t] = manager.subscriptions[t]
    BY Zenon, <1>1, <1>2
  <2>2. manager.subscriptions[t] \in RequestIds /\ manager.subscriptions[t] # id
    BY Zenon, <1>2, <2>1 DEF IInv, TypeOK, Managers, Consistent, TablesAgree
  <2> QED BY Zenon, <1>1, <2>1, <2>2 DEF SinkOf
<1>3. SubscriptionsKept
  BY Zenon, <1>1, <1>2 DEF SubscriptionsKept
<1>4. k.st # "PendingSubscription"
  BY DEF Vacant, PendingMethodCall, Kind
<1> QED BY Zenon, <1>1, <1>3, <1>4 DEF Asking, request_status

(* The send task leaves a subscription it was asked to leave.              *)
LEMMA SendClosedIsJustified ==
  ASSUME IInv, StreamInv, SendSubscriptionClosed PROVE StreamInv'
<1>1. PICK s \in SubscriptionIds : s = Head(toBack).sid /\ Head(toBack) = SubscriptionClosed(s)
  BY HeadFacts DEF SendSubscriptionClosed, FrontToBack, SubscriptionClosed, IInv
<1>2. UNCHANGED <<call, chan, flush, served>> /\ Receive("SubscriptionClosed")
  BY Zenon DEF SendSubscriptionClosed, sendUnchanged
<1>3. QueuesGain({}) /\ ServedGrows
  BY Zenon, <1>2, QueueSteps DEF IInv, Receive, ServedGrows
<1>4. Closing(s)
  <2>1. 1 \in 1 .. Len(toBack) /\ toBack[1] = SubscriptionClosed(s)
    BY <1>1, <1>2 DEF Receive, IInv, TypeOK
  <2> QED BY Zenon, <2>1 DEF Closing
<1>5. Lagging(s)'
  BY Zenon, <1>2, <1>4 DEF StreamInv, ClosesJustified, Lagging, Holds
<1>6. HoldersKept
  BY Zenon, <1>2 DEF HoldersKept, StillHolds, Holds
<1>7. /\ SubscriptionsKept
      /\ \A i \in RequestIds : \A c \in Senders : Asking(i, c)' => Asking(i, c)
  <2>1. CASE manager.subscriptions[s] = None
    <3>1. UNCHANGED manager
      BY Zenon, <1>1, <2>1 DEF SendSubscriptionClosed, get_request_id_by_subscription_id
    <3> QED BY Zenon, <3>1 DEF SubscriptionsKept, SinkOf, Asking, request_status
  <2>2. CASE manager.subscriptions[s] # None
    <3>1. PICK id \in RequestIds : id = manager.subscriptions[s]
      BY Zenon, <2>2 DEF IInv, TypeOK, Managers
    <3>2. manager.requests[id].st = "Subscription"
      BY Zenon, <2>2, <3>1 DEF IInv, Consistent, TablesAgree, request_status
    <3>3. manager' = [manager EXCEPT !.requests[id] = PendingMethodCall(None),
                                     !.subscriptions[s] = None]
      BY Zenon, <1>1, <2>2, <3>1, <3>2
         DEF SendSubscriptionClosed, get_request_id_by_subscription_id, unsubscribe, Ok
    <3> QED BY Zenon, <1>5, <3>1, <3>3, OneSubscriptionLeaves
  <2> QED BY Zenon, <2>1, <2>2
<1>8. SinksServed' /\ HoldersServed' /\ ClosesJustified'
  BY Zenon, <1>3, <1>6, <1>7, StreamsKept
<1>9. AsksKept
  BY Zenon, <1>2, <1>7 DEF AsksKept
<1>10. SubscribesOnce'
  BY Zenon, <1>3, <1>9, SubscribesKept
<1> QED BY Zenon, <1>8, <1>10 DEF StreamInv

(* The server ends a subscription.                                         *)
LEMMA CloseKeepsStreams ==
  ASSUME IInv, StreamInv, NEW s \in SubscriptionIds, ReceiveClose(s) PROVE StreamInv'
<1>1. UNCHANGED <<call, chan, flush, toBack>>
  BY Zenon DEF ReceiveClose, readUnchanged
<1>2. \A t \in SubscriptionIds : /\ served'[t].c = served[t].c
                                 /\ served'[t].st = IF t = s THEN "ended" ELSE served[t].st
  BY Zenon DEF ReceiveClose, IInv, TypeOK, ServedStates
<1>3. QueuesGain({}) /\ ServedGrows
  BY Zenon, <1>1, <1>2, QueueSteps DEF IInv, ServedGrows
<1>4. HoldersKept
  BY Zenon, <1>1 DEF HoldersKept, StillHolds, Holds
<1>5. /\ SubscriptionsKept
      /\ \A i \in RequestIds : \A c \in Senders : Asking(i, c)' => Asking(i, c)
  <2>1. CASE manager.subscriptions[s] = None
    <3>1. UNCHANGED manager
      BY Zenon, <2>1 DEF ReceiveClose
    <3> QED BY Zenon, <3>1 DEF SubscriptionsKept, SinkOf, Asking, request_status
  <2>2. CASE manager.subscriptions[s] # None
    <3>1. PICK id \in RequestIds : id = manager.subscriptions[s]
      BY Zenon, <2>2 DEF IInv, TypeOK, Managers
    <3>2. manager.requests[id].st = "Subscription"
      BY Zenon, <2>2, <3>1 DEF IInv, Consistent, TablesAgree, request_status
    <3>3. manager' = [manager EXCEPT !.requests[id] = Vacant, !.subscriptions[s] = None]
      BY Zenon, <2>2, <3>1, <3>2 DEF ReceiveClose, remove_subscription, Ok
    <3> QED BY Zenon, <1>2, <3>1, <3>3, OneSubscriptionLeaves
  <2> QED BY Zenon, <2>1, <2>2
<1>6. SinksServed' /\ HoldersServed' /\ ClosesJustified'
  BY Zenon, <1>3, <1>4, <1>5, StreamsKept
<1>7. AsksKept
  BY Zenon, <1>1, <1>5 DEF AsksKept
<1>8. SubscribesOnce'
  BY Zenon, <1>3, <1>7, SubscribesKept
<1> QED BY Zenon, <1>6, <1>8 DEF StreamInv

(* What entering a subscription does to the table of subscriptions,        *)
LEMMA EnteredInTable ==
  ASSUME NEW m \in Managers, NEW id \in RequestIds, NEW sid \in SubscriptionIds,
         m.requests[id].st = "PendingSubscription", NEW n, Entering(m, id, sid, n)
  PROVE  /\ m.subscriptions[sid] = None
         /\ \A t \in SubscriptionIds :
              n.subscriptions[t] = IF t = sid THEN id ELSE m.subscriptions[t]
<1> DEFINE m1 == complete_pending_subscription(m, id).m
           res == insert_subscription(m1, id, m.requests[id].unsub, sid, m.requests[id].tx)
<1>1. m1 = [m EXCEPT !.requests[id] = Vacant]
  BY Zenon DEF complete_pending_subscription, Ok
<1>2. m1.subscriptions = m.subscriptions /\ m1 \in Managers
  BY <1>1, KindTypes DEF Managers
<1>3. res.ok /\ n = res.m
  BY Zenon DEF Entering
<1> HIDE DEF m1
<1>4. m1.subscriptions[sid] = None
  BY Zenon, <1>3 DEF insert_subscription, Ok, Err
<1>5. n = [m1 EXCEPT !.requests[id] = Subscription(m.requests[id].unsub, m.requests[id].tx),
                     !.subscriptions[sid] = id]
  BY Zenon, <1>3 DEF insert_subscription, Ok, Err
<1> QED BY Zenon, <1>2, <1>4, <1>5 DEF Managers

(* and what entering and leaving one does.                                 *)
LEMMA LeftInTable ==
  ASSUME NEW m \in Managers, Consistent(m), NEW id \in RequestIds, NEW sid \in SubscriptionIds,
         m.requests[id].st = "PendingSubscription", NEW u, Leaving(m, id, sid, u)
  PROVE  u.subscriptions = m.subscriptions
<1>1. PICK n : Entering(m, id, sid, n) /\ u = unsubscribe(n, id, sid).m
  BY Zenon DEF Leaving
<1>2. n \in Managers /\ Consistent(n) /\ n.subscriptions[sid] = id
  BY <1>1, SubscriptionEntered
<1>3. /\ m.subscriptions[sid] = None
      /\ \A t \in SubscriptionIds : t # sid => n.subscriptions[t] = m.subscriptions[t]
  BY <1>1, EnteredInTable
<1>4. n.requests[id].st = "Subscription" /\ n.subscriptions[sid] # None
  BY Zenon, <1>2, NoneIsNoId DEF Consistent, TablesAgree, request_status
<1>5. u = [n EXCEPT !.requests[id] = PendingMethodCall(None), !.subscriptions[sid] = None]
  BY Zenon, <1>1, <1>4 DEF unsubscribe, Ok
<1>6. u.subscriptions = [n.subscriptions EXCEPT ![sid] = None]
  BY Zenon, <1>2, <1>5 DEF Managers
<1>7. /\ m.subscriptions \in [SubscriptionIds -> RequestIds \cup {None}]
      /\ n.subscriptions \in [SubscriptionIds -> RequestIds \cup {None}]
  BY Zenon, <1>2 DEF Managers
<1>8. \A t \in SubscriptionIds : u.subscriptions[t] = m.subscriptions[t]
  BY <1>3, <1>6, <1>7
<1> QED BY Zenon, <1>6, <1>7, <1>8

(* The server's answer never forgets a subscription.                       *)
LEMMA ServeGrows ==
  ASSUME IInv, NEW w \in wire, NEW reply \in Replies(w), served' = Serve(w, reply)
  PROVE  ServedGrows
<1>1. served \in ServedStates /\ reply \in SubscriptionIds \cup {None}
  BY Zenon DEF IInv, TypeOK, Replies
<1>2. w.kind = "unsubscribe" => w.sid \in SubscriptionIds
  BY Zenon DEF IInv, TypeOK, Wire, WireSettled
<1>3. CASE w.kind = "subscribe" /\ reply # None /\ served[reply].st = "unused"
  <2>1. \A s \in SubscriptionIds : s # reply => served'[s] = served[s]
    BY Zenon, <1>1, <1>3 DEF Serve, ServedStates
  <2> QED BY Zenon, <1>3, <2>1 DEF ServedGrows
<1>4. CASE w.kind = "unsubscribe"
  <2>1. \A s \in SubscriptionIds : /\ served'[s].c = served[s].c
                                   /\ served'[s].st = IF s = w.sid THEN "ended" ELSE served[s].st
    BY Zenon, <1>1, <1>2, <1>4 DEF Serve, ServedStates
  <2> QED BY Zenon, <2>1 DEF ServedGrows
<1>5. CASE w.kind # "unsubscribe" /\ ~(w.kind = "subscribe" /\ reply # None /\ served[reply].st = "unused")
  BY Zenon, <1>5 DEF Serve, ServedGrows
<1> QED BY Zenon, <1>3, <1>4, <1>5

\* The answer w to a subscribe has replaced its entry by k.
Answering(w, k) ==
  /\ Asking(w.id, w.c) /\ k.st # "PendingSubscription"
  /\ \A i \in RequestIds : manager'.requests[i] = IF i = w.id THEN k ELSE manager.requests[i]
  /\ UNCHANGED toBack

(* The answered subscribe is asked nowhere else.                           *)
LEMMA AnsweredOnce ==
  ASSUME IInv, StreamInv, NEW w, w.id \in RequestIds, w.c \in Senders, NEW k, Answering(w, k),
         \A x \in Senders : x # w.c => call'[x] = call[x]
  PROVE  /\ call[w.c].phase \in Unanswered /\ ~Holds(w.c) /\ CallKind[w.c] = "subscribe"
         /\ NotAsked(w.c)' /\ AsksKept
<1>1. call[w.c].phase \in Unanswered /\ CallKind[w.c] = "subscribe"
  BY Zenon, AskersSubscribe DEF Answering, StreamInv, SubscribesOnce
<1>2. \A i \in RequestIds : \A x \in Senders : Asking(i, x)' => Asking(i, x) /\ i # w.id
  BY Zenon DEF Answering, Asking, request_status
<1>3. \A i \in RequestIds : Asking(i, w.c) => i = w.id
  BY DEF Answering, StreamInv, SubscribesOnce
<1>4. NotInQueue(w.c)
  BY Zenon DEF NotInQueue, Answering, StreamInv, SubscribesOnce
<1>5. NotAsked(w.c)'
  BY Zenon, <1>2, <1>3, <1>4 DEF NotAsked, NotInQueue, Answering
<1>6. AsksKept
  BY Zenon, <1>2, <1>5 DEF AsksKept
<1> QED BY Zenon, <1>1, <1>5, <1>6 DEF Holds, Unanswered

(* The answer to a method call.                                            *)
LEMMA RespondToCallKeepsStreams ==
  ASSUME IInv, StreamInv, NEW w \in wire, w.kind # "batch",
         request_status(manager, w.id) = "PendingMethodCall", RespondToCall(w),
         ServedGrows, UNCHANGED toBack
  PROVE  StreamInv'
<1> DEFINE tx == manager.requests[w.id].tx
<1>1. w.id \in RequestIds /\ w.c \in Senders /\ tx \in {None, w.c}
  BY Zenon, AnsweredEntry DEF IInv, Managed
<1>2. manager' = [manager EXCEPT !.requests[w.id] = Vacant]
  BY Zenon DEF RespondToCall, complete_pending_call, request_status, Ok
<1>3. /\ \A i \in RequestIds :
           manager'.requests[i] = IF i = w.id THEN Vacant ELSE manager.requests[i]
      /\ manager'.subscriptions = manager.subscriptions
  BY Zenon, <1>1, <1>2 DEF IInv, TypeOK, Managers
<1>4. RequestsQuiet
  BY <1>3 DEF RequestsQuiet, SinksQuiet, Asking, request_status, Vacant, Kind
<1>5. QueuesGain({})
  BY Zenon, QueueSteps DEF IInv, RespondToCall
<1>6. \A c \in Senders : CallKind[c] = "subscribe" => call'[c] = call[c] /\ chan'[c] = chan[c]
  <2>1. CASE tx = None
    BY Zenon, <2>1 DEF RespondToCall
  <2>2. CASE tx # None
    <3>1. tx = w.c /\ call' = Deliver(w.c, "ok", w.c) /\ UNCHANGED chan
      BY Zenon, <1>1, <2>2 DEF RespondToCall
    <3>2. CallKind[w.c] = "call"
      BY Zenon, <1>1, <2>2, <3>1 DEF IInv, EntriesOwned, request_status
    <3>3. \A x \in Senders \ {w.c} : call'[x] = call[x]
      BY <1>1, <3>1, DeliverFacts DEF IInv, TypeOK
    <3> QED BY Zenon, <3>1, <3>2, <3>3
  <2> QED BY Zenon, <2>1, <2>2
<1> QED BY Zenon, <1>4, <1>5, <1>6, OthersKeepStreams

(* An answer that gives the subscribe nothing: an error, or a subscription *)
(* whose caller is gone.                                                   *)
LEMMA UntakenKeepsStreams ==
  ASSUME IInv, StreamInv, NEW w, w.id \in RequestIds, w.c \in Senders, NEW k, Answering(w, k),
         manager'.subscriptions = manager.subscriptions, ServedGrows,
         NEW M, QueuesGain(M), \A msg \in M : msg.t \notin {"Subscribe", "SubscriptionClosed"},
         \A x \in Senders : x # w.c => call'[x] = call[x] /\ chan'[x] = chan[x],
         ~Holds(w.c)'
  PROVE  StreamInv'
<1>1. AsksKept
  BY Zenon, AnsweredOnce
<1>2. SinksQuiet
  BY Zenon DEF SinksQuiet, Answering, Asking, request_status
<1>3. HoldersKept
  BY Zenon DEF HoldersKept, StillHolds, Holds
<1>4. \A s \in SubscriptionIds : SubscriptionClosed(s) \notin M
  BY Zenon DEF SubscriptionClosed
<1>5. SinksServed' /\ HoldersServed' /\ ClosesJustified'
  BY Zenon, <1>2, <1>3, <1>4, QuietKeepsSubscriptions, StreamsKept
<1>6. SubscribesOnce'
  BY Zenon, <1>1, SubscribesKept
<1> QED BY Zenon, <1>5, <1>6 DEF StreamInv

(* A subscription its caller takes: the sink, the stream and the server's  *)
(* record are of one operation.                                            *)
LEMMA TakenKeepsStreams ==
  ASSUME IInv, StreamInv, NEW w, w.id \in RequestIds, w.c \in Senders, w.kind = "subscribe",
         NEW s \in SubscriptionIds, s \in Replies(w), Asking(w.id, w.c),
         NEW n, Entering(manager, w.id, s, n), manager' = n, served' = Serve(w, s), ServedGrows,
         call[w.c].phase = "waiting", chan' = OpenChan(w.c), UNCHANGED <<flush, toBack>>,
         call' = [Deliver(w.c, "ok", w.c) EXCEPT ![w.c].sid = s]
  PROVE  StreamInv'
<1>1. /\ manager \in Managers /\ Consistent(manager)
      /\ manager.requests[w.id].st = "PendingSubscription" /\ manager.requests[w.id].tx = w.c
  BY Zenon DEF IInv, TypeOK, Asking, request_status
<1> DEFINE k == Subscription(manager.requests[w.id].unsub, w.c)
<1>2. k.st = "Subscription" /\ k.tx = w.c
  BY Zenon DEF Subscription, Kind
<1>3. \A i \in RequestIds : manager'.requests[i] = IF i = w.id THEN k ELSE manager.requests[i]
  BY <1>1, SubscriptionEntered
<1> HIDE DEF k
<1>4. /\ manager.subscriptions[s] = None
      /\ \A t \in SubscriptionIds :
           manager'.subscriptions[t] = IF t = s THEN w.id ELSE manager.subscriptions[t]
  BY <1>1, EnteredInTable
<1>5. s # None
  BY Zenon, ManagerAssumption, ClientAssumption
<1>6. served[s].st = "unused" /\ served'[s] = [c |-> w.c, st |-> "open"]
  <2>1. served[s].st = "unused"
    BY Zenon, <1>4, <1>5 DEF Replies
  <2> QED BY Zenon, <1>5, <2>1 DEF Serve, IInv, TypeOK, ServedStates
<1>7. /\ \A x \in Senders : x # w.c => call'[x] = call[x] /\ chan'[x] = chan[x]
      /\ call'[w.c].sid = s /\ chan'[w.c].rx
  BY DEF Deliver, OpenChan, IInv, TypeOK, CallStates, ChanStates
<1>8. Answering(w, k)
  BY Zenon, <1>2, <1>3 DEF Answering
<1>9. AsksKept
  BY <1>7, <1>8, AnsweredOnce
<1>10. HoldersKept
  <2>1. IsHanded(w.c)
    BY Zenon, <1>4, <1>6, <1>7, NoneIsNoId DEF IsHanded
  <2>2. \A x \in Senders : x # w.c /\ Holds(x)' => StillHolds(x)
    BY Zenon, <1>7 DEF StillHolds, Holds
  <2> QED BY Zenon, <2>1, <2>2 DEF HoldersKept
<1>11. SubscriptionsKept
  <2>1. SinkOf(s)' = w.c
    BY Zenon, <1>2, <1>3, <1>4 DEF SinkOf
  <2>2. ASSUME NEW t \in SubscriptionIds, t # s, manager.subscriptions[t] # None
        PROVE  SinkOf(t)' = SinkOf(t)
    <3>1. manager.subscriptions[t] \in RequestIds
      BY Zenon, <1>1, <2>2 DEF Managers
    <3>2. manager.subscriptions[t] # w.id
      BY Zenon, <1>1, <2>2, <3>1 DEF Consistent, TablesAgree, request_status
    <3> QED BY Zenon, <1>3, <1>4, <2>2, <3>1, <3>2 DEF SinkOf
  <2> QED BY <1>4, <1>6, <2>1, <2>2 DEF SubscriptionsKept
<1>12. QueuesGain({})
  BY Zenon, QueueSteps DEF IInv
<1>13. SinksServed' /\ HoldersServed' /\ ClosesJustified'
  BY Zenon, <1>10, <1>11, <1>12, StreamsKept
<1>14. SubscribesOnce'
  BY Zenon, <1>9, <1>12, SubscribesKept
<1> QED BY Zenon, <1>13, <1>14 DEF StreamInv

(* The response to a single request.                                       *)
LEMMA ResponseKeepsStreams ==
  ASSUME IInv, StreamInv, NEW w \in wire, NEW reply \in Replies(w), ReceiveResponse(w, reply)
  PROVE  StreamInv'
<1>1. Managed
  BY Zenon DEF IInv, Managed
<1>2. w.kind # "batch" /\ served' = Serve(w, reply) /\ UNCHANGED toBack
  BY Zenon DEF ReceiveResponse, readUnchanged
<1>3. ServedGrows
  BY Zenon, <1>2, ServeGrows
<1>4. CASE request_status(manager, w.id) = "PendingMethodCall"
  <2>1. RespondToCall(w)
    BY Zenon, <1>4 DEF ReceiveResponse
  <2> QED BY Zenon, <1>2, <1>3, <1>4, <2>1, RespondToCallKeepsStreams
<1>5. CASE request_status(manager, w.id) = "PendingSubscription"
  <2> DEFINE m1 == complete_pending_subscription(manager, w.id).m
             res == insert_subscription(m1, w.id, manager.requests[w.id].unsub, reply,
                                        manager.requests[w.id].tx)
  <2>1. RespondToSubscribe(w, reply)
    BY Zenon, <1>5 DEF ReceiveResponse
  <2>2. /\ w.id \in RequestIds /\ w.c \in Senders /\ w.kind = "subscribe"
        /\ manager.requests[w.id].tx = w.c /\ Asking(w.id, w.c)
        /\ manager \in Managers /\ Consistent(manager)
        /\ manager.requests[w.id].st = "PendingSubscription"
    BY Zenon, <1>1, <1>2, <1>5, AnsweredEntry DEF Asking, Managed, TypeOK, request_status
  <2>3. call[w.c].phase \in Unanswered
    BY Zenon, <2>2 DEF StreamInv, SubscribesOnce
  <2>4. PICK n : n = res.m
    BY Zenon
  <2>5. res.ok => Entering(manager, w.id, reply, n)
    BY Zenon, <2>4 DEF Entering
  <2>6. CASE reply = None \/ ~res.ok
    <3>1. manager' = m1 /\ call' = Deliver(w.c, "err", w.c) /\ UNCHANGED <<chan, flush>>
      BY Zenon, <2>1, <2>2, <2>6 DEF RespondToSubscribe
    <3>2. manager' = [manager EXCEPT !.requests[w.id] = Vacant]
      BY Zenon, <2>2, <3>1 DEF complete_pending_subscription, Ok
    <3>3. /\ \A i \in RequestIds :
               manager'.requests[i] = IF i = w.id THEN Vacant ELSE manager.requests[i]
          /\ manager'.subscriptions = manager.subscriptions
      BY Zenon, <2>2, <3>2 DEF Managers
    <3>4. Answering(w, Vacant)
      BY Zenon, <1>2, <2>2, <3>3 DEF Answering, Vacant, Kind
    <3>5. /\ \A x \in Senders : x # w.c => call'[x] = call[x] /\ chan'[x] = chan[x]
          /\ ~Holds(w.c)'
      BY <2>2, <2>3, <3>1, DeliverFacts DEF IInv, TypeOK, Holds, Unanswered
    <3>6. QueuesGain({})
      BY Zenon, <1>2, <3>1, QueueSteps DEF IInv
    <3> QED BY Zenon, <1>3, <2>2, <3>3, <3>4, <3>5, <3>6, UntakenKeepsStreams
  <2>7. CASE ~(reply = None \/ ~res.ok) /\ call[w.c].phase = "waiting"
    <3>1. /\ manager' = n /\ chan' = OpenChan(w.c) /\ UNCHANGED flush
          /\ call' = [Deliver(w.c, "ok", w.c) EXCEPT ![w.c].sid = reply]
      BY Zenon, <2>1, <2>2, <2>4, <2>7 DEF RespondToSubscribe
    <3>2. reply \in SubscriptionIds
      BY Zenon, <2>7 DEF Replies
    <3> QED BY Zenon, <1>2, <1>3, <2>2, <2>5, <2>7, <3>1, <3>2, TakenKeepsStreams
  <2>8. CASE ~(reply = None \/ ~res.ok) /\ call[w.c].phase # "waiting"
    <3>1. /\ manager' = unsubscribe(n, w.id, reply).m /\ chan' = OpenChan(w.c)
          /\ UNCHANGED call /\ flush' = flush \cup {RequestUnsub(w.c, reply)}
      BY Zenon, <2>1, <2>2, <2>4, <2>8 DEF RespondToSubscribe
    <3>2. PICK u : u = manager'
      BY Zenon
    <3>3. Leaving(manager, w.id, reply, u) /\ reply \in SubscriptionIds
      BY Zenon, <2>5, <2>8, <3>1, <3>2 DEF Leaving, Replies
    <3>4. /\ \A i \in RequestIds :
               u.requests[i] = IF i = w.id THEN PendingMethodCall(None) ELSE manager.requests[i]
          /\ u.subscriptions = manager.subscriptions
      BY <2>2, <3>3, SubscriptionAbandoned, LeftInTable
    <3>5. Answering(w, PendingMethodCall(None))
      BY Zenon, <1>2, <2>2, <3>2, <3>4 DEF Answering, PendingMethodCall, Kind
    <3>6. /\ \A x \in Senders : x # w.c => call'[x] = call[x] /\ chan'[x] = chan[x]
          /\ ~Holds(w.c)'
      BY Zenon, <2>3, <3>1 DEF OpenChan, IInv, TypeOK, ChanStates, Holds, Unanswered
    <3>7. /\ QueuesGain({RequestUnsub(w.c, reply)})
          /\ \A msg \in {RequestUnsub(w.c, reply)} : msg.t \notin {"Subscribe", "SubscriptionClosed"}
      BY <1>2, <3>1, QueueSteps DEF IInv, RequestUnsub
    <3> QED BY Zenon, <1>3, <2>2, <3>2, <3>4, <3>5, <3>6, <3>7, UntakenKeepsStreams
  <2> QED BY Zenon, <2>6, <2>7, <2>8
<1> QED BY Zenon, <1>1, <1>2, <1>4, <1>5, AnsweredEntry

(* The answer to a batch.                                                  *)
LEMMA BatchResponseKeepsStreams ==
  ASSUME IInv, StreamInv, NEW w \in wire, ReceiveBatchResponse(w) PROVE StreamInv'
<1> DEFINE range == <<w.id, w.id + BatchLen>>
<1>1. w.kind = "batch" /\ UNCHANGED <<chan, flush, served, toBack>>
  BY Zenon DEF ReceiveBatchResponse, readUnchanged
<1>2. w.id \in RequestIds /\ w.c \in Senders /\ range \in Ranges
  BY Zenon, <1>1 DEF IInv, TypeOK, Wire, WireSettled, Ranges
<1>3. manager.batches[range] = w.c /\ w.c # None
  BY Zenon, <1>1, <1>2, ManagerAssumption DEF IInv, AnswersAreExpected, Expected
<1>4. CallKind[w.c] = "batch"
  BY Zenon, <1>2, <1>3 DEF IInv, EntriesOwned
<1>5. manager' = [manager EXCEPT !.batches[range] = None] /\ call' = Deliver(w.c, "ok", w.c)
  BY Zenon, <1>3 DEF ReceiveBatchResponse, complete_pending_batch, Ok
<1>6. manager'.requests = manager.requests /\ manager'.subscriptions = manager.subscriptions
  BY Zenon, <1>5 DEF IInv, TypeOK, Managers
<1>7. \A x \in Senders \ {w.c} : call'[x] = call[x]
  BY <1>2, <1>5, DeliverFacts DEF IInv, TypeOK
<1>8. QueuesGain({}) /\ ServedGrows
  BY Zenon, <1>1, QueueSteps DEF IInv, ServedGrows
<1> QED BY Zenon, <1>1, <1>4, <1>6, <1>7, <1>8, SameRequestsAreQuiet, OthersKeepStreams

(* What pushing a notification does to the channels.                       *)
LEMMA PushChanFacts ==
  ASSUME TypeOK, NEW c \in Senders, chan' = PushChan(c)
  PROVE  /\ \A x \in Senders : x # c => chan'[x] = chan[x]
         /\ chan'[c].rx = chan[c].rx /\ (chan[c].lagged => chan'[c].lagged)
         /\ Push(c) # "sent" /\ chan[c].rx => chan'[c].lagged
<1>1. Push(c) \in {"closed", "full", "sent"} /\ (Push(c) = "closed" <=> ~chan[c].rx)
  BY Zenon DEF Push
<1>2. CASE Push(c) = "closed"
  BY Zenon, <1>1, <1>2 DEF PushChan
<1>3. CASE Push(c) = "full"
  BY Zenon, <1>1, <1>3 DEF PushChan, TypeOK, ChanStates
<1>4. CASE Push(c) = "sent"
  BY Zenon, <1>1, <1>4 DEF PushChan, TypeOK, ChanStates
<1> QED BY Zenon, <1>1, <1>2, <1>3, <1>4

(* A notification of a subscription: only a full channel, which marks the  *)
(* stream as lagged, makes the read task close one that is still held.     *)
LEMMA NotificationKeepsStreams ==
  ASSUME IInv, StreamInv, NEW s \in SubscriptionIds, ReceiveNotification(s) PROVE StreamInv'
<1>1. UNCHANGED <<call, manager, served, toBack>> /\ served[s].st = "open"
  BY Zenon DEF ReceiveNotification, readUnchanged
<1>2. PICK c : /\ c = as_subscription_mut(manager, manager.subscriptions[s]) /\ c # None
               /\ chan' = PushChan(c)
               /\ flush' = IF Push(c) = "sent" THEN flush ELSE flush \cup {SubscriptionClosed(s)}
  BY Zenon DEF ReceiveNotification
<1>3. manager.subscriptions[s] \in RequestIds /\ manager.subscriptions[s] # None
  BY Zenon DEF ReceiveNotification, IInv, TypeOK, Managers
<1>4. c \in Senders /\ c = SinkOf(s)
  BY Zenon, <1>2, <1>3 DEF as_subscription_mut, SinkOf, IInv, TypeOK, Managers, Kinds
<1>5. /\ \A x \in Senders : x # c => chan'[x] = chan[x]
      /\ chan'[c].rx = chan[c].rx /\ (chan[c].lagged => chan'[c].lagged)
      /\ Push(c) # "sent" /\ chan[c].rx => chan'[c].lagged
  BY Zenon, <1>2, <1>4, PushChanFacts DEF IInv
<1>6. HoldersKept
  BY Zenon, <1>1, <1>5 DEF HoldersKept, StillHolds, Holds
<1> DEFINE M == IF Push(c) = "sent" THEN {} ELSE {SubscriptionClosed(s)}
<1>7. QueuesGain(M)
  BY Zenon, <1>1, <1>2, QueueSteps DEF IInv
<1>8. Push(c) # "sent" => Lagging(s)'
  <2> SUFFICES ASSUME Push(c) # "sent", NEW x \in Senders, Holds(x)', call'[x].sid = s
               PROVE  chan'[x].lagged
    BY Zenon DEF Lagging
  <2>1. Holds(x) /\ call[x].sid = s
    BY Zenon, <1>1 DEF Holds
  <2>2. served[s].c = x /\ chan[x].rx
    BY Zenon, <2>1 DEF StreamInv, HoldersServed
  <2>3. x = c
    BY Zenon, <1>3, <1>4, <2>2 DEF StreamInv, SinksServed
  <2> QED BY Zenon, <1>5, <2>2, <2>3
<1>9. \A t \in SubscriptionIds : SubscriptionClosed(t) \in M => t = s /\ Push(c) # "sent"
  BY Zenon DEF SubscriptionClosed
<1>10. \A msg \in M : msg.t # "Subscribe"
  BY DEF SubscriptionClosed
<1> HIDE DEF M
<1>11. /\ SinksServed' /\ HoldersServed' /\ ClosesJustified'
       /\ \A id \in RequestIds : \A x \in Senders : Asking(id, x)' => Asking(id, x)
  BY Zenon, <1>1, <1>6, <1>7, <1>8, <1>9, OperationKeeps
<1>12. AsksKept
  BY Zenon, <1>1, <1>11 DEF AsksKept
<1>13. SubscribesOnce'
  BY Zenon, <1>7, <1>10, <1>12, SubscribesKept
<1> QED BY Zenon, <1>11, <1>13 DEF StreamInv

(* A notification for a registered method.                                 *)
LEMMA MethodNotificationKeepsStreams ==
  ASSUME IInv, StreamInv, NEW n \in Methods, ReceiveMethodNotification(n) PROVE StreamInv'
<1>1. UNCHANGED <<call, flush, served, toBack>>
  BY Zenon DEF ReceiveMethodNotification, readUnchanged
<1>2. PICK c : /\ c = manager.handlers[n] /\ c # None /\ chan' = PushChan(c)
               /\ manager' = manager \/ manager' = remove_notification_handler(manager, n)
  BY Zenon DEF ReceiveMethodNotification, as_notification_handler_mut
<1>3. c \in Senders /\ CallKind[c] = "register"
  BY <1>2 DEF IInv, TypeOK, Managers, EntriesOwned
<1>4. manager'.requests = manager.requests /\ manager'.subscriptions = manager.subscriptions
  BY Zenon, <1>2 DEF remove_notification_handler, IInv, TypeOK, Managers
<1>5. \A x \in Senders : x # c => chan'[x] = chan[x]
  BY Zenon, <1>2, <1>3, PushChanFacts DEF IInv
<1>6. QueuesGain({}) /\ ServedGrows
  BY Zenon, <1>1, QueueSteps DEF IInv, ServedGrows
<1> QED BY Zenon, <1>1, <1>3, <1>4, <1>5, <1>6, SameRequestsAreQuiet, OthersKeepStreams

(* A new client has no streams.                                            *)
LEMMA StreamInit == Init => StreamInv
<1> SUFFICES ASSUME Init PROVE StreamInv
  BY Zenon
<1>1. \A c \in Senders : ~Holds(c)
  BY Zenon DEF Init, Holds
<1>2. \A s \in SubscriptionIds : manager.subscriptions[s] = None /\ ~Closing(s)
  BY DEF Init, EmptyManager, Closing
<1>3. \A id \in RequestIds : \A c \in Senders : ~Asking(id, c)
  BY Zenon DEF Init, EmptyManager, Asking, request_status, Vacant, Kind
<1>4. Len(toBack) = 0 /\ flush = {}
  BY Zenon DEF Init
<1>5. SubscribesOnce
  BY <1>3, <1>4 DEF SubscribesOnce
<1> QED BY Zenon, <1>1, <1>2, <1>5 DEF StreamInv, SinksServed, HoldersServed, ClosesJustified

(* Every step keeps the invariant of the streams.                          *)
LEMMA StreamNext == IInv /\ StreamInv /\ [Next]_vars => StreamInv'
<1> SUFFICES ASSUME IInv, StreamInv, [Next]_vars PROVE StreamInv'
  BY Zenon
<1>1. ASSUME NEW c \in Senders, Frontend(c) PROVE StreamInv'
  BY Zenon, <1>1, QuietOperation, EnqueueAsks, CloseMessageIsJustified DEF Frontend
<1>2. CASE HandleFrontend
  BY Zenon, <1>2, SendKeepsStreams, SendSubscribeAsks, SendClosedIsJustified DEF HandleFrontend
<1>3. CASE SendTask
  BY Zenon, <1>2, <1>3, TasksKeepStreams DEF SendTask
<1>4. CASE ReadTask
  BY Zenon, <1>4, ResponseKeepsStreams, BatchResponseKeepsStreams, NotificationKeepsStreams,
     CloseKeepsStreams, MethodNotificationKeepsStreams, TasksKeepStreams DEF ReadTask
<1>5. CASE DropClient \/ ShutdownOnResult \/ ShutdownOnDrop \/ UNCHANGED vars
  BY Zenon, <1>5, TasksKeepStreams
<1> QED BY Zenon, <1>1, <1>3, <1>4, <1>5 DEF Next

(* The invariant of the streams holds throughout.                          *)
THEOREM StreamInvariance == Spec => [](IInv /\ StreamInv)
<1>1. IInv /\ StreamInv /\ [Next]_vars => (IInv /\ StreamInv)'
  BY Zenon, NextInv, StreamNext
<1>2. Init => IInv /\ StreamInv
  BY InitInv, StreamInit
<1> QED BY <1>1, <1>2, PTL DEF Spec

(* However many operations run, whatever ids they reuse and whatever fails: *)
(* a Subscription that is still held loses its sink in the manager only    *)
(* when it lagged, when the server ended it, or when both tasks stop.      *)
THEOREM StreamsAlwaysEndForAReason == Spec => []StreamsEndForAReason
<1>1. ASSUME IInv, StreamInv PROVE StreamsEndForAReason
  <2> SUFFICES ASSUME NEW c \in Senders, CallKind[c] = "subscribe", call[c].phase = "active",
                      ~SinkAlive(c), ~chan[c].lagged, served[call[c].sid].st # "ended"
               PROVE  sendTask # "run" /\ readTask # "run"
    BY Zenon DEF StreamsEndForAReason
  <2>1. Holds(c) /\ call[c].sid \in SubscriptionIds
    BY Zenon, <1>1 DEF Holds, IInv, OperationsSettled
  <2>2. PICK s \in SubscriptionIds : s = call[c].sid
    BY Zenon, <2>1
  <2>3. served[s].c = c /\ manager.subscriptions[s] # None
    BY Zenon, <1>1, <2>1, <2>2 DEF StreamInv, HoldersServed
  <2>4. PICK id \in RequestIds : id = manager.subscriptions[s]
    BY Zenon, <1>1, <2>3 DEF IInv, TypeOK, Managers
  <2>5. manager.requests[id].tx = c
    BY Zenon, <1>1, <2>3, <2>4 DEF StreamInv, SinksServed, SinkOf
  <2>6. request_status(manager, id) = "Subscription"
    BY Zenon, <1>1, <2>3, <2>4 DEF IInv, Consistent, TablesAgree
  <2>7. as_subscription_mut(manager, id) = c
    BY Zenon, <2>5, <2>6 DEF as_subscription_mut, request_status
  <2>8. ManagerDropped
    BY Zenon, <2>7 DEF SinkAlive
  <2> QED BY Zenon, <2>8 DEF ManagerDropped
<1>2. IInv /\ StreamInv => StreamsEndForAReason
  BY <1>1
<1> QED BY <1>2, StreamInvariance, PTL

\* No channel has gained a message.
NothingPushed == \A c \in Senders : ~(chan'[c].len > chan[c].len)

(* Of all steps only the notifications of the server fill a channel.       *)
LEMMA OnlyNotificationsPush ==
  ASSUME IInv, [Next]_vars,
         ~(\E s \in SubscriptionIds : ReceiveNotification(s)),
         ~(\E n \in Methods : ReceiveMethodNotification(n))
  PROVE  NothingPushed
<1>1. chan \in ChanStates /\ \A c \in Senders : chan[c].len \in Nat
  BY ClientAssumption DEF IInv, TypeOK, ChanStates
<1>2. ASSUME UNCHANGED chan PROVE NothingPushed
  BY <1>1, <1>2 DEF NothingPushed
<1>3. ASSUME NEW c, chan' = [chan EXCEPT ![c].rx = FALSE] PROVE NothingPushed
  BY <1>1, <1>3 DEF NothingPushed, ChanStates
<1>4. ASSUME NEW c, chan' = OpenChan(c) PROVE NothingPushed
  BY <1>1, <1>4 DEF NothingPushed, ChanStates, OpenChan
<1>5. ASSUME NEW c \in Senders, Frontend(c) PROVE NothingPushed
  <2>1. CASE PollNext(c)
    BY <1>1, <2>1 DEF PollNext, NothingPushed, ChanStates
  <2>2. CASE Abandon(c) \/ StreamEnds(c) \/ DropSubscription(c) \/ AbandonUnsubscribe(c)
    BY Zenon, <1>3, <2>2 DEF Abandon, StreamEnds, DropSubscription, AbandonUnsubscribe
  <2>3. CASE \/ Start(c) \/ AllocateUnsubId(c) \/ Enqueue(c) \/ Observe(c) \/ ReadError(c)
             \/ Unsubscribe(c) \/ UnsubscribeEnqueue(c)
    BY Zenon, <1>2, <2>3 DEF Start, AllocateUnsubId, Enqueue, Observe, ReadError, Unsubscribe,
       UnsubscribeEnqueue
  <2> QED BY Zenon, <1>5, <2>1, <2>2, <2>3 DEF Frontend
<1>6. CASE HandleFrontend
  <2>1. CASE RegisterNotification
    BY Zenon, <1>2, <1>4, <2>1 DEF RegisterNotification
  <2>2. CASE ~RegisterNotification
    BY Zenon, <1>2, <1>6, <2>2 DEF HandleFrontend, SendRequest, SendRequestUnsub, SendBatch,
       SendNotification, SendSubscribe, SendSubscriptionClosed, UnregisterNotification
  <2> QED BY Zenon, <2>1, <2>2
<1>7. ASSUME NEW w \in wire, NEW reply \in Replies(w), ReceiveResponse(w, reply)
      PROVE  NothingPushed
  <2>1. UNCHANGED chan \/ \E c : chan' = OpenChan(c)
    BY Zenon, <1>7 DEF ReceiveResponse, RespondToCall, RespondToSubscribe
  <2> QED BY Zenon, <1>2, <1>4, <2>1
<1>8. CASE \/ \E w \in wire : ReceiveBatchResponse(w)
           \/ \E s \in SubscriptionIds : ReceiveClose(s)
           \/ \E msg \in flush : FlushUnsubscribe(msg)
           \/ ReadFails \/ ReadTaskStops \/ ReadTaskReports
  BY Zenon, <1>2, <1>8 DEF ReceiveBatchResponse, ReceiveClose, FlushUnsubscribe, ReadFails,
     ReadTaskStops, ReadTaskReports, frontVars
<1>9. CASE \/ PingFails \/ SendTaskStops \/ SendTaskReports
           \/ DropClient \/ ShutdownOnResult \/ ShutdownOnDrop \/ UNCHANGED vars
  BY Zenon, <1>2, <1>9 DEF PingFails, SendTaskStops, SendTaskReports, DropClient, ShutdownOnResult,
     ShutdownOnDrop, frontVars, vars
<1> QED BY Zenon, <1>5, <1>6, <1>7, <1>8, <1>9 DEF Next, SendTask, ReadTask

(* A step that fills the channel of a subscribe is a notification of a     *)
(* subscription the server holds open for that very operation.             *)
THEOREM NotificationsAlwaysReachTheirStream == Spec => NotificationsReachTheirStream
<1> DEFINE Reaches == \A c \in Senders :
                        CallKind[c] = "subscribe" /\ chan'[c].len > chan[c].len =>
                          \E s \in SubscriptionIds : served[s] = [c |-> c, st |-> "open"]
<1>1. ASSUME IInv, StreamInv, [Next]_vars PROVE Reaches
  <2>1. ASSUME NEW s \in SubscriptionIds, ReceiveNotification(s) PROVE Reaches
    <3>1. PICK c : /\ c = as_subscription_mut(manager, manager.subscriptions[s]) /\ c # None
                   /\ chan' = PushChan(c)
      BY Zenon, <2>1 DEF ReceiveNotification
    <3>2. /\ manager.subscriptions[s] \in RequestIds /\ manager.subscriptions[s] # None
          /\ served[s].st = "open"
      BY Zenon, <1>1, <2>1 DEF ReceiveNotification, IInv, TypeOK, Managers
    <3>3. c \in Senders /\ c = SinkOf(s)
      BY Zenon, <1>1, <3>1, <3>2 DEF as_subscription_mut, SinkOf, IInv, TypeOK, Managers, Kinds
    <3>4. served[s] = [c |-> c, st |-> "open"]
      <4>1. served[s].c = c
        BY Zenon, <1>1, <3>2, <3>3 DEF StreamInv, SinksServed
      <4>2. served[s] \in [c : Senders \cup {None}, st : {"unused", "open", "ended"}]
        BY Zenon, <1>1 DEF IInv, TypeOK, ServedStates
      <4> QED BY Zenon, <3>2, <4>1, <4>2
    <3>5. \A x \in Senders : x # c => chan'[x] = chan[x]
      BY Zenon, <1>1, <3>1, <3>3, PushChanFacts DEF IInv
    <3>6. \A x \in Senders : chan[x].len \in Nat
      BY <1>1, ClientAssumption DEF IInv, TypeOK, ChanStates
    <3> QED BY <3>4, <3>5, <3>6
  <2>2. ASSUME NEW n \in Methods, ReceiveMethodNotification(n) PROVE Reaches
    <3>1. PICK c : c = manager.handlers[n] /\ c # None /\ chan' = PushChan(c)
      BY Zenon, <2>2 DEF ReceiveMethodNotification, as_notification_handler_mut
    <3>2. c \in Senders /\ CallKind[c] = "register"
      BY <1>1, <3>1 DEF IInv, TypeOK, Managers, EntriesOwned
    <3>3. \A x \in Senders : x # c => chan'[x] = chan[x]
      BY Zenon, <1>1, <3>1, <3>2, PushChanFacts DEF IInv
    <3>4. \A x \in Senders : chan[x].len \in Nat
      BY <1>1, ClientAssumption DEF IInv, TypeOK, ChanStates
    <3> QED BY <3>2, <3>3, <3>4
  <2> QED BY Zenon, <1>1, <2>1, <2>2, OnlyNotificationsPush DEF NothingPushed
<1>2. IInv /\ StreamInv /\ [Next]_vars => [Reaches]_vars
  BY Zenon, <1>1
<1>3. NotificationsReachTheirStream <=> [][Reaches]_vars
  BY Zenon DEF NotificationsReachTheirStream
<1> HIDE DEF Reaches
<1> QED BY <1>2, <1>3, StreamInvariance, PTL DEF Spec
=============================================================================
