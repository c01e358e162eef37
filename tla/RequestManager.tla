--------------------------- MODULE RequestManager ---------------------------
(***************************************************************************)
(* The table of outstanding requests of the asynchronous client            *)
(* (core/src/client/async_client/manager.rs).                              *)
(*                                                                         *)
(* The RequestManager has no control of its own: the send task and the     *)
(* read task share it behind a mutex and call one operation per lock.  It  *)
(* is therefore modelled as a value m and a set of operators that return   *)
(* the next value; module AsyncClient holds m in a variable.               *)
(*                                                                         *)
(* A HashMap is a total function whose missing keys map to Vacant or None. *)
(* A oneshot or channel sender is named by the frontend operation that     *)
(* holds its receiver (an element of Senders).  Method names carried along *)
(* for the unsubscribe request are left out.                               *)
(***************************************************************************)
EXTENDS Naturals

CONSTANTS
  IdSpace,          \* request ids are 0..IdSpace-1 (2^64 in the code)
  SubscriptionIds,  \* ids the server gives to subscriptions
  Methods,          \* notification methods a frontend can register for
  Senders,          \* frontend operations
  None              \* no id, no sender

ASSUME ManagerAssumption ==
  /\ IdSpace \in Nat \ {0}
  /\ None \notin 0 .. IdSpace
  /\ None \notin Senders
  /\ None \notin SubscriptionIds

RequestIds == 0 .. (IdSpace - 1)

\* A half-open range of request ids, the key of a batch.
Ranges == RequestIds \X RequestIds

-----------------------------------------------------------------------------
(* enum Kind, with Vacant for "no entry".                                  *)

Kind(st, unsub, tx) == [st |-> st, unsub |-> unsub, tx |-> tx]

Vacant == Kind("Vacant", None, None)
PendingMethodCall(tx) == Kind("PendingMethodCall", None, tx)
PendingSubscription(unsub, tx) == Kind("PendingSubscription", unsub, tx)
Subscription(unsub, tx) == Kind("Subscription", unsub, tx)

Kinds ==
  [st : {"Vacant", "PendingMethodCall", "PendingSubscription", "Subscription"},
   unsub : RequestIds \cup {None},
   tx : Senders \cup {None}]

Managers ==
  [requests : [RequestIds -> Kinds],
   subscriptions : [SubscriptionIds -> RequestIds \cup {None}],
   batches : [Ranges -> Senders \cup {None}],
   handlers : [Methods -> Senders \cup {None}]]

EmptyManager ==
  [requests |-> [id \in RequestIds |-> Vacant],
   subscriptions |-> [s \in SubscriptionIds |-> None],
   batches |-> [b \in Ranges |-> None],
   handlers |-> [n \in Methods |-> None]]

\* What an operation returns: whether it succeeded, and the next manager.
Ok(m) == [ok |-> TRUE, m |-> m]
Err(m) == [ok |-> FALSE, m |-> m]

-----------------------------------------------------------------------------
(* The operations.                                                         *)

\* Mutant: does not look at the entry.
insert_pending_call_overwrites(m, id, tx) ==
  Ok([m EXCEPT !.requests[id] = PendingMethodCall(tx)])

insert_pending_call(m, id, tx) ==
  IF m.requests[id] = Vacant
  THEN Ok([m EXCEPT !.requests[id] = PendingMethodCall(tx)])
  ELSE Err(m)

insert_pending_batch(m, range, tx) ==
  IF m.batches[range] = None
  THEN Ok([m EXCEPT !.batches[range] = tx])
  ELSE Err(m)

\* Mutant: forgets to reserve the id of the unsubscribe request.
insert_pending_subscription_unreserved(m, sub, unsub, tx) ==
  IF m.requests[sub] = Vacant /\ m.requests[unsub] = Vacant /\ sub # unsub
  THEN Ok([m EXCEPT !.requests[sub] = PendingSubscription(unsub, tx)])
  ELSE Err(m)

\* Also reserves the id of the unsubscribe request that may follow.
insert_pending_subscription(m, sub, unsub, tx) ==
  IF m.requests[sub] = Vacant /\ m.requests[unsub] = Vacant /\ sub # unsub
  THEN Ok([m EXCEPT !.requests[sub] = PendingSubscription(unsub, tx),
                    !.requests[unsub] = PendingMethodCall(None)])
  ELSE Err(m)

\* Mutant: does not look whether the subscription id is taken.
insert_subscription_overwrites(m, sub, unsub, sid, tx) ==
  IF m.requests[sub] = Vacant
  THEN Ok([m EXCEPT !.requests[sub] = Subscription(unsub, tx),
                    !.subscriptions[sid] = sub])
  ELSE Err(m)

insert_subscription(m, sub, unsub, sid, tx) ==
  IF m.requests[sub] = Vacant /\ m.subscriptions[sid] = None
  THEN Ok([m EXCEPT !.requests[sub] = Subscription(unsub, tx),
                    !.subscriptions[sid] = sub])
  ELSE Err(m)

insert_notification_handler(m, method, tx) ==
  IF m.handlers[method] = None
  THEN Ok([m EXCEPT !.handlers[method] = tx])
  ELSE Err(m)

remove_notification_handler(m, method) == [m EXCEPT !.handlers[method] = None]

complete_pending_subscription(m, id) ==
  IF m.requests[id].st = "PendingSubscription"
  THEN Ok([m EXCEPT !.requests[id] = Vacant])
  ELSE Err(m)

complete_pending_batch(m, range) ==
  IF m.batches[range] # None
  THEN Ok([m EXCEPT !.batches[range] = None])
  ELSE Err(m)

complete_pending_call(m, id) ==
  IF m.requests[id].st = "PendingMethodCall"
  THEN Ok([m EXCEPT !.requests[id] = Vacant])
  ELSE Err(m)

\* Mutant: leaves the subscription id behind.
remove_subscription_leaves_id(m, id, sid) ==
  IF m.requests[id].st = "Subscription" /\ m.subscriptions[sid] # None
  THEN Ok([m EXCEPT !.requests[id] = Vacant])
  ELSE Err(m)

\* The server closed the subscription: both entries go, the reservation of
\* the unsubscribe id stays.
remove_subscription(m, id, sid) ==
  IF m.requests[id].st = "Subscription" /\ m.subscriptions[sid] # None
  THEN Ok([m EXCEPT !.requests[id] = Vacant, !.subscriptions[sid] = None])
  ELSE Err(m)

\* Mutant: keeps the sink.
unsubscribe_keeps_sink(m, id, sid) ==
  IF m.requests[id].st = "Subscription" /\ m.subscriptions[sid] # None
  THEN Ok([m EXCEPT !.subscriptions[sid] = None])
  ELSE Err(m)

\* The client leaves the subscription: its request id stays occupied.
unsubscribe(m, id, sid) ==
  IF m.requests[id].st = "Subscription" /\ m.subscriptions[sid] # None
  THEN Ok([m EXCEPT !.requests[id] = PendingMethodCall(None),
                    !.subscriptions[sid] = None])
  ELSE Err(m)

request_status(m, id) == m.requests[id].st

get_request_id_by_subscription_id(m, sid) == m.subscriptions[sid]

\* The sink of a subscription, and of a notification handler.
as_subscription_mut(m, id) ==
  IF m.requests[id].st = "Subscription" THEN m.requests[id].tx ELSE None

as_notification_handler_mut(m, method) == m.handlers[method]

-----------------------------------------------------------------------------
(* What the operations keep.                                               *)

\* A subscription id leads to a request of kind Subscription, and every such
\* request has exactly one subscription id.
TablesAgree(m) ==
  /\ \A s \in SubscriptionIds :
       m.subscriptions[s] # None => request_status(m, m.subscriptions[s]) = "Subscription"
  /\ \A id \in RequestIds :
       request_status(m, id) = "Subscription" =>
         \E s \in SubscriptionIds : m.subscriptions[s] = id
  /\ \A s, t \in SubscriptionIds :
       m.subscriptions[s] # None /\ m.subscriptions[s] = m.subscriptions[t] => s = t

HoldsUnsubId(m, id) == request_status(m, id) \in {"PendingSubscription", "Subscription"}

\* The unsubscribe id of a pending or active subscription is reserved for it.
UnsubIdsReserved(m) ==
  /\ \A id \in RequestIds :
       HoldsUnsubId(m, id) =>
         /\ m.requests[id].unsub \in RequestIds
         /\ m.requests[m.requests[id].unsub] = PendingMethodCall(None)
  /\ \A i, j \in RequestIds :
       HoldsUnsubId(m, i) /\ HoldsUnsubId(m, j) /\ m.requests[i].unsub = m.requests[j].unsub
         => i = j

\* Somebody waits for, or listens to, every pending or active subscription.
SubscriptionsHaveSinks(m) ==
  \A id \in RequestIds : HoldsUnsubId(m, id) => m.requests[id].tx \in Senders

Consistent(m) == TablesAgree(m) /\ UnsubIdsReserved(m) /\ SubscriptionsHaveSinks(m)

\* No subscription counts on id for its unsubscribe request.
Unclaimed(m, id) ==
  \A i \in RequestIds : HoldsUnsubId(m, i) => m.requests[i].unsub # id
=============================================================================
