---------------------------- MODULE AsyncClient ----------------------------
(***************************************************************************)
(* The asynchronous client (core/src/client/async_client/): frontend       *)
(* operations, the bounded channel to_back, the send task, the read task,  *)
(* the shutdown task and the RequestManager they share.                    *)
(*                                                                         *)
(* A frontend operation (an element of Senders) is used once.  It is a     *)
(* method call, a batch, a notification, a subscribe or a                  *)
(* subscribe_to_method; CallKind says which.                               *)
(*                                                                         *)
(* The server and the transport are external.  The server answers a        *)
(* request it was sent at most once and in any order, sends notifications  *)
(* for a subscription only after the answer that opened it, and never      *)
(* gives the same subscription id twice, except for an id the client still *)
(* holds as active (the case insert_subscription refuses).  A message is   *)
(* sent and received in one step: the server learns of client requests     *)
(* arbitrarily late, so nothing distinguishes a message that was delayed   *)
(* on its way from one that was sent later.                                *)
(***************************************************************************)
EXTENDS RequestManager, Sequences

CONSTANTS
  CallKind,   \* [Senders -> {"call", "batch", "notify", "subscribe", "register"}]
  MethodOf,   \* [Senders -> Methods], the method a "register" asks for
  BatchLen,   \* number of calls in a batch
  QueueCap,   \* max_concurrent_requests, the capacity of to_back
  SubCap,     \* max_buffer_capacity_per_subscription
  Faults      \* what may end the connection: the transport or a ping fails
              \* ("send"), reading fails ("read"), the Client is dropped ("drop")

ASSUME ClientAssumption ==
  /\ CallKind \in [Senders -> {"call", "batch", "notify", "subscribe", "register"}]
  /\ MethodOf \in [Senders -> Methods]
  /\ BatchLen \in Nat \ {0}
  /\ QueueCap \in Nat \ {0}
  /\ SubCap \in Nat \ {0}
  /\ Faults \subseteq {"send", "read", "drop"}

VARIABLES
  nextId,    \* the counter of RequestIdManager
  call,      \* frontend operations
  chan,      \* notification channel of each subscription
  toBack,    \* messages in the channel to the send task
  flush,     \* pending_unsubscribes of the read task
  manager,   \* the RequestManager
  wire,      \* requests sent to the server and not answered
  served,    \* subscriptions of the server
  sendTask,  \* "run", then the result it has to report, then "done"
  readTask,  \* likewise
  closeCh,   \* the close channel (capacity 1): "empty" or a result
  shutdown,  \* the task wait_for_shutdown
  reason,    \* whether disconnect_reason is written
  alive      \* the Client has not been dropped

frontVars == <<nextId, call, chan>>
taskVars == <<sendTask, readTask, closeCh, shutdown, reason>>
vars == <<nextId, call, chan, toBack, flush, manager, wire, served,
          sendTask, readTask, closeCh, shutdown, reason, alive>>

-----------------------------------------------------------------------------
(* Types.                                                                  *)

Phases ==
  {"idle",          \* not started
   "allocating",    \* a subscribe that has its first request id
   "sending",       \* waits for room in to_back
   "waiting",       \* waits for its oneshot
   "ready",         \* the oneshot holds a value the caller has not seen
   "ok", "err",     \* returned
   "abandoned",     \* timed out, or its future was dropped
   "disconnected",  \* in on_disconnect
   "restart",       \* returned Error::RestartNeeded(reason)
   "noreason",      \* returned "Error reason could not be found"
   "active",        \* the caller holds a Subscription
   "unsubscribing", \* Subscription::unsubscribe waits for room in to_back
   "draining",      \* Subscription::unsubscribe waits for the end of rx
   "closed"}        \* the Subscription is gone

\* Phases in which a future of the operation borrows the Client.
InFlight == {"allocating", "sending", "waiting", "ready", "disconnected"}

FrontToBack ==
  [t : {"Request", "Batch", "Notification", "Subscribe", "Register", "Unregister"},
   c : Senders, sid : {None}]
  \cup [t : {"RequestUnsub"}, c : Senders, sid : SubscriptionIds]
  \cup [t : {"SubscriptionClosed"}, c : {None}, sid : SubscriptionIds]

Msg(t, c) == [t |-> t, c |-> c, sid |-> None]
RequestUnsub(c, sid) == [t |-> "RequestUnsub", c |-> c, sid |-> sid]
SubscriptionClosed(sid) == [t |-> "SubscriptionClosed", c |-> None, sid |-> sid]

Wire ==
  [kind : {"call", "batch", "subscribe", "unsubscribe"},
   id : RequestIds, c : Senders, sid : SubscriptionIds \cup {None}]

OnWire(kind, id, c, sid) == [kind |-> kind, id |-> id, c |-> c, sid |-> sid]

TaskStates == {"run", "ok", "err", "done"}

CallStates ==
  [Senders -> [phase : Phases,
               id : RequestIds \cup {None},
               unsub : RequestIds \cup {None},
               sid : SubscriptionIds \cup {None},
               got : {"none", "ok", "err"},
               from : Senders \cup {None}]]

ChanStates == [Senders -> [len : 0 .. SubCap, lagged : BOOLEAN, rx : BOOLEAN]]

ServedStates ==
  [SubscriptionIds -> [c : Senders \cup {None}, st : {"unused", "open", "ended"}]]

(* Every variable holds a value of the type its Rust counterpart has, and  *)
(* to_back never holds more than max_concurrent_requests messages.         *)
TypeOK ==
  /\ nextId \in RequestIds
  /\ call \in CallStates
  /\ chan \in ChanStates
  /\ toBack \in Seq(FrontToBack) /\ Len(toBack) <= QueueCap
  /\ flush \subseteq FrontToBack
  /\ manager \in Managers
  /\ wire \subseteq Wire
  /\ served \in ServedStates
  /\ sendTask \in TaskStates /\ readTask \in TaskStates
  /\ closeCh \in {"empty", "ok", "err"}
  /\ shutdown \in {"wait", "done"}
  /\ reason \in BOOLEAN /\ alive \in BOOLEAN

Init ==
  /\ nextId = 0
  /\ call = [c \in Senders |-> [phase |-> "idle", id |-> None, unsub |-> None,
                                sid |-> None, got |-> "none", from |-> None]]
  /\ chan = [c \in Senders |-> [len |-> 0, lagged |-> FALSE, rx |-> FALSE]]
  /\ toBack = <<>> /\ flush = {}
  /\ manager = EmptyManager
  /\ wire = {}
  /\ served = [s \in SubscriptionIds |-> [c |-> None, st |-> "unused"]]
  /\ sendTask = "run" /\ readTask = "run"
  /\ closeCh = "empty" /\ shutdown = "wait"
  /\ reason = FALSE /\ alive = TRUE

-----------------------------------------------------------------------------
(* Channels.                                                               *)

\* from_frontend.close() was called, or the receiver was dropped.
Closed == sendTask # "run"
HasRoom == Len(toBack) < QueueCap

\* Both tasks are gone, and with them the last reference to the manager.
ManagerDropped == sendTask = "done" /\ readTask = "done"

SinkAlive(c) ==
  /\ ~ManagerDropped
  /\ \/ \E id \in RequestIds : as_subscription_mut(manager, id) = c
     \/ \E n \in Methods : as_notification_handler_mut(manager, n) = c

\* Some task still holds the oneshot sender of c.
SenderAlive(c) ==
  \/ \E i \in 1 .. Len(toBack) : toBack[i].c = c
  \/ /\ ~ManagerDropped
     /\ \/ \E id \in RequestIds : /\ manager.requests[id].tx = c
                                  /\ manager.requests[id].st # "Subscription"
        \/ \E b \in Ranges : manager.batches[b] = c

\* oneshot::Sender::send: lost when the receiver is gone.
Deliver(c, got, from) ==
  IF call[c].phase = "waiting"
  THEN [call EXCEPT ![c] = [@ EXCEPT !.phase = "ready", !.got = got, !.from = from]]
  ELSE call

\* A new subscription channel; its receiver lives when the oneshot takes it.
OpenChan(c) ==
  [chan EXCEPT ![c] = [len |-> 0, lagged |-> FALSE,
                       rx |-> call[c].phase = "waiting"]]

BatchRange(c) == <<call[c].id, call[c].id + BatchLen>>

-----------------------------------------------------------------------------
(* Frontend operations.                                                    *)

FetchAdd == nextId' = (nextId + 1) % IdSpace

\* batch_request takes one id for the whole range and gives up when the range
\* would not fit in the id type.
Start(c) ==
  /\ alive /\ call[c].phase = "idle"
  /\ CASE CallKind[c] = "register" ->
            /\ call' = [call EXCEPT ![c].phase = "sending"]
            /\ UNCHANGED nextId
       [] CallKind[c] = "subscribe" ->
            /\ call' = [call EXCEPT ![c] = [@ EXCEPT !.phase = "allocating", !.id = nextId]]
            /\ FetchAdd
       [] CallKind[c] = "batch" /\ nextId + BatchLen >= IdSpace ->
            /\ call' = [call EXCEPT ![c].phase = "err"]
            /\ FetchAdd
       [] OTHER ->
            /\ call' = [call EXCEPT ![c] = [@ EXCEPT !.phase = "sending", !.id = nextId]]
            /\ FetchAdd
  /\ UNCHANGED <<chan, toBack, flush, manager, wire, served, taskVars, alive>>

AllocateUnsubId(c) ==
  /\ call[c].phase = "allocating"
  /\ call' = [call EXCEPT ![c] = [@ EXCEPT !.phase = "sending", !.unsub = nextId]]
  /\ FetchAdd
  /\ UNCHANGED <<chan, toBack, flush, manager, wire, served, taskVars, alive>>

MessageOf(c) ==
  Msg(CASE CallKind[c] = "call" -> "Request"
        [] CallKind[c] = "batch" -> "Batch"
        [] CallKind[c] = "notify" -> "Notification"
        [] CallKind[c] = "subscribe" -> "Subscribe"
        [] CallKind[c] = "register" -> "Register", c)

\* Mutant: an unbounded channel.
EnqueueUnbounded(c) ==
  /\ call[c].phase = "sending"
  /\ \/ /\ Closed
        /\ call' = [call EXCEPT ![c].phase = "disconnected"]
        /\ UNCHANGED toBack
     \/ /\ ~Closed
        /\ toBack' = Append(toBack, MessageOf(c))
        /\ call' = [call EXCEPT ![c].phase =
                      IF CallKind[c] = "notify" THEN "ok" ELSE "waiting"]
  /\ UNCHANGED <<nextId, chan, flush, manager, wire, served, taskVars, alive>>

\* to_back.send(..).await; a notification has nothing more to wait for.
Enqueue(c) ==
  /\ call[c].phase = "sending"
  /\ \/ /\ Closed
        /\ call' = [call EXCEPT ![c].phase = "disconnected"]
        /\ UNCHANGED toBack
     \/ /\ ~Closed /\ HasRoom
        /\ toBack' = Append(toBack, MessageOf(c))
        /\ call' = [call EXCEPT ![c].phase =
                      IF CallKind[c] = "notify" THEN "ok" ELSE "waiting"]
  /\ UNCHANGED <<nextId, chan, flush, manager, wire, served, taskVars, alive>>

\* The request timeout fires or the caller drops the future.  A subscription
\* receiver that sits in the oneshot is dropped with it.
Abandon(c) ==
  /\ call[c].phase \in {"sending", "waiting", "ready", "disconnected"}
  /\ call' = [call EXCEPT ![c].phase = "abandoned"]
  /\ chan' = [chan EXCEPT ![c].rx = FALSE]
  /\ UNCHANGED <<nextId, toBack, flush, manager, wire, served, taskVars, alive>>

\* The caller polls its oneshot: a value, or the sender is gone.
Observe(c) ==
  /\ \/ /\ call[c].phase = "ready"
        /\ call' = [call EXCEPT ![c].phase =
                      IF call[c].got = "err" THEN "err"
                      ELSE IF CallKind[c] \in {"subscribe", "register"} THEN "active"
                      ELSE "ok"]
     \/ /\ call[c].phase = "waiting" /\ ~SenderAlive(c)
        /\ call' = [call EXCEPT ![c].phase = "disconnected"]
  /\ UNCHANGED <<nextId, chan, toBack, flush, manager, wire, served, taskVars, alive>>

\* ErrorFromBack::read_error
ReadError(c) ==
  /\ call[c].phase = "disconnected" /\ Closed
  /\ call' = [call EXCEPT ![c].phase = IF reason THEN "restart" ELSE "noreason"]
  /\ UNCHANGED <<nextId, chan, toBack, flush, manager, wire, served, taskVars, alive>>

-----------------------------------------------------------------------------
(* Operations on a Subscription.                                           *)

CloseMessage(c) ==
  IF CallKind[c] = "register" THEN Msg("Unregister", c)
                              ELSE SubscriptionClosed(call[c].sid)

\* poll_next with a message in the buffer.
PollNext(c) ==
  /\ call[c].phase \in {"active", "draining"}
  /\ chan[c].len > 0
  /\ chan' = [chan EXCEPT ![c].len = @ - 1]
  /\ UNCHANGED <<nextId, call, toBack, flush, manager, wire, served, taskVars, alive>>

\* unsubscribe() returns once poll_next returns None.
StreamEnds(c) ==
  /\ call[c].phase = "draining"
  /\ chan[c].len = 0 /\ ~SinkAlive(c)
  /\ call' = [call EXCEPT ![c].phase = "closed"]
  /\ chan' = [chan EXCEPT ![c].rx = FALSE]
  /\ UNCHANGED <<nextId, toBack, flush, manager, wire, served, taskVars, alive>>

\* Drop: the message is lost when to_back is full or closed.
DropSubscription(c) ==
  /\ call[c].phase = "active"
  /\ call' = [call EXCEPT ![c].phase = "closed"]
  /\ chan' = [chan EXCEPT ![c].rx = FALSE]
  /\ toBack' = IF ~Closed /\ HasRoom THEN Append(toBack, CloseMessage(c)) ELSE toBack
  /\ UNCHANGED <<nextId, flush, manager, wire, served, taskVars, alive>>

Unsubscribe(c) ==
  /\ call[c].phase = "active"
  /\ call' = [call EXCEPT ![c].phase = "unsubscribing"]
  /\ UNCHANGED <<nextId, chan, toBack, flush, manager, wire, served, taskVars, alive>>

UnsubscribeEnqueue(c) ==
  /\ call[c].phase = "unsubscribing"
  /\ \/ Closed /\ UNCHANGED toBack
     \/ ~Closed /\ HasRoom /\ toBack' = Append(toBack, CloseMessage(c))
  /\ call' = [call EXCEPT ![c].phase = "draining"]
  /\ UNCHANGED <<nextId, chan, flush, manager, wire, served, taskVars, alive>>

\* The future of unsubscribe() is dropped: `kind` was taken, so Drop sends nothing.
AbandonUnsubscribe(c) ==
  /\ call[c].phase \in {"unsubscribing", "draining"}
  /\ call' = [call EXCEPT ![c].phase = "closed"]
  /\ chan' = [chan EXCEPT ![c].rx = FALSE]
  /\ UNCHANGED <<nextId, toBack, flush, manager, wire, served, taskVars, alive>>

\* Drop of the Client: no future borrows it any more.
DropClient ==
  /\ "drop" \in Faults /\ alive
  /\ \A c \in Senders : call[c].phase \notin InFlight
  /\ alive' = FALSE
  /\ UNCHANGED <<nextId, call, chan, toBack, flush, manager, wire, served, taskVars>>

-----------------------------------------------------------------------------
(* The send task.  The manager is updated and unlocked before the transport *)
(* is awaited; nobody can tell a request in the hands of the transport from *)
(* one the server has not looked at, so both are one step.                  *)

Receive(t) ==
  /\ sendTask = "run" /\ toBack # <<>> /\ Head(toBack).t = t
  /\ toBack' = Tail(toBack)

\* sender.send(..).await: on error the loop breaks and from_frontend is closed.
Transmit(w) ==
  \/ wire' = wire \cup {w} /\ UNCHANGED sendTask
  \/ "send" \in Faults /\ sendTask' = "err" /\ UNCHANGED wire

NothingToTransmit == UNCHANGED <<wire, sendTask>>

sendUnchanged == <<nextId, flush, served, readTask, closeCh, shutdown, reason, alive>>

SendRequest ==
  /\ Receive("Request")
  /\ LET c == Head(toBack).c
         res == insert_pending_call(manager, call[c].id, c)
     IN  /\ manager' = res.m
         /\ IF res.ok
            THEN Transmit(OnWire("call", call[c].id, c, None)) /\ UNCHANGED call
            ELSE call' = Deliver(c, "err", c) /\ NothingToTransmit
  /\ UNCHANGED <<chan, sendUnchanged>>

\* The unsubscribe request of process_single_response: no one waits for it.
SendRequestUnsub ==
  /\ Receive("RequestUnsub")
  /\ LET c == Head(toBack).c
         res == insert_pending_call(manager, call[c].unsub, None)
     IN  /\ manager' = res.m
         /\ IF res.ok
            THEN Transmit(OnWire("unsubscribe", call[c].unsub, c, Head(toBack).sid))
            ELSE NothingToTransmit
  /\ UNCHANGED <<call, chan, sendUnchanged>>

SendBatch ==
  /\ Receive("Batch")
  /\ LET c == Head(toBack).c
         res == insert_pending_batch(manager, BatchRange(c), c)
     IN  /\ manager' = res.m
         /\ IF res.ok
            THEN Transmit(OnWire("batch", call[c].id, c, None)) /\ UNCHANGED call
            ELSE call' = Deliver(c, "err", c) /\ NothingToTransmit
  /\ UNCHANGED <<chan, sendUnchanged>>

\* A notification leaves no trace in the manager and gets no answer.
SendNotification ==
  /\ Receive("Notification")
  /\ \/ UNCHANGED sendTask
     \/ "send" \in Faults /\ sendTask' = "err"
  /\ UNCHANGED <<call, chan, manager, wire, sendUnchanged>>

SendSubscribe ==
  /\ Receive("Subscribe")
  /\ LET c == Head(toBack).c
         res == insert_pending_subscription(manager, call[c].id, call[c].unsub, c)
     IN  /\ manager' = res.m
         /\ IF res.ok
            THEN Transmit(OnWire("subscribe", call[c].id, c, None)) /\ UNCHANGED call
            ELSE call' = Deliver(c, "err", c) /\ NothingToTransmit
  /\ UNCHANGED <<chan, sendUnchanged>>

\* SubscriptionClosed, from Drop, unsubscribe() or the read task.
SendSubscriptionClosed ==
  /\ Receive("SubscriptionClosed")
  /\ LET sid == Head(toBack).sid
         id == get_request_id_by_subscription_id(manager, sid)
     IN  IF id = None
         THEN NothingToTransmit /\ UNCHANGED manager
         ELSE LET res == unsubscribe(manager, id, sid)
                  e == manager.requests[id]
              IN  /\ manager' = res.m
                  /\ IF res.ok THEN Transmit(OnWire("unsubscribe", e.unsub, e.tx, sid))
                               ELSE NothingToTransmit
  /\ UNCHANGED <<call, chan, sendUnchanged>>

RegisterNotification ==
  /\ Receive("Register")
  /\ LET c == Head(toBack).c
         res == insert_notification_handler(manager, MethodOf[c], c)
     IN  /\ manager' = res.m
         /\ call' = Deliver(c, IF res.ok THEN "ok" ELSE "err", c)
         /\ chan' = IF res.ok THEN OpenChan(c) ELSE chan
  /\ NothingToTransmit
  /\ UNCHANGED sendUnchanged

UnregisterNotification ==
  /\ Receive("Unregister")
  /\ manager' = remove_notification_handler(manager, MethodOf[Head(toBack).c])
  /\ NothingToTransmit
  /\ UNCHANGED <<call, chan, sendUnchanged>>

HandleFrontend ==
  \/ SendRequest \/ SendRequestUnsub \/ SendBatch \/ SendNotification \/ SendSubscribe
  \/ SendSubscriptionClosed \/ RegisterNotification \/ UnregisterNotification

\* A ping could not be sent.
PingFails ==
  /\ "send" \in Faults /\ sendTask = "run"
  /\ sendTask' = "err"
  /\ UNCHANGED <<frontVars, toBack, flush, manager, wire, served,
                 readTask, closeCh, shutdown, reason, alive>>

\* close_tx.closed(), or every sender of to_back is gone.
SendTaskStops ==
  /\ sendTask = "run"
  /\ \/ shutdown = "done"
     \/ /\ toBack = <<>> /\ readTask = "done" /\ ~alive
        /\ \A c \in Senders : call[c].phase \notin {"active", "unsubscribing", "draining"}
  /\ sendTask' = "ok"
  /\ UNCHANGED <<frontVars, toBack, flush, manager, wire, served,
                 readTask, closeCh, shutdown, reason, alive>>

\* Mutant: the messages left in the channel are never dropped.
SendTaskReportsKeepingQueue ==
  /\ sendTask \in {"ok", "err"}
  /\ \/ shutdown = "done" /\ UNCHANGED closeCh
     \/ shutdown = "wait" /\ closeCh = "empty" /\ closeCh' = sendTask
  /\ sendTask' = "done"
  /\ UNCHANGED <<frontVars, toBack, flush, manager, wire, served, readTask, shutdown, reason, alive>>

\* sender.close().await; close_tx.send(res).await; the receiver is dropped.
SendTaskReports ==
  /\ sendTask \in {"ok", "err"}
  /\ \/ shutdown = "done" /\ UNCHANGED closeCh
     \/ shutdown = "wait" /\ closeCh = "empty" /\ closeCh' = sendTask
  /\ sendTask' = "done" /\ toBack' = <<>>
  /\ UNCHANGED <<frontVars, flush, manager, wire, served, readTask, shutdown, reason, alive>>

-----------------------------------------------------------------------------
(* The read task: one step per message of the server.                      *)

readUnchanged == <<nextId, toBack, sendTask, closeCh, shutdown, reason, alive>>

\* process_single_response for a pending method call: the caller of the entry,
\* if there is one, gets the response (a result or a JSON-RPC error).
RespondToCall(w) ==
  LET tx == manager.requests[w.id].tx
  IN  /\ manager' = complete_pending_call(manager, w.id).m
      /\ call' = IF tx = None THEN call ELSE Deliver(tx, "ok", w.c)
      /\ UNCHANGED <<chan, flush, readTask>>

\* Mutant: unsubscribes although the caller took the subscription.
RespondToSubscribeThenLeave(w, reply) ==
  LET e == manager.requests[w.id]
      m1 == complete_pending_subscription(manager, w.id).m
      res == insert_subscription(m1, w.id, e.unsub, reply, e.tx)
      taken == call[e.tx].phase = "waiting"
  IN  IF reply = None \/ ~res.ok
      THEN /\ manager' = m1
           /\ call' = Deliver(e.tx, "err", w.c)
           /\ UNCHANGED <<chan, flush, readTask>>
      ELSE /\ manager' = unsubscribe(res.m, w.id, reply).m
           /\ call' = IF taken THEN [Deliver(e.tx, "ok", w.c) EXCEPT ![e.tx].sid = reply]
                               ELSE call
           /\ chan' = OpenChan(e.tx)
           /\ flush' = flush \cup {RequestUnsub(e.tx, reply)}
           /\ UNCHANGED readTask

\* process_single_response for a pending subscription.
RespondToSubscribe(w, reply) ==
  LET e == manager.requests[w.id]
      m1 == complete_pending_subscription(manager, w.id).m
      res == insert_subscription(m1, w.id, e.unsub, reply, e.tx)
      taken == call[e.tx].phase = "waiting"
  IN  IF reply = None \/ ~res.ok
      THEN /\ manager' = m1
           /\ call' = Deliver(e.tx, "err", w.c)
           /\ UNCHANGED <<chan, flush, readTask>>
      ELSE /\ manager' = IF taken THEN res.m ELSE unsubscribe(res.m, w.id, reply).m
           /\ call' = IF taken THEN [Deliver(e.tx, "ok", w.c) EXCEPT ![e.tx].sid = reply]
                               ELSE call
           /\ chan' = OpenChan(e.tx)
           /\ flush' = IF taken THEN flush ELSE flush \cup {RequestUnsub(e.tx, reply)}
           /\ UNCHANGED readTask

\* What the server may answer to w: an error (None), a fresh subscription id
\* or one the client holds as active.
Replies(w) ==
  {None} \cup {s \in SubscriptionIds : /\ w.kind = "subscribe"
                                       /\ \/ served[s].st = "unused"
                                          \/ manager.subscriptions[s] # None}

\* The subscriptions of the server once it has answered w.
Serve(w, reply) ==
  IF w.kind = "subscribe" /\ reply # None /\ served[reply].st = "unused"
  THEN [served EXCEPT ![reply] = [c |-> w.c, st |-> "open"]]
  ELSE IF w.kind = "unsubscribe" THEN [served EXCEPT ![w.sid].st = "ended"]
  ELSE served

\* A response whose id is not pending ends the read task.
ReceiveResponse(w, reply) ==
  /\ readTask = "run" /\ w.kind # "batch"
  /\ wire' = wire \ {w}
  /\ served' = Serve(w, reply)
  /\ CASE request_status(manager, w.id) = "PendingMethodCall" -> RespondToCall(w)
       [] request_status(manager, w.id) = "PendingSubscription" -> RespondToSubscribe(w, reply)
       [] OTHER -> readTask' = "err" /\ UNCHANGED <<manager, call, chan, flush>>
  /\ UNCHANGED readUnchanged

\* An array with the answers to every call of a batch, in some order.
ReceiveBatchResponse(w) ==
  /\ readTask = "run" /\ w.kind = "batch"
  /\ wire' = wire \ {w}
  /\ LET range == <<w.id, w.id + BatchLen>>
         res == complete_pending_batch(manager, range)
     IN  /\ manager' = res.m
         /\ IF res.ok THEN call' = Deliver(manager.batches[range], "ok", w.c) /\ UNCHANGED readTask
                      ELSE readTask' = "err" /\ UNCHANGED call
  /\ UNCHANGED <<chan, flush, served, readUnchanged>>

\* SubscriptionSender::send: "closed", "full" or "sent".
Push(c) ==
  IF ~chan[c].rx THEN "closed" ELSE IF chan[c].len = SubCap THEN "full" ELSE "sent"

PushChan(c) ==
  CASE Push(c) = "closed" -> chan
    [] Push(c) = "full" -> [chan EXCEPT ![c].lagged = TRUE]
    [] Push(c) = "sent" -> [chan EXCEPT ![c].len = @ + 1]

\* Mutant: only a full sink asks for an unsubscription.
ReceiveNotificationForgetsClosed(s) ==
  /\ readTask = "run" /\ served[s].st = "open"
  /\ manager.subscriptions[s] # None
  /\ LET c == as_subscription_mut(manager, manager.subscriptions[s])
     IN  /\ c # None
         /\ chan' = PushChan(c)
         /\ flush' = IF Push(c) = "full" THEN flush \cup {SubscriptionClosed(s)} ELSE flush
  /\ UNCHANGED <<call, manager, wire, served, readTask, readUnchanged>>

\* process_subscription_response; a notification for a subscription that is not
\* active is ignored.  When the sink is closed or full the send task is asked to
\* unsubscribe.
ReceiveNotification(s) ==
  /\ readTask = "run" /\ served[s].st = "open"
  /\ manager.subscriptions[s] # None
  /\ LET c == as_subscription_mut(manager, manager.subscriptions[s])
     IN  /\ c # None
         /\ chan' = PushChan(c)
         /\ flush' = IF Push(c) = "sent" THEN flush ELSE flush \cup {SubscriptionClosed(s)}
  /\ UNCHANGED <<call, manager, wire, served, readTask, readUnchanged>>

\* process_subscription_close_response: the server ends the subscription.
ReceiveClose(s) ==
  /\ readTask = "run" /\ served[s].st = "open"
  /\ served' = [served EXCEPT ![s].st = "ended"]
  /\ manager' = IF manager.subscriptions[s] = None THEN manager
                ELSE remove_subscription(manager, manager.subscriptions[s], s).m
  /\ UNCHANGED <<call, chan, flush, wire, readTask, readUnchanged>>

\* process_notification
ReceiveMethodNotification(n) ==
  /\ readTask = "run"
  /\ as_notification_handler_mut(manager, n) # None
  /\ LET c == as_notification_handler_mut(manager, n)
     IN  /\ chan' = PushChan(c)
         /\ manager' = IF Push(c) = "sent" THEN manager
                       ELSE remove_notification_handler(manager, n)
  /\ UNCHANGED <<call, flush, wire, served, readTask, readUnchanged>>

\* The transport fails, a message cannot be parsed or answers nothing the client
\* asked, or the connection is inactive.
ReadFails ==
  /\ "read" \in Faults /\ readTask = "run"
  /\ readTask' = "err"
  /\ UNCHANGED <<call, chan, flush, manager, wire, served, readUnchanged>>

\* A future of pending_unsubscribes completes.
FlushUnsubscribe(msg) ==
  /\ readTask = "run"
  /\ \/ Closed /\ UNCHANGED toBack
     \/ ~Closed /\ HasRoom /\ toBack' = Append(toBack, msg)
  /\ flush' = flush \ {msg}
  /\ UNCHANGED <<frontVars, manager, wire, served, taskVars, alive>>

\* close_tx.closed()
ReadTaskStops ==
  /\ readTask = "run" /\ shutdown = "done"
  /\ readTask' = "ok"
  /\ UNCHANGED <<call, chan, flush, manager, wire, served, readUnchanged>>

ReadTaskReports ==
  /\ readTask \in {"ok", "err"}
  /\ \/ shutdown = "done" /\ UNCHANGED closeCh
     \/ shutdown = "wait" /\ closeCh = "empty" /\ closeCh' = readTask
  /\ readTask' = "done" /\ flush' = {}
  /\ UNCHANGED <<frontVars, toBack, manager, wire, served, sendTask, shutdown, reason, alive>>

-----------------------------------------------------------------------------
(* wait_for_shutdown; when it returns the close channel is closed.         *)

ShutdownOnResult ==
  /\ shutdown = "wait" /\ closeCh # "empty"
  /\ reason' = (reason \/ closeCh = "err")
  /\ shutdown' = "done" /\ closeCh' = "empty"
  /\ UNCHANGED <<frontVars, toBack, flush, manager, wire, served, sendTask, readTask, alive>>

ShutdownOnDrop ==
  /\ shutdown = "wait" /\ closeCh = "empty" /\ ~alive
  /\ shutdown' = "done"
  /\ UNCHANGED <<frontVars, toBack, flush, manager, wire, served,
                 sendTask, readTask, closeCh, reason, alive>>

-----------------------------------------------------------------------------
Frontend(c) ==
  \/ Start(c) \/ AllocateUnsubId(c) \/ Enqueue(c) \/ Abandon(c) \/ Observe(c) \/ ReadError(c)
  \/ PollNext(c) \/ StreamEnds(c) \/ DropSubscription(c) \/ Unsubscribe(c)
  \/ UnsubscribeEnqueue(c) \/ AbandonUnsubscribe(c)

SendTask == HandleFrontend \/ PingFails \/ SendTaskStops \/ SendTaskReports

ReadTask ==
  \/ \E w \in wire : \E reply \in Replies(w) : ReceiveResponse(w, reply)
  \/ \E w \in wire : ReceiveBatchResponse(w)
  \/ \E s \in SubscriptionIds : ReceiveNotification(s) \/ ReceiveClose(s)
  \/ \E n \in Methods : ReceiveMethodNotification(n)
  \/ \E msg \in flush : FlushUnsubscribe(msg)
  \/ ReadFails \/ ReadTaskStops \/ ReadTaskReports

Next ==
  \/ \E c \in Senders : Frontend(c)
  \/ DropClient
  \/ SendTask
  \/ ReadTask
  \/ ShutdownOnResult \/ ShutdownOnDrop

Spec == Init /\ [][Next]_vars

-----------------------------------------------------------------------------
(* Fairness.  Every task of the runtime is polled again when it can make   *)
(* progress.  A sender blocked on a full channel is served in FIFO order   *)
(* by tokio, so it does not starve while room keeps appearing (SF).  The   *)
(* server answers what it was asked.  Nothing forces a user to start,      *)
(* abandon, poll or drop an operation, nor a fault to happen.              *)

DrainNext(c) == call[c].phase = "draining" /\ PollNext(c)

FrontendFairness(c) ==
  /\ WF_vars(AllocateUnsubId(c)) /\ SF_vars(Enqueue(c))
  /\ WF_vars(Observe(c)) /\ WF_vars(ReadError(c))
  /\ SF_vars(UnsubscribeEnqueue(c)) /\ WF_vars(DrainNext(c)) /\ WF_vars(StreamEnds(c))

ServerAnswers(id) ==
  \E w \in wire :
    /\ w.id = id
    /\ ReceiveBatchResponse(w) \/ \E reply \in Replies(w) : ReceiveResponse(w, reply)

Fairness ==
  /\ \A c \in Senders : FrontendFairness(c)
  /\ \A id \in RequestIds : WF_vars(ServerAnswers(id))
  /\ WF_vars(HandleFrontend) /\ WF_vars(SendTaskStops) /\ WF_vars(SendTaskReports)
  /\ SF_vars(\E msg \in flush : FlushUnsubscribe(msg))
  /\ WF_vars(ReadTaskStops) /\ WF_vars(ReadTaskReports)
  /\ WF_vars(ShutdownOnResult) /\ WF_vars(ShutdownOnDrop)

FairSpec == Spec /\ Fairness

-----------------------------------------------------------------------------
(* Properties.                                                             *)

(* The two tables of the manager agree: a subscription id leads to a       *)
(* request of kind Subscription, and every such request has exactly one    *)
(* subscription id.  process_subscription_close_response relies on it      *)
(* (expect "Both request ID and sub ID in RequestManager; qed"), across    *)
(* every interleaving of the send and the read task.                       *)
SubscriptionTablesAgree == TablesAgree(manager)

(* While a subscription is pending or active, the id of its unsubscribe    *)
(* request stays reserved for it alone, so that no call started meanwhile  *)
(* (after the id counter wrapped) takes it and gets the acknowledgement.   *)
UnsubscribeIdsReserved == UnsubIdsReserved(manager)

\* The entry the answer to w is going to find.
Expected(w) ==
  /\ w.kind = "call" => manager.requests[w.id] = PendingMethodCall(w.c)
  /\ w.kind = "unsubscribe" => manager.requests[w.id] = PendingMethodCall(None)
  /\ w.kind = "subscribe" => /\ request_status(manager, w.id) = "PendingSubscription"
                             /\ manager.requests[w.id].tx = w.c
  /\ w.kind = "batch" => manager.batches[<<w.id, w.id + BatchLen>>] = w.c

(* Every request on the wire has its own entry in the manager, of the kind *)
(* its answer needs and with the sender of the operation that asked.       *)
(* Therefore no answer of a correct server is refused as NotPendingRequest *)
(* (which would end the connection), whatever was abandoned, dropped,      *)
(* closed or renumbered in the meantime.                                   *)
AnswersAreExpected ==
  /\ \A w \in wire : Expected(w)
  /\ \A v, w \in wire : v.id = w.id /\ (v.kind = "batch" <=> w.kind = "batch") => v = w

(* The value an operation finds in its oneshot belongs to the request it   *)
(* made, even when request ids have been reused.                           *)
ResponsesReachTheirCaller ==
  \A c \in Senders : call[c].got # "none" => call[c].from = c

(* The stream of a Subscription the user still holds ends only because it  *)
(* lagged, the server ended it, or the connection is shutting down: no     *)
(* other operation, late close message or failed subscribe takes its sink. *)
StreamsEndForAReason ==
  \A c \in Senders :
    CallKind[c] = "subscribe" /\ call[c].phase = "active" /\ ~SinkAlive(c) =>
      \/ chan[c].lagged
      \/ served[call[c].sid].st = "ended"
      \/ sendTask # "run" /\ readTask # "run"

(* A notification enters the stream of the operation the server opened the *)
(* subscription for, and of no other.                                      *)
NotificationsReachTheirStream ==
  [][\A c \in Senders :
       CallKind[c] = "subscribe" /\ chan'[c].len > chan[c].len =>
         \E s \in SubscriptionIds : served[s] = [c |-> c, st |-> "open"]]_vars

(* Every started operation returns, without any timeout, whether or not    *)
(* the connection fails on the way (its oneshot is answered or dropped).   *)
CallsComplete ==
  \A c \in Senders : call[c].phase \in InFlight ~> call[c].phase \notin InFlight

(* Subscription::unsubscribe returns: the manager drops the sink it drains. *)
UnsubscribeCompletes ==
  \A c \in Senders :
    call[c].phase \in {"unsubscribing", "draining"} ~> call[c].phase = "closed"

(* A dropped Subscription is unsubscribed at the server even when the      *)
(* message of its Drop was lost to a full channel, as long as notifications *)
(* keep arriving and the connection stays.                                 *)
DroppedIsUnsubscribed ==
  (\A s \in SubscriptionIds : WF_vars(ReceiveNotification(s))) =>
    \A s \in SubscriptionIds : \A c \in Senders :
      served[s] = [c |-> c, st |-> "open"] /\ call[c].phase = "closed"
        ~> served[s].st = "ended" \/ Closed

-----------------------------------------------------------------------------
(* The inductive invariant behind the safety properties above.             *)

\* The operation has all its request ids, and keeps them.
Settled(c) ==
  /\ call[c].phase \notin {"idle", "allocating"}
  /\ CallKind[c] \in {"call", "batch", "subscribe"} => call[c].id \in RequestIds
  /\ CallKind[c] = "batch" => call[c].id + BatchLen \in RequestIds
  /\ CallKind[c] = "subscribe" => call[c].unsub \in RequestIds

OperationsSettled ==
  \A c \in Senders :
    /\ call[c].phase \notin {"idle", "allocating", "err"} => Settled(c)
    /\ call[c].phase = "allocating" => CallKind[c] = "subscribe" /\ call[c].id \in RequestIds
    /\ /\ CallKind[c] = "subscribe"
       /\ \/ call[c].phase = "ready" /\ call[c].got # "err"
          \/ call[c].phase \in {"active", "unsubscribing"}
       => call[c].sid \in SubscriptionIds
    /\ call[c].phase \in {"active", "unsubscribing", "draining"}
         => CallKind[c] \in {"subscribe", "register"}

MessageSettled(msg) ==
  /\ msg.t # "SubscriptionClosed" => Settled(msg.c)
  /\ msg.t = "Request" => CallKind[msg.c] = "call"
  /\ msg.t = "Batch" => CallKind[msg.c] = "batch"
  /\ msg.t \in {"Subscribe", "RequestUnsub"} => CallKind[msg.c] = "subscribe"
  /\ msg.t = "Register" => CallKind[msg.c] = "register"

MessagesSettled ==
  /\ \A i \in 1 .. Len(toBack) : MessageSettled(toBack[i])
  /\ \A msg \in flush : MessageSettled(msg)

\* Whom the entries of the manager belong to.
EntriesOwned ==
  /\ \A id \in RequestIds :
       LET e == manager.requests[id]
       IN  /\ e.st = "PendingMethodCall" /\ e.tx # None => CallKind[e.tx] = "call"
           /\ HoldsUnsubId(manager, id) => CallKind[e.tx] = "subscribe" /\ Settled(e.tx)
  /\ \A b \in Ranges : manager.batches[b] # None => CallKind[manager.batches[b]] = "batch"
  /\ \A n \in Methods : manager.handlers[n] # None => CallKind[manager.handlers[n]] = "register"

\* An unsubscribe request on the wire was the last use of its id.
WireSettled ==
  /\ \A w \in wire : w.kind = "unsubscribe" => Unclaimed(manager, w.id) /\ w.sid \in SubscriptionIds
  /\ \A w \in wire : w.kind = "batch" => w.id + BatchLen \in RequestIds

IInv ==
  /\ TypeOK
  /\ Consistent(manager)
  /\ OperationsSettled
  /\ MessagesSettled
  /\ EntriesOwned
  /\ AnswersAreExpected
  /\ WireSettled
  /\ ResponsesReachTheirCaller

-----------------------------------------------------------------------------
(* The inductive invariant behind StreamsEndForAReason.                    *)

\* c has, or is about to be handed, a Subscription it has not given up.
Holds(c) ==
  /\ CallKind[c] = "subscribe"
  /\ \/ call[c].phase = "ready" /\ call[c].got # "err"
     \/ call[c].phase \in {"active", "unsubscribing"}

SinkOf(s) == manager.requests[manager.subscriptions[s]].tx

\* The sink a subscription id leads to is that of the operation the server
\* opened the subscription for.
SinksServed ==
  \A s \in SubscriptionIds :
    manager.subscriptions[s] # None => served[s].c = SinkOf(s) /\ served[s].st # "unused"

HoldersServed ==
  \A c \in Senders :
    Holds(c) =>
      /\ served[call[c].sid].c = c /\ served[call[c].sid].st # "unused"
      /\ chan[c].rx
      /\ \/ manager.subscriptions[call[c].sid] # None
         \/ chan[c].lagged
         \/ served[call[c].sid].st = "ended"

\* The send task has been, or will be, asked to leave subscription s.
Closing(s) ==
  \/ SubscriptionClosed(s) \in flush
  \/ \E i \in 1 .. Len(toBack) : toBack[i] = SubscriptionClosed(s)

Lagging(s) == \A c \in Senders : Holds(c) /\ call[c].sid = s => chan[c].lagged

ClosesJustified ==
  \A s \in SubscriptionIds : Closing(s) => served[s].st # "unused" /\ Lagging(s)

\* Phases of an operation that has asked and was not answered.
Unanswered == {"waiting", "abandoned", "disconnected", "restart", "noreason"}

\* The entry of request id waits for the answer to the subscribe of c.
Asking(id, c) ==
  request_status(manager, id) = "PendingSubscription" /\ manager.requests[id].tx = c

\* A subscribe is asked once and answered once: it is one message in to_back,
\* or one pending entry, until the answer.
SubscribesOnce ==
  /\ \A i \in 1 .. Len(toBack) :
       toBack[i].t = "Subscribe" =>
         /\ call[toBack[i].c].phase \in Unanswered
         /\ \A id \in RequestIds : ~Asking(id, toBack[i].c)
  /\ \A i, j \in 1 .. Len(toBack) :
       toBack[i].t = "Subscribe" /\ toBack[i] = toBack[j] => i = j
  /\ \A id \in RequestIds : \A c \in Senders :
       Asking(id, c) => call[c].phase \in Unanswered /\ call[c].id = id
  /\ \A msg \in flush : msg.t # "Subscribe"

StreamInv == SinksServed /\ HoldersServed /\ ClosesJustified /\ SubscribesOnce

-----------------------------------------------------------------------------
(* Statements of the repository's comments and docs that the code does not *)
(* keep.                                                                   *)

(* "These "unsubscription" occurs if a subscription gets dropped by        *)
(* frontend before ack:ed [...] these needs to be sent to the server"      *)
(* (read_task).  The unsubscribe request of a subscription abandoned       *)
(* before its acknowledgement reaches the server.                          *)
AbandonedIsUnsubscribed ==
  \A s \in SubscriptionIds : \A c \in Senders :
    served[s] = [c |-> c, st |-> "open"] /\ call[c].phase = "abandoned"
      ~> served[s].st = "ended" \/ Closed

(* "When the background task is closed the error is written to             *)
(* `disconnect_reason`." (read_error).  A caller that finds the connection *)
(* closed gets the reason.                                                 *)
DisconnectReasonIsWritten ==
  \A c \in Senders : call[c].phase # "noreason"

(* "Mark the request ID as "pending unsubscription" which will be resolved *)
(* once the unsubscribe call has been acknowledged." (unsubscribe).  The   *)
(* request id of a subscription the server has ended is free again once    *)
(* its unsubscribe id is.                                                  *)
UnsubscribedIdIsReleased ==
  \A c \in Senders :
    /\ CallKind[c] = "subscribe" /\ call[c].phase = "closed"
    /\ served[call[c].sid].st = "ended"
    /\ manager.requests[call[c].unsub] = Vacant
    => manager.requests[call[c].id] = Vacant

(* "The connection was closed." (SubscriptionCloseReason::ConnectionClosed, *)
(* what close_reason reports for a stream that ended without lagging).     *)
(* A registered handler that did not lag ends only with the connection.    *)
HandlerEndsWithConnection ==
  \A c \in Senders :
    CallKind[c] = "register" /\ call[c].phase = "active" /\ ~SinkAlive(c) /\ ~chan[c].lagged
      => Closed
=============================================================================
