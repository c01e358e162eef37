---------------------------- MODULE WsConnection ----------------------------
(***************************************************************************)
(* One WebSocket connection of the server: the receive loop of             *)
(* background_task, one spawned task per message, the bounded queue of     *)
(* outgoing messages (`tx`/`rx`), the send task, and the subscriptions     *)
(* that register_subscription starts on the connection.                    *)
(*                                                                         *)
(* The peer and the user's methods and callbacks are the environment: the  *)
(* peer sends each request of Requests at most once, a method returns and  *)
(* a subscription callback accepts, rejects or drops its pending sink,     *)
(* sends, clones and drops sinks in any order.                             *)
(***************************************************************************)
EXTENDS Naturals, Sequences, FiniteSets, Functions

CONSTANTS
    Requests,       \* the messages of the peer and the entries of its batches
    Kind,           \* what each of them is
    Entries,        \* the entries of each batch, in order; <<>> for the others
    Target,         \* the subscribe request whose id an unsubscribe names
    SubIds,         \* the ids the IdProvider may hand out
    BufferCap,      \* message_buffer_capacity
    MaxSubs,        \* max_subscriptions_per_connection
    MaxBatch,       \* BatchRequestConfig::Limit
    MaxFailures,    \* PingConfig::max_failures
    MaxSinks,       \* bound on the clones of one SubscriptionSink
    Policy,         \* MessageCryptoErrorPolicy
    Faults,         \* which faults of the peer and of the encryption happen
    None

Kinds == {"call", "notification", "subscribe", "unsubscribe", "batch",
          "invalid", "toolarge", "garbled"}

(* A request is one message or one entry of one batch, and a batch inside  *)
(* a batch is an invalid entry.                                            *)
ASSUME ConnectionAssumption ==
    /\ IsFiniteSet(Requests)
    /\ Kind \in [Requests -> Kinds]
    /\ Entries \in [Requests -> Seq(Requests)]
    /\ Target \in [Requests -> Requests]
    /\ {BufferCap, MaxFailures, MaxSinks} \subseteq Nat \ {0}
    /\ {MaxSubs, MaxBatch} \subseteq Nat
    /\ Policy \in {"SendError", "CloseConnection", "SkipMessage"}
    /\ Faults \subseteq {"peer", "inactive", "encrypt"}
    /\ None \notin Requests \cup SubIds
    /\ \A b \in Requests : \A i \in DOMAIN Entries[b] :
          /\ Kind[b] = "batch"
          /\ Kind[Entries[b][i]] \in {"call", "notification", "subscribe", "unsubscribe", "invalid"}
    /\ \A a, b \in Requests : \A i \in DOMAIN Entries[a], j \in DOMAIN Entries[b] :
          Entries[a][i] = Entries[b][j] => a = b /\ i = j

VARIABLES
    stop,         \* ServerHandle::stop was called (or the handle dropped)
    peer,         \* "open" until the peer's side of the socket is gone
    recv,         \* the receive loop and the shutdown that follows it
    missed,       \* missed_pings
    conn_tx,      \* the send task was told to stop
    sender,       \* the send task
    queue,        \* the outgoing messages between `tx` and `rx`
    task,         \* the spawned task of each request, or the state of a batch entry
    pos,          \* the entry a batch works on
    answered,     \* how often a reply to a message entered the queue
    delivered,    \* the messages whose reply was written to the socket
    sub,          \* the subscription each subscribe request started
    subscribers   \* the table of active subscriptions: id -> subscribe request

vars == <<stop, peer, recv, missed, conn_tx, sender, queue, task, pos,
          answered, delivered, sub, subscribers>>
connVars == <<stop, peer, recv, missed, conn_tx, sender>>
taskVars == <<task, pos>>
subVars  == <<sub, subscribers>>

(* A subscription: `cb` is the task that runs the callback, `reply` the    *)
(* oneshot `subscribe` that resolves the call, `accepted` the oneshot from *)
(* the call to the callback's task.  `late` counts the notifications that  *)
(* entered the queue after the subscription had left the table.            *)
NoSub == [cb |-> "none", id |-> None, permit |-> FALSE, reply |-> "none",
          accepted |-> FALSE, sinks |-> 0, sending |-> 0, late |-> 0]

Init ==
    /\ stop = FALSE /\ conn_tx = FALSE
    /\ peer = "open" /\ recv = "run" /\ missed = 0
    /\ sender = "run" /\ queue = <<>>
    /\ task = [r \in Requests |-> "idle"]
    /\ pos = [r \in Requests |-> 1]
    /\ answered = [r \in Requests |-> 0]
    /\ delivered = {}
    /\ sub = [r \in Requests |-> NoSub]
    /\ subscribers = [i \in SubIds |-> None]

-----------------------------------------------------------------------------
(* MethodSink: a send waits for room and fails once the receiver is closed. *)

IsClosed == sender = "done"
HasRoom == Len(queue) < BufferCap

Enqueue(m) == ~IsClosed /\ HasRoom /\ queue' = Append(queue, m)

InBatch(r) == \E b \in Requests : r \in Range(Entries[b])

(* The entries of a batch that its response answers. *)
Calls(b) == {r \in Range(Entries[b]) : Kind[r] # "notification"}

(* What a message replies to: a response to a batch answers its calls, an  *)
(* error ("error") has no id of a request and replies to the message only. *)
AnsweredBy(m) ==
    CASE m.t = "answer" -> {m.r} \cup Calls(m.r)
      [] m.t = "error"  -> {m.r}
      [] OTHER          -> {}

Count(rs) == answered' = [r \in Requests |->
                            answered[r] + IF r \in rs THEN 1 ELSE 0]

Phase(r, p) == task' = [task EXCEPT ![r] = p]

(* The permits of BoundedSubscriptions that are in use. *)
PermitsInUse == {s \in Requests : sub[s].permit}

-----------------------------------------------------------------------------
(* The receive loop *)

(* The peer sends its messages in any order, an unsubscribe only for an id *)
(* that it was told.                                                       *)
Knows(r) == Kind[r] = "unsubscribe" =>
                /\ Target[r] \in delivered
                /\ sub[Target[r]].reply # "err"

Receive(r) ==
    /\ recv = "run" /\ peer = "open"
    /\ task[r] = "idle" /\ ~InBatch(r) /\ Kind[r] # "toolarge" /\ Knows(r)
    /\ Phase(r, "spawned")
    /\ UNCHANGED <<connVars, queue, pos, answered, delivered, subVars>>

(* A message over the size limit: the loop itself sends the error and      *)
(* reads nothing more until that is queued.  In a graceful shutdown it is  *)
(* an error of the stream, which ends the wait for pending calls.          *)
ReceiveTooLarge(r) ==
    /\ recv \in {"run", "graceful"} /\ peer = "open"
    /\ task[r] = "idle" /\ ~InBatch(r) /\ Kind[r] = "toolarge"
    /\ \/ /\ recv = "run"
          /\ recv' = "toolarge" /\ Phase(r, "toolarge")
       \/ /\ recv = "graceful"
          /\ recv' = "closing" /\ Phase(r, "done")
    /\ UNCHANGED <<stop, peer, missed, conn_tx, sender, queue, pos, answered,
                   delivered, subVars>>

ReplyTooLarge(r) ==
    /\ recv = "toolarge" /\ task[r] = "toolarge"
    /\ LET m == [t |-> "error", r |-> r] IN
       \/ Enqueue(m) /\ Count(AnsweredBy(m)) /\ recv' = "run"
       \/ IsClosed /\ recv' = "closing" /\ UNCHANGED <<queue, answered>>
    /\ Phase(r, "done")
    /\ UNCHANGED <<stop, peer, missed, conn_tx, sender, pos, delivered, subVars>>

(* try_recv ends: the peer closed, or it was inactive once too often. *)
ConnectionClosed ==
    /\ recv = "run" /\ peer = "gone"
    /\ recv' = "closing"
    /\ UNCHANGED <<stop, peer, missed, conn_tx, sender, queue, taskVars,
                   answered, delivered, subVars>>

MissedPing ==
    /\ recv = "run" /\ "inactive" \in Faults
    /\ missed' = missed + 1
    /\ recv' = IF missed' >= MaxFailures THEN "closing" ELSE "run"
    /\ UNCHANGED <<stop, peer, conn_tx, sender, queue, taskVars, answered,
                   delivered, subVars>>

Stopped ==
    /\ recv = "run" /\ stop
    /\ recv' = "graceful"
    /\ UNCHANGED <<stop, peer, missed, conn_tx, sender, queue, taskVars,
                   answered, delivered, subVars>>

(* graceful_shutdown: every task has dropped its clone of the service, or  *)
(* the stream ended, or the send task is gone.                             *)
NoPendingMethods == \A r \in Requests : InBatch(r) \/ task[r] \in {"idle", "waiting", "done"}

NoPendingCalls == \A r \in Requests : InBatch(r) \/ task[r] \in {"idle", "done"}

PendingCallsCompleted ==
    /\ recv = "graceful"
    /\ NoPendingCalls \/ peer = "gone" \/ IsClosed
    /\ recv' = "closing"
    /\ UNCHANGED <<stop, peer, missed, conn_tx, sender, queue, taskVars,
                   answered, delivered, subVars>>

CloseSendTaskSilently ==
    /\ recv = "closing" /\ recv' = "joining"
    /\ UNCHANGED <<stop, peer, missed, conn_tx, sender, queue, taskVars, answered,
                   delivered, subVars>>

(* conn_tx.send(()), then the loop joins the send task. *)
CloseSendTask ==
    /\ recv = "closing"
    /\ recv' = "joining" /\ conn_tx' = TRUE
    /\ UNCHANGED <<stop, peer, missed, sender, queue, taskVars, answered,
                   delivered, subVars>>

Finish ==
    /\ recv = "joining" /\ sender = "done"
    /\ recv' = "done"
    /\ UNCHANGED <<stop, peer, missed, conn_tx, sender, queue, taskVars,
                   answered, delivered, subVars>>

-----------------------------------------------------------------------------
(* The spawned task of a message *)

(* RpcService::call for a subscription: a permit, an id and the callback's *)
(* task, or the error that there are too many subscriptions.               *)
Subscribe(r) ==
    /\ Kind[r] = "subscribe"
    /\ \/ /\ Cardinality(PermitsInUse) < MaxSubs
          /\ \E i \in SubIds :
                sub' = [sub EXCEPT ![r].cb = "pending",
                                   ![r].id = i,
                                   ![r].permit = TRUE]
          /\ Phase(r, "waiting")
       \/ /\ Cardinality(PermitsInUse) >= MaxSubs
          /\ Phase(r, "ready")
          /\ UNCHANGED sub
    /\ UNCHANGED subscribers

(* The unsubscribe callback removes the entry of the id, if there is one. *)
Unsubscribe(r) ==
    /\ Kind[r] = "unsubscribe"
    /\ subscribers' = [i \in SubIds |-> IF i = sub[Target[r]].id THEN None
                                                              ELSE subscribers[i]]
    /\ Phase(r, "ready")
    /\ UNCHANGED sub

(* RpcService::call: the methods of the module; an invalid entry of a      *)
(* batch is an error at once.                                              *)
Call(r) ==
    \/ Subscribe(r)
    \/ Unsubscribe(r)
    \/ Kind[r] = "call" /\ Phase(r, "calling") /\ UNCHANGED subVars
    \/ Kind[r] \in {"invalid", "notification"} /\ Phase(r, "ready") /\ UNCHANGED subVars

(* The task decrypts, parses and dispatches its message. *)
Dispatch(r) ==
    /\ task[r] = "spawned"
    /\ \/ Kind[r] \in {"call", "subscribe", "unsubscribe"} /\ Call(r)
       \/ Kind[r] = "notification" /\ Phase(r, "done") /\ UNCHANGED subVars
       \/ Kind[r] = "invalid" /\ Phase(r, "error") /\ UNCHANGED subVars
       \/ /\ Kind[r] = "garbled"
          /\ Phase(r, IF Policy = "SendError" THEN "error" ELSE "done")
          /\ UNCHANGED subVars
       \/ /\ Kind[r] = "batch"
          /\ Phase(r, IF Len(Entries[r]) > MaxBatch THEN "error" ELSE "batching")
          /\ UNCHANGED subVars
    /\ UNCHANGED <<connVars, queue, pos, answered, delivered>>

(* A method of the user returns. *)
MethodReturns(r) ==
    /\ task[r] = "calling"
    /\ Phase(r, "ready")
    /\ UNCHANGED <<connVars, queue, pos, answered, delivered, subVars>>

AlwaysRespond(r) ==
    /\ task[r] = "waiting" /\ sub[r].reply # "none"
    /\ sub' = [sub EXCEPT ![r].accepted = (sub[r].reply = "ok")]
    /\ Phase(r, "ready")
    /\ UNCHANGED <<connVars, queue, pos, answered, delivered, subscribers>>

(* The oneshot of a subscription resolves.  The response of an accepted or *)
(* rejected subscription was sent by the callback: the task of a single    *)
(* call is done.  A dropped sink is answered by the task.                  *)
SubscriptionResolves(r) ==
    /\ task[r] = "waiting" /\ sub[r].reply # "none"
    /\ sub' = [sub EXCEPT ![r].accepted = (sub[r].reply = "ok")]
    /\ Phase(r, IF InBatch(r) \/ sub[r].reply = "dropped" THEN "ready" ELSE "done")
    /\ UNCHANGED <<connVars, queue, pos, answered, delivered, subscribers>>

(* RpcService::batch works through its entries one after the other. *)
BatchCall(b) ==
    /\ task[b] = "batching" /\ pos[b] <= Len(Entries[b])
    /\ task[Entries[b][pos[b]]] = "idle"
    /\ Call(Entries[b][pos[b]])
    /\ UNCHANGED <<connVars, queue, pos, answered, delivered>>

BatchAppendGoesOn(b) ==
    /\ task[b] = "batching" /\ pos[b] <= Len(Entries[b])
    /\ LET r == Entries[b][pos[b]]  m == [t |-> "error", r |-> b] IN
       /\ task[r] = "ready"
       /\ Phase(r, "done")
       /\ \/ UNCHANGED <<queue, answered>>
          \/ Kind[r] # "notification" /\ Enqueue(m) /\ Count(AnsweredBy(m))
    /\ pos' = [pos EXCEPT ![b] = @ + 1]
    /\ UNCHANGED <<connVars, delivered, subVars>>

(* An entry is appended, or the batch is over the response limit and ends  *)
(* with an error, its other entries untouched.                             *)
BatchAppend(b) ==
    /\ task[b] = "batching" /\ pos[b] <= Len(Entries[b])
    /\ LET r == Entries[b][pos[b]] IN
       /\ task[r] = "ready"
       /\ \/ /\ task' = [task EXCEPT ![r] = "done"]
             /\ pos' = [pos EXCEPT ![b] = @ + 1]
          \/ /\ Kind[r] # "notification"
             /\ task' = [task EXCEPT ![r] = "done", ![b] = "error"]
             /\ UNCHANGED pos
    /\ UNCHANGED <<connVars, queue, answered, delivered, subVars>>

(* A batch of notifications has no response; an empty one is an error. *)
BatchFinish(b) ==
    /\ task[b] = "batching" /\ pos[b] > Len(Entries[b])
    /\ Phase(b, CASE Calls(b) # {}      -> "respond"
                  [] Entries[b] = <<>>  -> "error"
                  [] OTHER              -> "done")
    /\ UNCHANGED <<connVars, queue, pos, answered, delivered, subVars>>

(* The task sends its response, or finds the connection closed. *)
Respond(r) ==
    /\ \/ task[r] \in {"respond", "error"}
       \/ task[r] = "ready" /\ ~InBatch(r)
    /\ LET m == [t |-> IF task[r] = "error" THEN "error" ELSE "answer", r |-> r] IN
       \/ Enqueue(m) /\ Count(AnsweredBy(m))
       \/ IsClosed /\ UNCHANGED <<queue, answered>>
    /\ Phase(r, "done")
    /\ UNCHANGED <<connVars, pos, delivered, subVars>>

-----------------------------------------------------------------------------
(* The callback of a subscription and its sinks *)

(* accept and reject first send the response. *)
Decide(s) ==
    /\ sub[s].cb = "pending"
    /\ \E c \in {"accepting", "rejecting"} : sub' = [sub EXCEPT ![s].cb = c]
    /\ UNCHANGED <<connVars, queue, taskVars, answered, delivered, subscribers>>

(* The pending sink is dropped: by the callback, or by an accept that      *)
(* found the connection closed.                                            *)
DropPending(s) ==
    /\ \/ sub[s].cb = "pending"
       \/ sub[s].cb = "accepting" /\ IsClosed
    /\ sub' = [sub EXCEPT ![s].cb = "ended",
                          ![s].permit = FALSE,
                          ![s].reply = "dropped"]
    /\ UNCHANGED <<connVars, queue, taskVars, answered, delivered, subscribers>>

AcceptSend(s) ==
    /\ sub[s].cb = "accepting"
    /\ Enqueue([t |-> "answer", r |-> s]) /\ Count({s})
    /\ sub' = [sub EXCEPT ![s].cb = "accepted"]
    /\ UNCHANGED <<connVars, taskVars, delivered, subscribers>>

InsertBeforeSend(s) ==
    /\ sub[s].cb \in {"accepting", "accepted"}
    /\ subscribers' = [subscribers EXCEPT ![sub[s].id] = s]
    /\ sub' = [sub EXCEPT ![s].cb = "running", ![s].reply = "ok", ![s].sinks = 1]
    /\ UNCHANGED <<connVars, queue, taskVars, answered, delivered>>

(* The rest of accept: resolve the call, enter the table, build the sink.  *)
(* The send task and the peer can run before it.                           *)
AcceptInsert(s) ==
    /\ sub[s].cb = "accepted"
    /\ subscribers' = [subscribers EXCEPT ![sub[s].id] = s]
    /\ sub' = [sub EXCEPT ![s].cb = "running", ![s].reply = "ok", ![s].sinks = 1]
    /\ UNCHANGED <<connVars, queue, taskVars, answered, delivered>>

RejectSend(s) ==
    /\ sub[s].cb = "rejecting"
    /\ \/ Enqueue([t |-> "answer", r |-> s]) /\ Count({s})
       \/ IsClosed /\ UNCHANGED <<queue, answered>>
    /\ sub' = [sub EXCEPT ![s].cb = "ended",
                          ![s].permit = FALSE,
                          ![s].reply = "err"]
    /\ UNCHANGED <<connVars, taskVars, delivered, subscribers>>

(* is_active_subscription: the entry, which owns the receiver, is there. *)
IsActive(s) == sub[s].id # None /\ subscribers[sub[s].id] = s

SendUnchecked(s) ==
    /\ sub[s].sending < sub[s].sinks /\ ~IsClosed
    /\ sub' = [sub EXCEPT ![s].sending = @ + 1]
    /\ UNCHANGED <<connVars, queue, taskVars, answered, delivered, subscribers>>

(* SubscriptionSink::send: the check, then the send that may wait. *)
SendStart(s) ==
    /\ sub[s].sending < sub[s].sinks
    /\ ~IsClosed /\ IsActive(s)
    /\ sub' = [sub EXCEPT ![s].sending = @ + 1]
    /\ UNCHANGED <<connVars, queue, taskVars, answered, delivered, subscribers>>

(* ... is queued, or fails: the connection is closed, the time is over     *)
(* (send_timeout), the queue is full (try_send) or the future is dropped.  *)
SendEnd(s) ==
    /\ sub[s].sending > 0
    /\ \/ /\ Enqueue([t |-> "notif", r |-> s])
          /\ sub' = [sub EXCEPT ![s].sending = @ - 1,
                                ![s].late = @ + IF IsActive(s) THEN 0 ELSE 1]
       \/ /\ IsClosed \/ ~HasRoom
          /\ sub' = [sub EXCEPT ![s].sending = @ - 1]
          /\ UNCHANGED queue
    /\ UNCHANGED <<connVars, taskVars, answered, delivered, subscribers>>

CloneSink(s) ==
    /\ sub[s].sinks \in 1 .. (MaxSinks - 1)
    /\ sub' = [sub EXCEPT ![s].sinks = @ + 1]
    /\ UNCHANGED <<connVars, queue, taskVars, answered, delivered, subscribers>>

DropSinkOfOpen(s) ==
    /\ sub[s].sinks > sub[s].sending
    /\ sub' = [sub EXCEPT ![s].sinks = @ - 1, ![s].permit = sub[s].sinks > 1]
    /\ subscribers' = IF IsActive(s) /\ ~IsClosed
                      THEN [subscribers EXCEPT ![sub[s].id] = None] ELSE subscribers
    /\ UNCHANGED <<connVars, queue, taskVars, answered, delivered>>

(* Drop for SubscriptionSink: the first clone to go removes the entry, the *)
(* last one gives the permit back.                                         *)
DropSink(s) ==
    /\ sub[s].sinks > sub[s].sending
    /\ sub' = [sub EXCEPT ![s].sinks = @ - 1, ![s].permit = sub[s].sinks > 1]
    /\ subscribers' = IF IsActive(s) THEN [subscribers EXCEPT ![sub[s].id] = None]
                                     ELSE subscribers
    /\ UNCHANGED <<connVars, queue, taskVars, answered, delivered>>

CallbackReturns(s) ==
    /\ sub[s].cb = "running"
    /\ sub' = [sub EXCEPT ![s].cb = "returned"]
    /\ UNCHANGED <<connVars, queue, taskVars, answered, delivered, subscribers>>

(* try_join: the callback returned and the call was resolved.  Its result  *)
(* is a last message for the subscription or none.                         *)
JoinCallback(s) ==
    /\ sub[s].cb = "returned" /\ sub[s].accepted
    /\ \E c \in {"closing", "ended"} : sub' = [sub EXCEPT ![s].cb = c]
    /\ UNCHANGED <<connVars, queue, taskVars, answered, delivered, subscribers>>

CloseSend(s) ==
    /\ sub[s].cb = "closing"
    /\ \/ Enqueue([t |-> "close", r |-> s])
       \/ IsClosed /\ UNCHANGED queue
    /\ sub' = [sub EXCEPT ![s].cb = "ended"]
    /\ UNCHANGED <<connVars, taskVars, answered, delivered, subscribers>>

-----------------------------------------------------------------------------
(* The send task *)

(* A message is taken from the queue and written.  A message that cannot   *)
(* be encrypted is replaced by an error or ends the task.                  *)
SendMessage ==
    /\ sender = "run" /\ queue # <<>>
    /\ queue' = Tail(queue)
    /\ \/ /\ peer = "open"
          /\ delivered' = delivered \cup AnsweredBy(Head(queue))
          /\ UNCHANGED sender
       \/ /\ peer = "gone"
          /\ sender' \in {"run", "closing"}
          /\ UNCHANGED delivered
       \/ /\ "encrypt" \in Faults
          /\ sender' = IF Policy = "SendError" THEN "run" ELSE "closing"
          /\ UNCHANGED delivered
    /\ UNCHANGED <<stop, peer, recv, missed, conn_tx, taskVars, answered, subVars>>

StopAtOnce ==
    /\ sender = "run" /\ conn_tx
    /\ sender' = "closing"
    /\ UNCHANGED <<stop, peer, recv, missed, conn_tx, queue, taskVars, answered,
                   delivered, subVars>>

(* select polls the queue first: the stop message and the ping are only    *)
(* looked at when the queue is empty.                                      *)
StopSendTask ==
    /\ sender = "run" /\ queue = <<>>
    /\ conn_tx
    /\ sender' = "closing"
    /\ UNCHANGED <<stop, peer, recv, missed, conn_tx, queue, taskVars, answered,
                   delivered, subVars>>

PingFails ==
    /\ sender = "run" /\ queue = <<>> /\ peer = "gone"
    /\ sender' = "closing"
    /\ UNCHANGED <<stop, peer, recv, missed, conn_tx, queue, taskVars, answered,
                   delivered, subVars>>

(* The close message was sent: close the queue and drop what is in it. *)
CloseQueue ==
    /\ sender = "closing"
    /\ sender' = "done" /\ queue' = <<>>
    /\ UNCHANGED <<stop, peer, recv, missed, conn_tx, taskVars, answered,
                   delivered, subVars>>

-----------------------------------------------------------------------------
(* The environment *)

StopServer ==
    /\ ~stop /\ stop' = TRUE
    /\ UNCHANGED <<peer, recv, missed, conn_tx, sender, queue, taskVars,
                   answered, delivered, subVars>>

(* The peer closes or vanishes; it also closes after our close message. *)
PeerCloses ==
    /\ peer = "open" /\ ("peer" \in Faults \/ sender = "done")
    /\ peer' = "gone"
    /\ UNCHANGED <<stop, recv, missed, conn_tx, sender, queue, taskVars,
                   answered, delivered, subVars>>

RecvStep ==
    \/ ConnectionClosed \/ Stopped \/ PendingCallsCompleted
    \/ CloseSendTask \/ Finish \/ \E r \in Requests : ReplyTooLarge(r)

SenderStep == SendMessage \/ StopSendTask \/ CloseQueue

TaskStep(r) ==
    \/ Dispatch(r) \/ MethodReturns(r) \/ SubscriptionResolves(r)
    \/ BatchCall(r) \/ BatchAppend(r) \/ BatchFinish(r) \/ Respond(r)

(* What a callback does by itself ... *)
CallbackStep(s) ==
    \/ Decide(s) \/ DropPending(s) \/ AcceptSend(s) \/ AcceptInsert(s)
    \/ RejectSend(s) \/ JoinCallback(s) \/ CloseSend(s)

(* ... and what it does when it likes. *)
CallbackChoice(s) ==
    SendStart(s) \/ SendEnd(s) \/ CloneSink(s) \/ DropSink(s) \/ CallbackReturns(s)

Next ==
    \/ RecvStep \/ SenderStep \/ PingFails \/ MissedPing \/ StopServer \/ PeerCloses
    \/ \E r \in Requests : Receive(r) \/ ReceiveTooLarge(r) \/ TaskStep(r)
                           \/ CallbackStep(r) \/ CallbackChoice(r)

Spec == Init /\ [][Next]_vars

(* Tasks are polled while they can go on, and a full queue serves its      *)
(* waiting senders in order (SF).  A method returns, a callback decides    *)
(* about its pending sink, and the user lets go of a sink that is closed.  *)
Fairness ==
    /\ SF_vars(RecvStep) /\ WF_vars(SenderStep)
    /\ \A r \in Requests : SF_vars(TaskStep(r))
    /\ \A s \in {r \in Requests : Kind[r] = "subscribe"} :
          /\ SF_vars(CallbackStep(s)) /\ SF_vars(SendEnd(s))
          /\ WF_vars((IsClosed \/ ~IsActive(s)) /\ DropSink(s))
          /\ WF_vars((IsClosed \/ ~IsActive(s)) /\ CallbackReturns(s))

FairSpec == Spec /\ Fairness

(* A send task that never misses a moment at which its queue is empty. *)
EagerSpec == FairSpec /\ SF_vars(StopSendTask)

-----------------------------------------------------------------------------
(* Properties *)

(* Every message gets at most one reply: a subscription is answered by     *)
(* accept or reject or by the task of its call, never by two of them, and  *)
(* a batch by its response or by an error.                                 *)
AnsweredAtMostOnce == \A r \in Requests : answered[r] <= 1

(* The peer learns the id of a subscription before the first message about *)
(* it: accept queues the response before a sink exists.                    *)
AnswerPrecedesNotifications ==
    ("encrypt" \notin Faults /\ sender = "run" /\ peer = "open") =>
        \A k \in 1 .. Len(queue) : queue[k].t \in {"notif", "close"} =>
            \/ queue[k].r \in delivered
            \/ \E j \in 1 .. (k - 1) : queue[k].r \in AnsweredBy(queue[j])

(* An entry of the table belongs to a subscription that still has a sink   *)
(* and a permit: no entry outlives the last sink, and there are never more *)
(* active subscriptions than max_subscriptions_per_connection.             *)
EntriesHaveSinks ==
    /\ \A i \in SubIds : subscribers[i] # None =>
          LET s == sub[subscribers[i]] IN s.id = i /\ s.sinks > 0 /\ s.permit
    /\ Cardinality({i \in SubIds : subscribers[i] # None}) <= MaxSubs

(* After a subscription has left the table (unsubscribed, or a clone of    *)
(* its sink dropped) each sink can still queue the one message whose send  *)
(* had begun, and no other.                                                *)
LateNotificationsAreBounded == \A s \in Requests : sub[s].late <= MaxSinks

(* What a message of the peer that is not a notification gets a reply to. *)
Replies(r) ==
    \/ Kind[r] \in {"call", "subscribe", "unsubscribe", "invalid"}
    \/ Kind[r] = "garbled" /\ Policy = "SendError"
    \/ Kind[r] = "batch" /\ (Entries[r] = <<>> \/ Calls(r) # {})

(* A graceful stop loses no answer: when the send task stops while the     *)
(* peer is there and no fault ended the connection, every message that the *)
(* server received has its reply on the wire.                              *)
GracefulStopAnswersAll ==
    (/\ sender = "closing" /\ peer = "open" /\ missed < MaxFailures
     /\ "encrypt" \notin Faults
     /\ \A r \in Requests : Kind[r] = "toolarge" => task[r] = "idle")
    => \A r \in Requests :
          (Replies(r) /\ ~InBatch(r) /\ task[r] # "idle") => r \in delivered

(* A stop ends the connection, with calls pending and whatever the peer    *)
(* does, provided the subscriptions do not send for ever.                  *)
StopEndsConnection ==
    (<>[](\A s \in Requests : sub[s].sending = 0)) => (stop ~> recv = "done")

(* Once the connection has ended, no subscription of it stays in the table *)
(* of its method, which lives as long as the server.                       *)
EndedConnectionIsForgotten ==
    recv = "done" ~> \A i \in SubIds : subscribers[i] = None

(* graceful_shutdown returns once all pending calls have been executed. *)
ShutdownReturns == recv = "closing" ~> recv = "done"

(* A message that cannot be decrypted closes the connection if that is the *)
(* policy.                                                                 *)
GarbledMessageCloses ==
    \A r \in Requests :
        (Kind[r] = "garbled" /\ task[r] # "idle" /\ Policy = "CloseConnection")
            ~> recv = "done"
=============================================================================
