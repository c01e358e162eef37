------------------------ MODULE WsConnectionProofs -------------------------
(***************************************************************************)
(* Safety of one WebSocket connection, for every set of messages, every    *)
(* capacity of the queue and every limit on subscriptions and sinks.       *)
(***************************************************************************)
EXTENDS WsConnection, FiniteSetTheorems, TLAPS

Phases == {"idle", "spawned", "toolarge", "calling", "waiting", "ready", "batching",
           "respond", "error", "done"}
Undecided == {"pending", "accepting", "rejecting", "accepted"}
Open == {"running", "returned", "closing"}
Callbacks == {"none", "pending", "accepting", "rejecting", "accepted", "running",
              "returned", "closing", "ended"}
Subscriptions ==
    [cb : Callbacks, id : SubIds \cup {None},
     permit : BOOLEAN, reply : {"none", "ok", "err", "dropped"}, accepted : BOOLEAN,
     sinks : Nat, sending : Nat, late : Nat]
Messages == [t : {"answer", "error", "notif", "close"}, r : Requests]

TypeOK ==
    /\ stop \in BOOLEAN /\ conn_tx \in BOOLEAN /\ peer \in {"open", "gone"}
    /\ recv \in {"run", "toolarge", "graceful", "closing", "joining", "done"}
    /\ missed \in Nat /\ sender \in {"run", "closing", "done"}
    /\ queue \in Seq(Messages)
    /\ task \in [Requests -> Phases] /\ pos \in [Requests -> Nat \ {0}]
    /\ answered \in [Requests -> Nat] /\ delivered \subseteq Requests
    /\ sub \in [Requests -> Subscriptions]
    /\ subscribers \in [SubIds -> Requests \cup {None}]

(* How far the task of a message is and what the message is: only a        *)
(* subscription waits for a callback, and an entry of a batch has no task  *)
(* of its own.                                                             *)
TaskOK(r) ==
    /\ task[r] = "waiting" => Kind[r] = "subscribe"
    /\ task[r] = "toolarge" => Kind[r] = "toolarge"
    /\ task[r] = "batching" => Kind[r] = "batch"
    /\ InBatch(r) => task[r] \in {"idle", "calling", "waiting", "ready", "done"}

(* How far a subscription is and what it holds.  Its callback runs from    *)
(* the call on, a sink exists from the end of accept on, a permit as long  *)
(* as either may still send.                                               *)
SubOK(s) ==
    /\ task[s] \in {"idle", "spawned"} => sub[s].cb = "none"
    /\ sub[s].cb = "none" => sub[s].id = None /\ ~sub[s].permit /\ sub[s].reply = "none"
    /\ sub[s].cb # "none" => Kind[s] = "subscribe" /\ sub[s].id \in SubIds
    /\ sub[s].cb \in Undecided => /\ task[s] = "waiting" /\ sub[s].permit
                                  /\ sub[s].reply = "none"
    /\ sub[s].cb \in Undecided \cup {"none"} => sub[s].sinks = 0 /\ sub[s].late = 0
    /\ sub[s].sinks > 0 => sub[s].permit
    /\ sub[s].sinks > 0 \/ sub[s].cb \in Open => sub[s].reply = "ok"
    /\ sub[s].sending <= sub[s].sinks /\ sub[s].sinks <= MaxSinks

(* A send that began while the subscription was in the table is late when  *)
(* it ends, and none begins after that.                                    *)
LateOK(s) ==
    /\ IsActive(s) => sub[s].late = 0
    /\ sub[s].late + sub[s].sending <= MaxSinks

EntryOK(i) == subscribers[i] # None => LET s == sub[subscribers[i]] IN s.id = i /\ s.sinks > 0

SubInv ==
    /\ \A r \in Requests : TaskOK(r) /\ SubOK(r) /\ LateOK(r)
    /\ \A i \in SubIds : EntryOK(i)
    /\ Cardinality(PermitsInUse) <= MaxSubs

-----------------------------------------------------------------------------
(* Types *)

(* What a batch holds is requests, none of which is a batch. *)
LEMMA EntriesAreRequests ==
  ASSUME NEW b \in Requests
  PROVE  /\ Range(Entries[b]) \subseteq Requests /\ Calls(b) \subseteq Range(Entries[b])
         /\ \A i \in 1 .. Len(Entries[b]) : Entries[b][i] \in Range(Entries[b])
         /\ Range(Entries[b]) # {} => Kind[b] = "batch"
BY ConnectionAssumption DEF Range, Calls

LEMMA NumbersAndNone ==
    /\ BufferCap \in Nat \ {0} /\ MaxFailures \in Nat \ {0} /\ MaxSinks \in Nat \ {0}
    /\ MaxSubs \in Nat /\ MaxBatch \in Nat
    /\ None \notin Requests /\ None \notin SubIds
BY Zenon, ConnectionAssumption

(* What a message replies to is requests. *)
LEMMA AnsweredByRequests ==
  ASSUME NEW m \in Messages
  PROVE  AnsweredBy(m) \subseteq Requests
BY Zenon, EntriesAreRequests DEF AnsweredBy, Messages

LEMMA EnqueueType ==
  ASSUME TypeOK, NEW t \in {"answer", "error", "notif", "close"}, NEW r \in Requests,
         Enqueue([t |-> t, r |-> r])
  PROVE  queue' \in Seq(Messages)
BY DEF TypeOK, Enqueue, Messages

LEMMA CountType ==
  ASSUME TypeOK, NEW rs, Count(rs)
  PROVE  answered' \in [Requests -> Nat]
<1>1. \A r \in Requests : answered[r] \in Nat
  BY Zenon DEF TypeOK
<1> QED BY <1>1 DEF Count

LEMMA InitType == Init => TypeOK
<1> SUFFICES ASSUME Init PROVE TypeOK
  BY Zenon
<1>1. NoSub \in Subscriptions
  BY Zenon DEF Callbacks, NoSub, Subscriptions
<1>2. stop \in BOOLEAN /\ conn_tx \in BOOLEAN
  BY Zenon DEF Init
<1> QED BY <1>1, <1>2 DEF Init, TypeOK, Phases

(* The receive loop, the send task and the environment. *)
LEMMA ConnectionType ==
  ASSUME TypeOK,
         \/ RecvStep \/ SenderStep \/ PingFails \/ MissedPing \/ StopServer \/ PeerCloses
         \/ \E r \in Requests : Receive(r) \/ ReceiveTooLarge(r)
  PROVE  TypeOK'
<1> USE DEF connVars, taskVars, subVars, Phase, Phases
<1>1. CASE RecvStep
  <2>1. ASSUME NEW r \in Requests, ReplyTooLarge(r) PROVE TypeOK'
    <3>1. queue' \in Seq(Messages)
      BY Zenon, <2>1, EnqueueType DEF ReplyTooLarge, TypeOK
    <3>2. answered' \in [Requests -> Nat]
      BY Zenon, <2>1, CountType DEF ReplyTooLarge, TypeOK
    <3> QED BY Zenon, <2>1, <3>1, <3>2 DEF ReplyTooLarge, TypeOK
  <2> QED BY Zenon, <1>1, <2>1 DEF RecvStep, TypeOK, ConnectionClosed, Stopped,
             PendingCallsCompleted, CloseSendTask, Finish
<1>2. CASE SenderStep
  <2>1. ASSUME SendMessage PROVE TypeOK'
    <3>1. Head(queue) \in Messages /\ queue' \in Seq(Messages)
      BY <2>1 DEF SendMessage, TypeOK
    <3>2. delivered' \subseteq Requests
      BY Zenon, <2>1, <3>1, AnsweredByRequests DEF SendMessage, TypeOK
    <3> QED BY Zenon, <2>1, <3>1, <3>2 DEF SendMessage, TypeOK
  <2>2. CASE StopSendTask
    BY Zenon, <2>2 DEF StopSendTask, TypeOK
  <2>3. CASE CloseQueue
    BY <2>3 DEF CloseQueue, TypeOK
  <2> QED BY Zenon, <1>2, <2>1, <2>2, <2>3 DEF SenderStep
<1>3. CASE PingFails \/ MissedPing \/ PeerCloses
  BY <1>3 DEF PingFails, MissedPing, PeerCloses, TypeOK
<1>5. CASE StopServer
  BY Zenon, <1>5 DEF StopServer, TypeOK
<1>4. ASSUME NEW r \in Requests, Receive(r) \/ ReceiveTooLarge(r) PROVE TypeOK'
  BY <1>4 DEF Receive, ReceiveTooLarge, TypeOK
<1> QED BY Zenon, <1>1, <1>2, <1>3, <1>4, <1>5
(* What a step writes into a subscription has the type of its field. *)
LEMMA SubscriptionField ==
  ASSUME NEW f \in [Requests -> Subscriptions], NEW s \in Requests
  PROVE  /\ \A c \in Callbacks : [f EXCEPT ![s].cb = c] \in [Requests -> Subscriptions]
         /\ \A i \in SubIds : [f EXCEPT ![s].id = i] \in [Requests -> Subscriptions]
         /\ \A b \in BOOLEAN : [f EXCEPT ![s].permit = b] \in [Requests -> Subscriptions]
         /\ \A b \in BOOLEAN : [f EXCEPT ![s].accepted = b] \in [Requests -> Subscriptions]
         /\ \A p \in {"none", "ok", "err", "dropped"} :
               [f EXCEPT ![s].reply = p] \in [Requests -> Subscriptions]
         /\ \A n \in Nat : [f EXCEPT ![s].sinks = n] \in [Requests -> Subscriptions]
         /\ \A n \in Nat : [f EXCEPT ![s].sending = n] \in [Requests -> Subscriptions]
         /\ \A n \in Nat : [f EXCEPT ![s].late = n] \in [Requests -> Subscriptions]
BY DEF Subscriptions

LEMMA SubscriptionFields ==
  ASSUME NEW f \in [Requests -> Subscriptions], NEW s \in Requests
  PROVE  /\ \A i \in SubIds :
               [f EXCEPT ![s].cb = "pending", ![s].id = i, ![s].permit = TRUE]
                  \in [Requests -> Subscriptions]
         /\ \A p \in {"err", "dropped"} :
               [f EXCEPT ![s].cb = "ended", ![s].permit = FALSE, ![s].reply = p]
                  \in [Requests -> Subscriptions]
         /\ [f EXCEPT ![s].cb = "running", ![s].reply = "ok", ![s].sinks = 1]
               \in [Requests -> Subscriptions]
         /\ \A n, k \in Nat :
               [f EXCEPT ![s].sending = n, ![s].late = k] \in [Requests -> Subscriptions]
         /\ \A n \in Nat, b \in BOOLEAN :
               [f EXCEPT ![s].sinks = n, ![s].permit = b] \in [Requests -> Subscriptions]
<1>0. \A c \in {"pending", "ended", "running"} :
         [f EXCEPT ![s].cb = c] \in [Requests -> Subscriptions]
  BY Zenon, SubscriptionField DEF Callbacks
<1>1. ASSUME NEW i \in SubIds
      PROVE  [f EXCEPT ![s].cb = "pending", ![s].id = i, ![s].permit = TRUE]
                \in [Requests -> Subscriptions]
  <2>1. [[f EXCEPT ![s].cb = "pending"] EXCEPT ![s].id = i] \in [Requests -> Subscriptions]
    BY Zenon, <1>0, SubscriptionField
  <2>2. [[[f EXCEPT ![s].cb = "pending"] EXCEPT ![s].id = i] EXCEPT ![s].permit = TRUE]
           \in [Requests -> Subscriptions]
    BY Zenon, <2>1, SubscriptionField
  <2> QED BY Zenon, <2>2
<1>2. ASSUME NEW p \in {"err", "dropped"}
      PROVE  [f EXCEPT ![s].cb = "ended", ![s].permit = FALSE, ![s].reply = p]
                \in [Requests -> Subscriptions]
  <2>1. [[f EXCEPT ![s].cb = "ended"] EXCEPT ![s].permit = FALSE] \in [Requests -> Subscriptions]
    BY Zenon, <1>0, SubscriptionField
  <2>2. [[[f EXCEPT ![s].cb = "ended"] EXCEPT ![s].permit = FALSE] EXCEPT ![s].reply = p]
           \in [Requests -> Subscriptions]
    BY Zenon, <2>1, SubscriptionField
  <2> QED BY Zenon, <2>2
<1>3. [f EXCEPT ![s].cb = "running", ![s].reply = "ok", ![s].sinks = 1]
         \in [Requests -> Subscriptions]
  <2>1. [[f EXCEPT ![s].cb = "running"] EXCEPT ![s].reply = "ok"] \in [Requests -> Subscriptions]
    BY Zenon, <1>0, SubscriptionField
  <2>2. [[[f EXCEPT ![s].cb = "running"] EXCEPT ![s].reply = "ok"] EXCEPT ![s].sinks = 1]
           \in [Requests -> Subscriptions]
    BY Zenon, <2>1, SubscriptionField
  <2> QED BY Zenon, <2>2
<1>4. ASSUME NEW n \in Nat, NEW k \in Nat
      PROVE  [f EXCEPT ![s].sending = n, ![s].late = k] \in [Requests -> Subscriptions]
  <2>1. [f EXCEPT ![s].sending = n] \in [Requests -> Subscriptions]
    BY Zenon, SubscriptionField
  <2>2. [[f EXCEPT ![s].sending = n] EXCEPT ![s].late = k] \in [Requests -> Subscriptions]
    BY Zenon, <2>1, SubscriptionField
  <2> QED BY Zenon, <2>2
<1>5. ASSUME NEW n \in Nat, NEW b \in BOOLEAN
      PROVE  [f EXCEPT ![s].sinks = n, ![s].permit = b] \in [Requests -> Subscriptions]
  <2>1. [f EXCEPT ![s].sinks = n] \in [Requests -> Subscriptions]
    BY Zenon, SubscriptionField
  <2>2. [[f EXCEPT ![s].sinks = n] EXCEPT ![s].permit = b] \in [Requests -> Subscriptions]
    BY Zenon, <2>1, SubscriptionField
  <2> QED BY Zenon, <2>2
<1> QED BY Zenon, <1>1, <1>2, <1>3, <1>4, <1>5

(* A call on a module leaves types as they are. *)
LEMMA CallType ==
  ASSUME TypeOK, NEW r \in Requests, Call(r)
  PROVE  task' \in [Requests -> Phases] /\ sub' \in [Requests -> Subscriptions]
         /\ subscribers' \in [SubIds -> Requests \cup {None}]
<1> USE DEF TypeOK, subVars
<1>1. task' \in [Requests -> Phases]
  BY Zenon DEF Call, Subscribe, Unsubscribe, Phase, Phases
<1>2. sub' \in [Requests -> Subscriptions]
  <2>1. ASSUME NEW i \in SubIds,
               sub' = [sub EXCEPT ![r].cb = "pending", ![r].id = i, ![r].permit = TRUE]
        PROVE  sub' \in [Requests -> Subscriptions]
    <3>1. [sub EXCEPT ![r].cb = "pending", ![r].id = i, ![r].permit = TRUE]
             \in [Requests -> Subscriptions]
      BY Zenon, SubscriptionFields
    <3> QED BY Zenon, <2>1, <3>1
  <2> QED BY Zenon, <2>1 DEF Call, Subscribe, Unsubscribe
<1>3. subscribers' \in [SubIds -> Requests \cup {None}]
  BY Zenon DEF Call, Subscribe, Unsubscribe
<1> QED BY Zenon, <1>1, <1>2, <1>3

LEMMA TaskType ==
  ASSUME TypeOK, NEW r \in Requests, TaskStep(r)
  PROVE  TypeOK'
<1> USE DEF connVars, taskVars, subVars, Phase, Phases
<1>1. CASE Dispatch(r)
  <2>1. CASE Call(r)
    BY Zenon, <1>1, <2>1, CallType DEF Dispatch, TypeOK
  <2> QED BY <1>1, <2>1 DEF Dispatch, TypeOK
<1>2. CASE MethodReturns(r)
  BY Zenon, <1>2 DEF MethodReturns, TypeOK
<1>3. CASE SubscriptionResolves(r)
  <2>1. (sub[r].reply = "ok") \in BOOLEAN
    BY Zenon
  <2>2. sub' \in [Requests -> Subscriptions]
    <3>1. [sub EXCEPT ![r].accepted = (sub[r].reply = "ok")] \in [Requests -> Subscriptions]
      BY Zenon, <2>1, SubscriptionField DEF TypeOK
    <3> QED BY Zenon, <1>3, <3>1 DEF SubscriptionResolves
  <2> QED BY Zenon, <1>3, <2>2 DEF SubscriptionResolves, TypeOK
<1>4. CASE BatchCall(r)
  <2>1. pos[r] \in 1 .. Len(Entries[r])
    BY <1>4 DEF BatchCall, TypeOK
  <2>2. Entries[r][pos[r]] \in Requests
    BY Zenon, <2>1, EntriesAreRequests
  <2> QED BY Zenon, <1>4, <2>2, CallType DEF BatchCall, TypeOK
<1>5. CASE BatchAppend(r)
  <2>1. task' \in [Requests -> Phases]
    BY Zenon, <1>5 DEF BatchAppend, TypeOK
  <2>2. pos' \in [Requests -> Nat \ {0}]
    <3>1. pos[r] + 1 \in Nat \ {0}
      BY DEF TypeOK
    <3> QED BY Zenon, <1>5, <3>1 DEF BatchAppend, TypeOK
  <2> QED BY Zenon, <1>5, <2>1, <2>2 DEF BatchAppend, TypeOK
<1>6. CASE BatchFinish(r)
  BY Zenon, <1>6 DEF BatchFinish, TypeOK
<1>7. CASE Respond(r)
  <2>1. queue' \in Seq(Messages)
    BY Zenon, <1>7, EnqueueType DEF Respond, TypeOK
  <2>2. answered' \in [Requests -> Nat]
    BY Zenon, <1>7, CountType DEF Respond, TypeOK
  <2> QED BY Zenon, <1>7, <2>1, <2>2 DEF Respond, TypeOK
<1> QED BY Zenon, <1>1, <1>2, <1>3, <1>4, <1>5, <1>6, <1>7 DEF TaskStep

LEMMA CallbackType ==
  ASSUME TypeOK, NEW s \in Requests, CallbackStep(s) \/ CallbackChoice(s),
         sub[s].cb = "accepted" => sub[s].id \in SubIds
  PROVE  TypeOK'
<1> USE DEF CallbackStep, CallbackChoice
<1>1. UNCHANGED <<connVars, taskVars, delivered>>
  BY Zenon DEF Decide, DropPending, AcceptSend, AcceptInsert, RejectSend, JoinCallback, CloseSend,
         SendStart, SendEnd, CloneSink, DropSink, CallbackReturns
<1>2. queue' \in Seq(Messages)
  BY Zenon, EnqueueType
     DEF Decide, DropPending, AcceptSend, AcceptInsert, RejectSend, JoinCallback, CloseSend,
         SendStart, SendEnd, CloneSink, DropSink, CallbackReturns, TypeOK
<1>3. answered' \in [Requests -> Nat]
  BY Zenon, CountType
     DEF Decide, DropPending, AcceptSend, AcceptInsert, RejectSend, JoinCallback, CloseSend,
         SendStart, SendEnd, CloneSink, DropSink, CallbackReturns, TypeOK
<1>4. subscribers' \in [SubIds -> Requests \cup {None}]
  BY DEF Decide, DropPending, AcceptSend, AcceptInsert, RejectSend, JoinCallback, CloseSend,
         SendStart, SendEnd, CloneSink, DropSink, CallbackReturns, TypeOK
<1>5. sub' \in [Requests -> Subscriptions]
  <2>0. sub \in [Requests -> Subscriptions]
    BY Zenon DEF TypeOK
  <2>1. sub[s].sending \in Nat /\ sub[s].sinks \in Nat /\ sub[s].late \in Nat
    BY Zenon, <2>0 DEF Subscriptions
  <2>2. \A c \in Callbacks : [sub EXCEPT ![s].cb = c] \in [Requests -> Subscriptions]
    BY Zenon, <2>0, SubscriptionField
  <2>3. CASE Decide(s) \/ AcceptSend(s) \/ JoinCallback(s) \/ CloseSend(s) \/ CallbackReturns(s)
    <3>1. PICK c \in Callbacks : sub' = [sub EXCEPT ![s].cb = c]
      BY Zenon, <2>3 DEF Decide, AcceptSend, JoinCallback, CloseSend, CallbackReturns, Callbacks
    <3> QED BY Zenon, <2>2, <3>1
  <2>4. CASE DropPending(s) \/ RejectSend(s)
    <3>1. PICK p \in {"err", "dropped"} :
             sub' = [sub EXCEPT ![s].cb = "ended", ![s].permit = FALSE, ![s].reply = p]
      BY Zenon, <2>4 DEF DropPending, RejectSend
    <3>2. [sub EXCEPT ![s].cb = "ended", ![s].permit = FALSE, ![s].reply = p]
             \in [Requests -> Subscriptions]
      BY Zenon, <2>0, SubscriptionFields
    <3> QED BY Zenon, <3>1, <3>2
  <2>7. CASE AcceptInsert(s)
    <3>1. [sub EXCEPT ![s].cb = "running", ![s].reply = "ok", ![s].sinks = 1]
             \in [Requests -> Subscriptions]
      BY Zenon, <2>0, SubscriptionFields
    <3> QED BY Zenon, <2>7, <3>1 DEF AcceptInsert
  <2>8. /\ \A n \in Nat : [sub EXCEPT ![s].sending = n] \in [Requests -> Subscriptions]
        /\ \A n \in Nat : [sub EXCEPT ![s].sinks = n] \in [Requests -> Subscriptions]
        /\ \A n, k \in Nat :
              [sub EXCEPT ![s].sending = n, ![s].late = k] \in [Requests -> Subscriptions]
        /\ \A n \in Nat, b \in BOOLEAN :
              [sub EXCEPT ![s].sinks = n, ![s].permit = b] \in [Requests -> Subscriptions]
    BY <2>0, SubscriptionField, SubscriptionFields
  <2>9. CASE SendStart(s) \/ CloneSink(s)
    <3>1. PICK n \in Nat : \/ sub' = [sub EXCEPT ![s].sending = n]
                           \/ sub' = [sub EXCEPT ![s].sinks = n]
      <4>1. sub[s].sending + 1 \in Nat /\ sub[s].sinks + 1 \in Nat
        BY <2>1
      <4> QED BY Zenon, <2>9, <4>1 DEF SendStart, CloneSink
    <3> QED BY <2>8, <3>1
  <2>10. CASE SendEnd(s)
    <3> DEFINE n == sub[s].sending - 1
               k == sub[s].late + IF IsActive(s) THEN 0 ELSE 1
    <3>1. n \in Nat /\ k \in Nat
      BY <2>1, <2>10 DEF SendEnd
    <3>2. \/ sub' = [sub EXCEPT ![s].sending = n, ![s].late = k]
          \/ sub' = [sub EXCEPT ![s].sending = n]
      BY Zenon, <2>10 DEF SendEnd
    <3> HIDE DEF n, k
    <3>3. CASE sub' = [sub EXCEPT ![s].sending = n]
      BY Zenon, <2>8, <3>1, <3>3
    <3>4. CASE sub' = [sub EXCEPT ![s].sending = n, ![s].late = k]
      BY Zenon, <2>8, <3>1, <3>4
    <3> QED BY Zenon, <3>2, <3>3, <3>4
  <2>11. CASE DropSink(s)
    <3> DEFINE n == sub[s].sinks - 1
               p == sub[s].sinks > 1
    <3>1. n \in Nat
      BY <2>1, <2>11 DEF DropSink
    <3>2. p \in BOOLEAN
      OBVIOUS
    <3>3. sub' = [sub EXCEPT ![s].sinks = n, ![s].permit = p]
      BY Zenon, <2>11 DEF DropSink
    <3> HIDE DEF n, p
    <3> QED BY Zenon, <2>8, <3>1, <3>2, <3>3
  <2> QED BY Zenon, <2>3, <2>4, <2>7, <2>9, <2>10, <2>11
<1> QED BY Zenon, <1>1, <1>2, <1>3, <1>4, <1>5 DEF TypeOK, connVars, taskVars

LEMMA NextType ==
  ASSUME TypeOK, \A s \in Requests : SubOK(s), [Next]_vars
  PROVE  TypeOK'
<1>1. CASE UNCHANGED vars
  BY Zenon, <1>1 DEF vars, TypeOK
<1>2. \A s \in Requests : sub[s].cb = "accepted" => sub[s].id \in SubIds
  BY Zenon DEF SubOK
<1> QED BY Zenon, <1>1, <1>2, ConnectionType, TaskType, CallbackType DEF Next
-----------------------------------------------------------------------------
(* Subscriptions *)

(* What a step may do to the task of a message: it never starts again, and *)
(* a task that waits for its callback is not moved by anything else.       *)
Moves(r) ==
    \/ task'[r] = task[r]
    \/ task[r] = "idle" /\ task'[r] = "spawned"
    \/ task[r] # "waiting" /\ task'[r] \notin {"idle", "spawned"}

(* How a call leaves the tasks. *)
LEMMA CallMoves ==
  ASSUME TypeOK, NEW r \in Requests, Call(r), task[r] \in {"idle", "spawned"}
  PROVE  /\ \A q \in Requests \ {r} : task'[q] = task[q]
         /\ task'[r] \in {"calling", "waiting", "ready"}
         /\ task'[r] = "waiting" => Kind[r] = "subscribe"
BY Zenon DEF TypeOK, Call, Subscribe, Unsubscribe, Phase

LEMMA ConnectionTasks ==
  ASSUME TypeOK, \A r \in Requests : TaskOK(r),
         RecvStep \/ SenderStep \/ PingFails \/ MissedPing \/ StopServer \/ PeerCloses
         \/ \E r \in Requests : Receive(r) \/ ReceiveTooLarge(r)
  PROVE  \A q \in Requests : TaskOK(q)' /\ Moves(q)
<1> USE DEF TypeOK, TaskOK, Moves, Phase
<1>1. CASE UNCHANGED task
  BY Zenon, <1>1
<1>2. ASSUME NEW r \in Requests, Receive(r) \/ ReceiveTooLarge(r) \/ ReplyTooLarge(r)
      PROVE  \A q \in Requests : TaskOK(q)' /\ Moves(q)
  BY <1>2 DEF Receive, ReceiveTooLarge, ReplyTooLarge
<1> QED BY Zenon, <1>1, <1>2
        DEF RecvStep, SenderStep, PingFails, MissedPing, StopServer, PeerCloses, ConnectionClosed,
            Stopped, PendingCallsCompleted, CloseSendTask, Finish, SendMessage, StopSendTask,
            CloseQueue, taskVars

LEMMA TaskTasks ==
  ASSUME TypeOK, \A r \in Requests : TaskOK(r), NEW r \in Requests, TaskStep(r)
  PROVE  /\ \A q \in Requests : TaskOK(q)'
         /\ SubscriptionResolves(r) \/ \A q \in Requests : Moves(q)
<1> USE DEF TaskOK, Moves, Phase
<1>1. CASE Dispatch(r)
  <2>1. CASE Call(r)
    BY <1>1, <2>1, CallMoves DEF Dispatch, TypeOK
  <2> QED BY Zenon, <1>1, <2>1 DEF Dispatch, TypeOK
<1>2. CASE MethodReturns(r)
  BY Zenon, <1>2 DEF MethodReturns, TypeOK
<1>3. CASE SubscriptionResolves(r)
  BY Zenon, <1>3 DEF SubscriptionResolves, TypeOK
<1>4. CASE BatchCall(r)
  <2>1. Entries[r][pos[r]] \in Requests
    BY <1>4, EntriesAreRequests DEF BatchCall, TypeOK
  <2> QED BY <1>4, <2>1, CallMoves DEF BatchCall, TypeOK
<1>5. CASE BatchAppend(r)
  <2>1. Entries[r][pos[r]] \in Requests
    BY <1>5, EntriesAreRequests DEF BatchAppend, TypeOK
  <2> QED BY <1>5, <2>1 DEF BatchAppend, TypeOK
<1>6. CASE BatchFinish(r)
  BY Zenon, <1>6 DEF BatchFinish, TypeOK
<1>7. CASE Respond(r)
  BY Zenon, <1>7 DEF Respond, TypeOK
<1> QED BY Zenon, <1>1, <1>2, <1>3, <1>4, <1>5, <1>6, <1>7 DEF TaskStep
(* The permits after a step that gives at most one subscription a permit,  *)
(* and that one only if there is one left.                                 *)
LEMMA PermitStep ==
  ASSUME TypeOK, Cardinality(PermitsInUse) <= MaxSubs, NEW s \in Requests,
         \A r \in Requests \ {s} : sub'[r] = sub[r],
         (sub'[s].permit => sub[s].permit) \/ Cardinality(PermitsInUse) < MaxSubs
  PROVE  Cardinality(PermitsInUse)' <= MaxSubs
<1> DEFINE P == PermitsInUse
           Q == PermitsInUse'
<1>1. P \subseteq Requests /\ IsFiniteSet(P)
  BY Zenon, ConnectionAssumption, FS_Subset DEF PermitsInUse
<1>2. Cardinality(P) \in Nat /\ MaxSubs \in Nat
  BY Zenon, <1>1, FS_CardinalityType, ConnectionAssumption
<1>3. CASE sub'[s].permit => sub[s].permit
  <2>1. Q \subseteq P
    BY Zenon, <1>3 DEF PermitsInUse
  <2>2. IsFiniteSet(Q) /\ Cardinality(Q) <= Cardinality(P)
    BY Zenon, <1>1, <2>1, FS_Subset
  <2>3. Cardinality(Q) \in Nat
    BY Zenon, <2>2, FS_CardinalityType
  <2> QED BY <1>2, <2>2, <2>3
<1>4. CASE Cardinality(P) < MaxSubs
  <2>1. Q \subseteq P \cup {s}
    BY Zenon DEF PermitsInUse
  <2>2. IsFiniteSet(P \cup {s}) /\ Cardinality(P \cup {s}) <= Cardinality(P) + 1
    <3>1. /\ IsFiniteSet(P \cup {s})
          /\ Cardinality(P \cup {s}) = IF s \in P THEN Cardinality(P) ELSE Cardinality(P) + 1
      BY <1>1, FS_AddElement, Zenon
    <3> QED BY <1>2, <3>1
  <2>3. IsFiniteSet(Q) /\ Cardinality(Q) <= Cardinality(P \cup {s})
    BY Zenon, <2>1, <2>2, FS_Subset
  <2>4. Cardinality(Q) \in Nat /\ Cardinality(P \cup {s}) \in Nat
    BY Zenon, <2>2, <2>3, FS_CardinalityType
  <2> QED BY <1>2, <1>4, <2>2, <2>3, <2>4
<1> QED BY Zenon, <1>3, <1>4

(* A step that changes no subscription. *)
LEMMA SubFrame ==
  ASSUME TypeOK, SubInv, UNCHANGED subVars, \A r \in Requests : TaskOK(r)' /\ Moves(r)
  PROVE  SubInv'
<1>1. \A i \in SubIds : EntryOK(i)'
  BY Zenon DEF SubInv, EntryOK, subVars
<1>2. PermitsInUse' = PermitsInUse
  BY Zenon DEF PermitsInUse, subVars
<1>3. ASSUME NEW r \in Requests
      PROVE  SubOK(r)' /\ LateOK(r)'
  <2>1. LateOK(r)'
    BY Zenon DEF SubInv, LateOK, IsActive, subVars
  <2>2. SubOK(r)'
    BY Zenon DEF SubInv, SubOK, Moves, subVars, Undecided
  <2> QED BY Zenon, <2>1, <2>2
<1> QED BY Zenon, <1>1, <1>2, <1>3 DEF SubInv

(* A step that changes the subscription s only: what remains to be shown   *)
(* of it.                                                                  *)
LEMMA SubStep ==
  ASSUME TypeOK, TypeOK', SubInv, NEW s \in Requests,
         \A r \in Requests \ {s} : sub'[r] = sub[r] /\ task'[r] = task[r],
         \A i \in SubIds : subscribers'[i] \in {subscribers[i], None, s},
         \A i \in SubIds : subscribers'[i] = s => sub'[s].id = i /\ sub'[s].sinks > 0,
         (sub'[s].permit => sub[s].permit) \/ Cardinality(PermitsInUse) < MaxSubs,
         \A r \in Requests : TaskOK(r)', SubOK(s)', LateOK(s)'
  PROVE  SubInv'
<1>1. ASSUME NEW i \in SubIds
      PROVE  EntryOK(i)'
  <2>1. CASE subscribers'[i] = s \/ subscribers'[i] = None
    BY Zenon, <2>1 DEF EntryOK
  <2>2. CASE subscribers'[i] # s /\ subscribers'[i] = subscribers[i] /\ subscribers[i] # None
    <3>1. subscribers[i] \in Requests \ {s}
      BY Zenon, <2>2 DEF TypeOK
    <3>2. sub'[subscribers[i]] = sub[subscribers[i]]
      BY Zenon, <3>1
    <3> QED BY <2>2, <3>2 DEF SubInv, EntryOK
  <2> QED BY Zenon, <2>1, <2>2
<1>2. Cardinality(PermitsInUse)' <= MaxSubs
  BY Zenon, PermitStep DEF SubInv
<1>3. ASSUME NEW r \in Requests, r # s
      PROVE  SubOK(r)' /\ LateOK(r)'
  <2>1. sub'[r] = sub[r] /\ task'[r] = task[r] /\ SubOK(r) /\ LateOK(r)
    BY Zenon, <1>3 DEF SubInv
  <2>2. IsActive(r)' => IsActive(r)
    <3>1. sub[r].id \in SubIds \cup {None}
      BY Zenon DEF TypeOK, Subscriptions
    <3> QED BY <1>3, <2>1, <3>1, ConnectionAssumption DEF IsActive
  <2> QED BY Zenon, <2>1, <2>2 DEF SubOK, LateOK
<1> QED BY Zenon, <1>1, <1>2, <1>3 DEF SubInv
(* The entry of a subscription is under its id. *)
LEMMA OwnEntry ==
  ASSUME SubInv, NEW s \in Requests, NEW i \in SubIds, subscribers[i] = s
  PROVE  sub[s].id = i /\ sub[s].sinks > 0
BY Zenon, NumbersAndNone DEF SubInv, EntryOK

(* A call of a module, and the end of the wait for a callback. *)
LEMMA TaskSubs ==
  ASSUME TypeOK, TypeOK', SubInv, NEW r \in Requests, TaskStep(r)
  PROVE  SubInv'
<1>1. \A q \in Requests : TaskOK(q)'
  BY Zenon, TaskTasks DEF SubInv
<1>2. CASE SubscriptionResolves(r)
  <2>1. /\ sub' = [sub EXCEPT ![r].accepted = (sub[r].reply = "ok")]
        /\ task[r] = "waiting" /\ sub[r].reply # "none"
        /\ task'[r] \in {"ready", "done"} /\ \A q \in Requests \ {r} : task'[q] = task[q]
        /\ subscribers' = subscribers
    BY Zenon, <1>2 DEF SubscriptionResolves, Phase, TypeOK
  <2>2. /\ \A q \in Requests \ {r} : sub'[q] = sub[q]
        /\ sub'[r].cb = sub[r].cb /\ sub'[r].id = sub[r].id /\ sub'[r].permit = sub[r].permit
        /\ sub'[r].reply = sub[r].reply /\ sub'[r].sinks = sub[r].sinks
        /\ sub'[r].sending = sub[r].sending /\ sub'[r].late = sub[r].late
    BY <2>1 DEF TypeOK, Subscriptions
  <2>3. SubOK(r)'
    BY Zenon, <2>1, <2>2 DEF SubInv, SubOK, Undecided
  <2>4. LateOK(r)'
    BY Zenon, <2>1, <2>2 DEF SubInv, LateOK, IsActive
  <2>5. \A i \in SubIds : subscribers'[i] = r => sub'[r].id = i /\ sub'[r].sinks > 0
    BY Zenon, <2>1, <2>2, OwnEntry
  <2> QED BY Zenon, <1>1, <2>1, <2>2, <2>3, <2>4, <2>5, SubStep
<1>3. ASSUME NEW q \in Requests, task[q] \in {"idle", "spawned"}, Call(q),
             \A p \in Requests : Moves(p)
      PROVE  SubInv'
  <2>1. CASE UNCHANGED subVars
    BY Zenon, <1>1, <1>3, <2>1, SubFrame
  <2>2. CASE /\ Cardinality(PermitsInUse) < MaxSubs /\ Kind[q] = "subscribe"
             /\ \E i \in SubIds : sub' = [sub EXCEPT ![q].cb = "pending", ![q].id = i,
                                                     ![q].permit = TRUE]
             /\ Phase(q, "waiting") /\ UNCHANGED subscribers
    <3>1. PICK i \in SubIds : sub' = [sub EXCEPT ![q].cb = "pending", ![q].id = i,
                                                 ![q].permit = TRUE]
      BY Zenon, <2>2
    <3>2. /\ \A p \in Requests \ {q} : sub'[p] = sub[p] /\ task'[p] = task[p]
          /\ sub'[q].cb = "pending" /\ sub'[q].id = i /\ sub'[q].permit
          /\ sub'[q].reply = sub[q].reply /\ sub'[q].sinks = sub[q].sinks
          /\ sub'[q].sending = sub[q].sending /\ sub'[q].late = sub[q].late
          /\ task'[q] = "waiting" /\ subscribers' = subscribers
      BY <2>2, <3>1 DEF TypeOK, Subscriptions, Phase
    <3>3. /\ sub[q].cb = "none" /\ sub[q].reply = "none" /\ sub[q].sinks = 0 /\ sub[q].late = 0
          /\ sub[q].sending <= 0 /\ sub[q].sending \in Nat
      BY Zenon, <1>3 DEF SubInv, SubOK, TypeOK, Subscriptions
    <3>4. SubOK(q)'
      BY <2>2, <3>2, <3>3, NumbersAndNone DEF SubOK, Undecided, Open
    <3>5. LateOK(q)'
      BY <3>2, <3>3, NumbersAndNone DEF LateOK
    <3>6. \A j \in SubIds : subscribers'[j] # q
      <4>1. \A j \in SubIds : subscribers[j] = q => sub[q].sinks > 0
        BY Zenon, OwnEntry
      <4> QED BY <3>2, <3>3, <4>1
    <3> QED BY Zenon, <1>1, <2>2, <3>2, <3>4, <3>5, <3>6, SubStep
  <2>3. CASE Unsubscribe(q)
    <3>1. /\ sub' = sub /\ \A i \in SubIds : subscribers'[i] \in {subscribers[i], None}
          /\ \A p \in Requests \ {q} : task'[p] = task[p]
      BY Zenon, <2>3 DEF Unsubscribe, TypeOK, Phase
    <3>2. SubOK(q)'
      BY Zenon, <1>3, <3>1 DEF SubInv, SubOK, Moves, Undecided
    <3>3. LateOK(q)'
      <4>1. sub[q].id \in SubIds \cup {None}
        BY Zenon DEF TypeOK, Subscriptions
      <4> QED BY Zenon, <3>1, <4>1, NumbersAndNone DEF SubInv, LateOK, IsActive
    <3>4. \A i \in SubIds : subscribers'[i] = q => sub'[q].id = i /\ sub'[q].sinks > 0
      BY Zenon, <3>1, OwnEntry, NumbersAndNone
    <3> QED BY Zenon, <1>1, <3>1, <3>2, <3>3, <3>4, SubStep
  <2> QED BY Zenon, <1>3, <2>1, <2>2, <2>3 DEF Call, Subscribe, subVars
<1>4. CASE ~SubscriptionResolves(r)
  <2>1. \A q \in Requests : Moves(q)
    BY Zenon, <1>4, TaskTasks DEF SubInv
  <2>2. CASE UNCHANGED subVars
    BY Zenon, <1>1, <2>1, <2>2, SubFrame
  <2>3. CASE Dispatch(r)
    BY Zenon, <1>3, <2>1, <2>2, <2>3 DEF Dispatch
  <2>4. CASE BatchCall(r)
    <3>1. Entries[r][pos[r]] \in Requests
      BY <2>4, EntriesAreRequests DEF BatchCall, TypeOK
    <3> QED BY Zenon, <1>3, <2>1, <2>4, <3>1 DEF BatchCall
  <2> QED BY Zenon, <1>4, <2>2, <2>3, <2>4
          DEF TaskStep, MethodReturns, BatchAppend, BatchFinish, Respond
<1> QED BY Zenon, <1>2, <1>4
(* A step of a callback or of the user of a sink. *)
LEMMA CallbackSubs ==
  ASSUME TypeOK, TypeOK', SubInv, NEW s \in Requests, CallbackStep(s) \/ CallbackChoice(s)
  PROVE  SubInv'
<1> DEFINE x == sub[s]
           y == sub'[s]
<1>1. task' = task /\ \A r \in Requests : TaskOK(r)'
  <2>1. task' = task
    BY Zenon DEF CallbackStep, CallbackChoice, Decide, DropPending, AcceptSend, AcceptInsert, RejectSend,
           JoinCallback, CloseSend, SendStart, SendEnd, CloneSink, DropSink, CallbackReturns, taskVars
  <2> QED BY Zenon, <2>1 DEF SubInv, TaskOK
<1>2. /\ SubOK(s) /\ LateOK(s) /\ x.sinks \in Nat /\ x.sending \in Nat /\ x.late \in Nat
      /\ x.id \in SubIds \cup {None} /\ x.permit \in BOOLEAN
      /\ MaxSinks \in Nat \ {0} /\ None \notin SubIds /\ s # None
  BY Zenon, NumbersAndNone DEF SubInv, TypeOK, Subscriptions
<1>3. ASSUME NEW c \in Callbacks, sub' = [sub EXCEPT ![s].cb = c], UNCHANGED subscribers,
             \/ x.cb = "pending" /\ c \in Undecided
             \/ x.cb = "accepting" /\ c = "accepted"
             \/ x.cb \in Open /\ c \in Open \cup {"ended"}
      PROVE  SubInv'
  <2>1. /\ \A r \in Requests \ {s} : sub'[r] = sub[r]
        /\ y.cb = c /\ y.id = x.id /\ y.permit = x.permit /\ y.reply = x.reply
        /\ y.sinks = x.sinks /\ y.sending = x.sending /\ y.late = x.late
    BY <1>3 DEF TypeOK, Subscriptions
  <2>2. SubOK(s)'
    BY Zenon, <1>1, <1>2, <1>3, <2>1 DEF SubOK, Undecided, Open
  <2>3. LateOK(s)'
    BY Zenon, <1>2, <1>3, <2>1 DEF LateOK, IsActive
  <2>4. \A i \in SubIds : subscribers'[i] = s => y.id = i /\ y.sinks > 0
    BY Zenon, <1>3, <2>1, OwnEntry
  <2> HIDE DEF x, y
  <2> QED BY Zenon, <1>1, <1>3, <2>1, <2>2, <2>3, <2>4, SubStep DEF x, y
<1>4. CASE Decide(s) \/ AcceptSend(s) \/ JoinCallback(s) \/ CloseSend(s) \/ CallbackReturns(s)
  BY Zenon, <1>3, <1>4 DEF Decide, AcceptSend, JoinCallback, CloseSend, CallbackReturns, Callbacks,
                    Undecided, Open
<1>5. CASE DropPending(s) \/ RejectSend(s)
  <2>1. /\ x.cb \in {"pending", "accepting", "rejecting"} /\ subscribers' = subscribers
        /\ \E p \in {"err", "dropped"} :
              sub' = [sub EXCEPT ![s].cb = "ended", ![s].permit = FALSE, ![s].reply = p]
    BY Zenon, <1>5 DEF DropPending, RejectSend
  <2>2. /\ \A r \in Requests \ {s} : sub'[r] = sub[r]
        /\ y.cb = "ended" /\ y.id = x.id /\ ~y.permit
        /\ y.sinks = x.sinks /\ y.sending = x.sending /\ y.late = x.late
    BY <2>1 DEF TypeOK, Subscriptions
  <2>3. x.sinks = 0
    BY Zenon, <1>2, <2>1 DEF SubOK, Undecided
  <2>4. SubOK(s)'
    BY Zenon, <1>1, <1>2, <2>1, <2>2, <2>3 DEF SubOK, Undecided, Open
  <2>5. LateOK(s)'
    BY Zenon, <1>2, <2>1, <2>2 DEF LateOK, IsActive
  <2>6. \A i \in SubIds : subscribers'[i] = s => y.id = i /\ y.sinks > 0
    BY Zenon, <2>1, <2>2, OwnEntry
  <2> HIDE DEF x, y
  <2> QED BY Zenon, <1>1, <2>1, <2>2, <2>4, <2>5, <2>6, SubStep DEF x, y
<1>6. CASE AcceptInsert(s)
  <2>1. /\ x.cb = "accepted" /\ subscribers' = [subscribers EXCEPT ![x.id] = s]
        /\ sub' = [sub EXCEPT ![s].cb = "running", ![s].reply = "ok", ![s].sinks = 1]
    BY Zenon, <1>6 DEF AcceptInsert
  <2>2. /\ \A r \in Requests \ {s} : sub'[r] = sub[r]
        /\ y.cb = "running" /\ y.id = x.id /\ y.permit = x.permit /\ y.reply = "ok"
        /\ y.sinks = 1 /\ y.sending = x.sending /\ y.late = x.late
    BY <2>1 DEF TypeOK, Subscriptions
  <2>3. /\ x.sinks = 0 /\ x.sending = 0 /\ x.late = 0 /\ x.id \in SubIds /\ x.permit
        /\ Kind[s] = "subscribe" /\ task[s] = "waiting"
    BY <1>2, <2>1 DEF SubOK, Undecided
  <2>4. SubOK(s)'
    BY <1>1, <1>2, <2>2, <2>3 DEF SubOK, Undecided, Open
  <2>5. LateOK(s)'
    BY Zenon, <1>2, <2>2, <2>3 DEF LateOK
  <2>6. \A i \in SubIds : /\ subscribers'[i] \in {subscribers[i], s}
                          /\ subscribers'[i] = s => i = x.id
    <3>1. \A i \in SubIds : subscribers[i] # s
      BY <2>3, OwnEntry
    <3> QED BY Zenon, <2>1, <2>3, <3>1 DEF TypeOK
  <2>7. /\ \A i \in SubIds : subscribers'[i] \in {subscribers[i], None, s}
        /\ \A i \in SubIds : subscribers'[i] = s => y.id = i /\ y.sinks > 0
        /\ y.permit => x.permit
        /\ \A r \in Requests \ {s} : sub'[r] = sub[r] /\ task'[r] = task[r]
    BY <1>1, <2>2, <2>3, <2>6
  <2> HIDE DEF x, y
  <2> QED BY Zenon, <1>1, <2>4, <2>5, <2>7, SubStep DEF x, y
<1>7. ASSUME \A r \in Requests \ {s} : sub'[r] = sub[r], UNCHANGED subscribers,
             y.cb = x.cb, y.id = x.id, y.permit = x.permit, y.reply = x.reply, y.sinks = x.sinks,
             y.sending \in Nat, y.sending <= x.sinks,
             \/ y.late = x.late /\ (y.sending <= x.sending \/ x.late = 0)
             \/ y.late = x.late + 1 /\ y.sending = x.sending - 1 /\ ~IsActive(s)
      PROVE  SubInv'
  <2>1. x.sending > 0 => x.sinks > 0
    BY <1>2 DEF SubOK
  <2>2. SubOK(s)'
    BY <1>1, <1>2, <1>7, <2>1 DEF SubOK, Undecided, Open
  <2>3. LateOK(s)'
    <3>1. IsActive(s)' = IsActive(s)
      BY Zenon, <1>7 DEF IsActive
    <3>2. x.sinks <= MaxSinks
      BY Zenon, <1>2 DEF SubOK
    <3> QED BY <1>2, <1>7, <3>1, <3>2 DEF LateOK
  <2>4. \A i \in SubIds : subscribers'[i] = s => y.id = i /\ y.sinks > 0
    BY Zenon, <1>7, OwnEntry
  <2> HIDE DEF x, y
  <2> QED BY Zenon, <1>1, <1>7, <2>2, <2>3, <2>4, SubStep DEF x, y
<1>8. CASE SendStart(s)
  <2>1. x.late = 0 /\ x.sending + 1 \in Nat /\ x.sending + 1 <= x.sinks
    BY <1>2, <1>8 DEF SendStart, LateOK
  <2>2. /\ \A r \in Requests \ {s} : sub'[r] = sub[r]
        /\ y.cb = x.cb /\ y.id = x.id /\ y.permit = x.permit /\ y.reply = x.reply
        /\ y.sinks = x.sinks /\ y.sending = x.sending + 1 /\ y.late = x.late
    BY <1>8 DEF SendStart, TypeOK, Subscriptions
  <2> QED BY Zenon, <1>7, <1>8, <2>1, <2>2 DEF SendStart
<1>9. CASE SendEnd(s)
  <2>1. x.sending - 1 \in Nat /\ x.sending - 1 <= x.sinks /\ x.sending - 1 <= x.sending
    BY <1>2, <1>9 DEF SendEnd, SubOK
  <2>2. CASE sub' = [sub EXCEPT ![s].sending = x.sending - 1]
    <3>1. /\ \A r \in Requests \ {s} : sub'[r] = sub[r]
          /\ y.cb = x.cb /\ y.id = x.id /\ y.permit = x.permit /\ y.reply = x.reply
          /\ y.sinks = x.sinks /\ y.sending = x.sending - 1 /\ y.late = x.late
      BY <2>2 DEF TypeOK, Subscriptions
    <3> QED BY Zenon, <1>7, <1>9, <2>1, <3>1 DEF SendEnd
  <2>3. CASE sub' = [sub EXCEPT ![s].sending = x.sending - 1,
                                ![s].late = x.late + IF IsActive(s) THEN 0 ELSE 1]
    <3>1. /\ \A r \in Requests \ {s} : sub'[r] = sub[r]
          /\ y.cb = x.cb /\ y.id = x.id /\ y.permit = x.permit /\ y.reply = x.reply
          /\ y.sinks = x.sinks /\ y.sending = x.sending - 1
          /\ y.late = x.late + IF IsActive(s) THEN 0 ELSE 1
      BY <2>3 DEF TypeOK, Subscriptions
    <3>2. \/ y.late = x.late
          \/ y.late = x.late + 1 /\ ~IsActive(s)
      BY <1>2, <3>1
    <3> QED BY Zenon, <1>7, <1>9, <2>1, <3>1, <3>2 DEF SendEnd
  <2> QED BY Zenon, <1>9, <2>2, <2>3 DEF SendEnd
<1>10. ASSUME \A r \in Requests \ {s} : sub'[r] = sub[r],
              y.cb = x.cb, y.id = x.id, y.reply = x.reply, y.sending = x.sending, y.late = x.late,
              y.sinks \in Nat, y.sinks <= MaxSinks, x.sending <= y.sinks, x.sinks > 0,
              y.permit <=> y.sinks > 0,
              \A i \in SubIds : /\ subscribers'[i] \in {subscribers[i], None}
                                /\ subscribers'[i] = s => y.sinks > 0
       PROVE  SubInv'
  <2>1. x.permit
    BY Zenon, <1>2, <1>10 DEF SubOK
  <2>2. SubOK(s)'
    BY Zenon, <1>1, <1>2, <1>10, <2>1 DEF SubOK, Undecided, Open
  <2>3. LateOK(s)'
    BY <1>2, <1>10 DEF LateOK, IsActive
  <2>4. \A i \in SubIds : subscribers'[i] = s => y.id = i /\ y.sinks > 0
    BY <1>2, <1>10, OwnEntry
  <2> HIDE DEF x, y
  <2> QED BY Zenon, <1>1, <1>10, <2>1, <2>2, <2>3, <2>4, SubStep DEF x, y
<1>11. CASE CloneSink(s)
  <2>1. /\ x.sinks + 1 \in Nat /\ x.sinks > 0 /\ x.sinks + 1 <= MaxSinks /\ x.sinks + 1 > 0
        /\ x.sending <= x.sinks + 1 /\ x.permit
    BY <1>2, <1>11 DEF CloneSink, SubOK
  <2>2. /\ \A r \in Requests \ {s} : sub'[r] = sub[r]
        /\ y.cb = x.cb /\ y.id = x.id /\ y.permit = x.permit /\ y.reply = x.reply
        /\ y.sinks = x.sinks + 1 /\ y.sending = x.sending /\ y.late = x.late
    BY <1>11 DEF CloneSink, TypeOK, Subscriptions
  <2>3. subscribers' = subscribers
    BY Zenon, <1>11 DEF CloneSink
  <2> HIDE DEF x, y
  <2> QED BY Zenon, <1>10, <2>1, <2>2, <2>3
<1>12. CASE DropSink(s)
  <2>1. /\ x.sinks - 1 \in Nat /\ x.sinks - 1 <= MaxSinks /\ x.sending <= x.sinks - 1 /\ x.sinks > 0
        /\ x.sinks > 1 <=> x.sinks - 1 > 0
    BY <1>2, <1>12 DEF DropSink, SubOK
  <2>2. /\ \A r \in Requests \ {s} : sub'[r] = sub[r]
        /\ y.cb = x.cb /\ y.id = x.id /\ y.permit = (x.sinks > 1) /\ y.reply = x.reply
        /\ y.sinks = x.sinks - 1 /\ y.sending = x.sending /\ y.late = x.late
    BY <1>12 DEF DropSink, TypeOK, Subscriptions
  <2>3. \A i \in SubIds : subscribers'[i] \in {subscribers[i], None} /\ subscribers'[i] # s
    <3>1. CASE IsActive(s)
      <4>1. subscribers' = [subscribers EXCEPT ![x.id] = None] /\ x.id \in SubIds
        BY Zenon, <1>2, <1>12, <3>1 DEF DropSink, IsActive
      <4>2. \A i \in SubIds : subscribers[i] = s => i = x.id
        BY Zenon, OwnEntry
      <4> QED BY Zenon, <1>2, <4>1, <4>2 DEF TypeOK
    <3>2. CASE ~IsActive(s)
      <4>1. \A i \in SubIds : subscribers[i] # s
        BY Zenon, <1>2, <3>2, OwnEntry DEF IsActive
      <4> QED BY Zenon, <1>12, <3>2, <4>1 DEF DropSink
    <3> QED BY Zenon, <3>1, <3>2
  <2> HIDE DEF x, y
  <2> QED BY Zenon, <1>10, <2>1, <2>2, <2>3
<1> QED BY Zenon, <1>4, <1>5, <1>6, <1>8, <1>9, <1>11, <1>12 DEF CallbackStep, CallbackChoice
LEMMA InitSubs == Init => SubInv
<1> SUFFICES ASSUME Init PROVE SubInv
  BY Zenon
<1>1. TypeOK /\ \A r \in Requests : sub[r] = NoSub /\ task[r] = "idle"
  BY Zenon, InitType DEF Init
<1>2. \A i \in SubIds : EntryOK(i)
  BY Zenon DEF Init, EntryOK
<1>3. Cardinality(PermitsInUse) <= MaxSubs
  <2>1. PermitsInUse = {}
    BY <1>1 DEF PermitsInUse, NoSub
  <2> QED BY <2>1, FS_EmptySet, NumbersAndNone
<1>4. ASSUME NEW r \in Requests
      PROVE  TaskOK(r) /\ SubOK(r) /\ LateOK(r)
  BY <1>1, NumbersAndNone DEF TaskOK, SubOK, LateOK, IsActive, NoSub, Undecided, Open
<1> QED BY Zenon, <1>2, <1>3, <1>4 DEF SubInv

LEMMA NextSubs ==
  ASSUME TypeOK, SubInv, [Next]_vars
  PROVE  TypeOK' /\ SubInv'
<1>1. TypeOK'
  BY Zenon, NextType DEF SubInv
<1>2. CASE UNCHANGED vars
  <2>1. \A r \in Requests : TaskOK(r)' /\ Moves(r)
    BY Zenon, <1>2 DEF vars, SubInv, TaskOK, Moves
  <2> QED BY Zenon, <1>1, <1>2, <2>1, SubFrame DEF vars, subVars
<1>3. CASE \/ RecvStep \/ SenderStep \/ PingFails \/ MissedPing \/ StopServer \/ PeerCloses
           \/ \E r \in Requests : Receive(r) \/ ReceiveTooLarge(r)
  <2>1. \A r \in Requests : TaskOK(r)' /\ Moves(r)
    BY Zenon, <1>3, ConnectionTasks DEF SubInv
  <2>2. UNCHANGED subVars
    BY Zenon, <1>3 DEF RecvStep, SenderStep, PingFails, MissedPing, StopServer, PeerCloses,
         ConnectionClosed, Stopped, PendingCallsCompleted, CloseSendTask, Finish, ReplyTooLarge,
         SendMessage, StopSendTask, CloseQueue, Receive, ReceiveTooLarge
  <2> QED BY Zenon, <1>1, <2>1, <2>2, SubFrame
<1> QED BY Zenon, <1>1, <1>2, <1>3, TaskSubs, CallbackSubs DEF Next

(* No active subscription without a sink and a permit, and no more of them *)
(* than permits: the entries map one to one to permits.                    *)
LEMMA SubInvBoundsEntries == TypeOK /\ SubInv => EntriesHaveSinks
<1> SUFFICES ASSUME TypeOK, SubInv PROVE EntriesHaveSinks
  BY Zenon
<1> DEFINE I == {i \in SubIds : subscribers[i] # None}
           f == [i \in I |-> subscribers[i]]
<1>1. \A i \in I : /\ subscribers[i] \in Requests /\ sub[subscribers[i]].id = i
                   /\ sub[subscribers[i]].sinks > 0 /\ sub[subscribers[i]].permit
  BY DEF TypeOK, SubInv, EntryOK, SubOK
<1>2. f \in Injection(I, PermitsInUse)
  <2>1. f \in [I -> PermitsInUse]
    BY Zenon, <1>1 DEF PermitsInUse
  <2>2. \A i, j \in I : f[i] = f[j] => i = j
    BY Zenon, <1>1
  <2> HIDE DEF f, I
  <2> QED BY Zenon, <2>1, <2>2 DEF Injection, IsInjective
<1>3. PermitsInUse \subseteq Requests /\ IsFiniteSet(PermitsInUse)
  BY Zenon, ConnectionAssumption, FS_Subset DEF PermitsInUse
<1>4. IsFiniteSet(I) /\ Cardinality(I) <= Cardinality(PermitsInUse)
  BY Zenon, <1>2, <1>3, FS_Injection
<1>5. Cardinality(I) <= MaxSubs
  <2>1. Cardinality(I) \in Nat /\ Cardinality(PermitsInUse) \in Nat
    BY Zenon, <1>3, <1>4, FS_CardinalityType
  <2> QED BY <1>4, <2>1, NumbersAndNone DEF SubInv
<1> QED BY Zenon, <1>1, <1>5 DEF EntriesHaveSinks

LEMMA SubInvBoundsLate == TypeOK /\ SubInv => LateNotificationsAreBounded
<1> SUFFICES ASSUME TypeOK, SubInv, NEW s \in Requests PROVE sub[s].late <= MaxSinks
  BY Zenon DEF LateNotificationsAreBounded
<1>1. sub[s].late \in Nat /\ sub[s].sending \in Nat
  BY Zenon DEF TypeOK, Subscriptions
<1> QED BY <1>1, NumbersAndNone DEF SubInv, LateOK
-----------------------------------------------------------------------------
(* The theorems *)

(* Every value a connection, its tasks, its queue and its subscriptions    *)
(* take has the type the code gives it.                                    *)
THEOREM ConnectionTypes == Spec => []TypeOK
<1>1. Init => TypeOK /\ SubInv
  BY Zenon, InitType, InitSubs
<1>2. TypeOK /\ SubInv /\ [Next]_vars => (TypeOK /\ SubInv)'
  BY NextSubs
<1> QED BY <1>1, <1>2, PTL DEF Spec

(* The table of a connection never holds a subscription without a sink and *)
(* a permit, nor more than max_subscriptions_per_connection of them,       *)
(* whatever callbacks, clones, unsubscribe calls and a stop do to it.      *)
THEOREM EntriesAlwaysHaveSinks == Spec => []EntriesHaveSinks
<1>1. Init => TypeOK /\ SubInv
  BY Zenon, InitType, InitSubs
<1>2. TypeOK /\ SubInv /\ [Next]_vars => (TypeOK /\ SubInv)'
  BY Zenon, NextSubs
<1>3. TypeOK /\ SubInv => EntriesHaveSinks
  BY SubInvBoundsEntries
<1> QED BY <1>1, <1>2, <1>3, PTL DEF Spec

(* After a subscription has left the table, every sink of it queues at     *)
(* most the one notification whose send had begun before.                  *)
THEOREM LateNotificationsAreAlwaysBounded == Spec => []LateNotificationsAreBounded
<1>1. Init => TypeOK /\ SubInv
  BY Zenon, InitType, InitSubs
<1>2. TypeOK /\ SubInv /\ [Next]_vars => (TypeOK /\ SubInv)'
  BY Zenon, NextSubs
<1>3. TypeOK /\ SubInv => LateNotificationsAreBounded
  BY SubInvBoundsLate
<1> QED BY <1>1, <1>2, <1>3, PTL DEF Spec

(* The reply to r is on the wire or on its way there. *)
Queued(r) == \E j \in 1 .. Len(queue) : r \in AnsweredBy(queue[j])
Told(r) == r \in delivered \/ Queued(r)

Reliable == "encrypt" \notin Faults /\ sender = "run" /\ peer = "open"

(* A subscription that was decided has told the peer. *)
Announced(s) == sub[s].cb = "accepted" \/ sub[s].reply \in {"ok", "err"}

OrderInv ==
    /\ Reliable => \A s \in Requests : Announced(s) => Told(s)
    /\ AnswerPrecedesNotifications

(* Nothing but a stop has happened to the connection. *)
Sound ==
    /\ peer = "open" /\ missed < MaxFailures /\ "encrypt" \notin Faults
    /\ \A r \in Requests : Kind[r] = "toolarge" => task[r] = "idle"

(* What has been replied to when the send task is told to stop. *)
StopInv ==
    /\ conn_tx => recv \in {"joining", "done"}
    /\ Sound /\ sender # "run" => conn_tx
    /\ Sound /\ recv \in {"closing", "joining", "done"} => NoPendingCalls
    /\ Sound /\ sender = "run" =>
          \A r \in Requests : Replies(r) /\ ~InBatch(r) /\ task[r] = "done" => Told(r)
    /\ GracefulStopAnswersAll

(* Every subscription is asked for by a message of its own. *)
SubscriptionsAreSingle == \A r \in Requests : Kind[r] = "subscribe" => ~InBatch(r)

(* What has not been answered. *)
AnswersInv ==
    /\ AnsweredAtMostOnce
    /\ \A r \in Requests : ~InBatch(r) /\ task[r] \notin {"waiting", "done"} => answered[r] = 0
    /\ \A r \in Requests : task[r] = "waiting" /\ ~Announced(r) => answered[r] = 0
    /\ \A b \in Requests : task[b] # "done" => \A r \in Range(Entries[b]) : answered[r] = 0

-----------------------------------------------------------------------------
(* The wire *)

(* What a step does to the queue and to the socket: nothing, one message   *)
(* more, or one message written.                                           *)
Quiet == queue' = queue /\ delivered' = delivered
Queues(m) == queue' = Append(queue, m) /\ delivered' = delivered
Writes ==
    /\ queue # <<>> /\ queue' = Tail(queue)
    /\ delivered' = delivered \cup AnsweredBy(Head(queue))

WireStep ==
    \/ Quiet
    \/ Writes
    \/ \E m \in Messages : Queues(m) /\ (m.t \in {"notif", "close"} => Announced(m.r))

(* What was told stays told. *)
LEMMA WireKeepsTold ==
  ASSUME TypeOK, WireStep, NEW r \in Requests, Told(r)
  PROVE  Told(r)'
<1>1. CASE Quiet
  BY Zenon, <1>1 DEF Quiet, Told, Queued
<1>2. ASSUME NEW m \in Messages, Queues(m)
      PROVE  Told(r)'
  <2>1. CASE r \in delivered
    BY Zenon, <1>2, <2>1 DEF Queues, Told
  <2>2. CASE Queued(r)
    <3>1. PICK j \in 1 .. Len(queue) : r \in AnsweredBy(queue[j])
      BY Zenon, <2>2 DEF Queued
    <3>2. j \in 1 .. Len(queue') /\ queue'[j] = queue[j]
      BY <1>2, <3>1 DEF Queues, TypeOK
    <3> QED BY Zenon, <3>1, <3>2 DEF Told, Queued
  <2> QED BY Zenon, <2>1, <2>2 DEF Told
<1>3. CASE Writes
  <2>1. CASE r \in delivered
    BY Zenon, <1>3, <2>1 DEF Writes, Told
  <2>2. CASE Queued(r)
    <3>1. PICK j \in 1 .. Len(queue) : r \in AnsweredBy(queue[j])
      BY Zenon, <2>2 DEF Queued
    <3>2. CASE j = 1
      <4>1. queue[j] = Head(queue)
        BY <1>3, <3>2 DEF Writes, TypeOK
      <4> QED BY Zenon, <1>3, <3>1, <4>1 DEF Writes, Told
    <3>3. CASE j # 1
      <4>1. j - 1 \in 1 .. Len(queue') /\ queue'[j - 1] = queue[j]
        BY <1>3, <3>1, <3>3 DEF Writes, TypeOK
      <4> QED BY Zenon, <3>1, <4>1 DEF Told, Queued
    <3> QED BY Zenon, <3>2, <3>3
  <2> QED BY Zenon, <2>1, <2>2 DEF Told
<1> QED BY Zenon, <1>1, <1>2, <1>3 DEF WireStep

(* What a message that is queued replies to has been told. *)
LEMMA QueuesTells ==
  ASSUME TypeOK, NEW m \in Messages, Queues(m), NEW r \in AnsweredBy(m)
  PROVE  Told(r)'
<1>1. Len(queue) + 1 \in 1 .. Len(queue') /\ queue'[Len(queue) + 1] = m
  BY DEF Queues, TypeOK
<1> QED BY Zenon, <1>1 DEF Told, Queued

(* The order of the queue survives every such step. *)
LEMMA WireKeepsOrder ==
  ASSUME TypeOK, OrderInv, Reliable, Reliable', WireStep
  PROVE  AnswerPrecedesNotifications'
<1> DEFINE Ok(k) == queue[k].t \in {"notif", "close"} =>
                        \/ queue[k].r \in delivered
                        \/ \E j \in 1 .. (k - 1) : queue[k].r \in AnsweredBy(queue[j])
<1>1. \A k \in 1 .. Len(queue) : Ok(k)
  BY Zenon DEF OrderInv, AnswerPrecedesNotifications, Reliable
<1> SUFFICES ASSUME NEW k \in 1 .. Len(queue')
             PROVE  Ok(k)'
  BY Zenon DEF AnswerPrecedesNotifications
<1>2. CASE Quiet
  BY Zenon, <1>1, <1>2 DEF Quiet
<1>3. ASSUME NEW m \in Messages, Queues(m), m.t \in {"notif", "close"} => Announced(m.r)
      PROVE  Ok(k)'
  <2>1. /\ Len(queue') = Len(queue) + 1 /\ Len(queue) \in Nat /\ queue'[Len(queue) + 1] = m
        /\ \A j \in 1 .. Len(queue) : queue'[j] = queue[j]
        /\ delivered' = delivered
    BY <1>3 DEF Queues, TypeOK
  <2>2. CASE k \in 1 .. Len(queue)
    <3>1. \A j \in 1 .. (k - 1) : queue'[j] = queue[j]
      BY <2>1, <2>2
    <3> QED BY Zenon, <1>1, <2>1, <2>2, <3>1
  <2>3. CASE k = Len(queue) + 1
    <3>1. queue'[k] = m /\ \A j \in 1 .. (k - 1) : j \in 1 .. Len(queue)
      BY <2>1, <2>3
    <3>2. CASE m.t \in {"notif", "close"}
      <4>1. m.r \in Requests
        BY Zenon DEF Messages
      <4>2. Told(m.r)
        BY Zenon, <1>3, <3>2, <4>1 DEF OrderInv
      <4>3. CASE m.r \in delivered
        BY Zenon, <2>1, <3>1, <4>3
      <4>4. CASE Queued(m.r)
        <5>1. PICK j \in 1 .. Len(queue) : m.r \in AnsweredBy(queue[j])
          BY Zenon, <4>4 DEF Queued
        <5>2. j \in 1 .. (k - 1) /\ queue'[j] = queue[j]
          BY <2>1, <2>3, <5>1
        <5> QED BY Zenon, <3>1, <5>1, <5>2
      <4> QED BY Zenon, <4>2, <4>3, <4>4 DEF Told
    <3> QED BY Zenon, <3>1, <3>2
  <2> QED BY <2>1, <2>2, <2>3
<1>4. CASE Writes
  <2>1. /\ Len(queue) \in Nat /\ Len(queue') = Len(queue) - 1 /\ queue[1] = Head(queue)
        /\ \A j \in 1 .. Len(queue') : queue'[j] = queue[j + 1]
        /\ delivered' = delivered \cup AnsweredBy(queue[1])
    BY <1>4 DEF Writes, TypeOK
  <2>2. k + 1 \in 1 .. Len(queue) /\ queue'[k] = queue[k + 1] /\ k \in Nat
    BY <2>1
  <2>3. CASE queue'[k].t \in {"notif", "close"}
    <3>1. \/ queue'[k].r \in delivered
          \/ \E j \in 1 .. k : queue'[k].r \in AnsweredBy(queue[j])
      <4>1. Ok(k + 1)
        BY Zenon, <1>1, <2>2
      <4>2. (k + 1) - 1 = k
        BY <2>2
      <4> QED BY Zenon, <2>2, <2>3, <4>1, <4>2
    <3>2. CASE queue'[k].r \in delivered
      BY Zenon, <2>1, <3>2
    <3>3. ASSUME NEW j \in 1 .. k, queue'[k].r \in AnsweredBy(queue[j])
          PROVE  Ok(k)'
      <4>1. CASE j = 1
        BY Zenon, <2>1, <3>3, <4>1
      <4>2. CASE j # 1
        <5>1. j - 1 \in 1 .. (k - 1) /\ queue'[j - 1] = queue[j]
          BY <2>1, <2>2, <4>2
        <5> QED BY Zenon, <3>3, <5>1
      <4> QED BY Zenon, <4>1, <4>2
    <3> QED BY Zenon, <3>1, <3>2, <3>3
  <2> QED BY Zenon, <2>3
<1> QED BY Zenon, <1>2, <1>3, <1>4 DEF WireStep
(* A subscription that a step leaves alone, or whose fields it keeps, is   *)
(* announced after it only if it was before.                               *)
NothingAnnounced == \A s \in Requests : Announced(s)' => Announced(s)

LEMMA ConnectionWire ==
  ASSUME TypeOK, Reliable',
         \/ RecvStep \/ SenderStep \/ PingFails \/ MissedPing \/ StopServer \/ PeerCloses
         \/ UNCHANGED vars \/ \E r \in Requests : Receive(r) \/ ReceiveTooLarge(r)
  PROVE  Reliable /\ WireStep /\ NothingAnnounced
<1>1. sub' = sub
  BY Zenon DEF RecvStep, SenderStep, PingFails, MissedPing, StopServer, PeerCloses, Receive,
         ReceiveTooLarge, ConnectionClosed, Stopped, PendingCallsCompleted, CloseSendTask, Finish,
         ReplyTooLarge, SendMessage, StopSendTask, CloseQueue, subVars, vars
<1>2. NothingAnnounced
  BY Zenon, <1>1 DEF NothingAnnounced, Announced
<1>3. CASE SendMessage
  BY Zenon, <1>2, <1>3 DEF SendMessage, Reliable, WireStep, Writes
<1>4. CASE \E r \in Requests : ReplyTooLarge(r)
  <2>1. PICK r \in Requests : ReplyTooLarge(r)
    BY Zenon, <1>4
  <2>2. [t |-> "error", r |-> r] \in Messages
    BY Zenon DEF Messages
  <2>3. CASE UNCHANGED queue
    BY Zenon, <1>2, <2>1, <2>3 DEF ReplyTooLarge, Reliable, WireStep, Quiet
  <2>4. CASE queue' = Append(queue, [t |-> "error", r |-> r])
    BY Zenon, <1>2, <2>1, <2>2, <2>4 DEF ReplyTooLarge, Reliable, WireStep, Queues
  <2> QED BY Zenon, <2>1, <2>3, <2>4 DEF ReplyTooLarge, Enqueue
<1>5. CASE CloseQueue
  BY Zenon, <1>5 DEF CloseQueue, Reliable
<1>6. CASE /\ ~SendMessage /\ ~CloseQueue /\ ~\E r \in Requests : ReplyTooLarge(r)
  <2>1. Quiet
    BY Zenon, <1>6 DEF RecvStep, SenderStep, PingFails, MissedPing, StopServer, PeerCloses, Receive,
         ReceiveTooLarge, ConnectionClosed, Stopped, PendingCallsCompleted, CloseSendTask, Finish,
         StopSendTask, Quiet, vars
  <2>2. Reliable
    BY Zenon, <1>6 DEF RecvStep, SenderStep, PingFails, MissedPing, StopServer, PeerCloses, Receive,
         ReceiveTooLarge, ConnectionClosed, Stopped, PendingCallsCompleted, CloseSendTask, Finish,
         StopSendTask, Reliable, connVars, vars
  <2> QED BY Zenon, <1>2, <2>1, <2>2 DEF WireStep
<1> QED BY Zenon, <1>2, <1>3, <1>4, <1>5, <1>6

LEMMA CallAnnouncesNothing ==
  ASSUME TypeOK, NEW r \in Requests, Call(r)
  PROVE  NothingAnnounced
<1>1. CASE sub' = sub
  BY Zenon, <1>1 DEF NothingAnnounced, Announced
<1>2. CASE \E i \in SubIds : sub' = [sub EXCEPT ![r].cb = "pending", ![r].id = i,
                                                ![r].permit = TRUE]
  <2>1. \A s \in Requests : sub'[s].reply = sub[s].reply /\ sub'[s].cb \in {sub[s].cb, "pending"}
    BY <1>2 DEF TypeOK, Subscriptions
  <2> QED BY Zenon, <2>1 DEF NothingAnnounced, Announced
<1> QED BY Zenon, <1>1, <1>2 DEF Call, Subscribe, Unsubscribe, subVars

LEMMA TaskWire ==
  ASSUME TypeOK, NEW r \in Requests, TaskStep(r), Reliable'
  PROVE  Reliable /\ WireStep /\ NothingAnnounced
<1>1. UNCHANGED connVars
  BY Zenon DEF TaskStep, Dispatch, MethodReturns, SubscriptionResolves, BatchCall, BatchAppend,
         BatchFinish, Respond
<1>2. Reliable
  BY Zenon, <1>1 DEF Reliable, connVars
<1>3. CASE Respond(r)
  <2> DEFINE m == [t |-> IF task[r] = "error" THEN "error" ELSE "answer", r |-> r]
  <2>1. m \in Messages /\ m.t \notin {"notif", "close"}
    BY Zenon DEF Messages
  <2>2. NothingAnnounced
    BY Zenon, <1>3 DEF Respond, subVars, NothingAnnounced, Announced
  <2>3. WireStep
    <3>1. \/ queue' = Append(queue, m) /\ delivered' = delivered
          \/ queue' = queue /\ delivered' = delivered
      BY Zenon, <1>3 DEF Respond, Enqueue
    <3> HIDE DEF m
    <3> QED BY Zenon, <2>1, <3>1 DEF WireStep, Queues, Quiet
  <2> QED BY Zenon, <1>2, <2>2, <2>3
<1>4. CASE ~Respond(r)
  <2>1. WireStep
    BY Zenon, <1>4 DEF TaskStep, Dispatch, MethodReturns, SubscriptionResolves, BatchCall, BatchAppend,
                BatchFinish, WireStep, Quiet
  <2>2. NothingAnnounced
    <3>1. CASE sub' = sub
      BY Zenon, <3>1 DEF NothingAnnounced, Announced
    <3>2. CASE SubscriptionResolves(r)
      <4>1. \A s \in Requests : sub'[s].reply = sub[s].reply /\ sub'[s].cb = sub[s].cb
        BY Zenon, <3>2 DEF SubscriptionResolves, TypeOK, Subscriptions
      <4> QED BY Zenon, <4>1 DEF NothingAnnounced, Announced
    <3>3. CASE Dispatch(r)
      BY Zenon, <3>1, <3>3, CallAnnouncesNothing DEF Dispatch, subVars
    <3>4. CASE BatchCall(r)
      <4>1. Entries[r][pos[r]] \in Requests
        BY <3>4, EntriesAreRequests DEF BatchCall, TypeOK
      <4> QED BY Zenon, <3>4, <4>1, CallAnnouncesNothing DEF BatchCall
    <3> QED BY Zenon, <1>4, <3>1, <3>2, <3>3, <3>4
            DEF TaskStep, MethodReturns, BatchAppend, BatchFinish, subVars
  <2> QED BY Zenon, <1>2, <2>1, <2>2
<1> QED BY Zenon, <1>3, <1>4

(* A callback announces its subscription with the message that says so. *)
LEMMA CallbackWire ==
  ASSUME TypeOK, SubInv, NEW s \in Requests, CallbackStep(s) \/ CallbackChoice(s), Reliable'
  PROVE  /\ Reliable /\ WireStep
         /\ \A r \in Requests : Announced(r)' => Announced(r) \/ Told(r)'
<1>1. UNCHANGED connVars /\ delivered' = delivered
  BY Zenon DEF CallbackStep, CallbackChoice, Decide, DropPending, AcceptSend, AcceptInsert, RejectSend,
         JoinCallback, CloseSend, SendStart, SendEnd, CloneSink, DropSink, CallbackReturns
<1>2. Reliable /\ ~IsClosed
  BY Zenon, <1>1 DEF Reliable, connVars, IsClosed
<1>3. \A t \in {"answer", "notif", "close"} : [t |-> t, r |-> s] \in Messages
  BY Zenon DEF Messages
<1>4. CASE AcceptSend(s) \/ RejectSend(s)
  <2> DEFINE m == [t |-> "answer", r |-> s]
  <2>1. Queues(m)
    BY Zenon, <1>1, <1>2, <1>4 DEF AcceptSend, RejectSend, Enqueue, Queues
  <2>2. m \in Messages /\ m.t = "answer" /\ s \in AnsweredBy(m)
    BY Zenon, <1>3 DEF AnsweredBy
  <2>3. Told(s)'
    BY Zenon, <2>1, <2>2, QueuesTells
  <2>4. \A r \in Requests \ {s} : sub'[r] = sub[r]
    BY Zenon, <1>4 DEF AcceptSend, RejectSend, TypeOK
  <2>5. WireStep
    <3> HIDE DEF m
    <3> QED BY Zenon, <2>1, <2>2 DEF WireStep
  <2>6. \A r \in Requests \ {s} : Announced(r)' => Announced(r)
    BY Zenon, <2>4 DEF Announced
  <2> QED BY Zenon, <1>2, <2>3, <2>5, <2>6
<1>5. CASE ~AcceptSend(s) /\ ~RejectSend(s)
  <2>1. NothingAnnounced
    <3>1. \A r \in Requests \ {s} : sub'[r] = sub[r]
      BY Zenon, <1>5 DEF CallbackStep, CallbackChoice, Decide, DropPending, AcceptInsert, JoinCallback,
                  CloseSend, SendStart, SendEnd, CloneSink, DropSink, CallbackReturns, TypeOK
    <3>2. Announced(s)' => Announced(s)
      <4>1. CASE Decide(s) \/ JoinCallback(s) \/ CloseSend(s) \/ CallbackReturns(s)
        <5>1. PICK c \in Callbacks \ {"accepted"} : sub' = [sub EXCEPT ![s].cb = c]
          BY Zenon, <4>1 DEF Decide, JoinCallback, CloseSend, CallbackReturns, Callbacks
        <5>2. sub'[s].reply = sub[s].reply /\ sub'[s].cb = c
          BY Zenon, <5>1 DEF TypeOK, Subscriptions
        <5> QED BY Zenon, <5>2 DEF Announced
      <4>2. CASE DropPending(s)
        <5>1. sub'[s].reply = "dropped" /\ sub'[s].cb = "ended"
          BY Zenon, <4>2 DEF DropPending, TypeOK, Subscriptions
        <5> QED BY Zenon, <5>1 DEF Announced
      <4>3. CASE AcceptInsert(s)
        BY Zenon, <4>3 DEF AcceptInsert, Announced
      <4>4. CASE SendStart(s) \/ CloneSink(s)
        <5>1. sub'[s].reply = sub[s].reply /\ sub'[s].cb = sub[s].cb
          BY <4>4 DEF SendStart, CloneSink, TypeOK, Subscriptions
        <5> QED BY Zenon, <5>1 DEF Announced
      <4>5. CASE SendEnd(s)
        <5>1. sub'[s].reply = sub[s].reply /\ sub'[s].cb = sub[s].cb
          BY <4>5 DEF SendEnd, TypeOK, Subscriptions
        <5> QED BY Zenon, <5>1 DEF Announced
      <4>6. CASE DropSink(s)
        <5>1. sub'[s].reply = sub[s].reply /\ sub'[s].cb = sub[s].cb
          BY Zenon, <4>6 DEF DropSink, TypeOK, Subscriptions
        <5> QED BY Zenon, <5>1 DEF Announced
      <4> QED BY Zenon, <1>5, <4>1, <4>2, <4>3, <4>4, <4>5, <4>6 DEF CallbackStep, CallbackChoice
    <3> QED BY Zenon, <3>1, <3>2 DEF NothingAnnounced, Announced
  <2>2. CASE queue' = queue
    BY Zenon, <1>1, <1>2, <2>1, <2>2 DEF WireStep, Quiet, NothingAnnounced
  <2>3. CASE queue' # queue
    <3>1. SendEnd(s) \/ CloseSend(s)
      BY Zenon, <1>5, <2>3 DEF CallbackStep, CallbackChoice, Decide, DropPending, AcceptInsert,
            JoinCallback, SendStart, CloneSink, DropSink, CallbackReturns
    <3>2. PICK t \in {"notif", "close"} : queue' = Append(queue, [t |-> t, r |-> s])
      BY Zenon, <2>3, <3>1 DEF SendEnd, CloseSend, Enqueue
    <3>3. sub[s].reply = "ok"
      <4>1. sub[s].sending \in Nat /\ sub[s].sinks \in Nat /\ SubOK(s)
        BY Zenon DEF TypeOK, Subscriptions, SubInv
      <4> QED BY <3>1, <4>1 DEF SendEnd, CloseSend, SubOK, Open
    <3>4. Announced(s)
      BY Zenon, <3>3 DEF Announced
    <3> DEFINE m == [t |-> t, r |-> s]
    <3>5. m \in Messages /\ m.r = s /\ Queues(m)
      BY Zenon, <1>1, <1>3, <3>2 DEF Queues
    <3>6. WireStep
      <4> HIDE DEF m
      <4> QED BY Zenon, <3>4, <3>5 DEF WireStep
    <3> QED BY Zenon, <1>2, <2>1, <3>6 DEF NothingAnnounced
  <2> QED BY Zenon, <2>2, <2>3
<1> QED BY Zenon, <1>4, <1>5

LEMMA NextWire ==
  ASSUME TypeOK, SubInv, [Next]_vars, Reliable'
  PROVE  /\ Reliable /\ WireStep
         /\ \A r \in Requests : Announced(r)' => Announced(r) \/ Told(r)'
<1>1. CASE /\ Reliable /\ WireStep /\ NothingAnnounced
  BY Zenon, <1>1 DEF NothingAnnounced
<1> QED BY Zenon, <1>1, ConnectionWire, TaskWire, CallbackWire DEF Next

LEMMA NextOrder ==
  ASSUME TypeOK, SubInv, OrderInv, [Next]_vars
  PROVE  OrderInv'
<1>1. CASE Reliable'
  <2>1. /\ Reliable /\ WireStep
        /\ \A r \in Requests : Announced(r)' => Announced(r) \/ Told(r)'
    BY Zenon, <1>1, NextWire
  <2>2. AnswerPrecedesNotifications'
    BY Zenon, <1>1, <2>1, WireKeepsOrder
  <2>3. \A s \in Requests : Announced(s) => Told(s)'
    BY Zenon, <2>1, WireKeepsTold DEF OrderInv
  <2> QED BY Zenon, <2>1, <2>2, <2>3 DEF OrderInv
<1>2. CASE ~Reliable'
  BY Zenon, <1>2 DEF OrderInv, AnswerPrecedesNotifications, Reliable
<1> QED BY Zenon, <1>1, <1>2

LEMMA InitOrder == Init => OrderInv
BY DEF Init, OrderInv, AnswerPrecedesNotifications, Announced, NoSub
-----------------------------------------------------------------------------
(* Stopping *)

LEMMA EntriesAreInBatch ==
  ASSUME NEW b \in Requests, NEW i \in 1 .. Len(Entries[b])
  PROVE  InBatch(Entries[b][i])
BY Zenon, EntriesAreRequests DEF InBatch

LEMMA CurrentEntry ==
  ASSUME TypeOK, NEW b \in Requests, pos[b] <= Len(Entries[b])
  PROVE  Entries[b][pos[b]] \in Requests /\ InBatch(Entries[b][pos[b]])
<1>1. pos[b] \in 1 .. Len(Entries[b])
  <2>1. pos[b] \in Nat \ {0} /\ Len(Entries[b]) \in Nat
    BY ConnectionAssumption DEF TypeOK
  <2> QED BY <2>1
<1> QED BY Zenon, <1>1, EntriesAreRequests, EntriesAreInBatch

(* A message that has not come or that is dealt with stays so until it     *)
(* comes.                                                                  *)
LEMMA EndedTasks ==
  ASSUME TypeOK, [Next]_vars, NEW q \in Requests, ~InBatch(q), task[q] \in {"idle", "done"},
         ~Receive(q), ~ReceiveTooLarge(q)
  PROVE  task'[q] = task[q]
<1>1. CASE task' = task
  BY Zenon, <1>1
<1>2. ASSUME NEW r \in Requests, r # q, Receive(r) \/ ReceiveTooLarge(r) \/ ReplyTooLarge(r)
      PROVE  task'[q] = task[q]
  BY Zenon, <1>2 DEF Receive, ReceiveTooLarge, ReplyTooLarge, Phase, TypeOK
<1>3. ~ReplyTooLarge(q)
  BY Zenon DEF ReplyTooLarge
<1>4. ASSUME NEW r \in Requests, TaskStep(r)
      PROVE  task'[q] = task[q]
  <2>1. r # q
    BY Zenon, <1>4 DEF TaskStep, Dispatch, MethodReturns, SubscriptionResolves, BatchCall, BatchAppend,
                BatchFinish, Respond
  <2>2. ASSUME NEW p \in Requests, p # q, Call(p)
        PROVE  task'[q] = task[q]
    BY Zenon, <2>2 DEF TypeOK, Call, Subscribe, Unsubscribe, Phase
  <2>3. ASSUME pos[r] <= Len(Entries[r])
        PROVE  Entries[r][pos[r]] \in Requests /\ Entries[r][pos[r]] # q
    BY Zenon, <2>3, CurrentEntry
  <2>4. CASE Dispatch(r)
    BY Zenon, <2>1, <2>2, <2>4 DEF Dispatch, Phase, TypeOK
  <2>5. CASE BatchCall(r)
    BY Zenon, <2>2, <2>3, <2>5 DEF BatchCall
  <2>6. CASE BatchAppend(r)
    BY Zenon, <2>1, <2>3, <2>6 DEF BatchAppend, TypeOK
  <2>7. CASE MethodReturns(r) \/ SubscriptionResolves(r) \/ BatchFinish(r) \/ Respond(r)
    BY Zenon, <2>1, <2>7 DEF MethodReturns, SubscriptionResolves, BatchFinish, Respond, Phase, TypeOK
  <2> QED BY Zenon, <1>4, <2>4, <2>5, <2>6, <2>7 DEF TaskStep
<1>5. ASSUME NEW s \in Requests, CallbackStep(s) \/ CallbackChoice(s)
      PROVE  task' = task
  BY Zenon, <1>5 DEF CallbackStep, CallbackChoice, Decide, DropPending, AcceptSend, AcceptInsert,
       RejectSend, JoinCallback, CloseSend, SendStart, SendEnd, CloneSink, DropSink,
       CallbackReturns, taskVars
<1>6. CASE \/ RecvStep /\ ~\E r \in Requests : ReplyTooLarge(r)
           \/ SenderStep \/ PingFails \/ MissedPing \/ StopServer \/ PeerCloses \/ UNCHANGED vars
  BY Zenon, <1>6 DEF RecvStep, SenderStep, PingFails, MissedPing, StopServer, PeerCloses,
       ConnectionClosed, Stopped, PendingCallsCompleted, CloseSendTask, Finish, SendMessage,
       StopSendTask, CloseQueue, taskVars, vars
<1> QED BY Zenon, <1>1, <1>2, <1>3, <1>4, <1>5, <1>6 DEF Next

(* The tasks and the callbacks leave the two loops of the connection alone. *)
LEMMA TasksLeaveConnection ==
  ASSUME NEW r \in Requests, TaskStep(r) \/ CallbackStep(r) \/ CallbackChoice(r)
  PROVE  UNCHANGED <<connVars, delivered>>
BY Zenon DEF TaskStep, Dispatch, MethodReturns, SubscriptionResolves, BatchCall, BatchAppend, BatchFinish,
       Respond, CallbackStep, CallbackChoice, Decide, DropPending, AcceptSend, AcceptInsert,
       RejectSend, JoinCallback, CloseSend, SendStart, SendEnd, CloneSink, DropSink, CallbackReturns

(* A fault that has happened to the connection is not undone. *)
LEMMA SoundBefore ==
  ASSUME TypeOK, SubInv, [Next]_vars, Sound'
  PROVE  Sound
<1>1. peer' = peer \/ peer' = "gone"
  BY Zenon, TasksLeaveConnection
     DEF Next, RecvStep, SenderStep, PingFails, MissedPing, StopServer, PeerCloses, Receive,
         ReceiveTooLarge, ConnectionClosed, Stopped, PendingCallsCompleted, CloseSendTask, Finish,
         ReplyTooLarge, SendMessage, StopSendTask, CloseQueue, connVars, vars
<1>2. missed' = missed \/ missed' = missed + 1
  BY Zenon, TasksLeaveConnection
     DEF Next, RecvStep, SenderStep, PingFails, MissedPing, StopServer, PeerCloses, Receive,
         ReceiveTooLarge, ConnectionClosed, Stopped, PendingCallsCompleted, CloseSendTask, Finish,
         ReplyTooLarge, SendMessage, StopSendTask, CloseQueue, connVars, vars
<1>3. ASSUME NEW q \in Requests, task'[q] = "idle"
      PROVE  task[q] = "idle"
  <2>1. CASE \A r \in Requests : Moves(r)
    BY Zenon, <1>3, <2>1 DEF Moves
  <2>2. CASE \E r \in Requests : SubscriptionResolves(r)
    BY Zenon, <1>3, <2>2 DEF SubscriptionResolves, Phase, TypeOK
  <2>3. CASE \E s \in Requests : CallbackStep(s) \/ CallbackChoice(s)
    BY Zenon, <1>3, <2>3 DEF CallbackStep, CallbackChoice, Decide, DropPending, AcceptSend, AcceptInsert,
       RejectSend, JoinCallback, CloseSend, SendStart, SendEnd, CloneSink, DropSink,
       CallbackReturns, taskVars
  <2>4. CASE UNCHANGED vars
    BY Zenon, <1>3, <2>4 DEF vars
  <2> QED BY Zenon, <2>1, <2>2, <2>3, <2>4, ConnectionTasks, TaskTasks DEF Next, SubInv
<1>4. missed \in Nat /\ MaxFailures \in Nat
  BY Zenon, NumbersAndNone DEF TypeOK
<1> QED BY <1>1, <1>2, <1>3, <1>4 DEF Sound
(* A message that needs a reply is done only when it was replied to. *)
LEMMA DoneIsTold ==
  ASSUME TypeOK, SubInv, OrderInv, Reliable, [Next]_vars, NEW q \in Requests, Replies(q),
         ~InBatch(q), task[q] # "done", task'[q] = "done"
  PROVE  Told(q)'
<1>1. Kind[q] # "toolarge" /\ Kind[q] # "notification"
  BY Zenon DEF Replies
<1>2. ASSUME NEW r \in Requests, Receive(r) \/ ReceiveTooLarge(r) \/ ReplyTooLarge(r)
      PROVE  FALSE
  BY Zenon, <1>1, <1>2 DEF Receive, ReceiveTooLarge, ReplyTooLarge, Phase, TypeOK, SubInv, TaskOK
<1>3. task' # task
  BY Zenon
<1>4. PICK r \in Requests : TaskStep(r)
  <2>1. ASSUME NEW s \in Requests, CallbackStep(s) \/ CallbackChoice(s)
        PROVE  task' = task
    BY Zenon, <2>1 DEF CallbackStep, CallbackChoice, Decide, DropPending, AcceptSend, AcceptInsert,
         RejectSend, JoinCallback, CloseSend, SendStart, SendEnd, CloneSink, DropSink,
         CallbackReturns, taskVars
  <2>2. ASSUME \/ RecvStep \/ SenderStep \/ PingFails \/ MissedPing \/ StopServer \/ PeerCloses
               \/ UNCHANGED vars
        PROVE  task' = task
    BY Zenon, <1>2, <2>2 DEF RecvStep, SenderStep, PingFails, MissedPing, StopServer, PeerCloses,
         ConnectionClosed, Stopped, PendingCallsCompleted, CloseSendTask, Finish, SendMessage,
         StopSendTask, CloseQueue, taskVars, vars
  <2> QED BY Zenon, <1>2, <1>3, <2>1, <2>2 DEF Next
<1>5. ASSUME pos[r] <= Len(Entries[r])
      PROVE  Entries[r][pos[r]] \in Requests /\ Entries[r][pos[r]] # q
  BY Zenon, <1>5, CurrentEntry
<1>6. CASE Dispatch(r)
  <2>1. ~Call(r)
    BY Zenon, <1>6, CallMoves DEF Dispatch
  <2> QED BY Zenon, <1>1, <1>6, <2>1 DEF Dispatch, Phase, TypeOK, Replies
<1>7. CASE MethodReturns(r)
  BY Zenon, <1>7 DEF MethodReturns, Phase, TypeOK
<1>8. CASE SubscriptionResolves(r)
  <2>1. r = q /\ sub[q].reply \in {"ok", "err"} /\ queue' = queue /\ delivered' = delivered
    BY Zenon, <1>8 DEF SubscriptionResolves, Phase, TypeOK, Subscriptions
  <2>2. Told(q)
    BY Zenon, <2>1 DEF OrderInv, Announced
  <2>3. WireStep
    BY Zenon, <2>1 DEF WireStep, Quiet
  <2> QED BY Zenon, <2>2, <2>3, WireKeepsTold
<1>9. CASE BatchCall(r)
  <2>1. Entries[r][pos[r]] # q /\ Entries[r][pos[r]] \in Requests
    BY Zenon, <1>5, <1>9 DEF BatchCall
  <2> QED BY Zenon, <1>9, <2>1, CallMoves DEF BatchCall
<1>10. CASE BatchAppend(r)
  BY Zenon, <1>5, <1>10 DEF BatchAppend, TypeOK
<1>11. CASE BatchFinish(r)
  <2>1. r = q /\ Kind[q] = "batch" /\ Calls(q) = {} /\ Entries[q] # <<>>
    BY Zenon, <1>11 DEF BatchFinish, Phase, TypeOK, SubInv, TaskOK
  <2> QED BY Zenon, <2>1 DEF Replies
<1>12. CASE Respond(r)
  <2> DEFINE m == [t |-> IF task[q] = "error" THEN "error" ELSE "answer", r |-> q]
  <2>1. r = q
    BY Zenon, <1>12 DEF Respond, Phase, TypeOK
  <2>2. Queues(m)
    BY Zenon, <1>12, <2>1 DEF Respond, Enqueue, Queues, Reliable, IsClosed
  <2>3. m \in Messages /\ q \in AnsweredBy(m)
    BY Zenon DEF Messages, AnsweredBy
  <2> HIDE DEF m
  <2> QED BY Zenon, <2>2, <2>3, QueuesTells
<1> QED BY Zenon, <1>4, <1>6, <1>7, <1>8, <1>9, <1>10, <1>11, <1>12 DEF TaskStep

(* The receive loop ends only when no call is pending, unless something    *)
(* other than a stop has happened.                                         *)
LEMMA RecvStops ==
  ASSUME TypeOK, SubInv, StopInv, [Next]_vars, Sound, Sound',
         recv' \in {"closing", "joining", "done"}
  PROVE  NoPendingCalls /\ \A q \in Requests : ~Receive(q) /\ ~ReceiveTooLarge(q)
<1>1. ASSUME NEW q \in Requests
      PROVE  ~Receive(q) /\ ~ReceiveTooLarge(q) /\ ~ReplyTooLarge(q)
  <2>1. ~Receive(q)
    BY Zenon DEF Receive, connVars
  <2>2. ~ReceiveTooLarge(q)
    BY Zenon DEF ReceiveTooLarge, Phase, Sound, TypeOK
  <2>3. ~ReplyTooLarge(q)
    BY Zenon DEF ReplyTooLarge, Sound, SubInv, TaskOK
  <2> QED BY Zenon, <2>1, <2>2, <2>3
<1>2. CASE recv \in {"closing", "joining", "done"}
  BY Zenon, <1>1, <1>2 DEF StopInv
<1>3. CASE recv' # recv /\ recv \notin {"closing", "joining", "done"}
  <2>1. ConnectionClosed \/ PendingCallsCompleted \/ MissedPing
    BY Zenon, <1>1, <1>3, TasksLeaveConnection
       DEF Next, RecvStep, SenderStep, PingFails, StopServer, PeerCloses, Stopped, CloseSendTask,
           Finish, SendMessage, StopSendTask, CloseQueue, connVars, vars
  <2>2. ~ConnectionClosed
    BY Zenon DEF ConnectionClosed, Sound
  <2>3. ~MissedPing
    <3>1. missed' \in Nat => ~(missed' >= MaxFailures)
      BY NumbersAndNone DEF Sound
    <3>2. MissedPing => missed' \in Nat
      BY DEF MissedPing, TypeOK
    <3> QED BY Zenon, <3>1, <3>2 DEF MissedPing
  <2>4. CASE PendingCallsCompleted
    BY Zenon, <1>1, <2>4 DEF PendingCallsCompleted, Sound, StopInv, IsClosed
  <2> QED BY Zenon, <2>1, <2>2, <2>3, <2>4
<1> QED BY Zenon, <1>2, <1>3
LEMMA NextStop ==
  ASSUME TypeOK, SubInv, OrderInv, StopInv, [Next]_vars
  PROVE  StopInv'
<1>1. (conn_tx => recv \in {"joining", "done"})'
  <2>1. CASE CloseSendTask
    BY Zenon, <2>1 DEF CloseSendTask
  <2>2. CASE conn_tx' = conn_tx
    <3>1. recv \in {"joining", "done"} => recv' \in {"joining", "done"}
      BY Zenon, TasksLeaveConnection
         DEF Next, RecvStep, SenderStep, PingFails, MissedPing, StopServer, PeerCloses, Receive,
             ReceiveTooLarge, ReplyTooLarge, ConnectionClosed, Stopped, PendingCallsCompleted,
             CloseSendTask, Finish, SendMessage, StopSendTask, CloseQueue, connVars, vars
    <3> QED BY Zenon, <2>2, <3>1 DEF StopInv
  <2> QED BY Zenon, <2>1, <2>2, TasksLeaveConnection
           DEF Next, RecvStep, SenderStep, PingFails, MissedPing, StopServer, PeerCloses, Receive,
               ReceiveTooLarge, ReplyTooLarge, ConnectionClosed, Stopped, PendingCallsCompleted,
               Finish, SendMessage, StopSendTask, CloseQueue, connVars, vars
<1>2. CASE ~Sound'
  BY Zenon, <1>1, <1>2 DEF StopInv, Sound, GracefulStopAnswersAll
<1>3. CASE Sound'
  <2>1. Sound
    BY Zenon, <1>3, SoundBefore
  <2>2. conn_tx => conn_tx'
    BY Zenon, TasksLeaveConnection
       DEF Next, RecvStep, SenderStep, PingFails, MissedPing, StopServer, PeerCloses, Receive,
           ReceiveTooLarge, ReplyTooLarge, ConnectionClosed, Stopped, PendingCallsCompleted,
           CloseSendTask, Finish, SendMessage, StopSendTask, CloseQueue, connVars, vars
  <2>3. \/ sender' = sender
        \/ sender = "run" /\ sender' = "closing" /\ StopSendTask
        \/ sender = "closing" /\ sender' = "done"
    <3>1. SendMessage => sender' = sender
      BY Zenon, <2>1 DEF SendMessage, Sound
    <3>2. ~PingFails
      BY Zenon, <2>1 DEF PingFails, Sound
    <3> QED BY Zenon, <3>1, <3>2, TasksLeaveConnection
           DEF Next, RecvStep, SenderStep, MissedPing, StopServer, PeerCloses, Receive,
               ReceiveTooLarge, ReplyTooLarge, ConnectionClosed, Stopped, PendingCallsCompleted,
               CloseSendTask, Finish, StopSendTask, CloseQueue, connVars, vars
  <2>4. (sender # "run" => conn_tx)'
    BY Zenon, <2>1, <2>2, <2>3 DEF StopInv, StopSendTask
  <2>5. ASSUME recv' \in {"closing", "joining", "done"}
        PROVE  /\ NoPendingCalls /\ NoPendingCalls'
               /\ \A q \in Requests : ~InBatch(q) => task'[q] = task[q]
    <3>1. NoPendingCalls /\ \A q \in Requests : ~Receive(q) /\ ~ReceiveTooLarge(q)
      BY Zenon, <1>3, <2>1, <2>5, RecvStops
    <3>2. \A q \in Requests : ~InBatch(q) => task'[q] = task[q]
      BY Zenon, <3>1, EndedTasks DEF NoPendingCalls
    <3> QED BY Zenon, <3>1, <3>2 DEF NoPendingCalls
  <2>6. ASSUME sender' = "run", NEW r \in Requests, Replies(r), ~InBatch(r), task'[r] = "done"
        PROVE  Told(r)'
    <3>1. Reliable /\ Reliable' /\ sender = "run"
      BY Zenon, <1>3, <2>1, <2>3, <2>6 DEF Sound, Reliable
    <3>2. WireStep
      BY Zenon, <3>1, NextWire
    <3>3. CASE task[r] = "done"
      <4>1. Told(r)
        BY Zenon, <2>1, <2>6, <3>1, <3>3 DEF StopInv
      <4> QED BY Zenon, <3>2, <4>1, WireKeepsTold
    <3>4. CASE task[r] # "done"
      BY Zenon, <2>6, <3>1, <3>4, DoneIsTold
    <3> QED BY Zenon, <3>3, <3>4
  <2>7. GracefulStopAnswersAll'
    <3> SUFFICES ASSUME sender' = "closing", NEW r \in Requests, Replies(r), ~InBatch(r),
                        task'[r] # "idle"
                 PROVE  r \in delivered'
      BY Zenon DEF GracefulStopAnswersAll, Replies, InBatch, Calls, Range
    <3>1. conn_tx' /\ recv' \in {"joining", "done"}
      BY Zenon, <1>1, <2>4
    <3>2. task[r] = "done"
      BY Zenon, <2>5, <3>1 DEF NoPendingCalls
    <3>3. CASE sender = "closing"
      <4>1. r \in delivered
        BY Zenon, <2>1, <3>2, <3>3 DEF StopInv, GracefulStopAnswersAll, Sound
      <4>2. delivered \subseteq delivered'
        BY Zenon, TasksLeaveConnection
           DEF Next, RecvStep, SenderStep, PingFails, MissedPing, StopServer, PeerCloses, Receive,
               ReceiveTooLarge, ReplyTooLarge, ConnectionClosed, Stopped, PendingCallsCompleted,
               CloseSendTask, Finish, SendMessage, StopSendTask, CloseQueue, vars
      <4> QED BY Zenon, <4>1, <4>2
    <3>4. CASE sender = "run" /\ StopSendTask
      <4>1. Told(r) /\ queue = <<>> /\ delivered' = delivered
        BY Zenon, <2>1, <3>2, <3>4 DEF StopInv, StopSendTask
      <4> QED BY <4>1 DEF Told, Queued
    <3> QED BY Zenon, <2>3, <3>3, <3>4
  <2> QED BY Zenon, <1>1, <2>4, <2>5, <2>6, <2>7 DEF StopInv, Replies, InBatch, Calls, Range
<1> QED BY Zenon, <1>2, <1>3

LEMMA InitStop == Init => StopInv
<1> SUFFICES ASSUME Init PROVE StopInv
  BY Zenon
<1>1. conn_tx = FALSE /\ recv = "run" /\ sender = "run" /\ \A r \in Requests : task[r] = "idle"
  BY Zenon DEF Init
<1> QED BY Zenon, <1>1 DEF StopInv, GracefulStopAnswersAll
-----------------------------------------------------------------------------
(* Answers *)

LEMMA BatchIsNoEntry ==
  ASSUME NEW b \in Requests, Range(Entries[b]) # {}
  PROVE  ~InBatch(b)
<1>1. Kind[b] = "batch"
  BY Zenon, EntriesAreRequests
<1>2. ASSUME NEW a \in Requests, NEW i \in DOMAIN Entries[a]
      PROVE  Kind[Entries[a][i]] # "batch"
  BY Zenon, ConnectionAssumption
<1> QED BY Zenon, <1>1, <1>2 DEF InBatch, Range

LEMMA BatchesAreDisjoint ==
  ASSUME NEW a \in Requests, NEW b \in Requests, NEW r \in Range(Entries[a]), r \in Range(Entries[b])
  PROVE  a = b
BY ConnectionAssumption DEF Range

(* A subscription that was announced stays announced. *)
LEMMA AnnouncedStays ==
  ASSUME TypeOK, SubInv, [Next]_vars, NEW s \in Requests, Announced(s)
  PROVE  Announced(s)'
<1>1. CASE sub'[s] = sub[s]
  BY Zenon, <1>1 DEF Announced
<1>2. CASE sub'[s].reply = sub[s].reply /\ sub'[s].cb = sub[s].cb
  BY Zenon, <1>2 DEF Announced
<1>3. SubOK(s) /\ (sub[s].cb \in Undecided \ {"accepted"} => FALSE)
  BY Zenon DEF SubInv, SubOK, Announced, Undecided
<1>4. ASSUME NEW r \in Requests, task[r] \in {"idle", "spawned"}, Call(r)
      PROVE  Announced(s)'
  <2>1. r # s
    BY Zenon, <1>3, <1>4 DEF SubOK, Announced
  <2> QED BY Zenon, <1>1, <1>4, <2>1 DEF Call, Subscribe, Unsubscribe, TypeOK, subVars
<1>5. ASSUME NEW r \in Requests, TaskStep(r)
      PROVE  Announced(s)'
  <2>1. CASE SubscriptionResolves(r)
    <3>1. sub'[s].reply = sub[s].reply /\ sub'[s].cb = sub[s].cb
      BY Zenon, <2>1 DEF SubscriptionResolves, TypeOK, Subscriptions
    <3> QED BY Zenon, <1>2, <3>1
  <2>2. CASE Dispatch(r)
    BY Zenon, <1>1, <1>4, <2>2 DEF Dispatch, subVars
  <2>3. CASE BatchCall(r)
    <3>1. Entries[r][pos[r]] \in Requests
      BY Zenon, <2>3, CurrentEntry DEF BatchCall
    <3> QED BY Zenon, <1>4, <2>3, <3>1 DEF BatchCall
  <2> QED BY Zenon, <1>1, <1>5, <2>1, <2>2, <2>3
          DEF TaskStep, MethodReturns, BatchAppend, BatchFinish, Respond, subVars
<1>6. ASSUME NEW r \in Requests, CallbackStep(r) \/ CallbackChoice(r)
      PROVE  Announced(s)'
  <2>1. CASE r # s
    <3>1. sub'[s] = sub[s]
      BY Zenon, <1>6, <2>1 DEF CallbackStep, CallbackChoice, Decide, DropPending, AcceptSend, AcceptInsert,
           RejectSend, JoinCallback, CloseSend, SendStart, SendEnd, CloneSink, DropSink,
           CallbackReturns, TypeOK
    <3> QED BY Zenon, <1>1, <3>1
  <2>2. CASE r = s
    <3>1. ~Decide(s) /\ ~DropPending(s) /\ ~AcceptSend(s) /\ ~RejectSend(s)
      BY Zenon, <1>3 DEF Decide, DropPending, AcceptSend, RejectSend, Undecided
    <3>2. CASE AcceptInsert(s)
      <4>1. sub'[s].reply = "ok"
        BY Zenon, <3>2 DEF AcceptInsert, TypeOK, Subscriptions
      <4> QED BY Zenon, <4>1 DEF Announced
    <3>3. CASE JoinCallback(s) \/ CloseSend(s) \/ CallbackReturns(s)
      <4>1. sub'[s].reply = sub[s].reply /\ sub[s].cb # "accepted"
        BY <3>3 DEF JoinCallback, CloseSend, CallbackReturns, TypeOK, Subscriptions
      <4> QED BY Zenon, <4>1 DEF Announced
    <3>4. CASE SendStart(s) \/ CloneSink(s)
      <4>1. sub'[s].reply = sub[s].reply /\ sub'[s].cb = sub[s].cb
        BY <3>4 DEF SendStart, CloneSink, TypeOK, Subscriptions
      <4> QED BY Zenon, <1>2, <4>1
    <3>5. CASE SendEnd(s)
      <4>1. sub'[s].reply = sub[s].reply /\ sub'[s].cb = sub[s].cb
        BY <3>5 DEF SendEnd, TypeOK, Subscriptions
      <4> QED BY Zenon, <1>2, <4>1
    <3>6. CASE DropSink(s)
      <4>1. sub'[s].reply = sub[s].reply /\ sub'[s].cb = sub[s].cb
        BY Zenon, <3>6 DEF DropSink, TypeOK, Subscriptions
      <4> QED BY Zenon, <1>2, <4>1
    <3> QED BY Zenon, <1>6, <2>2, <3>1, <3>2, <3>3, <3>4, <3>5, <3>6 DEF CallbackStep, CallbackChoice
  <2> QED BY Zenon, <2>1, <2>2
<1>7. CASE \/ RecvStep \/ SenderStep \/ PingFails \/ MissedPing \/ StopServer \/ PeerCloses
           \/ UNCHANGED vars \/ \E r \in Requests : Receive(r) \/ ReceiveTooLarge(r)
  BY Zenon, <1>1, <1>7
     DEF RecvStep, SenderStep, PingFails, MissedPing, StopServer, PeerCloses, Receive,
         ReceiveTooLarge, ConnectionClosed, Stopped, PendingCallsCompleted, CloseSendTask, Finish,
         ReplyTooLarge, SendMessage, StopSendTask, CloseQueue, subVars, vars
<1> QED BY Zenon, <1>5, <1>6, <1>7 DEF Next

(* Only the end of its callback ends the wait of a subscription. *)
LEMMA WaitingEnds ==
  ASSUME TypeOK, SubInv, [Next]_vars, NEW r \in Requests, task[r] = "waiting",
         task'[r] # "waiting"
  PROVE  SubscriptionResolves(r)
<1>1. ~\A q \in Requests : Moves(q)
  BY Zenon DEF Moves
<1>2. task' # task
  BY Zenon
<1>3. PICK p \in Requests : TaskStep(p)
  <2>1. ASSUME NEW s \in Requests, CallbackStep(s) \/ CallbackChoice(s)
        PROVE  task' = task
    BY Zenon, <2>1 DEF CallbackStep, CallbackChoice, Decide, DropPending, AcceptSend, AcceptInsert,
         RejectSend, JoinCallback, CloseSend, SendStart, SendEnd, CloneSink, DropSink,
         CallbackReturns, taskVars
  <2>2. UNCHANGED vars => task' = task
    BY Zenon DEF vars
  <2> QED BY Zenon, <1>1, <1>2, <2>1, <2>2, ConnectionTasks DEF Next, SubInv
<1>4. SubscriptionResolves(p)
  BY Zenon, <1>1, <1>3, TaskTasks DEF SubInv
<1> QED BY Zenon, <1>4 DEF SubscriptionResolves, Phase, TypeOK
LEMMA NextAnswers ==
  ASSUME TypeOK, TypeOK', SubInv, SubInv', AnswersInv, SubscriptionsAreSingle, [Next]_vars
  PROVE  AnswersInv'
<1>1. \A b \in Requests : ~InBatch(b) /\ task[b] = "done" => task'[b] = "done"
  BY Zenon, EndedTasks DEF Receive, ReceiveTooLarge
<1>2. \A r \in Requests : task[r] = "waiting" \/ task'[r] = "waiting" => ~InBatch(r)
  BY Zenon DEF SubInv, TaskOK, SubscriptionsAreSingle
<1>3. ASSUME NEW rs,
             \A r \in Requests : answered'[r] = answered[r] + IF r \in rs THEN 1 ELSE 0,
             \A r \in rs \cap Requests :
                /\ answered[r] = 0
                /\ InBatch(r) \/ task'[r] \in {"waiting", "done"}
                /\ task'[r] = "waiting" => Announced(r)'
                /\ \A b \in Requests : r \in Range(Entries[b]) => task'[b] = "done"
      PROVE  AnswersInv'
  <2>1. \A r \in Requests : answered[r] \in Nat /\ answered[r] <= 1
    BY Zenon DEF TypeOK, AnswersInv, AnsweredAtMostOnce
  <2>2. /\ AnsweredAtMostOnce'
        /\ \A r \in Requests \ rs : answered[r] = 0 => answered'[r] = 0
    BY <1>3, <2>1 DEF AnsweredAtMostOnce
  <2>3. ASSUME NEW r \in Requests, ~InBatch(r), task'[r] \notin {"waiting", "done"}
        PROVE  answered'[r] = 0
    <3>1. r \notin rs /\ task[r] # "done"
      BY Zenon, <1>1, <1>3, <2>3
    <3>2. CASE task[r] # "waiting"
      BY Zenon, <2>2, <2>3, <3>1, <3>2 DEF AnswersInv
    <3>3. CASE task[r] = "waiting"
      <4>1. SubscriptionResolves(r)
        BY Zenon, <2>3, <3>3, WaitingEnds
      <4>2. sub[r].reply = "dropped"
        BY Zenon, <2>3, <4>1 DEF SubscriptionResolves, Phase, TypeOK
      <4>3. ~Announced(r)
        BY Zenon, <4>2 DEF Announced, SubInv, SubOK, Undecided
      <4> QED BY Zenon, <2>2, <3>1, <3>3, <4>3 DEF AnswersInv
    <3> QED BY Zenon, <3>2, <3>3
  <2>4. ASSUME NEW r \in Requests, task'[r] = "waiting", ~Announced(r)'
        PROVE  answered'[r] = 0
    <3>1. r \notin rs /\ ~InBatch(r) /\ task[r] # "done" /\ ~Announced(r)
      BY Zenon, <1>1, <1>2, <1>3, <2>4, AnnouncedStays
    <3>2. answered[r] = 0
      BY Zenon, <3>1 DEF AnswersInv
    <3> QED BY Zenon, <2>2, <3>1, <3>2
  <2>5. ASSUME NEW b \in Requests, task'[b] # "done", NEW r \in Range(Entries[b])
        PROVE  answered'[r] = 0
    <3>1. ~InBatch(b) /\ r \in Requests
      BY Zenon, BatchIsNoEntry, EntriesAreRequests
    <3>2. task[b] # "done" /\ r \notin rs
      BY Zenon, <1>1, <1>3, <2>5, <3>1
    <3>3. answered[r] = 0
      BY Zenon, <3>2 DEF AnswersInv
    <3> QED BY Zenon, <2>2, <3>1, <3>2, <3>3
  <2> QED BY Zenon, <2>2, <2>3, <2>4, <2>5 DEF AnswersInv, InBatch, Range
<1>4. CASE answered' = answered
  <2>1. PICK rs : rs = {}
    BY Zenon
  <2>2. \A r \in Requests : answered'[r] = answered[r] + IF r \in rs THEN 1 ELSE 0
    BY <1>4, <2>1 DEF TypeOK
  <2>3. rs \cap Requests = {}
    BY Zenon, <2>1
  <2> QED BY Zenon, <1>3, <2>2, <2>3
<1>5. ASSUME NEW m \in Messages, m.t \in {"answer", "error"}, Count(AnsweredBy(m)),
             ~InBatch(m.r), task[m.r] \notin {"waiting", "done"}, task'[m.r] = "done"
      PROVE  AnswersInv'
  <2>1. m.r \in Requests
    BY Zenon DEF Messages
  <2>2. \A r \in Requests : answered'[r] = answered[r] + IF r \in AnsweredBy(m) THEN 1 ELSE 0
    BY Zenon, <1>5 DEF Count
  <2>3. answered[m.r] = 0
    BY Zenon, <1>5, <2>1 DEF AnswersInv
  <2>4. ASSUME NEW r \in Calls(m.r)
        PROVE  /\ r \in Requests /\ r \in Range(Entries[m.r]) /\ InBatch(r) /\ answered[r] = 0
               /\ task'[r] # "waiting"
    <3>1. r \in Range(Entries[m.r]) /\ r \in Requests /\ InBatch(r)
      BY Zenon, <2>1, EntriesAreRequests DEF InBatch
    <3> QED BY Zenon, <1>2, <1>5, <2>1, <3>1 DEF AnswersInv
  <2>5. ASSUME NEW r \in Calls(m.r), NEW b \in Requests, r \in Range(Entries[b])
        PROVE  b = m.r
    BY Zenon, <2>1, <2>4, <2>5, BatchesAreDisjoint
  <2>6. AnsweredBy(m) \subseteq {m.r} \cup Calls(m.r)
    BY Zenon, <1>5 DEF AnsweredBy
  <2>7. \A b \in Requests : m.r \notin Range(Entries[b])
    BY Zenon, <1>5 DEF InBatch
  <2>8. ASSUME NEW r \in AnsweredBy(m)
        PROVE  /\ answered[r] = 0
               /\ InBatch(r) \/ task'[r] \in {"waiting", "done"}
               /\ task'[r] # "waiting"
               /\ \A b \in Requests : r \in Range(Entries[b]) => task'[b] = "done"
    <3>1. CASE r = m.r
      BY Zenon, <1>5, <2>3, <2>7, <3>1
    <3>2. CASE r \in Calls(m.r)
      BY Zenon, <1>5, <2>4, <2>5, <3>2
    <3> QED BY Zenon, <2>6, <3>1, <3>2
  <2> QED BY Zenon, <1>3, <2>2, <2>8
<1>6. ASSUME NEW s \in Requests, AcceptSend(s) \/ RejectSend(s), answered' # answered
      PROVE  AnswersInv'
  <2>1. /\ sub[s].cb \in {"accepting", "rejecting"} /\ task' = task /\ Count({s})
    BY Zenon, <1>6 DEF AcceptSend, RejectSend, taskVars
  <2>2. task[s] = "waiting" /\ sub[s].reply = "none"
    BY Zenon, <2>1 DEF SubInv, SubOK, Undecided
  <2>3. answered[s] = 0
    BY Zenon, <2>1, <2>2 DEF AnswersInv, Announced
  <2>4. Announced(s)'
    <3>1. CASE AcceptSend(s)
      <4>1. sub'[s].cb = "accepted"
        BY <3>1 DEF AcceptSend, TypeOK, Subscriptions
      <4> QED BY Zenon, <4>1 DEF Announced
    <3>2. CASE RejectSend(s)
      <4>1. sub'[s].reply = "err"
        BY Zenon, <3>2 DEF RejectSend, TypeOK, Subscriptions
      <4> QED BY Zenon, <4>1 DEF Announced
    <3> QED BY Zenon, <1>6, <3>1, <3>2
  <2>5. ~InBatch(s) /\ \A b \in Requests : s \notin Range(Entries[b])
    BY Zenon, <1>2, <2>2 DEF InBatch
  <2>6. \A r \in Requests : answered'[r] = answered[r] + IF r \in {s} THEN 1 ELSE 0
    BY Zenon, <2>1 DEF Count
  <2> QED BY Zenon, <1>3, <2>1, <2>2, <2>3, <2>4, <2>5, <2>6
<1>7. ASSUME NEW r \in Requests, ReplyTooLarge(r), answered' # answered
      PROVE  AnswersInv'
  <2> DEFINE m == [t |-> "error", r |-> r]
  <2>1. m \in Messages /\ m.t = "error" /\ m.r = r
    BY Zenon DEF Messages
  <2>2. Count(AnsweredBy(m)) /\ task[r] = "toolarge" /\ task'[r] = "done"
    BY Zenon, <1>7 DEF ReplyTooLarge, Phase, TypeOK
  <2>3. ~InBatch(r)
    BY Zenon, <2>2 DEF SubInv, TaskOK
  <2> HIDE DEF m
  <2> QED BY Zenon, <1>5, <2>1, <2>2, <2>3
<1>8. ASSUME NEW r \in Requests, Respond(r), answered' # answered
      PROVE  AnswersInv'
  <2> DEFINE m == [t |-> IF task[r] = "error" THEN "error" ELSE "answer", r |-> r]
  <2>1. m \in Messages /\ m.t \in {"error", "answer"} /\ m.r = r
    BY Zenon DEF Messages
  <2>2. Count(AnsweredBy(m)) /\ task[r] \notin {"waiting", "done"} /\ task'[r] = "done"
    BY Zenon, <1>8 DEF Respond, Phase, TypeOK
  <2>3. ~InBatch(r)
    BY Zenon, <1>8 DEF Respond, SubInv, TaskOK
  <2> HIDE DEF m
  <2> QED BY Zenon, <1>5, <2>1, <2>2, <2>3
<1>9. \/ answered' = answered
      \/ \E r \in Requests : ReplyTooLarge(r) \/ Respond(r) \/ AcceptSend(r) \/ RejectSend(r)
  BY DEF Next, RecvStep, SenderStep, PingFails, MissedPing, StopServer, PeerCloses, Receive,
         ReceiveTooLarge, ConnectionClosed, Stopped, PendingCallsCompleted, CloseSendTask, Finish,
         SendMessage, StopSendTask, CloseQueue, TaskStep, Dispatch, MethodReturns,
         SubscriptionResolves, BatchCall, BatchAppend, BatchFinish, CallbackStep, CallbackChoice,
         Decide, DropPending, AcceptInsert, JoinCallback, CloseSend, SendStart, SendEnd, CloneSink,
         DropSink, CallbackReturns, vars
<1> QED BY Zenon, <1>4, <1>6, <1>7, <1>8, <1>9

LEMMA InitAnswers == Init => AnswersInv
<1> SUFFICES ASSUME Init PROVE AnswersInv
  BY Zenon
<1>1. \A r \in Requests : answered[r] = 0
  BY Zenon DEF Init
<1> QED BY <1>1, EntriesAreRequests DEF AnswersInv, AnsweredAtMostOnce

-----------------------------------------------------------------------------
(* The theorems *)

(* As long as the wire is reliable, the peer has the answer to a           *)
(* subscription before any notification of it, whatever else shares the    *)
(* queue.                                                                  *)
THEOREM AnswersAlwaysPrecedeNotifications == Spec => []AnswerPrecedesNotifications
<1>1. Init => TypeOK /\ SubInv /\ OrderInv
  BY Zenon, InitType, InitSubs, InitOrder
<1>2. TypeOK /\ SubInv /\ OrderInv /\ [Next]_vars => (TypeOK /\ SubInv /\ OrderInv)'
  BY Zenon, NextSubs, NextOrder
<1>3. OrderInv => AnswerPrecedesNotifications
  BY DEF OrderInv
<1> QED BY <1>1, <1>2, <1>3, PTL DEF Spec

(* graceful_shutdown loses no answer: a connection to which nothing but a  *)
(* stop has happened closes with every reply written.                      *)
THEOREM GracefulStopAlwaysAnswersAll == Spec => []GracefulStopAnswersAll
<1>1. Init => TypeOK /\ SubInv /\ OrderInv /\ StopInv
  BY Zenon, InitType, InitSubs, InitOrder, InitStop
<1>2. TypeOK /\ SubInv /\ OrderInv /\ StopInv /\ [Next]_vars
        => (TypeOK /\ SubInv /\ OrderInv /\ StopInv)'
  BY Zenon, NextSubs, NextOrder, NextStop
<1>3. StopInv => GracefulStopAnswersAll
  BY DEF StopInv
<1> QED BY <1>1, <1>2, <1>3, PTL DEF Spec

(* No message of a peer that asks for subscriptions by messages of their   *)
(* own is answered twice.  A subscription inside a batch is: accept sends  *)
(* its response and the response of the batch holds it again.              *)
THEOREM SingleSubscriptionsAnswerOnce ==
  ASSUME SubscriptionsAreSingle
  PROVE  Spec => []AnsweredAtMostOnce
<1>1. Init => TypeOK /\ SubInv /\ AnswersInv
  BY Zenon, InitType, InitSubs, InitAnswers
<1>2. TypeOK /\ SubInv /\ AnswersInv /\ [Next]_vars => (TypeOK /\ SubInv /\ AnswersInv)'
  BY Zenon, NextSubs, NextAnswers
<1>3. AnswersInv => AnsweredAtMostOnce
  BY DEF AnswersInv
<1> QED BY <1>1, <1>2, <1>3, PTL DEF Spec
=============================================================================
