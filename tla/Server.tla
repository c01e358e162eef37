------------------------------- MODULE Server -------------------------------
(***************************************************************************)
(* The server around its connections: the accept loop of start_inner, one  *)
(* hyper task per TCP connection, the HTTP requests and WebSocket upgrades *)
(* TowerServiceNoHttp serves on it, the ConnectionGuard, the stop channel  *)
(* and the ConnectionManager with its broadcasts.  A connection can also   *)
(* be served by a service of the user's own, which hands its upgrades to   *)
(* ws::connect and may drop the future it gets back.                       *)
(*                                                                         *)
(* What happens inside an upgraded connection is the module WsConnection;  *)
(* here it runs, closes its queue and returns.                             *)
(***************************************************************************)
EXTENDS Naturals, FiniteSets

CONSTANTS
    Conns,          \* the TCP connections of the peers
    LowLevel,       \* the connections a service of the user's own serves
    Broadcasts,     \* the calls that send through the ConnectionManager
    Reporting,      \* those of send_to_connections and send_notification
    Streams,        \* the requests a TCP connection can serve at a time (HTTP/2)
    IdSpace,        \* connection ids are 0 .. IdSpace-1 (2^32 in the code)
    MaxConns,       \* max_connections
    None

ASSUME ServerAssumption ==
    /\ IsFiniteSet(Conns) /\ IsFiniteSet(Streams)
    /\ IdSpace \in Nat \ {0} /\ MaxConns \in Nat
    /\ None \notin Conns \cup Streams
    /\ LowLevel \subseteq Conns
    /\ Reporting \subseteq Broadcasts

Ids == 0 .. (IdSpace - 1)

VARIABLES
    handle,     \* "held", "stopped" (stop was called) or "dropped"
    accept,     \* the accept loop
    next_id,    \* `id` of start_inner
    tcp,        \* the hyper task of each connection
    http,       \* the HTTP requests being served on each connection
    ws,         \* the task spawned for the upgrade of each connection
    id,         \* the id a connection was given
    permits,    \* who holds a permit of the ConnectionGuard
    receivers,  \* clones of the StopHandle: who holds one
    connections,\* ConnectionManager::connections
    readers,    \* who holds the read lock of `connections`
    todo,       \* the ids a broadcast has still to send to
    failed      \* the ids a broadcast failed to send to

vars == <<handle, accept, next_id, tcp, http, ws, id, permits, receivers,
          connections, readers, todo, failed>>
mgrVars == <<connections, readers, todo, failed>>

(* The holders of a StopHandle: the accept loop, the service in the hyper  *)
(* task and the task of the upgraded connection.                           *)
Handles == {<<"accept", None>>} \cup ({"tcp", "ws"} \X Conns)

TypeOK ==
    /\ handle \in {"held", "stopped", "dropped"}
    /\ accept \in {"run", "await", "done"}
    /\ next_id \in Ids
    /\ tcp \in [Conns -> {"none", "serving", "draining", "upgraded", "closed"}]
    /\ http \in [Conns -> SUBSET Streams]
    /\ ws \in [Conns -> {"none", "registering", "upgrading", "running",
                         "closing", "unregistering", "ended"}]
    /\ id \in [Conns -> Ids]
    /\ permits \subseteq Conns \X (Streams \cup {None})
    /\ receivers \subseteq Handles
    /\ connections \in [Ids -> Conns \cup {None}]
    /\ readers \subseteq Broadcasts
    /\ todo \in [Broadcasts -> SUBSET Ids]
    /\ failed \in [Broadcasts -> SUBSET Ids]

Init ==
    /\ handle = "held" /\ accept = "run" /\ next_id = 0
    /\ tcp = [c \in Conns |-> "none"]
    /\ http = [c \in Conns |-> {}]
    /\ ws = [c \in Conns |-> "none"]
    /\ id = [c \in Conns |-> 0]
    /\ permits = {}
    /\ receivers = {<<"accept", None>>}
    /\ connections = [i \in Ids |-> None]
    /\ readers = {}
    /\ todo = [b \in Broadcasts |-> {}]
    /\ failed = [b \in Broadcasts |-> {}]

-----------------------------------------------------------------------------
(* ServerHandle and StopHandle *)

Stopping == handle # "held"

(* ServerHandle::is_stopped: every receiver of the stop channel is gone. *)
IsStopped == receivers = {}

(* stop() is called, or the last ServerHandle is dropped. *)
StopServer ==
    /\ handle = "held"
    /\ handle' \in {"stopped", "dropped"}
    /\ UNCHANGED <<accept, next_id, tcp, http, ws, id, permits, receivers, mgrVars>>

-----------------------------------------------------------------------------
(* The accept loop *)

AcceptSameId(c) ==
    /\ accept = "run" /\ tcp[c] = "none"
    /\ tcp' = [tcp EXCEPT ![c] = "serving"]
    /\ receivers' = receivers \cup {<<"tcp", c>>}
    /\ UNCHANGED <<handle, accept, next_id, id, http, ws, permits, mgrVars>>

(* The hyper task is spawned, unless the socket cannot be configured. *)
ProcessConnection(c) ==
    \/ /\ tcp' = [tcp EXCEPT ![c] = "serving"]
       /\ receivers' = receivers \cup {<<"tcp", c>>}
    \/ /\ tcp' = [tcp EXCEPT ![c] = "closed"]
       /\ UNCHANGED receivers

(* A connection is accepted.  The user's own loop numbers connections as   *)
(* start_inner does.                                                       *)
Accept(c) ==
    /\ accept = "run" /\ tcp[c] = "none"
    /\ id' = [id EXCEPT ![c] = next_id]
    /\ next_id' = (next_id + 1) % IdSpace
    /\ ProcessConnection(c)
    /\ UNCHANGED <<handle, accept, http, ws, permits, mgrVars>>

ShutdownOnStopOnly ==
    /\ accept = "run" /\ handle = "stopped"
    /\ accept' = "await"
    /\ UNCHANGED <<handle, next_id, tcp, http, ws, id, permits, receivers, mgrVars>>

(* The hyper task of a connection runs. *)
Served(c) == tcp[c] \in {"serving", "draining"}

(* The loop ends and waits until every hyper task it spawned has dropped   *)
(* its clone of drop_on_completion.                                        *)
Shutdown ==
    /\ accept = "run" /\ Stopping
    /\ accept' = "await"
    /\ UNCHANGED <<handle, next_id, tcp, http, ws, id, permits, receivers, mgrVars>>

ConnectionsProcessed ==
    /\ accept = "await" /\ \A c \in Conns \ LowLevel : ~Served(c)
    /\ accept' = "done"
    /\ receivers' = receivers \ {<<"accept", None>>}
    /\ UNCHANGED <<handle, next_id, tcp, http, ws, id, permits, mgrVars>>

-----------------------------------------------------------------------------
(* TowerServiceNoHttp::call.  A refused, denied or malformed request is    *)
(* answered at once and changes nothing.                                   *)

(* A permit belongs to one request, <<c, s>>, or to an upgrade, <<c, None>>. *)
TryAcquire(p) ==
    /\ Cardinality(permits) < MaxConns
    /\ permits' = permits \cup {p}

HttpRequest(c, s) ==
    /\ tcp[c] = "serving" /\ ws[c] = "none" /\ s \notin http[c]
    /\ TryAcquire(<<c, s>>)
    /\ http' = [http EXCEPT ![c] = @ \cup {s}]
    /\ UNCHANGED <<handle, accept, next_id, tcp, ws, id, receivers, mgrVars>>

(* The response is ready: the connection state, with its permit, is dropped. *)
HttpResponse(c, s) ==
    /\ s \in http[c]
    /\ http' = [http EXCEPT ![c] = @ \ {s}]
    /\ permits' = permits \ {<<c, s>>}
    /\ UNCHANGED <<handle, accept, next_id, tcp, ws, id, receivers, mgrVars>>

UpgradeWithoutHandle(c) ==
    /\ tcp[c] = "serving" /\ ws[c] = "none" /\ http[c] = {}
    /\ TryAcquire(<<c, None>>)
    /\ ws' = [ws EXCEPT ![c] = "registering"]
    /\ UNCHANGED <<handle, accept, next_id, tcp, http, id, receivers, mgrVars>>

(* The request is an upgrade: a task is spawned for the connection. *)
StartUpgrade(c) ==
    /\ tcp[c] = "serving" /\ ws[c] = "none" /\ http[c] = {}
    /\ TryAcquire(<<c, None>>)
    /\ ws' = [ws EXCEPT ![c] = "registering"]
    /\ receivers' = receivers \cup {<<"ws", c>>}
    /\ UNCHANGED <<handle, accept, next_id, tcp, http, id, mgrVars>>

UpgradeRequest(c) == c \notin LowLevel /\ StartUpgrade(c)

(* ws::connect is called with the permit of the user's own service. *)
Connect(c) == c \in LowLevel /\ StartUpgrade(c)

(* After a stop, hyper takes no further requests. *)
Drain(c) ==
    /\ tcp[c] = "serving" /\ Stopping
    /\ tcp' = [tcp EXCEPT ![c] = "draining"]
    /\ UNCHANGED <<handle, accept, next_id, http, ws, id, permits, receivers, mgrVars>>

GracefulShutdown(c) == c \notin LowLevel /\ Drain(c)
ServeWithGracefulShutdown(c) == c \in LowLevel /\ Drain(c)

(* The hyper task ends: the peer closed the connection, which drops the    *)
(* requests that are being served, or the connection was drained.          *)
TcpCloses(c) ==
    /\ Served(c)
    /\ tcp' = [tcp EXCEPT ![c] = "closed"]
    /\ http' = [http EXCEPT ![c] = {}]
    /\ permits' = permits \ ({c} \X http[c])
    /\ receivers' = receivers \ {<<"tcp", c>>}
    /\ UNCHANGED <<handle, accept, next_id, ws, id, mgrVars>>

(* ... or it hands the socket over to the upgrade. *)
TcpUpgrades(c) ==
    /\ Served(c) /\ ws[c] \in {"registering", "upgrading"}
    /\ tcp' = [tcp EXCEPT ![c] = "upgraded"]
    /\ receivers' = receivers \ {<<"tcp", c>>}
    /\ UNCHANGED <<handle, accept, next_id, http, ws, id, permits, mgrVars>>

-----------------------------------------------------------------------------
(* The task of an upgraded connection.  The write lock of `connections` is *)
(* had when no broadcast holds the read lock.                              *)

Register(c) ==
    /\ ws[c] = "registering" /\ readers = {}
    /\ connections' = [connections EXCEPT ![id[c]] = c]
    /\ ws' = [ws EXCEPT ![c] = "upgrading"]
    /\ UNCHANGED <<handle, accept, next_id, tcp, http, id, permits, receivers,
                   readers, todo, failed>>

(* The upgrade succeeds: background_task starts. *)
Upgrade(c) ==
    /\ ws[c] = "upgrading" /\ tcp[c] = "upgraded"
    /\ ws' = [ws EXCEPT ![c] = "running"]
    /\ UNCHANGED <<handle, accept, next_id, tcp, http, id, permits, receivers, mgrVars>>

UpgradeFailsWithPermit(c) ==
    /\ ws[c] = "upgrading" /\ tcp[c] = "closed"
    /\ ws' = [ws EXCEPT ![c] = "ended"]
    /\ receivers' = receivers \ {<<"ws", c>>}
    /\ UNCHANGED <<handle, accept, next_id, tcp, http, id, permits, mgrVars>>

(* The upgrade fails: the task returns and drops all it holds. *)
UpgradeFails(c) ==
    /\ ws[c] = "upgrading" /\ tcp[c] = "closed"
    /\ ws' = [ws EXCEPT ![c] = "ended"]
    /\ permits' = permits \ {<<c, None>>}
    /\ receivers' = receivers \ {<<"ws", c>>}
    /\ UNCHANGED <<handle, accept, next_id, tcp, http, id, mgrVars>>

(* background_task: the send task closes the queue, then the connection    *)
(* state is dropped and the task goes on to unregister.                    *)
QueueCloses(c) ==
    /\ ws[c] = "running"
    /\ ws' = [ws EXCEPT ![c] = "closing"]
    /\ UNCHANGED <<handle, accept, next_id, tcp, http, id, permits, receivers, mgrVars>>

BackgroundTaskReturns(c) ==
    /\ ws[c] = "closing"
    /\ ws' = [ws EXCEPT ![c] = "unregistering"]
    /\ permits' = permits \ {<<c, None>>}
    /\ UNCHANGED <<handle, accept, next_id, tcp, http, id, receivers, mgrVars>>

UnregisterUnlocked(c) ==
    /\ ws[c] = "unregistering"
    /\ connections' = [connections EXCEPT ![id[c]] = None]
    /\ ws' = [ws EXCEPT ![c] = "ended"]
    /\ receivers' = receivers \ {<<"ws", c>>}
    /\ UNCHANGED <<handle, accept, next_id, tcp, http, id, permits, readers, todo, failed>>

Unregister(c) ==
    /\ ws[c] = "unregistering" /\ readers = {}
    /\ connections' = [connections EXCEPT ![id[c]] = None]
    /\ ws' = [ws EXCEPT ![c] = "ended"]
    /\ receivers' = receivers \ {<<"ws", c>>}
    /\ UNCHANGED <<handle, accept, next_id, tcp, http, id, permits, readers, todo, failed>>

(* The user drops the future of ws::connect: all it holds goes with it, but *)
(* nothing takes the connection out of the table.                          *)
ConnFutDropped(c) ==
    /\ c \in LowLevel /\ ws[c] \notin {"none", "ended"}
    /\ ws' = [ws EXCEPT ![c] = "ended"]
    /\ permits' = permits \ {<<c, None>>}
    /\ receivers' = receivers \ {<<"ws", c>>}
    /\ UNCHANGED <<handle, accept, next_id, tcp, http, id, mgrVars>>

-----------------------------------------------------------------------------
(* broadcast_notification and its kin hold the read lock while they wait   *)
(* for room in one queue after the other.                                  *)

Registered == {i \in Ids : connections[i] # None}

(* The call takes the lock and has the connections is to send to. *)
StartSending(b, is) ==
    /\ b \notin readers /\ todo[b] = {} /\ failed[b] = {}
    /\ readers' = readers \cup {b}
    /\ todo' = [todo EXCEPT ![b] = is]
    /\ UNCHANGED <<handle, accept, next_id, tcp, http, ws, id, permits, receivers,
                   connections, failed>>

BroadcastNotification(b) ==
    b \notin Reporting /\ StartSending(b, Registered)
BroadcastFiltered(b) ==
    b \notin Reporting /\ \E is \in SUBSET Registered : StartSending(b, is)
(* Ids that are not in the table are answered with ConnectionNotFound. *)
SendToConnections(b) ==
    b \in Reporting /\ \E is \in SUBSET Ids : StartSending(b, is \cap Registered)
SendNotification(b) ==
    b \in Reporting /\ \E i \in Ids : StartSending(b, {i} \cap Registered)

Broadcast(b) ==
    \/ BroadcastNotification(b) \/ BroadcastFiltered(b)
    \/ SendToConnections(b) \/ SendNotification(b)

IsOpen(c) == ws[c] \in {"upgrading", "running"}

BroadcastSend(b, i) ==
    /\ b \in readers /\ i \in todo[b]
    /\ todo' = [todo EXCEPT ![b] = @ \ {i}]
    /\ failed' = IF IsOpen(connections[i]) THEN failed
                 ELSE [failed EXCEPT ![b] = @ \cup {i}]
    /\ UNCHANGED <<handle, accept, next_id, tcp, http, ws, id, permits, receivers,
                   connections, readers>>

(* The lock is released.  A broadcast leaves a task that cleans up the     *)
(* failed connections, the two others only report them.                    *)
BroadcastEnd(b) ==
    /\ b \in readers /\ todo[b] = {}
    /\ readers' = readers \ {b}
    /\ failed' = IF b \in Reporting THEN [failed EXCEPT ![b] = {}] ELSE failed
    /\ UNCHANGED <<handle, accept, next_id, tcp, http, ws, id, permits, receivers,
                   connections, todo>>

CleanUp(b, i) ==
    /\ b \notin readers /\ readers = {} /\ i \in failed[b]
    /\ connections' = [connections EXCEPT ![i] = None]
    /\ failed' = [failed EXCEPT ![b] = @ \ {i}]
    /\ UNCHANGED <<handle, accept, next_id, tcp, http, ws, id, permits, receivers,
                   readers, todo>>

-----------------------------------------------------------------------------
AcceptStep == Shutdown \/ ConnectionsProcessed

WsStep(c) ==
    \/ Register(c) \/ Upgrade(c) \/ UpgradeFails(c)
    \/ BackgroundTaskReturns(c) \/ Unregister(c)

BroadcastStep(b) == BroadcastEnd(b) \/ \E i \in Ids : BroadcastSend(b, i)

CleanUpStep(b) == \E i \in Ids : CleanUp(b, i)

Next ==
    \/ StopServer \/ AcceptStep
    \/ \E c \in Conns :
          \/ Accept(c) \/ UpgradeRequest(c) \/ Connect(c)
          \/ GracefulShutdown(c) \/ ServeWithGracefulShutdown(c)
          \/ TcpCloses(c) \/ TcpUpgrades(c)
          \/ \E s \in Streams : HttpRequest(c, s) \/ HttpResponse(c, s)
          \/ WsStep(c) \/ QueueCloses(c) \/ ConnFutDropped(c)
    \/ \E b \in Broadcasts : Broadcast(b) \/ BroadcastStep(b) \/ CleanUpStep(b)

Spec == Init /\ [][Next]_vars

(* Every task is polled while it can go on, a request is answered, and     *)
(* a drained connection is closed or upgraded, and an upgraded connection  *)
(* ends after a stop (StopEndsConnection of WsConnection).                 *)
Fairness ==
    /\ WF_vars(AcceptStep)
    /\ \A c \in Conns :
          /\ SF_vars(WsStep(c))
          /\ \A s \in Streams : WF_vars(HttpResponse(c, s))
          /\ WF_vars(Drain(c))
          /\ WF_vars(tcp[c] = "draining" /\ http[c] = {} /\ (TcpCloses(c) \/ TcpUpgrades(c)))
          /\ WF_vars(Stopping /\ QueueCloses(c))
    /\ \A b \in Broadcasts : WF_vars(BroadcastStep(b)) /\ SF_vars(CleanUpStep(b))

FairSpec == Spec /\ Fairness

-----------------------------------------------------------------------------
(* Properties *)

(* Permits are neither lost nor given back early: exactly the requests     *)
(* being served and the connections from upgrade to the end of their       *)
(* background task hold one, never more than max_connections.              *)
PermitsMatchWork ==
    /\ permits = {p \in Conns \X Streams : p[2] \in http[p[1]]}
                 \cup {c \in Conns : ws[c] \in {"registering", "upgrading",
                                              "running", "closing"}} \X {None}
    /\ Cardinality(permits) <= MaxConns

(* A running WebSocket connection can be reached by broadcasts: neither    *)
(* the end of another connection nor a late clean-up of a failed send      *)
(* removes its entry, as long as the id counter has not wrapped.           *)
RunningIsRegistered ==
    Cardinality(Conns) <= IdSpace =>
        \A c \in Conns : ws[c] = "running" => connections[id[c]] = c

(* A broadcast never meets an id that left the table since it started: the *)
(* read lock keeps registrations and clean-ups out.                        *)
BroadcastSeesItsTable ==
    \A b \in readers : \A i \in todo[b] : connections[i] # None

(* When ServerHandle::stopped resolves, nothing of the server is left: no  *)
(* request, no upgraded connection, no connection still to be unregistered. *)
StoppedIsOver ==
    IsStopped => /\ accept = "done"
                 /\ \A c \in Conns : /\ ~Served(c) /\ http[c] = {}
                                      /\ ws[c] \in {"none", "ended"}

(* A stop completes, provided the lock of the table becomes free again and *)
(* again (it is fair: a waiting writer keeps new readers out).             *)
StopCompletes == ([]<>(readers = {})) => (Stopping ~> IsStopped)

(* An ended connection is unregistered. *)
EndedIsUnregistered ==
    \A c \in Conns : ws[c] = "ended" ~> connections[id[c]] # c

(* When the accept loop's awaiter channel is closed, all connections have  *)
(* been shut down.                                                         *)
AwaitedIsOver ==
    accept = "done" => \A c \in Conns : ws[c] \in {"none", "ended"}
=============================================================================
