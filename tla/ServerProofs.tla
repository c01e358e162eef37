---------------------------- MODULE ServerProofs ----------------------------
(***************************************************************************)
(* Safety of Server for every set of connections, streams and broadcasts,  *)
(* every id space and every limit on connections.                          *)
(***************************************************************************)
EXTENDS Server, FiniteSetTheorems, TLAPS

(* Who holds a StopHandle: the accept loop until it is done, a hyper task  *)
(* while it runs, an upgraded connection until its task returns.           *)
HandlesMatchTasks ==
    /\ <<"accept", None>> \in receivers <=> accept # "done"
    /\ \A c \in Conns : <<"tcp", c>> \in receivers <=> Served(c)
    /\ \A c \in Conns : <<"ws", c>> \in receivers <=> ws[c] \notin {"none", "ended"}

(* Requests are served by a hyper task that was not asked for an upgrade. *)
RequestsAreServed ==
    \A c \in Conns : http[c] # {} => Served(c) /\ ws[c] = "none"

(* A connection is upgraded only after it was accepted. *)
UpgradesAreAccepted ==
    \A c \in Conns : tcp[c] = "none" => ws[c] = "none"

(* What a broadcast has still to do it does under the read lock. *)
SendsAreLocked == \A b \in Broadcasts : b \notin readers => todo[b] = {}

Working == {"registering", "upgrading", "running", "closing"}

(* The permits of PermitsMatchWork, connection by connection. *)
PermitsOfWork ==
    /\ \A c \in Conns, s \in Streams : <<c, s>> \in permits <=> s \in http[c]
    /\ \A c \in Conns : <<c, None>> \in permits <=> ws[c] \in Working

IInv ==
    /\ TypeOK
    /\ HandlesMatchTasks
    /\ RequestsAreServed
    /\ UpgradesAreAccepted
    /\ PermitsOfWork
    /\ Cardinality(permits) <= MaxConns
    /\ SendsAreLocked
    /\ BroadcastSeesItsTable

-----------------------------------------------------------------------------
(* Permits are finitely many. *)
LEMMA PermitsFinite ==
    ASSUME TypeOK
    PROVE  IsFiniteSet(permits)
<1>1. IsFiniteSet(Streams \cup {None})
  BY ServerAssumption, FS_AddElement
<1>2. IsFiniteSet(Conns \X (Streams \cup {None}))
  BY <1>1, ServerAssumption, FS_Product
<1> QED
  BY <1>2, FS_Subset DEF TypeOK

(* TryAcquire keeps to the limit. *)
LEMMA AcquireKeepsLimit ==
    ASSUME TypeOK, NEW p, TryAcquire(p)
    PROVE  Cardinality(permits') <= MaxConns
<1>1. IsFiniteSet(permits)
  BY PermitsFinite
<1>2. /\ Cardinality(permits) \in Nat
      /\ \/ Cardinality(permits \cup {p}) = Cardinality(permits)
         \/ Cardinality(permits \cup {p}) = Cardinality(permits) + 1
  BY <1>1, FS_CardinalityType, FS_AddElement
<1> QED
  BY <1>2, ServerAssumption DEF TryAcquire

(* So does a drop of permits. *)
LEMMA ReleaseKeepsLimit ==
    ASSUME TypeOK, Cardinality(permits) <= MaxConns, permits' \subseteq permits
    PROVE  Cardinality(permits') <= MaxConns
<1>1. IsFiniteSet(permits)
  BY PermitsFinite
<1>2. /\ IsFiniteSet(permits')
      /\ Cardinality(permits') <= Cardinality(permits)
  BY <1>1, FS_Subset
<1>3. Cardinality(permits) \in Nat /\ Cardinality(permits') \in Nat
  BY <1>1, <1>2, FS_CardinalityType
<1> QED
  BY <1>2, <1>3, ServerAssumption

-----------------------------------------------------------------------------
(* The server starts in a state of IInv. *)
LEMMA InitIInv == Init => IInv
<1> SUFFICES ASSUME Init PROVE IInv
  OBVIOUS
<1> USE ServerAssumption DEF Init
<1>1. TypeOK
  BY DEF TypeOK, Ids, Handles
<1>2. HandlesMatchTasks
  BY DEF HandlesMatchTasks, Served
<1>3. RequestsAreServed /\ UpgradesAreAccepted
  BY DEF RequestsAreServed, UpgradesAreAccepted
<1>4. PermitsOfWork
  BY DEF PermitsOfWork, Working
<1>5. Cardinality(permits) <= MaxConns
  BY FS_EmptySet
<1>6. SendsAreLocked /\ BroadcastSeesItsTable
  BY DEF SendsAreLocked, BroadcastSeesItsTable
<1> QED
  BY <1>1, <1>2, <1>3, <1>4, <1>5, <1>6 DEF IInv

(* The accept loop and stop keep IInv. *)
LEMMA AcceptLoopKeepsIInv ==
    ASSUME IInv,
           StopServer \/ AcceptStep \/ \E c \in Conns : Accept(c)
    PROVE  IInv'
<1> USE ServerAssumption DEF IInv, mgrVars
<1>1. CASE StopServer
  BY <1>1 DEF StopServer, TypeOK, HandlesMatchTasks, RequestsAreServed, Served,
              UpgradesAreAccepted, PermitsOfWork, SendsAreLocked, BroadcastSeesItsTable
<1>2. CASE Shutdown
  BY <1>2 DEF Shutdown, TypeOK, HandlesMatchTasks, RequestsAreServed, Served,
              UpgradesAreAccepted, PermitsOfWork, SendsAreLocked, BroadcastSeesItsTable
<1>3. CASE ConnectionsProcessed
  <2> USE <1>3 DEF ConnectionsProcessed
  <2>1. TypeOK'
    BY DEF TypeOK
  <2>2. HandlesMatchTasks'
    BY DEF HandlesMatchTasks, Served
  <2> QED
    BY <2>1, <2>2 DEF RequestsAreServed, UpgradesAreAccepted, Served, PermitsOfWork,
                      SendsAreLocked, BroadcastSeesItsTable
<1>4. ASSUME NEW c \in Conns, Accept(c)
      PROVE  IInv'
  <2> USE <1>4 DEF Accept, ProcessConnection
  <2>1. (next_id + 1) % IdSpace \in Ids
    BY DEF TypeOK, Ids
  <2>2. TypeOK'
    BY <2>1 DEF TypeOK, Handles
  <2>3. HandlesMatchTasks'
    BY DEF TypeOK, HandlesMatchTasks, Served
  <2>4. RequestsAreServed' /\ UpgradesAreAccepted'
    BY DEF TypeOK, RequestsAreServed, UpgradesAreAccepted, Served
  <2> QED
    BY <2>2, <2>3, <2>4 DEF PermitsOfWork, SendsAreLocked, BroadcastSeesItsTable
<1> QED
  BY <1>1, <1>2, <1>3, <1>4 DEF AcceptStep

-----------------------------------------------------------------------------
(* The hyper task of a connection and the requests on it. *)
TcpStep(c) ==
    \/ UpgradeRequest(c) \/ Connect(c) \/ GracefulShutdown(c)
    \/ ServeWithGracefulShutdown(c) \/ TcpCloses(c) \/ TcpUpgrades(c)
    \/ \E s \in Streams : HttpRequest(c, s) \/ HttpResponse(c, s)

LEMMA TcpKeepsIInv ==
    ASSUME IInv, NEW c \in Conns, TcpStep(c)
    PROVE  IInv'
<1> USE ServerAssumption DEF IInv, mgrVars
<1>0. UNCHANGED <<connections, readers, todo, failed, accept>>
  BY DEF TcpStep, UpgradeRequest, Connect, StartUpgrade, GracefulShutdown,
         ServeWithGracefulShutdown, Drain, TcpCloses, TcpUpgrades,
         HttpRequest, HttpResponse
<1>a. SendsAreLocked' /\ BroadcastSeesItsTable'
  BY <1>0 DEF SendsAreLocked, BroadcastSeesItsTable
<1>1. ASSUME NEW s \in Streams, HttpRequest(c, s)
      PROVE  IInv'
  <2> USE <1>1 DEF HttpRequest
  <2>1. TypeOK'
    BY DEF TypeOK, TryAcquire
  <2>2. HandlesMatchTasks' /\ UpgradesAreAccepted'
    BY DEF HandlesMatchTasks, UpgradesAreAccepted, Served
  <2>3. RequestsAreServed'
    BY DEF TypeOK, RequestsAreServed, Served
  <2>4. PermitsOfWork'
    BY DEF TypeOK, PermitsOfWork, TryAcquire
  <2>5. Cardinality(permits') <= MaxConns
    BY AcquireKeepsLimit
  <2> QED
    BY <1>a, <2>1, <2>2, <2>3, <2>4, <2>5
<1>2. ASSUME NEW s \in Streams, HttpResponse(c, s)
      PROVE  IInv'
  <2> USE <1>2 DEF HttpResponse
  <2>1. TypeOK'
    BY DEF TypeOK
  <2>2. HandlesMatchTasks' /\ UpgradesAreAccepted'
    BY DEF HandlesMatchTasks, UpgradesAreAccepted, Served
  <2>3. RequestsAreServed'
    BY DEF TypeOK, RequestsAreServed, Served
  <2>4. PermitsOfWork'
    BY DEF TypeOK, PermitsOfWork
  <2>5. Cardinality(permits') <= MaxConns
    BY ReleaseKeepsLimit
  <2> QED
    BY <1>a, <2>1, <2>2, <2>3, <2>4, <2>5
<1>3. CASE StartUpgrade(c)
  <2> USE <1>3 DEF StartUpgrade
  <2>1. TypeOK'
    BY DEF TypeOK, TryAcquire, Handles
  <2>2. HandlesMatchTasks' /\ UpgradesAreAccepted'
    BY DEF TypeOK, HandlesMatchTasks, UpgradesAreAccepted, Served
  <2>3. RequestsAreServed'
    BY DEF TypeOK, RequestsAreServed, Served
  <2>4. PermitsOfWork'
    BY DEF TypeOK, PermitsOfWork, TryAcquire, Working
  <2>5. Cardinality(permits') <= MaxConns
    BY AcquireKeepsLimit
  <2> QED
    BY <1>a, <2>1, <2>2, <2>3, <2>4, <2>5
<1>4. CASE Drain(c)
  <2> USE <1>4 DEF Drain
  <2>1. TypeOK'
    BY DEF TypeOK
  <2>2. HandlesMatchTasks' /\ UpgradesAreAccepted' /\ RequestsAreServed'
    BY DEF TypeOK, HandlesMatchTasks, UpgradesAreAccepted, RequestsAreServed, Served
  <2> QED
    BY <1>a, <2>1, <2>2 DEF PermitsOfWork
<1>5. CASE TcpCloses(c)
  <2> USE <1>5 DEF TcpCloses
  <2>1. TypeOK'
    BY DEF TypeOK, Served
  <2>2. HandlesMatchTasks' /\ UpgradesAreAccepted'
    BY DEF TypeOK, HandlesMatchTasks, UpgradesAreAccepted, Served
  <2>3. RequestsAreServed'
    BY DEF TypeOK, RequestsAreServed, Served
  <2>4. PermitsOfWork'
    BY DEF TypeOK, PermitsOfWork
  <2>5. Cardinality(permits') <= MaxConns
    BY ReleaseKeepsLimit
  <2> QED
    BY <1>a, <2>1, <2>2, <2>3, <2>4, <2>5
<1>6. CASE TcpUpgrades(c)
  <2> USE <1>6 DEF TcpUpgrades
  <2>1. TypeOK'
    BY DEF TypeOK
  <2>2. HandlesMatchTasks' /\ UpgradesAreAccepted' /\ RequestsAreServed'
    BY DEF TypeOK, HandlesMatchTasks, UpgradesAreAccepted, RequestsAreServed, Served
  <2> QED
    BY <1>a, <2>1, <2>2 DEF PermitsOfWork
<1> QED
  BY <1>1, <1>2, <1>3, <1>4, <1>5, <1>6
     DEF TcpStep, UpgradeRequest, Connect, GracefulShutdown, ServeWithGracefulShutdown

-----------------------------------------------------------------------------
(* The task of an upgraded connection keeps IInv. *)
LEMMA WsKeepsIInv ==
    ASSUME IInv, NEW c \in Conns, WsStep(c) \/ QueueCloses(c) \/ ConnFutDropped(c)
    PROVE  IInv'
<1> USE ServerAssumption DEF IInv, mgrVars
<1>0. /\ UNCHANGED <<handle, accept, next_id, tcp, http, id, readers, todo, failed>>
      /\ permits' \subseteq permits
  BY DEF WsStep, Register, Upgrade, UpgradeFails, BackgroundTaskReturns, Unregister,
         QueueCloses, ConnFutDropped
<1>1. ws[c] \notin {"none", "ended"}
  BY DEF WsStep, Register, Upgrade, UpgradeFails, BackgroundTaskReturns, Unregister,
         QueueCloses, ConnFutDropped
<1>2. TypeOK'
  BY <1>0 DEF TypeOK, WsStep, Register, Upgrade, UpgradeFails, BackgroundTaskReturns,
              Unregister, QueueCloses, ConnFutDropped
<1>3. HandlesMatchTasks'
  BY <1>0, <1>1 DEF TypeOK, HandlesMatchTasks, Served, WsStep, Register, Upgrade,
              UpgradeFails, BackgroundTaskReturns, Unregister, QueueCloses, ConnFutDropped
<1>4. RequestsAreServed' /\ UpgradesAreAccepted'
  BY <1>0, <1>1 DEF TypeOK, RequestsAreServed, UpgradesAreAccepted, Served, WsStep,
              Register, Upgrade, UpgradeFails, BackgroundTaskReturns, Unregister,
              QueueCloses, ConnFutDropped
<1>5. PermitsOfWork'
  BY <1>0 DEF TypeOK, PermitsOfWork, Working, WsStep, Register, Upgrade, UpgradeFails,
              BackgroundTaskReturns, Unregister, QueueCloses, ConnFutDropped
<1>6. Cardinality(permits') <= MaxConns
  BY <1>0, ReleaseKeepsLimit
<1>7. SendsAreLocked'
  BY <1>0 DEF SendsAreLocked
<1>8. BroadcastSeesItsTable'
  BY <1>0 DEF BroadcastSeesItsTable, WsStep, Register, Upgrade, UpgradeFails,
              BackgroundTaskReturns, Unregister, QueueCloses, ConnFutDropped
<1> QED
  BY <1>2, <1>3, <1>4, <1>5, <1>6, <1>7, <1>8

(* All four calls send to connections of the table. *)
LEMMA BroadcastsSendToTheTable ==
    ASSUME NEW b \in Broadcasts, Broadcast(b)
    PROVE  \E is \in SUBSET Registered : StartSending(b, is)
BY DEF Broadcast, BroadcastNotification, BroadcastFiltered, SendToConnections, SendNotification

(* Broadcasts and their clean-up keep IInv. *)
LEMMA BroadcastKeepsIInv ==
    ASSUME IInv, NEW b \in Broadcasts,
           Broadcast(b) \/ BroadcastStep(b) \/ CleanUpStep(b)
    PROVE  IInv'
<1> USE DEF IInv
<1>0. UNCHANGED <<handle, accept, next_id, tcp, http, ws, id, permits, receivers>>
  BY BroadcastsSendToTheTable
     DEF StartSending, BroadcastStep, BroadcastSend, BroadcastEnd, CleanUpStep, CleanUp
<1>1. /\ HandlesMatchTasks' /\ RequestsAreServed' /\ UpgradesAreAccepted'
      /\ PermitsOfWork' /\ Cardinality(permits') <= MaxConns
  BY <1>0 DEF HandlesMatchTasks, RequestsAreServed, UpgradesAreAccepted, PermitsOfWork,
              Served
<1>2. CASE Broadcast(b)
  <2>1. PICK is \in SUBSET Registered : StartSending(b, is)
    BY <1>2, BroadcastsSendToTheTable
  <2> QED
    BY <1>0, <1>1, <2>1
       DEF StartSending, Registered, TypeOK, SendsAreLocked, BroadcastSeesItsTable
<1>3. ASSUME NEW i \in Ids, BroadcastSend(b, i)
      PROVE  IInv'
  BY <1>0, <1>1, <1>3 DEF BroadcastSend, TypeOK, SendsAreLocked, BroadcastSeesItsTable
<1>4. CASE BroadcastEnd(b)
  BY <1>0, <1>1, <1>4 DEF BroadcastEnd, TypeOK, SendsAreLocked, BroadcastSeesItsTable
<1>5. ASSUME NEW i \in Ids, CleanUp(b, i)
      PROVE  IInv'
  BY <1>0, <1>1, <1>5, ServerAssumption
     DEF CleanUp, TypeOK, SendsAreLocked, BroadcastSeesItsTable
<1> QED
  BY <1>2, <1>3, <1>4, <1>5 DEF BroadcastStep, CleanUpStep

-----------------------------------------------------------------------------
(* IInv is inductive: it holds in every state of the server. *)
THEOREM Invariance == Spec => []IInv
<1>1. IInv /\ [Next]_vars => IInv'
  <2> SUFFICES ASSUME IInv, [Next]_vars PROVE IInv'
    OBVIOUS
  <2>1. CASE Next
    BY <2>1, AcceptLoopKeepsIInv, TcpKeepsIInv, WsKeepsIInv, BroadcastKeepsIInv
       DEF Next, TcpStep
  <2>2. CASE UNCHANGED vars
    BY <2>2 DEF vars, IInv, TypeOK, HandlesMatchTasks, RequestsAreServed, Served,
                UpgradesAreAccepted, PermitsOfWork, SendsAreLocked, BroadcastSeesItsTable
  <2> QED
    BY <2>1, <2>2
<1> QED
  BY InitIInv, <1>1, PTL DEF Spec

(* Every variable of the server has its type: ids stay in the id space     *)
(* when the counter of start_inner wraps, handles and permits belong to    *)
(* connections.                                                            *)
THEOREM TypeCorrect == Spec => []TypeOK
BY Invariance, PTL DEF IInv

(* The ConnectionGuard's permits are held by exactly the requests and      *)
(* upgraded connections being worked on, and never exceed max_connections. *)
THEOREM PermitsAreExact == Spec => []PermitsMatchWork
<1>1. IInv => PermitsMatchWork
  <2> SUFFICES ASSUME IInv PROVE PermitsMatchWork
    OBVIOUS
  <2> DEFINE W == {p \in Conns \X Streams : p[2] \in http[p[1]]}
                  \cup {c \in Conns : ws[c] \in {"registering", "upgrading",
                                              "running", "closing"}} \X {None}
  <2>1. ASSUME NEW p \in permits PROVE p \in W
    <3>1. PICK c \in Conns, s \in Streams \cup {None} : p = <<c, s>>
      BY DEF IInv, TypeOK
    <3> QED
      BY <3>1, ServerAssumption DEF IInv, PermitsOfWork, Working
  <2>2. ASSUME NEW p \in W PROVE p \in permits
    BY DEF IInv, PermitsOfWork, Working
  <2> HIDE DEF W
  <2>3. permits = W
    BY <2>1, <2>2
  <2> QED
    BY <2>3 DEF W, PermitsMatchWork, IInv
<1> QED
  BY <1>1, Invariance, PTL

(* When ServerHandle::stopped resolves, the accept loop, every request and *)
(* every upgraded connection is over.                                      *)
THEOREM StoppedMeansOver == Spec => []StoppedIsOver
<1>1. IInv => StoppedIsOver
  <2> SUFFICES ASSUME IInv, receivers = {}
               PROVE  /\ accept = "done"
                      /\ \A c \in Conns : /\ ~Served(c) /\ http[c] = {}
                                           /\ ws[c] \in {"none", "ended"}
    BY DEF StoppedIsOver, IsStopped
  <2> QED
    BY DEF IInv, HandlesMatchTasks, RequestsAreServed
<1> QED
  BY <1>1, Invariance, PTL

(* The read lock keeps every connection a broadcast has still to serve in  *)
(* the table.                                                              *)
THEOREM BroadcastsAreLocked == Spec => []BroadcastSeesItsTable
BY Invariance, PTL DEF IInv

-----------------------------------------------------------------------------
(* Registration.  As long as the id counter does not wrap, an id belongs   *)
(* to one connection for good, so that whatever is removed from the table  *)
(* late is not the entry of another connection.                            *)

Accepted == {c \in Conns : tcp[c] # "none"}

(* The counter is ahead of every id that was given. *)
IdsAreFresh ==
    /\ Accepted # Conns => next_id = Cardinality(Accepted)
    /\ \A c \in Accepted : id[c] < Cardinality(Accepted)
    /\ \A c, d \in Accepted : id[c] = id[d] => c = d

(* An entry of the table is of the connection that has its id. *)
EntriesHaveIds ==
    \A i \in Ids : connections[i] # None =>
        /\ connections[i] \in Accepted /\ id[connections[i]] = i
        /\ ws[connections[i]] \notin {"none", "registering"}

(* What a broadcast failed to send to is on its way out. *)
FailedAreClosing ==
    \A b \in Broadcasts : \A i \in failed[b] :
        \E c \in Accepted : id[c] = i /\ ws[c] \in {"closing", "unregistering", "ended"}

OpenAreRegistered == \A c \in Conns : IsOpen(c) => connections[id[c]] = c

RInv == IdsAreFresh /\ EntriesHaveIds /\ FailedAreClosing /\ OpenAreRegistered

(* Accept gives a connection an id no other has. *)
LEMMA AcceptKeepsIds ==
    ASSUME IInv, IdsAreFresh, Cardinality(Conns) <= IdSpace, NEW c \in Conns, Accept(c)
    PROVE  IdsAreFresh'
<1> DEFINE n == Cardinality(Accepted)
<1>1. Accepted' = Accepted \cup {c} /\ c \notin Accepted
  BY DEF Accept, ProcessConnection, Accepted, IInv, TypeOK
<1>2. /\ IsFiniteSet(Accepted) /\ n \in Nat
      /\ IsFiniteSet(Accepted') /\ Cardinality(Accepted') = n + 1
      /\ Cardinality(Conns) \in Nat
      /\ Accepted' \subseteq Conns
  BY <1>1, ServerAssumption, FS_Subset, FS_AddElement, FS_CardinalityType DEF Accepted
<1>3. n < Cardinality(Conns) /\ (Accepted' # Conns => n + 1 < Cardinality(Conns))
  BY <1>1, <1>2, ServerAssumption, FS_Subset
<1>4. next_id = n /\ id' = [id EXCEPT ![c] = n] /\ next_id' = (n + 1) % IdSpace
  BY <1>1 DEF Accept, IdsAreFresh, Accepted
<1> HIDE DEF n
<1>5. Accepted' # Conns => next_id' = n + 1
  BY <1>2, <1>3, <1>4, ServerAssumption
<1>6. \A d \in Accepted : id'[d] = id[d] /\ id[d] < n /\ id[d] \in Nat
  BY <1>1, <1>4 DEF IdsAreFresh, Accepted, IInv, TypeOK, Ids, n
<1>7. id'[c] = n
  BY <1>4 DEF IInv, TypeOK
<1>8. \A d \in Accepted' : id'[d] < n + 1
  BY <1>1, <1>2, <1>6, <1>7
<1>9. \A d, e \in Accepted' : id'[d] = id'[e] => d = e
  <2> SUFFICES ASSUME NEW d \in Accepted', NEW e \in Accepted', id'[d] = id'[e]
               PROVE  d = e
    OBVIOUS
  <2>1. CASE d \in Accepted /\ e \in Accepted
    BY <2>1, <1>6 DEF IdsAreFresh
  <2>2. CASE d = c \/ e = c
    BY <2>2, <1>1, <1>2, <1>6, <1>7
  <2> QED
    BY <2>1, <2>2, <1>1
<1> QED
  BY <1>2, <1>5, <1>8, <1>9 DEF IdsAreFresh

(* Accept keeps the table, which knows nothing of the new connection. *)
LEMMA AcceptKeepsRInv ==
    ASSUME IInv, RInv, Cardinality(Conns) <= IdSpace, NEW c \in Conns, Accept(c)
    PROVE  RInv'
<1>1. IdsAreFresh'
  BY AcceptKeepsIds DEF RInv
<1>2. /\ Accepted \subseteq Accepted' /\ c \notin Accepted /\ ws[c] = "none"
      /\ \A d \in Conns \ {c} : id'[d] = id[d]
      /\ UNCHANGED <<connections, ws, failed>>
  BY DEF Accept, ProcessConnection, Accepted, IInv, TypeOK, UpgradesAreAccepted, mgrVars
<1>3. EntriesHaveIds'
  BY <1>2 DEF RInv, EntriesHaveIds, Accepted
<1>4. FailedAreClosing'
  BY <1>2 DEF RInv, FailedAreClosing, Accepted
<1>5. OpenAreRegistered'
  BY <1>2 DEF RInv, OpenAreRegistered, IsOpen
<1> QED
  BY <1>1, <1>3, <1>4, <1>5 DEF RInv

(* A step that gives no id keeps the ids. *)
LEMMA OthersKeepIds ==
    ASSUME IdsAreFresh, UNCHANGED <<next_id, id>>, Accepted' = Accepted
    PROVE  IdsAreFresh'
BY DEF IdsAreFresh

(* A step that leaves ids, table and failures alone and opens nothing      *)
(* keeps the rest, too.                                                    *)
LEMMA TcpKeepsRInv ==
    ASSUME IInv, RInv, NEW c \in Conns, TcpStep(c)
    PROVE  RInv'
<1>1. /\ UNCHANGED <<next_id, id, connections, failed>>
      /\ Accepted' = Accepted
  BY DEF TcpStep, UpgradeRequest, Connect, StartUpgrade, GracefulShutdown,
         ServeWithGracefulShutdown, Drain, TcpCloses, TcpUpgrades,
         HttpRequest, HttpResponse, mgrVars, Accepted, Served, IInv, TypeOK
<1>2. \/ UNCHANGED ws
      \/ ws[c] = "none" /\ ws' = [ws EXCEPT ![c] = "registering"]
  BY DEF TcpStep, UpgradeRequest, Connect, StartUpgrade, GracefulShutdown,
         ServeWithGracefulShutdown, Drain, TcpCloses, TcpUpgrades,
         HttpRequest, HttpResponse
<1>3. IdsAreFresh'
  BY <1>1, OthersKeepIds DEF RInv
<1>4. \A d \in Conns : ws'[d] = ws[d] \/ (ws[d] = "none" /\ ws'[d] = "registering")
  BY <1>2 DEF IInv, TypeOK
<1>5. EntriesHaveIds'
  BY <1>1, <1>4 DEF RInv, EntriesHaveIds, Accepted
<1>6. FailedAreClosing'
  BY <1>1, <1>4 DEF RInv, FailedAreClosing, Accepted
<1>7. OpenAreRegistered'
  BY <1>1, <1>4 DEF RInv, OpenAreRegistered, IsOpen
<1> QED
  BY <1>3, <1>5, <1>6, <1>7 DEF RInv

(* The task of a connection writes only the entry of its own id. *)
LEMMA WsKeepsRInv ==
    ASSUME IInv, RInv, NEW c \in Conns, WsStep(c) \/ QueueCloses(c) \/ ConnFutDropped(c)
    PROVE  RInv'
<1> USE DEF WsStep, Register, Upgrade, UpgradeFails, BackgroundTaskReturns,
            Unregister, QueueCloses, ConnFutDropped, mgrVars
<1>1. /\ UNCHANGED <<next_id, id, tcp, failed>>
      /\ Accepted' = Accepted
  BY DEF Accepted
<1>2. IdsAreFresh'
  BY <1>1, OthersKeepIds DEF RInv
<1>3. c \in Accepted /\ id[c] \in Ids
  BY DEF IInv, UpgradesAreAccepted, Accepted, TypeOK
<1>4. \A d \in Accepted : d # c => id[d] # id[c] /\ ws'[d] = ws[d]
  BY <1>3 DEF RInv, IdsAreFresh, IInv, TypeOK, Accepted
<1>5. EntriesHaveIds'
  <2>1. \A i \in Ids : \/ connections'[i] = connections[i]
                       \/ i = id[c] /\ connections'[i] \in {c, None}
    BY DEF IInv, TypeOK
  <2>2. ws'[c] \notin {"none", "registering"}
    BY DEF IInv, TypeOK
  <2> QED
    BY <1>1, <1>3, <1>4, <2>1, <2>2 DEF RInv, EntriesHaveIds
<1>6. FailedAreClosing'
  <2>1. ws[c] \in {"closing", "unregistering", "ended"}
          => ws'[c] \in {"closing", "unregistering", "ended"}
    BY DEF IInv, TypeOK
  <2> SUFFICES ASSUME NEW b \in Broadcasts, NEW i \in failed[b]
               PROVE  \E d \in Accepted : /\ id[d] = i
                                          /\ ws'[d] \in {"closing", "unregistering", "ended"}
    BY <1>1 DEF FailedAreClosing
  <2>2. PICK d \in Accepted : id[d] = i /\ ws[d] \in {"closing", "unregistering", "ended"}
    BY DEF RInv, FailedAreClosing
  <2> QED
    BY <1>4, <2>1, <2>2
<1>7. OpenAreRegistered'
  <2> SUFFICES ASSUME NEW d \in Conns, IsOpen(d)'
               PROVE  connections'[id[d]] = d
    BY <1>1 DEF OpenAreRegistered
  <2>1. CASE d = c
    BY <2>1, <1>3 DEF RInv, OpenAreRegistered, IsOpen, IInv, TypeOK
  <2>2. CASE d # c
    <3>1. ws'[d] = ws[d] /\ IsOpen(d)
      BY <2>2 DEF IsOpen, IInv, TypeOK
    <3>2. d \in Accepted /\ id[d] \in Ids
      BY <3>1 DEF IsOpen, IInv, UpgradesAreAccepted, Accepted, TypeOK
    <3>3. connections'[id[d]] = connections[id[d]]
      BY <2>2, <1>4, <3>2 DEF IInv, TypeOK
    <3> QED
      BY <3>1, <3>3 DEF RInv, OpenAreRegistered
  <2> QED
    BY <2>1, <2>2
<1> QED
  BY <1>2, <1>5, <1>6, <1>7 DEF RInv

(* A broadcast fails only for connections that are on their way out, and   *)
(* its clean-up removes only entries of those.                             *)
LEMMA BroadcastKeepsRInv ==
    ASSUME IInv, RInv, NEW b \in Broadcasts,
           Broadcast(b) \/ BroadcastStep(b) \/ CleanUpStep(b)
    PROVE  RInv'
<1>1. /\ UNCHANGED <<next_id, id, tcp, ws>>
      /\ Accepted' = Accepted
  BY BroadcastsSendToTheTable
     DEF StartSending, BroadcastStep, BroadcastSend, BroadcastEnd, CleanUpStep, CleanUp, Accepted
<1>2. IdsAreFresh'
  BY <1>1, OthersKeepIds DEF RInv
<1>3. CASE Broadcast(b) \/ BroadcastEnd(b)
  <2>1. UNCHANGED connections /\ \A a \in Broadcasts : failed'[a] \subseteq failed[a]
    BY <1>3, BroadcastsSendToTheTable DEF StartSending, BroadcastEnd, IInv, TypeOK
  <2>2. EntriesHaveIds'
    BY <1>1, <2>1 DEF RInv, EntriesHaveIds
  <2>3. FailedAreClosing'
    <3> SUFFICES ASSUME NEW a \in Broadcasts, NEW i \in failed'[a]
                 PROVE  \E c \in Accepted : /\ id[c] = i
                                            /\ ws[c] \in {"closing", "unregistering", "ended"}
      BY <1>1 DEF FailedAreClosing
    <3>1. i \in failed[a]
      BY <2>1
    <3> QED
      BY <3>1 DEF RInv, FailedAreClosing
  <2>4. OpenAreRegistered'
    BY <1>1, <2>1 DEF RInv, OpenAreRegistered, IsOpen
  <2> QED
    BY <1>2, <2>2, <2>3, <2>4 DEF RInv
<1>4. ASSUME NEW i \in Ids, BroadcastSend(b, i)
      PROVE  RInv'
  <2> USE <1>4 DEF BroadcastSend
  <2>1. connections[i] # None
    BY DEF IInv, BroadcastSeesItsTable
  <2>2. \A a \in Broadcasts :
            \/ failed'[a] \subseteq failed[a]
            \/ ~IsOpen(connections[i]) /\ failed'[a] \subseteq failed[a] \cup {i}
    BY DEF IInv, TypeOK
  <2>3. ~IsOpen(connections[i]) =>
            \E c \in Accepted : id[c] = i /\ ws[c] \in {"closing", "unregistering", "ended"}
    BY <2>1 DEF RInv, EntriesHaveIds, IsOpen, IInv, TypeOK, Accepted
  <2>4. FailedAreClosing'
    BY <1>1, <2>2, <2>3 DEF RInv, FailedAreClosing
  <2> QED
    BY <1>1, <1>2, <2>4 DEF RInv, EntriesHaveIds, OpenAreRegistered, IsOpen
<1>5. ASSUME NEW i \in Ids, CleanUp(b, i)
      PROVE  RInv'
  <2> USE <1>5 DEF CleanUp
  <2>1. \A j \in Ids : connections'[j] = connections[j] \/ connections'[j] = None
    BY DEF IInv, TypeOK
  <2>2. EntriesHaveIds'
    BY <1>1, <2>1 DEF RInv, EntriesHaveIds
  <2>3. FailedAreClosing'
    BY <1>1 DEF RInv, FailedAreClosing, IInv, TypeOK
  <2>4. PICK c \in Accepted : id[c] = i /\ ws[c] \in {"closing", "unregistering", "ended"}
    BY DEF RInv, FailedAreClosing
  <2>5. ASSUME NEW d \in Conns, IsOpen(d)
        PROVE  connections'[id[d]] = d
    <3>1. d \in Accepted /\ d # c
      BY <2>4, <2>5 DEF IsOpen, IInv, UpgradesAreAccepted, Accepted
    <3>2. id[d] # i
      BY <2>4, <3>1 DEF RInv, IdsAreFresh
    <3> QED
      BY <2>5, <3>2 DEF RInv, OpenAreRegistered, IInv, TypeOK
  <2>6. OpenAreRegistered'
    BY <1>1, <2>5 DEF OpenAreRegistered, IsOpen
  <2> QED
    BY <1>2, <2>2, <2>3, <2>6 DEF RInv
<1> QED
  BY <1>3, <1>4, <1>5 DEF BroadcastStep, CleanUpStep

(* A running connection can be reached by broadcasts, whatever other       *)
(* connections and clean-ups do to the table of ConnectionManager, as long *)
(* as no connection id is used twice.                                      *)
THEOREM RunningStayRegistered == Spec => []RunningIsRegistered
<1> DEFINE Small == Cardinality(Conns) <= IdSpace
           J == Small => RInv
<1>1. Init => J
  <2> SUFFICES ASSUME Init PROVE RInv
    OBVIOUS
  <2>1. Accepted = {}
    BY DEF Init, Accepted
  <2>2. IdsAreFresh
    BY <2>1, FS_EmptySet DEF Init, IdsAreFresh
  <2> QED
    BY <2>2 DEF Init, RInv, EntriesHaveIds, FailedAreClosing, OpenAreRegistered, IsOpen
<1>2. IInv /\ J /\ [Next]_vars => J'
  <2> SUFFICES ASSUME IInv, RInv, Small, [Next]_vars PROVE RInv'
    OBVIOUS
  <2>1. CASE StopServer \/ AcceptStep \/ UNCHANGED vars
    <3>1. UNCHANGED <<next_id, id, tcp, ws, connections, failed>>
      BY <2>1 DEF StopServer, AcceptStep, Shutdown, ConnectionsProcessed, vars, mgrVars
    <3> QED
      BY <3>1 DEF RInv, IdsAreFresh, Accepted, EntriesHaveIds, FailedAreClosing,
                  OpenAreRegistered, IsOpen
  <2>2. CASE \E c \in Conns : Accept(c)
    BY <2>2, AcceptKeepsRInv
  <2>3. CASE \E c \in Conns : TcpStep(c)
    BY <2>3, TcpKeepsRInv
  <2>4. CASE \E c \in Conns : WsStep(c) \/ QueueCloses(c) \/ ConnFutDropped(c)
    BY <2>4, WsKeepsRInv
  <2>5. CASE \E b \in Broadcasts : Broadcast(b) \/ BroadcastStep(b) \/ CleanUpStep(b)
    BY <2>5, BroadcastKeepsRInv
  <2> QED
    BY <2>1, <2>2, <2>3, <2>4, <2>5 DEF Next, TcpStep
<1>3. J => RunningIsRegistered
  BY DEF RInv, OpenAreRegistered, IsOpen, RunningIsRegistered
<1> HIDE DEF J
<1> QED
  BY <1>1, <1>2, <1>3, Invariance, PTL DEF Spec
=============================================================================
