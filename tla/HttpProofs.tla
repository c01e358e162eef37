----------------------------- MODULE HttpProofs -----------------------------
(***************************************************************************)
(* The HTTP client against any peer: its permits are conserved, and it     *)
(* implements ClientContract.  Then the HTTP side of the server: its       *)
(* permits are conserved, and it works on nothing that its layers did not  *)
(* let in.                                                                 *)
(***************************************************************************)
EXTENDS HttpExchange, HttpClientProofs

-----------------------------------------------------------------------------
(* The client *)

(* The server, the foreign peer and other clients leave the client alone. *)
LEMMA OthersAreSteady ==
  ASSUME Next \/ UNCHANGED vars
  PROVE  \/ \E c \in Calls : ClientStep(c) \/ CallerStep(c)
         \/ UNCHANGED clientVars
<1>1. ASSUME NEW x, ServerStep(x) PROVE UNCHANGED clientVars
  <2>1. CASE Receive(x)
    BY <2>1, Zenon DEF Receive
  <2>2. CASE Read(x)
    BY <2>2, Zenon DEF Read
  <2>3. CASE RunSingle(x)
    BY <2>3, Zenon DEF RunSingle
  <2>4. CASE RunEntry(x)
    BY <2>4, Zenon DEF RunEntry
  <2>5. CASE FinishBatch(x) \/ DropService(x)
    BY <2>5, Zenon DEF FinishBatch, DropService
  <2> QED BY <1>1, <2>1, <2>2, <2>3, <2>4, <2>5, Zenon DEF ServerStep
<1>2. ASSUME NEW x, ForeignReply(x) \/ SessionEnds(x) \/ StrangerSends(x) \/ StrangerLeaves(x)
      PROVE  UNCHANGED clientVars
  BY <1>2, Zenon DEF ForeignReply, SessionEnds, StrangerSends, StrangerLeaves
<1>3. UNCHANGED vars => UNCHANGED clientVars
  BY Zenon DEF vars, clientVars
<1> QED BY <1>1, <1>2, <1>3, Zenon DEF Next

LEMMA StepKeepsInv == ClientInv /\ [Next]_vars => ClientInv'
BY Zenon, OthersAreSteady, SteadyKeepsInv, ClientKeepsInv

LEMMA ClientInvariant == Spec => []ClientInv
<1>1. Init => ClientInv
  BY ClientInitInv DEF Init
<1> QED BY <1>1, StepKeepsInv, PTL DEF Spec

(* Whatever the peer answers and whoever drops a future, no permit of      *)
(* request_guard is lost or made, the queue of acquire() holds each        *)
(* operation that waits once, and nobody waits while a permit is free.     *)
THEOREM PermitsConserved == Spec => []PermitsMatchCalls
BY InvMatchesCalls, ClientInvariant, PTL

(* A step of the exchange is one of the contract or leaves it alone. *)
LEMMA StepRefines == ClientInv /\ [Next]_vars => Contract!Next \/ UNCHANGED absVars
<1>1. UNCHANGED clientVars => UNCHANGED absVars
  BY Zenon DEF clientVars, absVars, AbsState, AbsResult
<1> QED BY Zenon, <1>1, ClientRefines, OthersAreSteady

(* The HTTP client implements the contract of ClientT for every limit and  *)
(* every peer: never more than max_concurrent_requests requests are on the *)
(* wire, an operation ends once, and the checks of request and             *)
(* batch_request keep every success with the entry it answers.             *)
THEOREM HttpImplementsContract == Spec => ImplementsContract
<1>1. Init => Contract!Init
  BY DEF Init, ClientInit, Idle, Contract!Init, ContractState, ContractResult
<1>2. ClientInv /\ [Next]_vars => [Contract!Next]_absVars
  BY Zenon, StepRefines
<1>3. Spec => Contract!Init /\ [][Contract!Next]_absVars
  BY <1>1, <1>2, ClientInvariant, PTL DEF Spec
<1> QED BY <1>3, PTL DEF ImplementsContract, Contract!Spec, absVars, AbsState, AbsResult

-----------------------------------------------------------------------------
(* The server: its permits, and what it lets in. *)

IsServed(s) ==
  s \in [stage : {s.stage}, req : {s.req}, pos : {s.pos}, acc : {s.acc}, size : {s.size},
         notified : {s.notified}]

ServerType ==
  /\ srv = [x \in Exchanges |-> srv[x]] /\ \A x \in Exchanges : IsServed(srv[x])
  /\ guard \in Nat
  /\ config \in Configs

GuardInv == ServerType /\ GuardMatchesWork

Busy == {"reading", "running", "session"}

(* What one exchange can do to the permits of the server. *)
Enters(x) ==
  /\ srv[x].stage = "none" /\ guard > 0 /\ guard' = guard - 1
  /\ \E stage \in Busy : srv' = [srv EXCEPT ![x].stage = stage, ![x].req = wire[x].req]
IsDenied(x) == srv[x].stage = "none" /\ guard' = guard /\ srv' = [srv EXCEPT ![x] = Replied]
Ceases(x) == srv[x].stage \in Busy /\ guard' = guard + 1 /\ srv' = [srv EXCEPT ![x] = Replied]
GoesOn(x) ==
  /\ srv[x].stage \in Busy /\ guard' = guard
  /\ srv' = [srv EXCEPT ![x] = srv'[x]] /\ IsServed(srv'[x]) /\ srv'[x].stage \in Busy

LEMMA WorkIsCounted ==
  ASSUME GuardInv
  PROVE  /\ IsFiniteSet(Working) /\ Cardinality(Working) \in Nat
         /\ guard \in Nat /\ guard + Cardinality(Working) = MaxConnections
<1>1. IsFiniteSet(Exchanges)
  BY FS_Union, HttpClientAssumption, HttpExchangeAssumption, Zenon DEF Exchanges
<1>2. IsFiniteSet(Working) /\ Cardinality(Working) \in Nat
  BY Zenon, <1>1, FS_Subset, FS_CardinalityType DEF Working
<1> QED BY Zenon, <1>2 DEF GuardInv, ServerType, GuardMatchesWork

(* The set of the exchanges worked on changes by one exchange at most. *)
LEMMA WorkChanges ==
  ASSUME GuardInv, NEW x \in Exchanges, NEW s, IsServed(s), srv' = [srv EXCEPT ![x] = s],
         UNCHANGED config
  PROVE  /\ srv' = [y \in Exchanges |-> IF y = x THEN s ELSE srv[y]]
         /\ guard' \in Nat => ServerType'
         /\ Working' = IF s.stage \in Busy THEN Working \cup {x} ELSE Working \ {x}
<1>1. srv' = [y \in Exchanges |-> IF y = x THEN s ELSE srv[y]]
  BY Zenon DEF GuardInv, ServerType
<1>2. guard' \in Nat => ServerType'
  <2>1. srv' = [y \in Exchanges |-> srv'[y]] /\ \A y \in Exchanges : IsServed(srv'[y])
    <3>1. srv' = [y \in Exchanges |-> srv'[y]]
      BY <1>1, Zenon
    <3>2. ASSUME NEW y \in Exchanges PROVE IsServed(srv'[y])
      BY Zenon, <1>1 DEF GuardInv, ServerType
    <3> QED BY Zenon, <3>1, <3>2
  <2> QED BY Zenon, <2>1 DEF GuardInv, ServerType
<1>3. Working' = IF s.stage \in Busy THEN Working \cup {x} ELSE Working \ {x}
  BY Zenon, <1>1 DEF Working, Busy
<1> QED BY <1>1, <1>2, <1>3, Zenon

LEMMA RepliedIsServed == IsServed(Replied) /\ Replied.stage = "replied"
BY Zenon DEF IsServed, Replied, Unserved

(* Each of the four keeps the permits. *)
LEMMA KindsKeepGuard ==
  ASSUME GuardInv, NEW x \in Exchanges, UNCHANGED config,
         Enters(x) \/ IsDenied(x) \/ Ceases(x) \/ GoesOn(x)
  PROVE  GuardInv'
<1>0. IsServed(srv[x]) /\ (srv[x].stage \in Busy <=> x \in Working)
  BY Zenon DEF GuardInv, ServerType, Working, Busy
<1>1. CASE Enters(x)
  <2>1. PICK stage \in Busy : srv' = [srv EXCEPT ![x].stage = stage, ![x].req = wire[x].req]
    BY <1>1, Zenon DEF Enters
  <2> DEFINE s == [srv[x] EXCEPT !.stage = stage, !.req = wire[x].req]
  <2>2. IsServed(s) /\ s.stage = stage
    BY <1>0, Zenon DEF IsServed
  <2>3. srv' = [srv EXCEPT ![x] = s]
    BY <2>1, Zenon DEF GuardInv, ServerType
  <2> HIDE DEF s
  <2>4. x \notin Working /\ guard > 0 /\ guard' = guard - 1
    BY Zenon, <1>0, <1>1 DEF Enters, Busy
  <2>5. Working' = Working \cup {x} /\ IsFiniteSet(Working)
    BY <2>2, <2>3, WorkChanges, WorkIsCounted, Zenon
  <2>6. Cardinality(Working') = Cardinality(Working) + 1
    BY <2>4, <2>5, FS_AddElement
  <2>7. guard' \in Nat /\ guard + Cardinality(Working) = MaxConnections
        /\ Cardinality(Working) \in Nat /\ guard \in Nat
    BY <2>4, WorkIsCounted
  <2>8. ServerType'
    BY <2>2, <2>3, <2>7, WorkChanges, Zenon
  <2> QED BY <2>4, <2>6, <2>7, <2>8 DEF GuardInv, GuardMatchesWork
<1>2. CASE IsDenied(x)
  <2>1. x \notin Working /\ guard' = guard /\ srv' = [srv EXCEPT ![x] = Replied]
    BY Zenon, <1>0, <1>2 DEF IsDenied, Busy
  <2>2. Working' = Working
    <3>1. Working' = Working \ {x}
      BY <2>1, RepliedIsServed, WorkChanges, Zenon DEF Busy
    <3> QED BY Zenon, <2>1, <3>1
  <2>3. ServerType' /\ guard + Cardinality(Working) = MaxConnections
    BY <2>1, RepliedIsServed, WorkChanges, WorkIsCounted, Zenon
  <2> QED BY <2>1, <2>2, <2>3 DEF GuardInv, GuardMatchesWork
<1>3. CASE Ceases(x)
  <2>1. x \in Working /\ guard' = guard + 1 /\ srv' = [srv EXCEPT ![x] = Replied]
    BY Zenon, <1>0, <1>3 DEF Ceases
  <2>2. Working' = Working \ {x} /\ IsFiniteSet(Working)
    BY <2>1, RepliedIsServed, WorkChanges, WorkIsCounted, Zenon DEF Busy
  <2>3. Cardinality(Working') = Cardinality(Working) - 1
    BY Zenon, <2>1, <2>2, FS_RemoveElement
  <2>4. guard' \in Nat /\ guard + Cardinality(Working) = MaxConnections
        /\ Cardinality(Working) \in Nat /\ guard \in Nat
    BY <2>1, WorkIsCounted
  <2>5. ServerType'
    BY <2>1, <2>4, RepliedIsServed, WorkChanges, Zenon
  <2> QED BY <2>1, <2>3, <2>4, <2>5 DEF GuardInv, GuardMatchesWork
<1>4. CASE GoesOn(x)
  <2> DEFINE s == srv'[x]
  <2>1. x \in Working /\ guard' = guard /\ srv' = [srv EXCEPT ![x] = s] /\ IsServed(s)
        /\ s.stage \in Busy
    BY Zenon, <1>0, <1>4 DEF GoesOn
  <2> HIDE DEF s
  <2>2. Working' = Working
    <3>1. Working' = Working \cup {x}
      BY <2>1, WorkChanges, Zenon
    <3> QED BY Zenon, <2>1, <3>1
  <2>3. ServerType' /\ guard + Cardinality(Working) = MaxConnections
    BY <2>1, WorkChanges, WorkIsCounted, Zenon
  <2> QED BY <2>1, <2>2, <2>3 DEF GuardInv, GuardMatchesWork
<1> QED BY <1>1, <1>2, <1>3, <1>4

(* What the layers in front of the handler let pass. *)
Admitted(req, stage) ==
  /\ config.filter => \E a \in FromHttpRequest(req) : Recognize(a)
  /\ stage = "session" => config.enable_ws /\ req.upgrade = "valid"
  /\ stage # "session" =>
       /\ config.enable_http /\ req.upgrade = "no"
       /\ (req.verb = "POST" /\ req.json) \/ (req.verb = "GET" /\ req.path \in Paths)

(* A body that runs, and how far its answer is. *)
Runs(s) ==
  LET body == Proxied(s.req).body IN
  /\ body.size <= MaxRequestBody
  /\ body.lead = "[" => config.batch # Disabled /\ ~TooBig(config.batch, Len(body.items))
  /\ s.pos \in Nat \ {0}
  /\ s.acc \in Seq(Range(s.acc)) /\ Len(s.acc) < s.pos
  /\ s.acc # <<>> => /\ body.lead = "[" /\ s.pos <= Len(body.items) + 1
                     /\ s.size <= MaxResponseBody

(* What is known of an exchange while the server works on it. *)
ServedInv ==
  \A x \in Exchanges :
    /\ srv[x].stage \in {"none", "reading"} => srv[x].acc = <<>>
    /\ srv[x].stage \in Busy => IsRequest(srv[x].req) /\ Admitted(srv[x].req, srv[x].stage)
    /\ srv[x].stage = "running" => Runs(srv[x])

(* What is on the wire is a request, and so is what an operation will send. *)
IsExchange(w) == w \in [st : {w.st}, req : {w.req}, rep : {w.rep}] /\ IsRequest(w.req)
WireInv ==
  /\ wire = [x \in Exchanges |-> wire[x]] /\ \A x \in Exchanges : IsExchange(wire[x])
  /\ \A c \in Calls : call[c].op.entries \in Seq(Range(call[c].op.entries))

-----------------------------------------------------------------------------
LEMMA OwnRange ==
  ASSUME NEW S, NEW s \in Seq(S)
  PROVE  s \in Seq(Range(s))
BY DEF Range

LEMMA AppendRange ==
  ASSUME NEW s, s \in Seq(Range(s)), NEW e
  PROVE  /\ Append(s, e) \in Seq(Range(Append(s, e))) /\ Append(s, e) # <<>>
         /\ Len(Append(s, e)) = Len(s) + 1
<1> DEFINE S == Range(s) \cup {e}
<1>1. s \in Seq(S)
  BY DEF Range
<1>2. e \in S
  BY Zenon
<1> HIDE DEF S
<1>3. Append(s, e) \in Seq(S) /\ Append(s, e) # <<>> /\ Len(Append(s, e)) = Len(s) + 1
  BY <1>1, <1>2
<1> QED BY <1>3, OwnRange, Zenon

(* Behind ProxyGetRequest. *)
LEMMA ProxiedRequest ==
  ASSUME NEW r, IsRequest(r)
  PROVE  /\ Proxied(r).upgrade = r.upgrade
         /\ Proxied(r).verb = "POST" /\ Proxied(r).json =>
              (r.verb = "POST" /\ r.json) \/ (r.verb = "GET" /\ r.path \in Paths)
         /\ Len(Proxied(r).body.items) \in Nat
<1>1. CASE IsProxied(r)
  <2>1. PICK it : Proxied(r) = [r EXCEPT !.verb = "POST", !.path = "/", !.json = TRUE,
                                         !.body = Body("one", <<it>>, 1)]
    BY <1>1, Zenon DEF Proxied
  <2>2. Proxied(r).upgrade = r.upgrade /\ Proxied(r).body = Body("one", <<it>>, 1)
    BY Zenon, <2>1 DEF IsRequest
  <2>3. Proxied(r).body.items = <<it>>
    <3>1. \A items : Body("one", items, 1).items = items
      BY Zenon DEF Body
    <3> QED BY Zenon, <2>2, <3>1
  <2> QED BY <1>1, <2>2, <2>3 DEF IsProxied
<1>2. CASE ~IsProxied(r)
  BY <1>2 DEF Proxied, IsRequest
<1> QED BY Zenon, <1>1, <1>2

LEMMA PostIsRequest ==
  ASSUME NEW form, NEW items, NEW size, items \in Seq(Range(items))
  PROVE  IsRequest(Post(Body(form, items, size)))
<1>1. Body(form, items, size).items = items
  BY Zenon DEF Body
<1>2. \A body : Post(body).body = body
  BY Zenon DEF Post
<1> QED BY <1>1, <1>2, Zenon DEF IsRequest, Post

LEMMA QuietIsExchange ==
  /\ IsRequest(NoRequest)
  /\ \A st, rep : IsExchange([Quiet EXCEPT !.st = st]) /\ IsExchange([Quiet EXCEPT !.st = st, !.rep = rep])
<1>1. <<>> \in Seq(Range(<<>>))
  OBVIOUS
<1>2. IsRequest(NoRequest)
  BY <1>1, PostIsRequest, Zenon DEF NoRequest
<1> QED BY <1>2, Zenon DEF IsExchange, Quiet

(* The entries of an operation, as they are sent. *)
LEMMA ItemsAreSeq ==
  ASSUME NEW op, op.entries \in Seq(Range(op.entries)), NEW first
  PROVE  Items(op, first) \in Seq(Range(Items(op, first)))
<1> DEFINE F(i) == Item(IF op.kind = "notification" THEN NoId ELSE Id(first + i - 1), op.entries[i])
<1>1. Len(op.entries) \in Nat
  OBVIOUS
<1>2. Items(op, first) = [i \in 1 .. Len(op.entries) |-> F(i)]
  BY Zenon DEF Items
<1> HIDE DEF F
<1>3. Items(op, first) \in Seq({F(i) : i \in 1 .. Len(op.entries)})
  BY <1>1, <1>2
<1> QED BY Zenon, <1>3, OwnRange

(* One exchange on the wire changes. *)
LEMMA OneExchange ==
  ASSUME WireInv, NEW x \in Exchanges, NEW w, IsExchange(w), wire' = [wire EXCEPT ![x] = w]
  PROVE  wire' = [y \in Exchanges |-> wire'[y]] /\ \A y \in Exchanges : IsExchange(wire'[y])
<1>1. wire' = [y \in Exchanges |-> IF y = x THEN w ELSE wire[y]]
  BY Zenon DEF WireInv
<1> QED BY Zenon, <1>1 DEF WireInv

(* The client puts requests on the wire, and takes its exchange off it. *)
LEMMA ClientKeepsWire ==
  ASSUME ClientInv, WireInv, NEW c \in Calls, ClientStep(c) \/ CallerStep(c)
  PROVE  WireInv'
<1>0. c \in Exchanges /\ IsExchange(wire[c])
  BY Zenon DEF Exchanges, WireInv
<1>1. \A d \in Calls : \/ call'[d].op = call[d].op
                       \/ \E op \in Ops[d] : call'[d].op = op
  <2>1. \A d \in Calls : IsOperation(call[d])
    BY Zenon DEF ClientInv, ClientType
  <2>2. ASSUME NEW op \in Ops[c], Issue(c, op)
        PROVE  \A d \in Calls : call'[d].op = call[d].op \/ (d = c /\ call'[d].op = op)
    BY <2>1, <2>2 DEF Issue, IsOperation, ClientInv, ClientType
  <2>3. ASSUME NEW end, Ends(c, end) PROVE \A d \in Calls : call'[d].op = call[d].op
    <3>1. call' = [d \in Calls |-> Handed(c, end, d)]
      BY Zenon, <2>3, EndStep DEF Ends
    <3>2. \A d \in Calls : Handed(c, end, d).op = call[d].op
      BY Zenon, <2>1 DEF Handed, IsOperation
    <3> QED BY Zenon, <3>1, <3>2
  <2>4. ASSUME Begins(c) \/ LeavesQueue(c) PROVE \A d \in Calls : call'[d].op = call[d].op
    <3>1. CASE Begins(c)
      <4> DEFINE r == [call[c] EXCEPT !.stage = "sending", !.first = nextId]
      <4>1. call' = [d \in Calls |-> IF d = c THEN r ELSE call[d]]
        BY Zenon, <3>1 DEF Begins, ClientInv, ClientType
      <4>2. r.op = call[c].op
        BY Zenon, <2>1 DEF IsOperation
      <4> QED BY Zenon, <4>1, <4>2
    <3>2. CASE LeavesQueue(c)
      <4> DEFINE r == [call[c] EXCEPT !.stage = "dropped"]
      <4>1. call' = [d \in Calls |-> IF d = c THEN r ELSE call[d]]
        BY Zenon, <3>2 DEF LeavesQueue, ClientInv, ClientType
      <4>2. r.op = call[c].op
        BY Zenon, <2>1 DEF IsOperation
      <4> QED BY Zenon, <4>1, <4>2
    <3> QED BY <2>4, <3>1, <3>2
  <2> QED BY <2>2, <2>3, <2>4, StepKinds, Zenon
<1>2. \A d \in Calls : call'[d].op.entries \in Seq(Range(call'[d].op.entries))
  BY Zenon, <1>1, HttpClientAssumption DEF WireInv
<1>3. wire' = wire \/ \E w : IsExchange(w) /\ wire' = [wire EXCEPT ![c] = w]
  <2>1. IsExchange([Quiet EXCEPT !.st = "gone"])
    BY QuietIsExchange, Zenon
  <2>2. CASE Send(c)
    <3> DEFINE req == Post(RequestBody(call[c].op, nextId))
               w == [wire[c] EXCEPT !.st = "sent", !.req = req]
    <3>1. IsRequest(req)
      BY Zenon, ItemsAreSeq, PostIsRequest DEF RequestBody, WireInv
    <3> HIDE DEF req
    <3>2. IsExchange(w)
      BY <1>0, <3>1, Zenon DEF IsExchange
    <3>3. wire' = wire \/ wire' = [wire EXCEPT ![c] = w]
      BY Zenon, <2>2, <1>0 DEF Send, req, WireInv
    <3> QED BY Zenon, <3>2, <3>3
  <2>3. CASE Return(c) \/ \E e : Abort(c, e)
    BY Zenon, <2>1, <2>3 DEF Return, Abort
  <2>4. CASE Drop(c)
    BY Zenon, <2>1, <2>4 DEF Drop
  <2>5. CASE SendNothing(c) \/ \E op \in Ops[c] : Issue(c, op)
    BY <2>5, Zenon DEF SendNothing, Issue
  <2> QED BY <2>2, <2>3, <2>4, <2>5 DEF ClientStep, CallerStep, Poll, Timeout, ConnectionFails
<1>4. wire' = [y \in Exchanges |-> wire'[y]] /\ \A y \in Exchanges : IsExchange(wire'[y])
  BY <1>0, <1>3, OneExchange DEF WireInv
<1> QED BY Zenon, <1>2, <1>4 DEF WireInv

(* What happens to an exchange at the server. *)
Advances(x) ==
  /\ srv[x].stage \in {"reading", "running"} /\ guard' = guard
  /\ srv' = [srv EXCEPT ![x] = srv'[x]] /\ IsServed(srv'[x])
  /\ srv'[x].stage = "running" /\ srv'[x].req = srv[x].req /\ Runs(srv'[x])
EntersAdmitted(x) ==
  /\ srv[x].stage = "none" /\ guard > 0 /\ guard' = guard - 1
  /\ \E stage \in {"reading", "session"} :
       /\ Admitted(wire[x].req, stage)
       /\ srv' = [srv EXCEPT ![x].stage = stage, ![x].req = wire[x].req]

LEMMA ReceiveKinds ==
  ASSUME WireInv, NEW x \in Exchanges, Receive(x)
  PROVE  EntersAdmitted(x) \/ IsDenied(x)
<1> DEFINE req == wire[x].req
           pro == Proxied(wire[x].req)
           passes == FromHttpRequest(req) # {} /\
                     (config.filter => \E a \in FromHttpRequest(req) : Recognize(a))
<1>1. IsRequest(req)
  BY Zenon DEF WireInv, IsExchange
<1>2. /\ pro.upgrade = req.upgrade
      /\ pro.verb = "POST" /\ pro.json =>
           (req.verb = "POST" /\ req.json) \/ (req.verb = "GET" /\ req.path \in Paths)
  BY Zenon, <1>1, ProxiedRequest
<1>3. srv[x].stage = "none"
  BY Zenon DEF Receive
<1>4. (passes /\ Admit(x, pro)) \/ \E rep : Deny(x, rep)
  BY Zenon DEF Receive
<1>5. ASSUME NEW rep, Deny(x, rep) PROVE IsDenied(x)
  BY Zenon, <1>3, <1>5 DEF Deny, IsDenied
<1> HIDE DEF req, pro, passes
<1>6. CASE passes /\ Admit(x, pro)
  <2>1. \/ \E rep : Deny(x, rep)
        \/ config.enable_ws /\ pro.upgrade = "valid" /\ Enter(x, "session")
        \/ config.enable_http /\ pro.upgrade = "no" /\ pro.verb = "POST" /\ pro.json
             /\ Enter(x, "reading")
    BY <1>6 DEF Admit
  <2>2. CASE config.enable_ws /\ pro.upgrade = "valid" /\ Enter(x, "session")
    <3>1. Admitted(req, "session")
      BY Zenon, <1>2, <1>6, <2>2 DEF Admitted, passes
    <3> QED BY Zenon, <1>3, <2>2, <3>1 DEF Enter, EntersAdmitted, req
  <2>3. CASE config.enable_http /\ pro.upgrade = "no" /\ pro.verb = "POST" /\ pro.json
             /\ Enter(x, "reading")
    <3>1. Admitted(req, "reading")
      BY Zenon, <1>2, <1>6, <2>3 DEF Admitted, passes
    <3> QED BY Zenon, <1>3, <2>3, <3>1 DEF Enter, EntersAdmitted, req
  <2> QED BY <1>5, <2>1, <2>2, <2>3
<1> QED BY <1>4, <1>5, <1>6

LEMMA FinishCeases ==
  ASSUME NEW x, srv[x].stage \in Busy, NEW rep, Finish(x, rep)
  PROVE  Ceases(x)
BY Zenon DEF Finish, Ceases

LEMMA ReadRuns ==
  ASSUME ServerType, ServedInv, NEW x \in Exchanges, Read(x)
  PROVE  Ceases(x) \/ Advances(x)
<1> DEFINE body == Proxied(srv[x].req).body
           s == [srv[x] EXCEPT !.stage = "running", !.pos = 1]
<1>1. srv[x].stage = "reading" /\ srv[x].stage \in Busy /\ srv[x].acc = <<>> /\ IsServed(srv[x])
  BY Zenon DEF Read, ServedInv, ServerType, Busy
<1>2. \/ \E rep : Finish(x, rep)
      \/ /\ ReadBody(body, MaxRequestBody) = "Ok"
         /\ body.lead = "[" => config.batch # Disabled /\ ~TooBig(config.batch, Len(body.items))
         /\ srv' = [srv EXCEPT ![x].stage = "running", ![x].pos = 1]
         /\ guard' = guard
  BY Zenon DEF Read
<1>3. ReadBody(body, MaxRequestBody) = "Ok" => body.size <= MaxRequestBody
  BY Zenon DEF ReadBody
<1> HIDE DEF body
<1>4. ASSUME /\ ReadBody(body, MaxRequestBody) = "Ok"
             /\ body.lead = "[" => config.batch # Disabled /\ ~TooBig(config.batch, Len(body.items))
             /\ srv' = [srv EXCEPT ![x].stage = "running", ![x].pos = 1]
             /\ guard' = guard
      PROVE  Advances(x)
  <2>1. /\ IsServed(s) /\ s.stage = "running" /\ s.pos = 1 /\ s.acc = <<>> /\ s.req = srv[x].req
    BY <1>1, Zenon DEF IsServed
  <2>2. srv' = [srv EXCEPT ![x] = s] /\ srv'[x] = s
    BY <1>4, Zenon DEF ServerType
  <2> HIDE DEF s
  <2>3. s.acc \in Seq(Range(s.acc)) /\ Len(s.acc) < s.pos
    BY <2>1
  <2>4. Runs(s)
    BY <1>3, <1>4, <2>1, <2>3 DEF Runs, body
  <2> QED BY <1>1, <1>4, <2>1, <2>2, <2>4, Zenon DEF Advances
<1> QED BY <1>1, <1>2, <1>4, FinishCeases

LEMMA EntryRuns ==
  ASSUME ServerType, ServedInv, NEW x \in Exchanges, RunEntry(x)
  PROVE  Ceases(x) \/ Advances(x)
<1> DEFINE body == Proxied(srv[x].req).body
           answer == Respond(body.items[srv[x].pos], FALSE)
           size == srv[x].size + answer.size + 1
           skip == [srv[x] EXCEPT !.pos = @ + 1, !.notified = TRUE]
           add == [srv[x] EXCEPT !.pos = @ + 1, !.size = size, !.acc = Append(@, answer.rp)]
<1>1. srv[x].stage = "running" /\ srv[x].stage \in Busy /\ Runs(srv[x]) /\ IsServed(srv[x])
      /\ IsRequest(srv[x].req)
  BY Zenon DEF RunEntry, ServedInv, ServerType, Busy
<1>2. body.lead = "[" /\ srv[x].pos <= Len(body.items)
  BY Zenon DEF RunEntry
<1>3. Len(body.items) \in Nat
  BY Zenon, <1>1, ProxiedRequest
<1>4. \/ \E rep : Finish(x, rep)
      \/ srv' = [srv EXCEPT ![x].pos = @ + 1, ![x].notified = TRUE] /\ guard' = guard
      \/ /\ size <= MaxResponseBody /\ guard' = guard
         /\ srv' = [srv EXCEPT ![x].pos = @ + 1, ![x].size = size, ![x].acc = Append(@, answer.rp)]
  BY Zenon DEF RunEntry
<1> HIDE DEF answer, body
<1>5. CASE srv' = [srv EXCEPT ![x].pos = @ + 1, ![x].notified = TRUE] /\ guard' = guard
  <2>1. /\ IsServed(skip) /\ skip.stage = "running" /\ skip.pos = srv[x].pos + 1
        /\ skip.acc = srv[x].acc /\ skip.req = srv[x].req /\ skip.size = srv[x].size
    BY <1>1, Zenon DEF IsServed
  <2>2. srv' = [srv EXCEPT ![x] = skip] /\ srv'[x] = skip
    BY <1>5, Zenon DEF ServerType
  <2> HIDE DEF skip
  <2>3. Runs(skip)
    BY <1>1, <1>2, <1>3, <2>1 DEF Runs, body
  <2> QED BY <1>1, <1>5, <2>1, <2>2, <2>3, Zenon DEF Advances
<1>6. CASE /\ size <= MaxResponseBody /\ guard' = guard
           /\ srv' = [srv EXCEPT ![x].pos = @ + 1, ![x].size = size, ![x].acc = Append(@, answer.rp)]
  <2> HIDE DEF size
  <2>1. /\ IsServed(add) /\ add.stage = "running" /\ add.pos = srv[x].pos + 1
        /\ add.acc = Append(srv[x].acc, answer.rp) /\ add.req = srv[x].req /\ add.size = size
    BY <1>1, Zenon DEF IsServed
  <2>2. srv' = [srv EXCEPT ![x] = add] /\ srv'[x] = add
    BY <1>6, Zenon DEF ServerType
  <2> HIDE DEF add
  <2>3. add.acc \in Seq(Range(add.acc)) /\ Len(add.acc) = Len(srv[x].acc) + 1
    BY <1>1, <2>1, AppendRange DEF Runs
  <2>4. srv[x].pos \in Nat \ {0} /\ Len(srv[x].acc) < srv[x].pos /\ Len(srv[x].acc) \in Nat
    BY <1>1 DEF Runs
  <2>5. Len(add.acc) < add.pos /\ add.pos \in Nat \ {0} /\ add.pos <= Len(body.items) + 1
    BY <1>2, <1>3, <2>1, <2>3, <2>4
  <2>6. Runs(add)
    BY <1>1, <1>2, <1>6, <2>1, <2>3, <2>5 DEF Runs, body
  <2> QED BY <1>1, <1>6, <2>1, <2>2, <2>6, Zenon DEF Advances
<1> QED BY <1>1, <1>4, <1>5, <1>6, FinishCeases

LEMMA ServerKinds ==
  ASSUME ServerType, ServedInv, WireInv, NEW x \in Exchanges, ServerStep(x) \/ SessionEnds(x)
  PROVE  /\ UNCHANGED config
         /\ EntersAdmitted(x) \/ IsDenied(x) \/ Ceases(x) \/ Advances(x)
<1>1. CASE Receive(x)
  BY <1>1, ReceiveKinds, Zenon DEF Receive
<1>2. CASE Read(x)
  BY <1>2, ReadRuns, Zenon DEF Read
<1>3. CASE RunEntry(x)
  BY <1>3, EntryRuns, Zenon DEF RunEntry
<1>4. CASE RunSingle(x) \/ FinishBatch(x)
  <2>1. srv[x].stage \in Busy /\ UNCHANGED config /\ \E rep : Finish(x, rep)
    BY <1>4, Zenon DEF RunSingle, FinishBatch, Busy
  <2> QED BY Zenon, <2>1, FinishCeases
<1>5. CASE DropService(x) \/ SessionEnds(x)
  BY Zenon, <1>5 DEF DropService, SessionEnds, Ceases, Busy
<1> QED BY <1>1, <1>2, <1>3, <1>4, <1>5 DEF ServerStep

(* The server and the other clients put replies and requests on the wire. *)
LEMMA ReplyKeepsWire ==
  ASSUME WireInv, NEW x \in Exchanges, NEW req, NEW rep, SendReply(x, req, rep)
  PROVE  \E w : IsExchange(w) /\ wire' = [wire EXCEPT ![x] = w]
<1> DEFINE w == IF wire[x].st = "gone" THEN [Quiet EXCEPT !.st = "gone"]
                ELSE [Quiet EXCEPT !.st = "replied", !.rep = Stripped(req, rep)]
<1>1. wire' = [wire EXCEPT ![x] = w]
  BY Zenon DEF SendReply, WireInv
<1>2. IsExchange(w)
  BY QuietIsExchange, Zenon
<1> QED BY <1>1, <1>2, Zenon

LEMMA ServerKeepsWire ==
  ASSUME WireInv, NEW x \in Exchanges, ServerStep(x) \/ SessionEnds(x)
  PROVE  wire' = wire \/ \E w : IsExchange(w) /\ wire' = [wire EXCEPT ![x] = w]
<1>1. ASSUME NEW rep, Finish(x, rep) \/ Deny(x, rep)
      PROVE  \E w : IsExchange(w) /\ wire' = [wire EXCEPT ![x] = w]
  BY Zenon, <1>1, ReplyKeepsWire DEF Finish, Deny
<1>2. CASE Receive(x)
  <2>1. \/ \E rep : Deny(x, rep)
        \/ \E req, rep : SendReply(x, req, rep)
        \/ wire' = [wire EXCEPT ![x].req = NoRequest]
    BY <1>2 DEF Receive, Admit
  <2>2. CASE wire' = [wire EXCEPT ![x].req = NoRequest]
    <3> DEFINE w == [wire[x] EXCEPT !.req = NoRequest]
    <3>1. wire' = [wire EXCEPT ![x] = w]
      BY Zenon, <2>2 DEF WireInv
    <3>2. IsExchange(w)
      BY QuietIsExchange, Zenon DEF WireInv, IsExchange
    <3> QED BY <3>1, <3>2, Zenon
  <2> QED BY <1>1, <2>1, <2>2, ReplyKeepsWire
<1>3. CASE Read(x) \/ RunEntry(x)
  <2>1. (\E rep : Finish(x, rep)) \/ wire' = wire
    BY <1>3, Zenon DEF Read, RunEntry
  <2> QED BY Zenon, <1>1, <2>1
<1>4. CASE RunSingle(x) \/ FinishBatch(x)
  <2>1. \E rep : Finish(x, rep)
    BY <1>4, Zenon DEF RunSingle, FinishBatch
  <2> QED BY Zenon, <1>1, <2>1
<1>5. CASE DropService(x) \/ SessionEnds(x)
  BY Zenon, <1>5 DEF DropService, SessionEnds
<1> QED BY <1>2, <1>3, <1>4, <1>5 DEF ServerStep

LEMMA PeersKeepWire ==
  ASSUME WireInv, NEW x \in Exchanges,
         ForeignReply(x) \/ StrangerSends(x) \/ StrangerLeaves(x)
  PROVE  \E w : IsExchange(w) /\ wire' = [wire EXCEPT ![x] = w]
<1>1. IsExchange(wire[x])
  BY Zenon DEF WireInv
<1>2. ASSUME NEW rep, Deliver(x, rep)
      PROVE  \E w : IsExchange(w) /\ wire' = [wire EXCEPT ![x] = w]
  <2> DEFINE w == [wire[x] EXCEPT !.st = "replied", !.rep = rep]
  <2>1. IsExchange(w) /\ wire' = [wire EXCEPT ![x] = w]
    BY <1>1, <1>2, Zenon DEF Deliver, IsExchange, WireInv
  <2> QED BY <2>1, Zenon
<1>3. ASSUME NEW req \in StrangeRequests, wire' = [wire EXCEPT ![x].st = "sent", ![x].req = req]
      PROVE  \E w : IsExchange(w) /\ wire' = [wire EXCEPT ![x] = w]
  <2> DEFINE w == [wire[x] EXCEPT !.st = "sent", !.req = req]
  <2>1. IsRequest(req)
    BY Zenon, HttpExchangeAssumption
  <2>2. IsExchange(w) /\ wire' = [wire EXCEPT ![x] = w]
    BY <1>1, <1>3, <2>1, Zenon DEF IsExchange, WireInv
  <2> QED BY <2>2, Zenon
<1> QED BY <1>2, <1>3, QuietIsExchange, Zenon DEF ForeignReply, StrangerSends, StrangerLeaves

(* A step of the server keeps what is known of the exchanges. *)
LEMMA KindsKeepServed ==
  ASSUME GuardInv, WireInv, ServedInv, NEW x \in Exchanges, UNCHANGED config,
         EntersAdmitted(x) \/ IsDenied(x) \/ Ceases(x) \/ Advances(x)
  PROVE  GuardInv' /\ ServedInv'
<1>1. GuardInv'
  <2>1. EntersAdmitted(x) => Enters(x)
    BY Zenon DEF EntersAdmitted, Enters, Busy
  <2>2. Advances(x) => GoesOn(x)
    BY Zenon DEF Advances, GoesOn, Busy
  <2> QED BY Zenon, <2>1, <2>2, KindsKeepGuard
<1>2. ASSUME NEW s, srv' = [srv EXCEPT ![x] = s],
             s.stage \in {"none", "reading"} => s.acc = <<>>,
             s.stage \in Busy => IsRequest(s.req) /\ Admitted(s.req, s.stage),
             s.stage = "running" => Runs(s)
      PROVE  ServedInv'
  <2>1. srv' = [y \in Exchanges |-> IF y = x THEN s ELSE srv[y]]
    BY Zenon, <1>2 DEF GuardInv, ServerType
  <2>2. \A r, stage : Admitted(r, stage)' <=> Admitted(r, stage)
    BY Zenon DEF Admitted
  <2>3. \A t : Runs(t)' <=> Runs(t)
    BY Zenon DEF Runs
  <2>4. ASSUME NEW y \in Exchanges
        PROVE  /\ srv'[y].stage \in {"none", "reading"} => srv'[y].acc = <<>>
               /\ srv'[y].stage \in Busy => IsRequest(srv'[y].req) /\ Admitted(srv'[y].req, srv'[y].stage)
               /\ srv'[y].stage = "running" => Runs(srv'[y])
    BY Zenon, <1>2, <2>1 DEF ServedInv
  <2> QED BY Zenon, <2>2, <2>3, <2>4 DEF ServedInv
<1>3. IsServed(srv[x])
  BY Zenon DEF GuardInv, ServerType
<1>4. CASE EntersAdmitted(x)
  <2>1. PICK stage \in {"reading", "session"} :
          /\ Admitted(wire[x].req, stage)
          /\ srv' = [srv EXCEPT ![x].stage = stage, ![x].req = wire[x].req]
    BY <1>4, Zenon DEF EntersAdmitted
  <2> DEFINE s == [srv[x] EXCEPT !.stage = stage, !.req = wire[x].req]
  <2>2. s.stage = stage /\ s.req = wire[x].req /\ s.acc = srv[x].acc
    BY Zenon, <1>3 DEF IsServed
  <2>3. srv' = [srv EXCEPT ![x] = s]
    BY <2>1, Zenon DEF GuardInv, ServerType
  <2>4. srv[x].acc = <<>> /\ IsRequest(wire[x].req)
    BY Zenon, <1>4 DEF EntersAdmitted, ServedInv, WireInv, IsExchange
  <2> HIDE DEF s
  <2> QED BY <1>1, <1>2, <2>1, <2>2, <2>3, <2>4, Zenon DEF Busy
<1>5. CASE IsDenied(x) \/ Ceases(x)
  BY <1>1, <1>2, <1>5, RepliedIsServed DEF IsDenied, Ceases, Busy
<1>6. CASE Advances(x)
  <2> DEFINE s == srv'[x]
  <2>1. srv' = [srv EXCEPT ![x] = s] /\ s.stage = "running" /\ s.req = srv[x].req /\ Runs(s)
        /\ srv[x].stage \in {"reading", "running"}
    BY Zenon, <1>6 DEF Advances
  <2>2. IsRequest(srv[x].req) /\ Admitted(srv[x].req, "running")
    BY <2>1, Zenon DEF ServedInv, Admitted, Busy
  <2> HIDE DEF s
  <2> QED BY <1>1, <1>2, <2>1, <2>2, Zenon
<1> QED BY Zenon, <1>1, <1>4, <1>5, <1>6

LEMMA ServerInit == Init => GuardInv /\ WireInv /\ ServedInv
<1> SUFFICES ASSUME Init PROVE GuardInv /\ WireInv /\ ServedInv
  BY Zenon
<1>1. /\ srv = [x \in Exchanges |-> Unserved] /\ guard = MaxConnections /\ config \in Configs
      /\ call = [c \in Calls |-> Idle] /\ wire = [x \in Exchanges |-> Quiet]
  BY Zenon DEF Init, ClientInit
<1>2. IsServed(Unserved) /\ Unserved.stage = "none" /\ Unserved.acc = <<>>
  BY Zenon DEF IsServed, Unserved
<1>3. GuardInv
  <2>1. Working = {}
    BY Zenon, <1>1, <1>2 DEF Working
  <2>2. guard \in Nat /\ guard + Cardinality(Working) = MaxConnections
    BY <1>1, <2>1, FS_EmptySet, HttpExchangeAssumption
  <2> QED BY <1>1, <1>2, <2>2 DEF GuardInv, ServerType, GuardMatchesWork
<1>4. WireInv
  <2>1. IsExchange(Quiet)
    BY QuietIsExchange, Zenon DEF IsExchange, Quiet
  <2>2. Idle.op.entries = <<>> /\ <<>> \in Seq(Range(<<>>))
    BY DEF Idle, NoOp
  <2> QED BY <1>1, <2>1, <2>2, Zenon DEF WireInv
<1>5. ServedInv
  BY Zenon, <1>1, <1>2 DEF ServedInv, Busy
<1> QED BY Zenon, <1>3, <1>4, <1>5

LEMMA ServerNext ==
  ClientInv /\ GuardInv /\ WireInv /\ ServedInv /\ [Next]_vars => GuardInv' /\ WireInv' /\ ServedInv'
<1> SUFFICES ASSUME ClientInv, GuardInv, WireInv, ServedInv, [Next]_vars
             PROVE  GuardInv' /\ WireInv' /\ ServedInv'
  BY Zenon
<1>1. ASSUME UNCHANGED <<config, srv, guard>> PROVE GuardInv' /\ ServedInv'
  BY <1>1 DEF GuardInv, ServerType, GuardMatchesWork, Working, ServedInv, Admitted, Runs
<1>2. ASSUME NEW x \in Exchanges, UNCHANGED call,
             wire' = wire \/ \E w : IsExchange(w) /\ wire' = [wire EXCEPT ![x] = w]
      PROVE  WireInv'
  <2>1. wire' = [y \in Exchanges |-> wire'[y]] /\ \A y \in Exchanges : IsExchange(wire'[y])
    BY Zenon, <1>2, OneExchange DEF WireInv
  <2> QED BY Zenon, <1>2, <2>1 DEF WireInv
<1>3. ASSUME NEW c \in Calls, (ClientStep(c) \/ CallerStep(c)) /\ UNCHANGED <<config, srv, guard>>
      PROVE  GuardInv' /\ WireInv' /\ ServedInv'
  BY <1>1, <1>3, ClientKeepsWire
<1>4. ASSUME NEW x \in Exchanges, ForeignReply(x) \/ StrangerSends(x) \/ StrangerLeaves(x)
      PROVE  GuardInv' /\ WireInv' /\ ServedInv'
  <2>1. UNCHANGED <<config, srv, guard, call>>
    BY Zenon, <1>4 DEF ForeignReply, StrangerSends, StrangerLeaves, clientVars
  <2> QED BY <1>1, <1>2, <1>4, <2>1, PeersKeepWire
<1>5. ASSUME NEW x \in Exchanges, ServerStep(x) \/ SessionEnds(x)
      PROVE  GuardInv' /\ WireInv' /\ ServedInv'
  <2>1. UNCHANGED call
    BY <1>5, Zenon DEF ServerStep, SessionEnds, Receive, Read, RunSingle, RunEntry, FinishBatch,
                       DropService, clientVars
  <2>2. WireInv'
    BY <1>2, <1>5, <2>1, ServerKeepsWire
  <2>3. UNCHANGED config /\ (EntersAdmitted(x) \/ IsDenied(x) \/ Ceases(x) \/ Advances(x))
    BY Zenon, <1>5, ServerKinds DEF GuardInv
  <2> QED BY Zenon, <2>2, <2>3, KindsKeepServed
<1>6. CASE UNCHANGED vars
  <2>1. UNCHANGED <<config, srv, guard, wire, call>>
    BY Zenon, <1>6 DEF vars
  <2>2. WireInv'
    BY Zenon, <2>1 DEF WireInv
  <2> QED BY Zenon, <1>1, <2>1, <2>2
<1> QED BY <1>3, <1>4, <1>5, <1>6 DEF Next, Exchanges

LEMMA ServerInvariant == Spec => [](GuardInv /\ ServedInv)
BY ClientInvariant, ServerInit, ServerNext, PTL DEF Spec

(* Every way out of a handler of the HTTP server gives its permit of       *)
(* ConnectionGuard back, and none is given back twice, for any number of   *)
(* connections, clients and requests.                                      *)
THEOREM GuardAlwaysMatchesWork == Spec => []GuardMatchesWork
<1>1. GuardInv => GuardMatchesWork
  BY DEF GuardInv
<1> QED BY <1>1, ServerInvariant, PTL

(* Whatever is configured and whoever connects, the server only works on   *)
(* what HostFilter, ProxyGetRequest, enable_http and enable_ws,            *)
(* max_request_body_size and the batch configuration let pass, and a batch *)
(* answer stays within max_response_body_size.                             *)
THEOREM OnlyAdmittedIsEverServed == Spec => []OnlyAdmittedIsServed
<1>1. GuardInv /\ ServedInv => OnlyAdmittedIsServed
  <2> SUFFICES ASSUME GuardInv, ServedInv, NEW x \in Working
               PROVE  /\ Admitted(srv[x].req, srv[x].stage)
                      /\ srv[x].stage = "running" =>
                           /\ Proxied(srv[x].req).body.size <= MaxRequestBody
                           /\ srv[x].acc # <<>> => srv[x].size <= MaxResponseBody
                           /\ ~TooBig(config.batch, Len(srv[x].acc))
                           /\ config.batch = Disabled => srv[x].acc = <<>>
    BY Zenon DEF OnlyAdmittedIsServed, Admitted
  <2>1. x \in Exchanges /\ srv[x].stage \in Busy
    BY Zenon DEF Working, Busy
  <2>2. IsRequest(srv[x].req) /\ Admitted(srv[x].req, srv[x].stage)
    BY Zenon, <2>1 DEF ServedInv
  <2>3. ASSUME srv[x].stage = "running"
        PROVE  /\ Proxied(srv[x].req).body.size <= MaxRequestBody
               /\ srv[x].acc # <<>> => srv[x].size <= MaxResponseBody
               /\ ~TooBig(config.batch, Len(srv[x].acc))
               /\ config.batch = Disabled => srv[x].acc = <<>>
    <3> DEFINE body == Proxied(srv[x].req).body
    <3>1. Runs(srv[x])
      BY Zenon, <2>1, <2>3 DEF ServedInv
    <3>2. Len(body.items) \in Nat /\ config.batch.len \in Nat
      BY <2>2, ProxiedRequest, HttpExchangeAssumption DEF GuardInv, ServerType
    <3>3. CASE srv[x].acc = <<>>
      <4>1. Len(srv[x].acc) = 0
        BY <3>3
      <4> QED BY <3>1, <3>2, <3>3, <4>1 DEF Runs, TooBig
    <3>4. CASE srv[x].acc # <<>>
      <4>1. /\ Len(srv[x].acc) <= Len(body.items) /\ Len(srv[x].acc) \in Nat
            /\ ~TooBig(config.batch, Len(body.items)) /\ config.batch # Disabled
        BY <3>1, <3>2, <3>4 DEF Runs
      <4> QED BY <3>1, <3>2, <3>4, <4>1 DEF Runs, TooBig
    <3> QED BY Zenon, <3>3, <3>4
  <2> QED BY <2>2, <2>3
<1> QED BY <1>1, ServerInvariant, PTL
=============================================================================
