---------------------------- MODULE HttpExchange ----------------------------
(***************************************************************************)
(* HTTP clients and the HTTP side of the server: HostFilter over           *)
(* ProxyGetRequest over TowerServiceNoHttp (server/src/middleware/http/,   *)
(* server/src/server.rs), call_with_service (server/src/transport/http.rs) *)
(* and RpcService with RpcServiceCfg::OnlyCalls                            *)
(* (server/src/middleware/rpc.rs).                                         *)
(*                                                                         *)
(* The operations of HttpClient are served by this server or, when peer is *)
(* "foreign", by one that answers with any member of Replies.  Strangers   *)
(* send this server any member of StrangeRequests; they are left out when  *)
(* the client does not talk to it, since nothing connects the two then.    *)
(***************************************************************************)
EXTENDS HttpClient

CONSTANTS
  StrangeRequests,  \* what other clients send
  Methods,          \* the registered methods
  MethodKind,       \* "call", "subscription" or "unsubscription"
  Signature, Style, \* the arguments of a method and how its stub encodes them
  ResultSize,       \* size of the result of a method
  AllowOnly,        \* the authorities HostFilterLayer::new is given
  ProxyPairs,       \* the pairs ProxyGetRequestLayer::new is given
  MaxConnections,
  MaxRequestBody, MaxResponseBody,
  Configs           \* what may be configured otherwise

\* What hyper hands over: the parts of a request, and the entries of its body.
IsRequest(r) ==
  /\ r \in [verb : {r.verb}, path : {r.path}, json : {r.json}, upgrade : {r.upgrade},
            host : {r.host}, uri : {r.uri}, body : {r.body}]
  /\ r.body.items \in Seq(Range(r.body.items))

ASSUME HttpExchangeAssumption ==
  /\ MaxConnections \in Nat \ {0}
  /\ IsFiniteSet(Strangers) /\ Strangers \cap Calls = {}
  /\ \A r \in StrangeRequests : IsRequest(r)
  /\ \A cfg \in Configs : cfg.batch.len \in Nat
  /\ \A m \in Methods : Style[m] = "Object" => Len(Signature[m]) = 1

VARIABLES
  config, \* peer: who serves the client, "own" or "foreign"; filter: whether
          \* HostFilter is enabled; enable_http and enable_ws as http_only and
          \* ws_only set them; batch: the BatchRequestConfig
  srv,    \* what the server does for each exchange
  guard   \* free permits of the ConnectionGuard

serverVars == <<srv, guard>>
vars == <<call, free, waiting, nextId, wire, config, srv, guard>>

-----------------------------------------------------------------------------
(* Authorities: server/src/middleware/http/authority.rs, host_filter.rs.   *)

\* An authority is given as it is written: scheme, host and port, "" where
\* absent.
DefaultPort(scheme) ==
  CASE scheme \in {"http", "ws"} -> "80"
    [] scheme \in {"https", "wss"} -> "443"
    [] scheme = "ftp" -> "21"
    [] OTHER -> "none"

ParsedPort(a) ==
  CASE a.port = "*" -> "any"
    [] a.port = "" -> "default"
    [] OTHER -> IF a.port = DefaultPort(a.scheme) THEN "default" ELSE a.port

\* inner_from_str: a port that is no u16 makes it fail.
Valid(a) == a.host # "" /\ a.port # "bad"
Authority(a) == [host |-> a.host, port |-> ParsedPort(a)]

\* from_http_request: the set of the authority it finds, or the empty set.
FromHttpRequest(req) ==
  LET header == {Authority(a) : a \in {b \in {req.host} : Valid(b)}}
      uri == {Authority(a) : a \in {b \in {req.uri} : Valid(b)}}
  IN  IF header # {} /\ uri # {} THEN header \cap uri ELSE header \cup uri

\* The ports of all the entries for a host are kept.
PortsOf(host) == {ParsedPort(a) : a \in {b \in AllowOnly : b.host = host}}

Recognize(a) ==
  \E p \in PortsOf(a.host) :
    \/ p = "any"
    \/ p = a.port /\ p # "any"

-----------------------------------------------------------------------------
(* ProxyGetRequest.                                                        *)

Paths == {ProxyPairs[i][1] : i \in DOMAIN ProxyPairs}
MethodAt(path) == ProxyPairs[CHOOSE i \in DOMAIN ProxyPairs : ProxyPairs[i][1] = path][2]

IsProxiedByPath(req) == req.path \in Paths

IsProxied(req) == req.verb = "GET" /\ req.path \in Paths

\* The request the inner service sees: a POST of the method, id 0, no params.
Proxied(req) ==
  IF ~IsProxied(req) THEN req
  ELSE [req EXCEPT !.verb = "POST", !.path = "/", !.json = TRUE,
                   !.body = Body("one", <<[id |-> [kind |-> "number", n |-> 0],
                                           method |-> MethodAt(req.path),
                                           params |-> <<>>,
                                           fields |-> <<"jsonrpc", "id", "method">>]>>, 1)]

Reply(status, body) == [status |-> status, body |-> body]
Text(status) == Reply(status, Body("text", <<>>, 1))

Success(id, method, args) ==
  [id |-> id, err |-> "", method |-> method, args |-> args, fits |-> TRUE,
   fields |-> ResponseFields("")]
Error(id, code) ==
  [id |-> id, err |-> code, method |-> "", args |-> <<>>, fits |-> TRUE,
   fields |-> ResponseFields(code)]

One(rp, size) == Reply(200, Body("one", <<rp>>, size))

\* The response of the inner service stripped to the result or the error.
Stripped(req, rep) ==
  CASE ~IsProxied(req) -> rep
    [] IsProxied(req) /\ rep.body.form = "one" /\ rep.body.items[1].err = "" ->
         [rep EXCEPT !.status = 200, !.body.form = "result"]
    [] IsProxied(req) /\ rep.body.form = "one" /\ rep.body.items[1].err # "" ->
         [rep EXCEPT !.status = 500, !.body.form = "error"]
    [] OTHER -> Reply(500, Body("error", <<Error(NullId, "InternalError")>>, 1))

-----------------------------------------------------------------------------
(* RpcService and the responses it builds.                                 *)

\* MethodResponse::response: a result that is too large becomes an error
\* with the same id.
Bounded(rp, size) ==
  IF size > MaxResponseBody THEN [rp |-> Error(rp.id, "Oversized"), size |-> 1]
  ELSE [rp |-> rp, size |-> size]

Answer(rp) == [rp |-> rp, size |-> 1]

\* What the stub of a method makes of the params that may reach it.
Decoded ==
  [m \in Methods,
   text \in Range(Encoded) \cup {<<>>}
             \cup UNION {{it.params : it \in Range(r.body.items)} : r \in StrangeRequests} |->
     DecodeParams(Style[m], Signature[m], Params(text))]

CallMethod(it) ==
  LET m == it.method
      args == Decoded[m, it.params]
  IN  CASE m \notin Methods -> Answer(Error(it.id, "MethodNotFound"))
        [] m \in Methods /\ MethodKind[m] # "call" -> Answer(Error(it.id, "InternalError"))
        [] OTHER -> IF Decodes(args)
                    THEN Bounded(Success(it.id, m, args), ResultSize[m])
                    ELSE Answer(Error(it.id, "InvalidParams"))

\* deserialize_with_ext::call and notif, in the order they are tried: an
\* entry whose id cannot be read, or is given twice, is no call, and becomes a
\* notification, which has no id to look at.
IdParses(it) == Deserializes(it.fields, {"id"}, {"id"}) /\ it.id.kind # "broken"

IsCall(it) ==
  /\ IdParses(it)
  /\ Deserializes(it.fields, {"jsonrpc", "id", "method", "params"}, {"jsonrpc", "id", "method"})

IsNotification(it) ==
  /\ ~IsCall(it)
  /\ Deserializes(it.fields, {"jsonrpc", "method", "params"}, {"jsonrpc", "method"})

\* An entry that is neither a call nor a notification is answered with its id
\* if that can be read; otherwise a single request is a ParseError.
Refuse(it, single) ==
  IF IdParses(it) THEN Answer(Error(it.id, "InvalidRequest"))
  ELSE Answer(Error(NullId, IF single THEN "ParseError" ELSE "InvalidRequest"))

Respond(it, single) == IF IsCall(it) THEN CallMethod(it) ELSE Refuse(it, single)

-----------------------------------------------------------------------------
(* ServerConfigBuilder, as far as requests over HTTP depend on it.         *)

Disabled == [kind |-> "disabled", len |-> 0]
Limit(n) == [kind |-> "limit", len |-> n]
Unlimited == [kind |-> "unlimited", len |-> 0]
TooBig(batch, len) == batch.kind = "limit" /\ len > batch.len

ServerDefault(peer, filter) ==
  [peer |-> peer, filter |-> filter, enable_http |-> TRUE, enable_ws |-> TRUE,
   batch |-> Unlimited]
HttpOnly(cfg) == [cfg EXCEPT !.enable_http = TRUE, !.enable_ws = FALSE]
WsOnly(cfg) == [cfg EXCEPT !.enable_http = FALSE, !.enable_ws = TRUE]
SetBatchRequestConfig(cfg, batch) == [cfg EXCEPT !.batch = batch]

-----------------------------------------------------------------------------
(* State of the server.                                                    *)

\* stage: "none", "reading" the body, "running" the entry pos, "session" of
\* a WebSocket, "replied".  acc and size are the BatchResponseBuilder.
Unserved == [stage |-> "none", req |-> NoRequest, pos |-> 0, acc |-> <<>>, size |-> 1,
             notified |-> FALSE]

Init ==
  /\ ClientInit
  /\ config \in Configs
  /\ srv = [x \in Exchanges |-> Unserved]
  /\ guard = MaxConnections

Served(x) == x \in Strangers \/ config.peer = "own"

Working == {x \in Exchanges : srv[x].stage \in {"reading", "running", "session"}}

\* hyper sends the response, unless the client has gone away meanwhile.
SendReply(x, req, rep) ==
  wire' = [wire EXCEPT ![x] = IF @.st = "gone" THEN [Quiet EXCEPT !.st = "gone"]
                              ELSE [Quiet EXCEPT !.st = "replied",
                                                 !.rep = Stripped(req, rep)]]

Replied == [Unserved EXCEPT !.stage = "replied"]

FinishHoldingPermit(x, rep) ==
  /\ SendReply(x, srv[x].req, rep)
  /\ srv' = [srv EXCEPT ![x] = Replied]
  /\ guard' = IF rep.status = 200 THEN guard + 1 ELSE guard

\* The service future resolves and drops the connection permit.
Finish(x, rep) ==
  /\ SendReply(x, srv[x].req, rep)
  /\ srv' = [srv EXCEPT ![x] = Replied]
  /\ guard' = guard + 1

\* A reply without a permit, or with one that is taken and dropped at once.
Deny(x, rep) ==
  /\ SendReply(x, wire[x].req, rep)
  /\ srv' = [srv EXCEPT ![x] = Replied]
  /\ UNCHANGED guard

Enter(x, stage) ==
  /\ guard > 0
  /\ guard' = guard - 1
  /\ srv' = [srv EXCEPT ![x].stage = stage, ![x].req = wire[x].req]

-----------------------------------------------------------------------------
(* Handling of a request.                                                  *)

\* TowerServiceNoHttp::call and the head of call_with_service, behind the
\* middleware that let the request pass.
Admit(x, req) ==
  \/ guard = 0 /\ Deny(x, Text(429))
  \/ guard > 0 /\ config.enable_ws /\ req.upgrade = "valid"
       /\ Enter(x, "session") /\ SendReply(x, wire[x].req, Text(101))
  \/ guard > 0 /\ config.enable_ws /\ req.upgrade = "broken" /\ Deny(x, Text(200))
  \/ guard > 0 /\ (req.upgrade # "no" => ~config.enable_ws)
       /\ (req.upgrade # "no" \/ ~config.enable_http) /\ Deny(x, Text(403))
  \/ guard > 0 /\ config.enable_http /\ req.upgrade = "no"
       /\ \/ req.verb # "POST" /\ Deny(x, Text(405))
          \/ req.verb = "POST" /\ ~req.json /\ Deny(x, Text(415))
          \/ req.verb = "POST" /\ req.json /\ Enter(x, "reading")
             /\ wire' = [wire EXCEPT ![x].req = NoRequest]

Receive(x) ==
  LET req == wire[x].req
      found == FromHttpRequest(req)
  IN  /\ Served(x) /\ wire[x].st = "sent" /\ srv[x].stage = "none"
      /\ \/ found = {} /\ Deny(x, Text(400))
         \/ /\ found # {} /\ config.filter /\ \A a \in found : ~Recognize(a)
            /\ Deny(x, Text(403))
         \/ /\ found # {} /\ (config.filter => \E a \in found : Recognize(a))
            /\ Admit(x, Proxied(req))
      /\ UNCHANGED <<clientVars, config>>

\* read_body returns; handle_rpc_call starts.
Read(x) ==
  LET body == Proxied(srv[x].req).body
      read == ReadBody(body, MaxRequestBody)
      refuse(code) == Finish(x, One(Error(NullId, code), 1))
      run == /\ srv' = [srv EXCEPT ![x].stage = "running", ![x].pos = 1]
             /\ UNCHANGED <<guard, wire>>
  IN  /\ srv[x].stage = "reading"
      /\ \/ read = "TooLarge" /\ Finish(x, Reply(413, Body("one", <<Error(NullId, "TooBig")>>, 1)))
         \/ read = "Malformed" /\ Finish(x, Reply(400, Body("one", <<Error(NullId, "ParseError")>>, 1)))
         \/ read = "Stream" /\ Finish(x, Reply(500, Body("one", <<Error(NullId, "InternalError")>>, 1)))
         \/ /\ read = "Ok"
            /\ \/ body.lead = "{" /\ run
               \/ body.lead = "[" /\ config.batch = Disabled /\ refuse("BatchesNotSupported")
               \/ /\ body.lead = "[" /\ config.batch # Disabled /\ body.form # "many"
                  /\ refuse("ParseError")
               \/ /\ body.lead = "[" /\ config.batch # Disabled /\ body.form = "many"
                  /\ \/ TooBig(config.batch, Len(body.items)) /\ refuse("TooBigBatch")
                     \/ ~TooBig(config.batch, Len(body.items)) /\ run
      /\ UNCHANGED <<clientVars, config>>

\* RpcService::call or notification for the request of the body.
RunSingle(x) ==
  LET body == Proxied(srv[x].req).body
      it == body.items[1]
      answer == Respond(it, TRUE)
  IN  /\ srv[x].stage = "running" /\ body.lead = "{"
      /\ Finish(x, IF IsNotification(it) THEN Reply(200, Body("null", <<>>, 1))
                   ELSE One(answer.rp, answer.size))
      /\ UNCHANGED <<clientVars, config>>

\* One turn of the loop of RpcService::batch, with BatchResponseBuilder::append.
RunEntry(x) ==
  LET body == Proxied(srv[x].req).body
      it == body.items[srv[x].pos]
      answer == Respond(it, FALSE)
      size == srv[x].size + answer.size + 1
  IN  /\ srv[x].stage = "running" /\ body.lead = "[" /\ srv[x].pos <= Len(body.items)
      /\ \/ /\ IsNotification(it)
            /\ srv' = [srv EXCEPT ![x].pos = @ + 1, ![x].notified = TRUE]
            /\ UNCHANGED <<guard, wire>>
         \/ /\ ~IsNotification(it) /\ size <= MaxResponseBody
            /\ srv' = [srv EXCEPT ![x].pos = @ + 1, ![x].size = size,
                                  ![x].acc = Append(@, answer.rp)]
            /\ UNCHANGED <<guard, wire>>
         \/ /\ ~IsNotification(it) /\ size > MaxResponseBody
            /\ Finish(x, One(Error(NullId, "TooBigBatchResponse"), 1))
      /\ UNCHANGED <<clientVars, config>>

\* BatchResponseBuilder::finish.
FinishBatch(x) ==
  LET body == Proxied(srv[x].req).body IN
  /\ srv[x].stage = "running" /\ body.lead = "[" /\ srv[x].pos > Len(body.items)
  /\ Finish(x, CASE srv[x].acc # <<>> -> Reply(200, Body("many", srv[x].acc, srv[x].size))
                 [] srv[x].acc = <<>> /\ srv[x].notified -> Reply(200, Body("null", <<>>, 1))
                 [] OTHER -> One(Error(NullId, "InvalidRequest"), 1))
  /\ UNCHANGED <<clientVars, config>>

\* The connection of a client that went away is closed: hyper drops the
\* service future, and the permit with it.
DropService(x) ==
  /\ wire[x].st = "gone" /\ srv[x].stage \in {"reading", "running"}
  /\ srv' = [srv EXCEPT ![x] = Replied]
  /\ guard' = guard + 1
  /\ UNCHANGED <<clientVars, wire, config>>

\* The background task of a WebSocket connection ends.
SessionEnds(x) ==
  /\ srv[x].stage = "session"
  /\ srv' = [srv EXCEPT ![x] = Replied]
  /\ guard' = guard + 1
  /\ UNCHANGED <<clientVars, wire, config>>

ServerStep(x) ==
  Receive(x) \/ Read(x) \/ RunSingle(x) \/ RunEntry(x) \/ FinishBatch(x) \/ DropService(x)

-----------------------------------------------------------------------------
(* Other clients.                                                          *)

StrangerSends(x) ==
  /\ config.peer = "own" /\ wire[x].st = "none"
  /\ \E req \in StrangeRequests : wire' = [wire EXCEPT ![x].st = "sent", ![x].req = req]
  /\ UNCHANGED <<clientVars, config, srv, guard>>

\* It has read its reply, or goes away without one.
StrangerLeaves(x) ==
  /\ wire[x].st \in {"sent", "replied"}
  /\ wire' = [wire EXCEPT ![x] = [Quiet EXCEPT !.st = "gone"]]
  /\ UNCHANGED <<clientVars, config, srv, guard>>

ForeignReply(c) ==
  /\ config.peer = "foreign"
  /\ \E rep \in Replies : Deliver(c, rep)
  /\ UNCHANGED <<clientVars, config, srv, guard>>

Next ==
  \/ \E c \in Calls : (ClientStep(c) \/ CallerStep(c)) /\ UNCHANGED <<config, srv, guard>>
  \/ \E c \in Calls : ForeignReply(c)
  \/ \E x \in Exchanges : ServerStep(x) \/ SessionEnds(x)
  \/ \E x \in Strangers : StrangerSends(x) \/ StrangerLeaves(x)

Spec == Init /\ [][Next]_vars

\* The runtime polls the operations and their timers fire.  Nothing is
\* assumed of the peers: a request may stay unanswered.
Fairness == \A c \in Calls : WF_vars(Poll(c) /\ UNCHANGED <<config, srv, guard>>)

FairSpec == Spec /\ Fairness

-----------------------------------------------------------------------------
(* Properties.                                                             *)

(* Against this server, an operation that succeeds has one answer for each *)
(* entry, in the order of the entries, with the method and the arguments   *)
(* the caller gave: no argument is lost or moved between the stubs, and    *)
(* none is refused as invalid.                                             *)
AnswersAreOwn ==
  config.peer = "own" =>
    \A c \in Calls :
      LET op == call[c].op IN
      /\ call[c].stage = "ok" /\ op.kind # "notification" =>
           /\ Len(call[c].result) = Len(op.entries)
           /\ \A i \in DOMAIN op.entries :
                LET r == call[c].result[i] IN
                /\ r.id = Id(call[c].first + i - 1)
                /\ r.err = "" => r.method = op.entries[i].method
                                 /\ r.args = op.entries[i].args
      /\ wire[c].st = "replied" =>
           \A i \in DOMAIN wire[c].rep.body.items :
             wire[c].rep.body.items[i].err # "InvalidParams"

\* What the generated stubs are made for: an operation other than a batch has
\* one entry, and the server's stub of a method reads back the arguments that
\* the client's stub wrote.
StubsFit ==
  \A c \in Calls : \A op \in Ops[c] :
    /\ op.kind # "batch" => Len(op.entries) = 1
    /\ \A e \in Range(op.entries) :
         e.method \in Methods /\ MethodKind[e.method] = "call" =>
           Decoded[e.method, Encoded[e]] = e.args /\ Decodes(e.args)

(* The permits of ConnectionGuard that are missing are those of exchanges  *)
(* the server works on: every way out of a handler, the drop of its future *)
(* included, gives the permit back.                                        *)
GuardMatchesWork == guard + Cardinality(Working) = MaxConnections

(* What the server works on was let in by every layer: the host is on the  *)
(* list, and the request is a WebSocket upgrade the server takes, a POST   *)
(* of JSON, or a GET of a path that is proxied; what runs is within        *)
(* max_request_body_size, whatever its content-length said, and a batch    *)
(* answer within max_response_body_size.                                   *)
OnlyAdmittedIsServed ==
  \A x \in Working :
    LET req == srv[x].req IN
    /\ config.filter => \E a \in FromHttpRequest(req) : Recognize(a)
    /\ srv[x].stage = "session" => config.enable_ws /\ req.upgrade = "valid"
    /\ srv[x].stage # "session" =>
         /\ config.enable_http /\ req.upgrade = "no"
         /\ (req.verb = "POST" /\ req.json) \/ (req.verb = "GET" /\ req.path \in Paths)
    /\ srv[x].stage = "running" =>
         /\ Proxied(req).body.size <= MaxRequestBody
         /\ srv[x].acc # <<>> => srv[x].size <= MaxResponseBody
         /\ ~TooBig(config.batch, Len(srv[x].acc))
         /\ config.batch = Disabled => srv[x].acc = <<>>

(* An operation of the client always ends, even when the peer is silent    *)
(* and all permits are taken: request_timeout frees a permit and the       *)
(* semaphore hands it to the operation that waits longest.                 *)
EveryCallEnds ==
  \A c \in Calls : call[c].stage \in {"waiting", "granted", "sending"}
                     ~> call[c].stage \in {"ok", "err", "dropped"}
=============================================================================
