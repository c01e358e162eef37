----------------------------- MODULE HttpClient -----------------------------
(***************************************************************************)
(* The HTTP client (client/http-client/src/): the operations of ClientT,   *)
(* the semaphore that bounds them, RequestIdManager, the transport with    *)
(* its size limits, and what an operation makes of the reply it gets.      *)
(*                                                                         *)
(* Every operation is one HTTP exchange.  The peer is external: it replies *)
(* to a request at most once, with any member of Replies.  A body is       *)
(* described by what read_body (core/src/http_helpers.rs) tells apart.     *)
(***************************************************************************)
EXTENDS RpcParams

CONSTANTS
  Calls,            \* operations of the client, each used once
  Strangers,        \* exchanges of other clients with the same peer
  Ops,              \* Ops[c]: what the operation c may ask for
  MaxConcurrent,    \* permits of request_guard; without one, Cardinality(Calls)
  MaxRequestSize,   \* max_request_size
  MaxResponseSize,  \* max_response_size
  MaxContentLength, \* largest content-length header that is read, u32::MAX
  IdKind,           \* id_format: "number" or "string"
  Url,              \* the URL the client is built for
  Headers,          \* the custom headers, a function on their names
  Replies           \* what the peer may answer

ASSUME HttpClientAssumption ==
  /\ IsFiniteSet(Calls)
  /\ \A c \in Calls : \A op \in Ops[c] : op.entries \in Seq(Range(op.entries))
  /\ MaxConcurrent \in Nat \ {0}
  /\ MaxResponseSize \in 0 .. MaxContentLength
  /\ IdKind \in {"number", "string"}

\* HttpTransportClientBuilder::build: the errors that leave no client.
BuildError(url) ==
  CASE url.host = "" -> "Invalid host"
    [] url.host # "" /\ url.scheme \notin {"http", "https"} -> "URL scheme not supported"
    [] OTHER -> ""

ASSUME ClientIsBuilt == BuildError(Url) = ""

\* The headers of every request: the defaults, under the custom ones, and the
\* credentials of the URL unless there is an authorization already.
CachedHeaders ==
  LET given == Headers @@ [h \in {"content-type", "accept"} |-> "json"]
  IN  IF Url.password # "" /\ "authorization" \notin DOMAIN given
        THEN [h \in {"authorization"} |-> "basic"] @@ given
        ELSE given

Exchanges == Calls \cup Strangers

VARIABLES
  call,     \* the operations
  free,     \* permits nobody holds
  waiting,  \* operations that wait in acquire(), in order
  nextId,   \* the counter of RequestIdManager
  wire      \* the HTTP exchanges

clientVars == <<call, free, waiting, nextId>>

-----------------------------------------------------------------------------
(* Bodies: core/src/http_helpers.rs.                                       *)

\* lead: the first character that is no white space, among the first 128
\* bytes of the first frame; first: the size of that frame.
Body(form, items, size) ==
  [form |-> form, items |-> items, size |-> size, first |-> size,
   chunked |-> FALSE,
   lead |-> CASE form = "one" -> "{" [] form = "many" -> "[" [] OTHER -> "other"]

ContentLength(b) == IF b.chunked \/ b.size > MaxContentLength THEN 0 ELSE b.size

ReadBody(b, max) ==
  CASE ContentLength(b) > max -> "TooLarge"
    [] ContentLength(b) <= max /\ b.first > max -> "Stream"
    [] b.first <= max /\ (b.first = 0 \/ b.lead \notin {"{", "["}) -> "Malformed"
    [] OTHER -> IF b.size <= max THEN "Ok" ELSE "Stream"

-----------------------------------------------------------------------------
(* Requests.                                                               *)

Id(n) == [kind |-> IdKind, n |-> n]
NoId == [kind |-> "none", n |-> 0]     \* a notification has no id
NullId == [kind |-> "null", n |-> 0]

\* try_parse_inner_as_number; a text that is no number has kind "text".
ParsesAsNumber(id) == id.kind \in {"number", "string"}

\* The params of the entries an operation may have.
Encoded ==
  [e \in UNION {Range(op.entries) : op \in UNION {Ops[c] : c \in Calls}} |->
     EncodeParams(e.style, e.args)]

\* The fields of the text, in order: a notification has no id, and params that
\* are None are skipped.
RequestFields(id, params) ==
  IF params = <<>>
  THEN IF id = NoId THEN <<"jsonrpc", "method">> ELSE <<"jsonrpc", "id", "method">>
  ELSE IF id = NoId THEN <<"jsonrpc", "method", "params">>
                    ELSE <<"jsonrpc", "id", "method", "params">>

Item(id, entry) ==
  [id |-> id, method |-> entry.method, params |-> Encoded[entry],
   fields |-> RequestFields(id, Encoded[entry])]

ItemsUnderOneId(op, first) ==
  [i \in 1 .. Len(op.entries) |->
     Item(IF op.kind = "notification" THEN NoId ELSE Id(first), op.entries[i])]

Items(op, first) ==
  [i \in 1 .. Len(op.entries) |->
     Item(IF op.kind = "notification" THEN NoId ELSE Id(first + i - 1), op.entries[i])]

\* The size of the text, in tokens.
SizeOf(items) == FoldFunction(LAMBDA it, n : n + 1 + Len(it.params), 0, items)

RequestBody(op, first) ==
  LET items == Items(op, first)
  IN  Body(IF op.kind = "batch" THEN "many" ELSE "one", items, SizeOf(items))

NoAuthority == [scheme |-> "", host |-> "", port |-> ""]

Target == [scheme |-> "", host |-> Url.host, port |-> Url.port]

Post(body) ==
  [verb |-> "POST", path |-> "/", json |-> CachedHeaders["content-type"] = "json",
   upgrade |-> "no", host |-> Target, uri |-> NoAuthority, body |-> body]

-----------------------------------------------------------------------------
(* Replies.                                                                *)

\* An object is read into a struct: no known field twice, no required one
\* missing, others ignored.
Deserializes(fields, known, required) ==
  /\ required \subseteq Range(fields)
  /\ \A i, j \in DOMAIN fields : fields[i] = fields[j] /\ fields[i] \in known => i = j

\* Response::deserialize: jsonrpc may be missing; either a result or an error.
ResponseParses(rp) ==
  /\ Deserializes(rp.fields, {"jsonrpc", "result", "error", "id"}, {"id"})
  /\ Cardinality({"result", "error"} \cap Range(rp.fields)) = 1

\* Response::serialize
ResponseFields(err) == <<"jsonrpc", "id", IF err = "" THEN "result" ELSE "error">>

\* A response with a result has err = "": fits says that the result can be
\* read as the type the caller expects.
Placeholder == [id |-> NullId, err |-> "placeholder", method |-> "", args |-> <<>>,
                fits |-> TRUE, fields |-> <<>>]

\* How an operation ends; which error it returns is named but not kept.
Ended(stage, result) == [stage |-> stage, result |-> result]
Failed(error) == Ended("err", <<>>)

ReturnUnchecked(first, rp) ==
  IF rp.err # "" THEN Failed("Call") ELSE Ended("ok", <<rp>>)

ReturnRequest(first, rp) ==
  CASE rp.err # "" -> Failed("Call")
    [] rp.err = "" /\ ~rp.fits -> Failed("ParseError")
    [] rp.err = "" /\ rp.fits /\ rp.id # Id(first) -> Failed("InvalidRequestId")
    [] OTHER -> Ended("ok", <<rp>>)

\* The error of the loop of batch_request for one response, "" if there is none.
EntryError(first, len, rp) ==
  CASE ~ParsesAsNumber(rp.id) -> "InvalidRequestId"
    [] ParsesAsNumber(rp.id) /\ rp.err = "" /\ ~rp.fits -> "ParseError"
    [] OTHER -> IF rp.id.n - first \in 0 .. len - 1 THEN "" ELSE "InvalidRequestId"

\* Placeholders for as many responses as came, then every response is put
\* where its id says, a later one over an earlier one.
ReturnBatch(first, rps) ==
  LET bad == {i \in DOMAIN rps : EntryError(first, Len(rps), rps[i]) # ""}
      for(p) == {i \in DOMAIN rps : rps[i].id.n = first + p - 1}
      last(p) == {i \in for(p) : \A j \in for(p) : j <= i}
  IN  IF bad # {} THEN Failed("InvalidRequestId or ParseError")
      ELSE Ended("ok", [p \in 1 .. Len(rps) |->
                          IF last(p) = {} THEN Placeholder
                          ELSE rps[CHOOSE i \in last(p) : TRUE]])

Outcome(op, first, rep) ==
  CASE rep.status # 200 -> Failed("Rejected")
    [] rep.status = 200 /\ op.kind = "notification" -> Ended("ok", <<>>)
    [] OTHER ->
         CASE ReadBody(rep.body, MaxResponseSize) # "Ok" -> Failed("Transport")
           [] OTHER ->
                CASE op.kind = "request" /\ rep.body.form = "one"
                       /\ ResponseParses(rep.body.items[1]) ->
                       ReturnRequest(first, rep.body.items[1])
                  [] op.kind = "batch" /\ rep.body.form = "many"
                       /\ (\A i \in DOMAIN rep.body.items : ResponseParses(rep.body.items[i])) ->
                       ReturnBatch(first, rep.body.items)
                  [] OTHER -> Failed("ParseError")

-----------------------------------------------------------------------------
(* State.                                                                  *)

NoOp == [kind |-> "none", entries |-> <<>>]
NoReply == [status |-> 0, body |-> Body("none", <<>>, 0)]
NoRequest == Post(Body("none", <<>>, 0))
Quiet == [st |-> "none", req |-> NoRequest, rep |-> NoReply]

Idle == [stage |-> "idle", op |-> NoOp, first |-> 0, result |-> <<>>]

ClientInit ==
  /\ call = [c \in Calls |-> Idle]
  /\ free = MaxConcurrent
  /\ waiting = <<>>
  /\ nextId = 0
  /\ wire = [x \in Exchanges |-> Quiet]

\* Operations that hold a permit.
Holders == {c \in Calls : call[c].stage \in {"granted", "sending"}}

Asleep == {c \in Calls : call[c].stage = "waiting"}

-----------------------------------------------------------------------------
(* Operations.                                                             *)

\* request_guard.acquire(): a permit, or a place in the queue.
Issue(c, op) ==
  /\ call[c].stage = "idle"
  /\ \/ /\ free > 0
        /\ call' = [call EXCEPT ![c].op = op, ![c].stage = "granted"]
        /\ free' = free - 1
        /\ UNCHANGED waiting
     \/ /\ free = 0
        /\ call' = [call EXCEPT ![c].op = op, ![c].stage = "waiting"]
        /\ waiting' = Append(waiting, c)
        /\ UNCHANGED free
  /\ UNCHANGED <<nextId, wire>>

\* The operation returns and drops its permit, which the semaphore hands to
\* the first operation that waits.
EndKeepingPermit(c, end) ==
  /\ call' = [call EXCEPT ![c].stage = end.stage, ![c].result = end.result]
  /\ UNCHANGED <<free, waiting>>

End(c, end) ==
  LET ended == [call EXCEPT ![c].stage = end.stage, ![c].result = end.result]
  IN  \/ /\ waiting = <<>>
         /\ call' = ended
         /\ free' = free + 1
         /\ UNCHANGED waiting
      \/ /\ waiting # <<>>
         /\ call' = [ended EXCEPT ![Head(waiting)].stage = "granted"]
         /\ waiting' = Tail(waiting)
         /\ UNCHANGED free

\* BatchRequestBuilder::build refuses an empty batch.
SendNothing(c) ==
  /\ call[c].stage = "granted" /\ call[c].op.entries = <<>>
  /\ End(c, Failed("EmptyBatchRequest"))
  /\ UNCHANGED <<nextId, wire>>

\* Up to the first await of the transport: an id, the text, the size limit.
Send(c) ==
  LET op == call[c].op
      body == RequestBody(op, nextId)
  IN  /\ call[c].stage = "granted" /\ op.entries # <<>>
      /\ nextId' = IF op.kind = "notification" THEN nextId ELSE nextId + 1
      /\ \/ /\ body.size > MaxRequestSize
            /\ End(c, Failed("RequestTooLarge"))
            /\ UNCHANGED wire
         \/ /\ body.size <= MaxRequestSize
            /\ call' = [call EXCEPT ![c].stage = "sending", ![c].first = nextId]
            /\ wire' = [wire EXCEPT ![c].st = "sent", ![c].req = Post(body)]
            /\ UNCHANGED <<free, waiting>>

Return(c) ==
  /\ call[c].stage = "sending" /\ wire[c].st = "replied"
  /\ End(c, Outcome(call[c].op, call[c].first, wire[c].rep))
  /\ wire' = [wire EXCEPT ![c] = [Quiet EXCEPT !.st = "gone"]]
  /\ UNCHANGED nextId

\* run_future_until_timeout drops the future of the transport; a request the
\* connection fails under ends the same way.
Abort(c, error) ==
  /\ call[c].stage = "sending"
  /\ End(c, Failed(error))
  /\ wire' = [wire EXCEPT ![c] = [Quiet EXCEPT !.st = "gone"]]
  /\ UNCHANGED nextId

TimeoutOfBody(c) == wire[c].st = "replied" /\ Abort(c, "RequestTimeout")

Timeout(c) == Abort(c, "RequestTimeout")
ConnectionFails(c) == Abort(c, "Transport")

\* The queue of the semaphore after its i-th waiter has left.
RemoveAt(s, i) == SubSeq(s, 1, i - 1) \o SubSeq(s, i + 1, Len(s))

\* The caller drops the future of the operation.
Drop(c) ==
  /\ \/ /\ call[c].stage = "waiting"
        /\ call' = [call EXCEPT ![c].stage = "dropped"]
        /\ \E i \in DOMAIN waiting :
             waiting[i] = c /\ waiting' = RemoveAt(waiting, i)
        /\ UNCHANGED <<free, wire>>
     \/ /\ call[c].stage = "granted"
        /\ End(c, Ended("dropped", <<>>))
        /\ UNCHANGED wire
     \/ /\ call[c].stage = "sending"
        /\ End(c, Ended("dropped", <<>>))
        /\ wire' = [wire EXCEPT ![c] = [Quiet EXCEPT !.st = "gone"]]
  /\ UNCHANGED nextId

\* The peer replies.
Deliver(x, rep) ==
  /\ wire[x].st = "sent"
  /\ wire' = [wire EXCEPT ![x].st = "replied", ![x].rep = rep]

Poll(c) == SendNothing(c) \/ Send(c) \/ Return(c) \/ Timeout(c)

ClientStep(c) == Poll(c) \/ ConnectionFails(c)

CallerStep(c) == Drop(c) \/ \E op \in Ops[c] : Issue(c, op)

-----------------------------------------------------------------------------
(* Properties.                                                             *)

(* Permits are neither lost nor made: an operation holds one exactly while *)
(* it is past acquire() and has not returned, and nobody waits in          *)
(* acquire() while a permit is free.                                       *)
PermitsMatchCalls ==
  /\ free + Cardinality(Holders) = MaxConcurrent
  /\ Range(waiting) = Asleep /\ IsInjective(waiting)
  /\ waiting # <<>> => free = 0

\* The state of the contract: an operation with a permit that has not reached
\* the transport yet still counts as queued.
ContractState(stage) ==
  CASE stage = "idle" -> "idle"
    [] stage \in {"waiting", "granted"} -> "queued"
    [] stage = "sending" -> "running"
    [] stage = "ok" -> "answered"
    [] stage = "err" -> "failed"
    [] OTHER -> "dropped"

\* For each response the entry it answers, by its id; 0 for an error.
ContractResult(first, result) ==
  [i \in DOMAIN result |-> IF result[i].err # "" THEN 0 ELSE result[i].id.n - first + 1]

Contract == INSTANCE ClientContract WITH
  Limit <- MaxConcurrent,
  state <- [c \in Calls |-> ContractState(call[c].stage)],
  result <- [c \in Calls |-> ContractResult(call[c].first, call[c].result)]

(* The HTTP client implements the contract of ClientT, whatever the peer   *)
(* answers: it never has more than max_concurrent_requests operations on   *)
(* the wire, an operation ends once, and a success that request or         *)
(* batch_request hands out answers the entry it is handed out for.         *)
ImplementsContract == Contract!Spec
=============================================================================
