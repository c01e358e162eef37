---------------------------- MODULE AnswerProofs ----------------------------
(***************************************************************************)
(* The HTTP client and this server together: the answers an operation of   *)
(* the client gets are those to its own entries, with the arguments it     *)
(* sent.  The invariant OwnInv follows a request from the client, over the *)
(* wire, through the entries the server runs, and back.                    *)
(***************************************************************************)
EXTENDS HttpProofs

-----------------------------------------------------------------------------
(* The invariant: what each stage of an exchange holds of its operation.   *)

(* The answers so far are those to the entries before pos. *)
AnswersPrefix(op, first, s) ==
  /\ Len(s.acc) = s.pos - 1 /\ NoneInvalid(s.acc)
  /\ \A i \in 1 .. Len(s.acc) : AnswersEntry(op, first, i, s.acc[i])

(* What is known of the operation k of c, given w, its exchange on the     *)
(* wire, and s, what the server does for it.                               *)
Own(c, k, w, s) ==
  /\ k.stage # "idle" => k.op \in Ops[c]
  /\ k.stage \in {"idle", "waiting", "granted"} => w.st = "none" /\ s.stage = "none"
  /\ w.st = "sent" /\ s.stage = "none" => w.req = Sent(k.op, k.first)
  /\ s.stage \in {"reading", "running"} => s.req = Sent(k.op, k.first)
  /\ s.stage = "running" /\ k.op.kind = "batch" => AnswersPrefix(k.op, k.first, s)
  /\ w.st = "replied" => AnswersOperation(k.op, k.first, w.rep.body)
  /\ k.stage = "ok" /\ k.op.kind # "notification" => AnswersAll(k.op, k.first, k.result)

OwnInv == config.peer = "own" => \A c \in Calls : Own(c, call[c], wire[c], srv[c])

(* The fields of the records that responses are made of. *)
LEMMA ErrorFacts ==
  ASSUME NEW r, NEW i, NEW code, r = Error(i, code)
  PROVE  r.id = i /\ r.err = code
<1>1. Error(i, code).id = i /\ Error(i, code).err = code
  BY Zenon DEF Error
<1> QED BY Zenon, <1>1

LEMMA BodyFacts ==
  ASSUME NEW b, NEW form, NEW items, NEW size, b = Body(form, items, size)
  PROVE  /\ b.form = form /\ b.items = items
         /\ form = "one" => b.lead = "{"
         /\ form = "many" => b.lead = "["
<1> DEFINE lead == CASE form = "one" -> "{" [] form = "many" -> "[" [] OTHER -> "other"
<1>1. form = "one" => lead = "{"
  BY Zenon
<1>2. form = "many" => lead = "["
  BY SMT
<1> HIDE DEF lead
<1>3. Body(form, items, size).lead = lead
  BY Zenon DEF Body, lead
<1>4. Body(form, items, size).form = form /\ Body(form, items, size).items = items
  BY Zenon DEF Body
<1> QED BY Zenon, <1>1, <1>2, <1>3, <1>4

(* What the stubs answer to an entry of an operation. *)
Fits(it, id, e, rp) ==
  /\ rp.err # "InvalidParams"
  /\ IsCall(it) => rp.id = id
  /\ rp.err = "" => IsCall(it) /\ rp.id = id /\ rp.method = e.method /\ rp.args = e.args

LEMMA EntryAnswer ==
  ASSUME StubsFit, NEW c \in Calls, NEW op \in Ops[c], NEW e \in Range(op.entries), NEW id,
         NEW single, NEW it, it = Item(id, e)
  PROVE  Fits(it, id, e, Respond(it, single).rp)
<1>0. SUFFICES ASSUME NEW rp, rp = Respond(it, single).rp
               PROVE  /\ rp.err # "InvalidParams"
                      /\ IsCall(it) => rp.id = id
                      /\ rp.err = "" => /\ IsCall(it) /\ rp.id = id
                                       /\ rp.method = e.method /\ rp.args = e.args
  BY Zenon DEF Fits
<1>1. it.id = id /\ it.method = e.method /\ it.params = Encoded[e]
  BY Zenon DEF Item
<1>4. \A r : Answer(r).rp = r
  BY Zenon DEF Answer
<1>5. \A r, size : Bounded(r, size).rp = r \/ Bounded(r, size).rp = Error(r.id, "Oversized")
  BY DEF Bounded
<1>6. CASE ~IsCall(it)
  <2>1. rp = Refuse(it, single).rp
    BY Zenon, <1>0, <1>6 DEF Respond
  <2>2. \E i : rp = Error(i, "InvalidRequest") \/ rp = Error(i, "ParseError")
    BY <2>1, <1>4 DEF Refuse
  <2>3. rp.err \in {"InvalidRequest", "ParseError"}
    BY Zenon, <2>2, ErrorFacts
  <2> QED BY Zenon, <1>6, <2>3
<1>7. CASE IsCall(it)
  <2>1. rp = CallMethod(it).rp
    BY Zenon, <1>0, <1>7 DEF Respond
  <2>2. CASE it.method \notin Methods \/ MethodKind[it.method] # "call"
    <3>1. rp = Error(it.id, "MethodNotFound") \/ rp = Error(it.id, "InternalError")
      BY <2>1, <2>2, <1>4 DEF CallMethod
    <3>2. rp.id = it.id /\ (rp.err = "MethodNotFound" \/ rp.err = "InternalError")
      BY SMT, <3>1, ErrorFacts
    <3> QED BY Zenon, <1>1, <3>2
  <2>3. CASE it.method \in Methods /\ MethodKind[it.method] = "call"
    <3>1. Decoded[it.method, it.params] = e.args /\ Decodes(e.args)
      BY Zenon, <1>1, <2>3 DEF StubsFit
    <3>2. CallMethod(it) = Bounded(Success(it.id, it.method, e.args), ResultSize[it.method])
      BY <2>3, <3>1 DEF CallMethod
    <3>3. PICK good : good = Success(it.id, it.method, e.args)
      OBVIOUS
    <3>4. good.id = it.id /\ good.err = "" /\ good.method = it.method /\ good.args = e.args
      <4> DEFINE s == Success(it.id, it.method, e.args)
      <4>1. s.id = it.id /\ s.err = "" /\ s.method = it.method /\ s.args = e.args
        BY Zenon DEF Success
      <4> HIDE DEF s
      <4> QED BY Zenon, <3>3, <4>1 DEF s
    <3>5. rp = good \/ rp = Error(good.id, "Oversized")
      BY Zenon, <1>5, <2>1, <3>2, <3>3
    <3>6. CASE rp = good
      <4>1. rp.err = "" /\ rp.id = id /\ rp.method = e.method /\ rp.args = e.args
        BY Zenon, <1>1, <3>4, <3>6
      <4> QED BY Zenon, <1>7, <4>1
    <3>7. CASE rp = Error(good.id, "Oversized")
      <4>1. rp.id = good.id /\ rp.err = "Oversized"
        BY Zenon, <3>7, ErrorFacts
      <4> QED BY Zenon, <1>1, <3>4, <4>1
    <3> QED BY Zenon, <3>5, <3>6, <3>7
  <2> QED BY Zenon, <2>2, <2>3
<1> QED BY Zenon, <1>6, <1>7

(* An entry of a batch is a call: it has an id. *)
LEMMA ItemIsCall ==
  ASSUME NEW n, NEW e, NEW it, it = Item(Id(n), e)
  PROVE  IsCall(it) /\ ~IsNotification(it)
<1> DEFINE three == <<"jsonrpc", "id", "method">>
           four == <<"jsonrpc", "id", "method", "params">>
<1>1. Id(n) # NoId /\ Id(n).kind # "broken"
  BY HttpClientAssumption DEF Id, NoId
<1>2. it.id = Id(n) /\ it.fields = RequestFields(Id(n), Encoded[e])
  BY Zenon DEF Item
<1>3. it.fields = three \/ it.fields = four
  BY Zenon, <1>1, <1>2 DEF RequestFields
<1>4. ASSUME NEW known, NEW required, required \subseteq {"jsonrpc", "id", "method"}
      PROVE  Deserializes(three, known, required) /\ Deserializes(four, known, required)
  BY <1>4 DEF Deserializes, Range
<1> HIDE DEF three, four
<1>5. IdParses(it) /\ IsCall(it)
  BY <1>1, <1>2, <1>3, <1>4 DEF IdParses, IsCall
<1> QED BY Zenon, <1>5 DEF IsNotification

(* The body of the request of an operation. *)
LEMMA RequestBodyFacts ==
  ASSUME NEW op, NEW first
  PROVE  /\ RequestBody(op, first).items = Items(op, first)
         /\ RequestBody(op, first).lead = IF op.kind = "batch" THEN "[" ELSE "{"
<1> DEFINE items == Items(op, first)
           form == IF op.kind = "batch" THEN "many" ELSE "one"
           size == SizeOf(items)
           b == Body(form, items, size)
<1>1. RequestBody(op, first) = b
  BY Zenon DEF RequestBody
<1>2. (form = "many" /\ op.kind = "batch") \/ (form = "one" /\ op.kind # "batch")
  BY Zenon
<1> HIDE DEF items, form, size
<1>3. b.items = items
  BY Zenon DEF Body
<1>4. (form = "one" => b.lead = "{") /\ (form = "many" => b.lead = "[")
  BY Zenon, BodyFacts
<1> HIDE DEF b
<1>5. b.lead = IF op.kind = "batch" THEN "[" ELSE "{"
  BY Zenon, <1>2, <1>4
<1> QED BY Zenon, <1>1, <1>3, <1>5 DEF items

(* The request of an operation passes ProxyGetRequest as it is. *)
LEMMA SentIsPost ==
  ASSUME NEW op, NEW first
  PROVE  ~IsProxied(Sent(op, first)) /\ Proxied(Sent(op, first)).body = RequestBody(op, first)
<1>1. ~IsProxied(Sent(op, first))
  BY Zenon DEF IsProxied, Sent, Post
<1>2. Proxied(Sent(op, first)).body = RequestBody(op, first)
  BY Zenon, <1>1 DEF Proxied, Sent, Post
<1> QED BY Zenon, <1>1, <1>2

LEMMA ReplyIsKept ==
  ASSUME NEW op, NEW first, NEW rep
  PROVE  Stripped(Sent(op, first), rep) = rep
BY SentIsPost DEF Stripped

(* A notification has no id, and is no call. *)
LEMMA NoIdIsNoCall ==
  ASSUME NEW e
  PROVE  ~IsCall(Item(NoId, e))
<1> DEFINE it == Item(NoId, e)
<1>1. it.fields = RequestFields(NoId, Encoded[e])
  BY Zenon DEF Item
<1>2. it.fields = <<"jsonrpc", "method">> \/ it.fields = <<"jsonrpc", "method", "params">>
  BY Zenon, <1>1 DEF RequestFields
<1> HIDE DEF it
<1>3. "id" \notin Range(it.fields)
  BY <1>2 DEF Range
<1> QED BY Zenon, <1>3 DEF IsCall, IdParses, Deserializes, it

-----------------------------------------------------------------------------
(* The replies of the server to an operation. *)

LEMMA NothingAnswers ==
  ASSUME NEW op, NEW first, NEW form \in {"text", "null"}, NEW size
  PROVE  AnswersOperation(op, first, Body(form, <<>>, size))
<1> DEFINE b == Body(form, <<>>, size)
<1>1. b.items = <<>> /\ b.form = form
  BY Zenon DEF Body
<1> HIDE DEF b
<1>2. NoneInvalid(b.items)
  BY <1>1 DEF NoneInvalid
<1>3. b.form # "many" /\ b.form # "one"
  BY Zenon, <1>1
<1> QED BY Zenon, <1>2, <1>3 DEF AnswersOperation, b

LEMMA OneAnswers ==
  ASSUME NEW op, NEW first, NEW rp, NEW size, rp.err # "InvalidParams",
         rp.err = "" => AnswersEntry(op, first, 1, rp)
  PROVE  AnswersOperation(op, first, Body("one", <<rp>>, size))
<1> DEFINE b == Body("one", <<rp>>, size)
<1>1. b.items = <<rp>> /\ b.form = "one"
  BY Zenon DEF Body
<1> HIDE DEF b
<1>2. DOMAIN b.items = {1} /\ b.items[1] = rp
  BY Zenon, <1>1, Singleton
<1>3. b.form # "many"
  BY Zenon, <1>1
<1>4. NoneInvalid(b.items)
  BY Zenon, <1>2 DEF NoneInvalid
<1> QED BY Zenon, <1>2, <1>3, <1>4 DEF AnswersOperation, b

LEMMA ErrorAnswers ==
  ASSUME NEW op, NEW first, NEW code, code # "", code # "InvalidParams", NEW id, NEW size
  PROVE  AnswersOperation(op, first, Body("one", <<Error(id, code)>>, size))
<1> DEFINE rp == Error(id, code)
<1>1. rp.err = code
  BY Zenon, ErrorFacts
<1> HIDE DEF rp
<1>2. AnswersOperation(op, first, Body("one", <<rp>>, size))
  BY Zenon, <1>1, OneAnswers
<1> QED BY Zenon, <1>2 DEF rp

(* The answer of RpcService to an operation that is not a batch. *)
LEMMA SingleAnswers ==
  ASSUME StubsFit, NEW c \in Calls, NEW op \in Ops[c], op.kind # "batch", NEW first \in Nat,
         NEW it, it = Items(op, first)[1], NEW size
  PROVE  AnswersOperation(op, first, Body("one", <<Respond(it, TRUE).rp>>, size))
<1> DEFINE id == IF op.kind = "notification" THEN NoId ELSE Id(first + 1 - 1)
           e == op.entries[1]
           rp == Respond(it, TRUE).rp
<1>1. Len(op.entries) = 1 /\ e \in Range(op.entries)
  <2>1. Len(op.entries) = 1 /\ op.entries \in Seq(Range(op.entries))
    BY Zenon, HttpClientAssumption DEF StubsFit
  <2> QED BY <2>1 DEF Range
<1>2. it = Item(id, e)
  <2>1. 1 \in 1 .. Len(op.entries)
    BY <1>1
  <2> QED BY Zenon, <2>1 DEF Items
<1> HIDE DEF rp, e, id
<1>3. Fits(it, id, e, rp)
  BY Zenon, <1>1, <1>2, EntryAnswer DEF rp
<1>4. rp.err = "" => AnswersEntry(op, first, 1, rp)
  <2>1. op.kind = "notification" => ~IsCall(it)
    BY Zenon, <1>2, NoIdIsNoCall DEF id
  <2>2. op.kind # "notification" => id = Id(first + 1 - 1)
    BY Zenon DEF id
  <2> QED BY Zenon, <1>3, <2>1, <2>2 DEF AnswersEntry, Fits, e
<1>5. rp.err # "InvalidParams"
  BY Zenon, <1>3 DEF Fits
<1> QED BY Zenon, <1>4, <1>5, OneAnswers DEF rp

Appended(s, e, t) ==
  /\ Len(t) = Len(s) + 1
  /\ DOMAIN t = 1 .. Len(t) /\ DOMAIN s = 1 .. Len(s)
  /\ \A i \in 1 .. Len(t) : IF i = Len(s) + 1 THEN t[i] = e ELSE i \in 1 .. Len(s) /\ t[i] = s[i]

LEMMA AppendFacts ==
  ASSUME NEW s, s \in Seq(Range(s)), NEW e
  PROVE  Appended(s, e, Append(s, e))
<1> DEFINE S == Range(s) \cup {e}
<1>1. s \in Seq(S)
  BY DEF Range
<1>2. e \in S
  BY Zenon
<1> HIDE DEF S
<1> QED BY <1>1, <1>2 DEF Appended

(* A turn of the loop of RpcService::batch adds the answer to its entry. *)
LEMMA EntryAppended ==
  ASSUME StubsFit, NEW c \in Calls, NEW op \in Ops[c], op.kind = "batch", NEW first \in Nat,
         NEW s, s.acc \in Seq(Range(s.acc)), AnswersPrefix(op, first, s),
         s.pos \in 1 .. Len(op.entries), NEW it, it = Items(op, first)[s.pos],
         NEW t, t.acc = Append(s.acc, Respond(it, FALSE).rp), t.pos = s.pos + 1
  PROVE  ~IsNotification(it) /\ AnswersPrefix(op, first, t)
<1> DEFINE e == op.entries[s.pos]
           id == Id(first + s.pos - 1)
           rp == Respond(it, FALSE).rp
<1>1. it = Item(id, e)
  BY Zenon DEF Items
<1>2. e \in Range(op.entries)
  <2>1. op.entries \in Seq(Range(op.entries))
    BY Zenon, HttpClientAssumption
  <2> QED BY <2>1 DEF Range
<1> HIDE DEF e, id
<1>3. Fits(it, id, e, rp)
  BY Zenon, <1>1, <1>2, EntryAnswer
<1>4. IsCall(it) /\ ~IsNotification(it)
  BY Zenon, <1>1, ItemIsCall DEF id
<1> HIDE DEF rp
<1>5. AnswersEntry(op, first, s.pos, rp) /\ rp.err # "InvalidParams"
  BY Zenon, <1>3, <1>4 DEF Fits, AnswersEntry, e, id
<1>6. Len(s.acc) \in Nat /\ s.pos = Len(s.acc) + 1
  BY DEF AnswersPrefix
<1>7. /\ Len(t.acc) = Len(s.acc) + 1
      /\ \A i \in 1 .. Len(t.acc) : IF i = s.pos THEN t.acc[i] = rp
                                    ELSE i \in 1 .. Len(s.acc) /\ t.acc[i] = s.acc[i]
      /\ DOMAIN t.acc = 1 .. Len(t.acc) /\ DOMAIN s.acc = 1 .. Len(s.acc)
  <2>1. Appended(s.acc, rp, t.acc)
    BY Zenon, AppendFacts DEF rp
  <2> QED BY Zenon, <1>6, <2>1 DEF Appended
<1>8. Len(t.acc) = t.pos - 1
  BY <1>6, <1>7
<1>9. NoneInvalid(t.acc)
  BY Zenon, <1>5, <1>7 DEF NoneInvalid, AnswersPrefix
<1>10. \A i \in 1 .. Len(t.acc) : AnswersEntry(op, first, i, t.acc[i])
  BY Zenon, <1>5, <1>7 DEF AnswersPrefix
<1> QED BY Zenon, <1>4, <1>8, <1>9, <1>10 DEF AnswersPrefix

(* BatchResponseBuilder::finish after the last entry. *)
LEMMA BatchAnswers ==
  ASSUME NEW op, NEW first, NEW s, s.acc \in Seq(Range(s.acc)), AnswersPrefix(op, first, s),
         Len(s.acc) = Len(op.entries), NEW size
  PROVE  AnswersOperation(op, first, Body("many", s.acc, size))
<1> DEFINE b == Body("many", s.acc, size)
<1>1. b.items = s.acc /\ b.form = "many"
  BY Zenon DEF Body
<1> HIDE DEF b
<1>2. b.form # "one"
  BY Zenon, <1>1
<1>3. AnswersAll(op, first, s.acc) /\ NoneInvalid(s.acc)
  BY Zenon DEF AnswersAll, AnswersPrefix
<1> QED BY Zenon, <1>1, <1>2, <1>3 DEF AnswersOperation, b

-----------------------------------------------------------------------------
(* The steps of the server for an operation. *)

(* The client is gone, or has the reply. *)
Answered(op, first, w) ==
  w.st = "gone" \/ (w.st = "replied" /\ AnswersOperation(op, first, w.rep.body))

LEMMA ReplyIsOwn ==
  ASSUME NEW c, NEW k, NEW w, NEW s, Own(c, k, w, s), k.stage \notin {"idle", "waiting", "granted"},
         NEW v, Answered(k.op, k.first, v), NEW t, t.stage \in {"replied", "session"}
  PROVE  Own(c, k, v, t)
<1>1. v.st # "sent" /\ t.stage \notin {"none", "reading", "running"}
  BY Zenon DEF Answered
<1> QED BY Zenon, <1>1 DEF Own, Answered

LEMMA SendsAnswer ==
  ASSUME WireInv, NEW x \in Exchanges, NEW op, NEW first, NEW rep, SendReply(x, Sent(op, first), rep),
         AnswersOperation(op, first, rep.body)
  PROVE  Answered(op, first, wire'[x])
<1>1. wire'[x] = IF wire[x].st = "gone" THEN [Quiet EXCEPT !.st = "gone"]
                 ELSE [Quiet EXCEPT !.st = "replied", !.rep = Stripped(Sent(op, first), rep)]
  BY Zenon DEF SendReply, WireInv
<1>2. Stripped(Sent(op, first), rep) = rep
  BY SMT, ReplyIsKept
<1>3. [Quiet EXCEPT !.st = "gone"].st = "gone"
  BY Zenon DEF Quiet
<1>4. [Quiet EXCEPT !.st = "replied", !.rep = rep].st = "replied"
      /\ [Quiet EXCEPT !.st = "replied", !.rep = rep].rep = rep
  BY Zenon DEF Quiet
<1> QED BY Zenon, <1>1, <1>2, <1>3, <1>4 DEF Answered

LEMMA FinishIsOwn ==
  ASSUME WireInv, ServerType, NEW c \in Exchanges, NEW k, Own(c, k, wire[c], srv[c]),
         srv[c].stage \in {"reading", "running"}, NEW rep, Finish(c, rep),
         AnswersOperation(k.op, k.first, rep.body)
  PROVE  Own(c, k, wire'[c], srv'[c])
<1>1. SendReply(c, Sent(k.op, k.first), rep) /\ srv'[c] = Replied
  BY Zenon DEF Finish, Own, ServerType
<1>2. Answered(k.op, k.first, wire'[c])
  BY Zenon, <1>1, SendsAnswer
<1>3. srv'[c].stage \in {"replied", "session"} /\ k.stage \notin {"idle", "waiting", "granted"}
  BY Zenon, <1>1, RepliedIsServed DEF Own
<1> QED BY SMT, <1>2, <1>3, ReplyIsOwn

LEMMA ReceiveIsOwn ==
  ASSUME WireInv, ServerType, NEW c \in Exchanges, NEW k, Own(c, k, wire[c], srv[c]), Receive(c)
  PROVE  Own(c, k, wire'[c], srv'[c])
<1>0. /\ wire[c].st = "sent" /\ srv[c].stage = "none" /\ wire[c].req = Sent(k.op, k.first)
      /\ k.stage \notin {"idle", "waiting", "granted"}
  BY Zenon DEF Receive, Own
<1>1. ASSUME NEW n PROVE AnswersOperation(k.op, k.first, Text(n).body)
  <2>1. Text(n).body = Body("text", <<>>, 1)
    BY Zenon DEF Text, Reply
  <2> QED BY Zenon, <2>1, NothingAnswers
<1>2. \/ \E n : Deny(c, Text(n))
      \/ Enter(c, "session") /\ SendReply(c, wire[c].req, Text(101))
      \/ Enter(c, "reading") /\ wire' = [wire EXCEPT ![c].req = NoRequest]
  BY DEF Receive, Admit
<1>3. IsServed(srv[c]) /\ IsExchange(wire[c])
  BY Zenon DEF ServerType, WireInv
<1>4. ASSUME NEW stage, Enter(c, stage)
      PROVE  srv'[c].stage = stage /\ srv'[c].req = wire[c].req
  BY Zenon, <1>3, <1>4 DEF Enter, ServerType, IsServed
<1>5. CASE \E n : Deny(c, Text(n))
  <2>1. PICK n : Deny(c, Text(n))
    BY Zenon, <1>5
  <2>2. SendReply(c, Sent(k.op, k.first), Text(n)) /\ srv'[c] = Replied
    BY Zenon, <1>0, <2>1 DEF Deny, ServerType
  <2>3. Answered(k.op, k.first, wire'[c])
    BY Zenon, <1>1, <2>2, SendsAnswer
  <2>4. srv'[c].stage \in {"replied", "session"}
    BY Zenon, <2>2, RepliedIsServed
  <2> QED BY SMT, <1>0, <2>3, <2>4, ReplyIsOwn
<1>6. CASE Enter(c, "session") /\ SendReply(c, wire[c].req, Text(101))
  <2>1. Answered(k.op, k.first, wire'[c])
    BY Zenon, <1>0, <1>1, <1>6, SendsAnswer
  <2>2. srv'[c].stage \in {"replied", "session"}
    BY Zenon, <1>4, <1>6
  <2> QED BY SMT, <1>0, <2>1, <2>2, ReplyIsOwn
<1>7. CASE Enter(c, "reading") /\ wire' = [wire EXCEPT ![c].req = NoRequest]
  <2>1. srv'[c].stage = "reading" /\ srv'[c].req = Sent(k.op, k.first)
    BY Zenon, <1>0, <1>4, <1>7
  <2>2. wire'[c].st = "sent"
    BY Zenon, <1>0, <1>3, <1>7 DEF WireInv, IsExchange
  <2> QED BY Zenon, <1>0, <2>1, <2>2 DEF Own
<1> QED BY Zenon, <1>2, <1>5, <1>6, <1>7

LEMMA ReadIsOwn ==
  ASSUME WireInv, ServerType, ServedInv, NEW c \in Exchanges, NEW k,
         Own(c, k, wire[c], srv[c]), Read(c)
  PROVE  Own(c, k, wire'[c], srv'[c])
<1>1. srv[c].stage = "reading" /\ srv[c].acc = <<>> /\ IsServed(srv[c])
  BY Zenon DEF Read, ServedInv, ServerType
<1>2. \/ \E status, code : /\ Finish(c, Reply(status, Body("one", <<Error(NullId, code)>>, 1)))
                           /\ code # "" /\ code # "InvalidParams"
      \/ srv' = [srv EXCEPT ![c].stage = "running", ![c].pos = 1] /\ wire' = wire
  BY DEF Read, One
<1>3. ASSUME NEW status, NEW code, code # "", code # "InvalidParams",
             Finish(c, Reply(status, Body("one", <<Error(NullId, code)>>, 1)))
      PROVE  Own(c, k, wire'[c], srv'[c])
  <2>1. Reply(status, Body("one", <<Error(NullId, code)>>, 1)).body
          = Body("one", <<Error(NullId, code)>>, 1)
    BY Zenon DEF Reply
  <2>2. AnswersOperation(k.op, k.first, Body("one", <<Error(NullId, code)>>, 1))
    BY Zenon, <1>3, ErrorAnswers
  <2> QED BY Zenon, <1>1, <1>3, <2>1, <2>2, FinishIsOwn
<1>4. CASE srv' = [srv EXCEPT ![c].stage = "running", ![c].pos = 1] /\ wire' = wire
  <2> DEFINE t == srv'[c]
  <2>1. t.stage = "running" /\ t.pos = 1 /\ t.acc = <<>> /\ t.req = srv[c].req
    BY Zenon, <1>1, <1>4 DEF ServerType, IsServed
  <2> HIDE DEF t
  <2>2. Len(t.acc) = t.pos - 1 /\ DOMAIN t.acc = {} /\ 1 .. Len(t.acc) = {}
    BY <2>1
  <2>3. AnswersPrefix(k.op, k.first, t)
    BY Zenon, <2>2 DEF AnswersPrefix, NoneInvalid
  <2> QED BY Zenon, <1>1, <1>4, <2>1, <2>3 DEF Own, t
<1> QED BY Zenon, <1>2, <1>3, <1>4

(* What runs for an operation is what it sent. *)
LEMMA RunningFacts ==
  ASSUME NEW c \in Calls, NEW k, NEW w, NEW s,
         Own(c, k, w, s), s.stage = "running"
  PROVE  /\ k.op \in Ops[c]
         /\ Proxied(s.req).body.items = Items(k.op, k.first)
         /\ Proxied(s.req).body.lead = "[" => k.op.kind = "batch"
         /\ Proxied(s.req).body.lead = "{" => k.op.kind # "batch"
<1>1. k.op \in Ops[c] /\ s.req = Sent(k.op, k.first)
  BY Zenon DEF Own
<1>2. Proxied(s.req).body = RequestBody(k.op, k.first)
  BY Zenon, <1>1, SentIsPost
<1>3. /\ RequestBody(k.op, k.first).items = Items(k.op, k.first)
      /\ RequestBody(k.op, k.first).lead = IF k.op.kind = "batch" THEN "[" ELSE "{"
  BY Zenon, RequestBodyFacts
<1> QED BY Zenon, <1>1, <1>2, <1>3

LEMMA RunSingleIsOwn ==
  ASSUME StubsFit, WireInv, ServerType, NEW c \in Calls, c \in Exchanges, NEW k, k.first \in Nat,
         Own(c, k, wire[c], srv[c]), RunSingle(c)
  PROVE  Own(c, k, wire'[c], srv'[c])
<1> DEFINE body == Proxied(srv[c].req).body
           it == body.items[1]
           answer == Respond(it, TRUE)
<1>1. srv[c].stage = "running" /\ body.lead = "{"
  BY Zenon DEF RunSingle
<1>2. k.op \in Ops[c] /\ body.items = Items(k.op, k.first) /\ k.op.kind # "batch"
  BY Zenon, <1>1, RunningFacts
<1>3. \/ Finish(c, Reply(200, Body("null", <<>>, 1)))
      \/ Finish(c, Reply(200, Body("one", <<answer.rp>>, answer.size)))
  BY Zenon DEF RunSingle, One
<1>4. it = Items(k.op, k.first)[1]
  BY Zenon, <1>2
<1> HIDE DEF it, body
<1>5. AnswersOperation(k.op, k.first, Body("null", <<>>, 1))
  BY Zenon, NothingAnswers
<1>6. AnswersOperation(k.op, k.first, Body("one", <<answer.rp>>, answer.size))
  BY Zenon, <1>2, <1>4, SingleAnswers
<1>7. ASSUME NEW b, AnswersOperation(k.op, k.first, b), Finish(c, Reply(200, b))
      PROVE  Own(c, k, wire'[c], srv'[c])
  <2>1. Reply(200, b).body = b
    BY Zenon DEF Reply
  <2> QED BY Zenon, <1>1, <1>7, <2>1, FinishIsOwn
<1> HIDE DEF answer
<1> QED BY Zenon, <1>3, <1>5, <1>6, <1>7

LEMMA RunEntryIsOwn ==
  ASSUME StubsFit, WireInv, ServerType, ServedInv, NEW c \in Calls, c \in Exchanges,
         NEW k, k.first \in Nat, Own(c, k, wire[c], srv[c]), RunEntry(c)
  PROVE  Own(c, k, wire'[c], srv'[c])
<1> DEFINE body == Proxied(srv[c].req).body
           it == body.items[srv[c].pos]
           answer == Respond(it, FALSE)
           size == srv[c].size + answer.size + 1
           t == [srv[c] EXCEPT !.pos = @ + 1, !.size = size, !.acc = Append(@, answer.rp)]
           tooBig == Reply(200, Body("one", <<Error(NullId, "TooBigBatchResponse")>>, 1))
<1>1. srv[c].stage = "running" /\ body.lead = "[" /\ srv[c].pos <= Len(body.items)
  BY Zenon DEF RunEntry
<1>2. k.op \in Ops[c] /\ body.items = Items(k.op, k.first) /\ k.op.kind = "batch"
  BY Zenon, <1>1, RunningFacts
<1>3. Runs(srv[c]) /\ IsServed(srv[c])
  BY Zenon, <1>1 DEF ServedInv, ServerType
<1>4. /\ srv[c].acc \in Seq(Range(srv[c].acc)) /\ srv[c].pos \in Nat \ {0}
      /\ AnswersPrefix(k.op, k.first, srv[c])
  BY Zenon, <1>1, <1>2, <1>3 DEF Runs, Own
<1>5. srv[c].pos \in 1 .. Len(k.op.entries)
  <2>1. k.op.entries \in Seq(Range(k.op.entries))
    BY Zenon, <1>2, HttpClientAssumption
  <2>2. Len(k.op.entries) \in Nat
    BY <2>1
  <2>3. Len(Items(k.op, k.first)) = Len(k.op.entries)
    BY <2>2 DEF Items
  <2> QED BY <1>1, <1>2, <1>4, <2>2, <2>3
<1>6. \/ IsNotification(it)
      \/ srv' = [srv EXCEPT ![c].pos = @ + 1, ![c].size = size, ![c].acc = Append(@, answer.rp)]
         /\ wire' = wire
      \/ Finish(c, tooBig)
  BY Zenon DEF RunEntry, One
<1>7. it = Items(k.op, k.first)[srv[c].pos]
  BY Zenon, <1>2
<1> HIDE DEF body, it, size
<1>8. /\ t.stage = "running" /\ t.req = srv[c].req
      /\ t.pos = srv[c].pos + 1 /\ t.acc = Append(srv[c].acc, answer.rp)
  BY Zenon, <1>1, <1>3 DEF IsServed
<1>9. ~IsNotification(it) /\ AnswersPrefix(k.op, k.first, t)
  <2> HIDE DEF t
  <2> QED BY Zenon, <1>2, <1>4, <1>5, <1>7, <1>8, EntryAppended
<1>10. CASE srv' = [srv EXCEPT ![c].pos = @ + 1, ![c].size = size, ![c].acc = Append(@, answer.rp)]
            /\ wire' = wire
  <2>1. srv'[c] = t
    BY Zenon, <1>10 DEF ServerType
  <2> HIDE DEF t
  <2> QED BY Zenon, <1>1, <1>8, <1>9, <1>10, <2>1 DEF Own
<1>11. CASE Finish(c, tooBig)
  <2>1. tooBig.body = Body("one", <<Error(NullId, "TooBigBatchResponse")>>, 1)
    BY Zenon DEF Reply
  <2>2. AnswersOperation(k.op, k.first, Body("one", <<Error(NullId, "TooBigBatchResponse")>>, 1))
    BY Zenon, ErrorAnswers
  <2> HIDE DEF tooBig
  <2> QED BY Zenon, <1>1, <1>11, <2>1, <2>2, FinishIsOwn
<1> QED BY Zenon, <1>6, <1>9, <1>10, <1>11

LEMMA FinishBatchIsOwn ==
  ASSUME WireInv, ServerType, ServedInv, NEW c \in Calls, c \in Exchanges,
         NEW k, k.first \in Nat, Own(c, k, wire[c], srv[c]), FinishBatch(c)
  PROVE  Own(c, k, wire'[c], srv'[c])
<1> DEFINE body == Proxied(srv[c].req).body
<1>1. srv[c].stage = "running" /\ body.lead = "[" /\ srv[c].pos > Len(body.items)
  BY Zenon DEF FinishBatch
<1>2. k.op \in Ops[c] /\ body.items = Items(k.op, k.first) /\ k.op.kind = "batch"
  BY Zenon, <1>1, RunningFacts
<1>3. Runs(srv[c]) /\ AnswersPrefix(k.op, k.first, srv[c])
  BY Zenon, <1>1, <1>2 DEF ServedInv, Own
<1>4. /\ Len(body.items) = Len(k.op.entries) /\ Len(body.items) \in Nat
      /\ srv[c].acc \in Seq(Range(srv[c].acc)) /\ Len(srv[c].acc) = srv[c].pos - 1
      /\ srv[c].pos \in Nat /\ (srv[c].acc # <<>> => srv[c].pos <= Len(body.items) + 1)
  <2>1. k.op.entries \in Seq(Range(k.op.entries))
    BY Zenon, <1>2, HttpClientAssumption
  <2>2. Len(k.op.entries) \in Nat
    BY <2>1
  <2>3. Len(Items(k.op, k.first)) = Len(k.op.entries)
    BY <2>2 DEF Items
  <2>4. srv[c].pos \in Nat
    BY <1>3 DEF Runs
  <2> QED BY Zenon, <1>2, <1>3, <2>2, <2>3, <2>4 DEF Runs, AnswersPrefix
<1> HIDE DEF body
<1>5. \/ srv[c].acc # <<>> /\ Finish(c, Reply(200, Body("many", srv[c].acc, srv[c].size)))
      \/ Finish(c, Reply(200, Body("null", <<>>, 1)))
      \/ Finish(c, Reply(200, Body("one", <<Error(NullId, "InvalidRequest")>>, 1)))
  BY Zenon DEF FinishBatch, One
<1>6. AnswersOperation(k.op, k.first, Body("null", <<>>, 1))
  BY Zenon, NothingAnswers
<1>7. AnswersOperation(k.op, k.first, Body("one", <<Error(NullId, "InvalidRequest")>>, 1))
  BY Zenon, ErrorAnswers
<1>8. ASSUME srv[c].acc # <<>>
      PROVE  AnswersOperation(k.op, k.first, Body("many", srv[c].acc, srv[c].size))
  <2>1. \A p, n \in Nat : p > n /\ p <= n + 1 => p - 1 = n
    OBVIOUS
  <2>2. Len(srv[c].acc) = Len(k.op.entries)
    BY Zenon, <1>1, <1>4, <1>8, <2>1
  <2> QED BY Zenon, <1>3, <1>4, <2>2, BatchAnswers
<1>9. ASSUME NEW b, AnswersOperation(k.op, k.first, b), Finish(c, Reply(200, b))
      PROVE  Own(c, k, wire'[c], srv'[c])
  <2>1. Reply(200, b).body = b
    BY Zenon DEF Reply
  <2> QED BY Zenon, <1>1, <1>9, <2>1, FinishIsOwn
<1> QED BY Zenon, <1>5, <1>6, <1>7, <1>8, <1>9

(* Every step of the server for an operation keeps what is known of it. *)
LEMMA ServerIsOwn ==
  ASSUME StubsFit, WireInv, ServerType, ServedInv, NEW c \in Calls, NEW k, k.first \in Nat,
         Own(c, k, wire[c], srv[c]), ServerStep(c) \/ SessionEnds(c)
  PROVE  Own(c, k, wire'[c], srv'[c])
<1>0. c \in Exchanges
  BY Zenon DEF Exchanges
<1>1. CASE DropService(c) \/ SessionEnds(c)
  <2>1. srv'[c] = Replied /\ wire' = wire /\ srv[c].stage # "none"
    BY Zenon, <1>0, <1>1 DEF DropService, SessionEnds, ServerType
  <2>2. srv'[c].stage = "replied"
    BY Zenon, <2>1, RepliedIsServed
  <2> QED BY Zenon, <2>1, <2>2 DEF Own
<1>2. CASE Receive(c)
  BY Zenon, <1>0, <1>2, ReceiveIsOwn
<1>3. CASE Read(c)
  BY Zenon, <1>0, <1>3, ReadIsOwn
<1>4. CASE RunSingle(c)
  BY Zenon, <1>0, <1>4, RunSingleIsOwn
<1>5. CASE RunEntry(c)
  BY Zenon, <1>0, <1>5, RunEntryIsOwn
<1>6. CASE FinishBatch(c)
  BY Zenon, <1>0, <1>6, FinishBatchIsOwn
<1> QED BY Zenon, <1>1, <1>2, <1>3, <1>4, <1>5, <1>6 DEF ServerStep

(* A step of one exchange leaves the others alone. *)
LEMMA OthersAreKept ==
  ASSUME WireInv, ServerType, ServedInv, NEW x \in Exchanges, ServerStep(x) \/ SessionEnds(x)
  PROVE  \A y \in Exchanges : y # x => wire'[y] = wire[y] /\ srv'[y] = srv[y]
<1>1. wire' = wire \/ \E w : wire' = [wire EXCEPT ![x] = w]
  BY Zenon, ServerKeepsWire
<1>2. \A y \in Exchanges : y # x => wire'[y] = wire[y]
  BY Zenon, <1>1 DEF WireInv
<1>3. EntersAdmitted(x) \/ IsDenied(x) \/ Ceases(x) \/ Advances(x)
  BY Zenon, ServerKinds
<1>4. ASSUME EntersAdmitted(x) PROVE \A y \in Exchanges : y # x => srv'[y] = srv[y]
  BY Zenon, <1>4 DEF EntersAdmitted, ServerType
<1>5. ASSUME NEW s, srv' = [srv EXCEPT ![x] = s]
      PROVE  \A y \in Exchanges : y # x => srv'[y] = srv[y]
  BY Zenon, <1>5 DEF ServerType
<1>6. \A y \in Exchanges : y # x => srv'[y] = srv[y]
  BY Zenon, <1>3, <1>4, <1>5 DEF IsDenied, Ceases, Advances
<1> QED BY Zenon, <1>2, <1>6

-----------------------------------------------------------------------------
(* The steps of the client. *)

(* An operation that ends hands its permit on, and changes nobody's answers. *)
LEMMA EndsForOthers ==
  ASSUME ClientInv, NEW c \in Calls, NEW end, Ends(c, end), NEW d \in Calls, d # c, NEW w, NEW s,
         Own(d, call[d], w, s)
  PROVE  Own(d, call'[d], w, s)
<1>0. /\ call' = [e \in Calls |-> Handed(c, end, e)]
      /\ waiting # <<>> => waiting[1] \in Asleep
  BY Zenon, EndStep DEF Ends
<1>1. call'[d] = Handed(c, end, d)
  BY Zenon, <1>0
<1>2. CASE waiting # <<>> /\ d = waiting[1]
  <2>1. call[d].stage = "waiting" /\ IsOperation(call[d])
    BY Zenon, <1>0, <1>2 DEF Asleep, ClientInv, ClientType
  <2>2. call'[d] = [call[d] EXCEPT !.stage = "granted"]
    BY Zenon, <1>1, <1>2 DEF Handed
  <2>3. call'[d].stage = "granted" /\ call'[d].op = call[d].op
    BY Zenon, <2>1, <2>2 DEF IsOperation
  <2> QED BY Zenon, <2>1, <2>3 DEF Own
<1>3. CASE ~(waiting # <<>> /\ d = waiting[1])
  <2>1. call'[d] = call[d]
    BY Zenon, <1>1, <1>3 DEF Handed
  <2> QED BY Zenon, <2>1
<1> QED BY Zenon, <1>2, <1>3

LEMMA IssueIsOwn ==
  ASSUME ClientInv, NEW c \in Calls, NEW op \in Ops[c], Issue(c, op), NEW d \in Calls,
         Own(d, call[d], wire[d], srv[d])
  PROVE  Own(d, call'[d], wire'[d], srv[d])
<1>1. PICK stage \in {"granted", "waiting"} : call' = [call EXCEPT ![c].op = op, ![c].stage = stage]
  BY Zenon DEF Issue
<1>2. wire' = wire /\ call[c].stage = "idle" /\ IsOperation(call[c])
  BY Zenon DEF Issue, ClientInv, ClientType
<1>3. CASE d = c
  <2>1. call'[c].op = op /\ call'[c].stage = stage
    BY Zenon, <1>1, <1>2 DEF ClientInv, ClientType, IsOperation
  <2> QED BY Zenon, <1>2, <1>3, <2>1 DEF Own
<1>4. CASE d # c
  <2>1. call'[d] = call[d]
    BY Zenon, <1>1, <1>4 DEF ClientInv, ClientType
  <2> QED BY Zenon, <1>2, <2>1
<1> QED BY Zenon, <1>3, <1>4

LEMMA PutsIsOwn ==
  ASSUME ClientInv, WireInv, NEW c \in Calls, Puts(c), NEW d \in Calls,
         Own(d, call[d], wire[d], srv[d])
  PROVE  Own(d, call'[d], wire'[d], srv[d])
<1>0. c \in Exchanges /\ d \in Exchanges
  BY Zenon DEF Exchanges
<1>1. /\ call[c].stage = "granted" /\ IsOperation(call[c]) /\ IsExchange(wire[c])
      /\ call' = [call EXCEPT ![c].stage = "sending", ![c].first = nextId]
      /\ wire' = [wire EXCEPT ![c].st = "sent", ![c].req = Sent(call[c].op, nextId)]
  BY Zenon, <1>0 DEF Puts, Begins, ClientInv, ClientType, WireInv
<1>2. CASE d = c
  <2>1. call'[c].op = call[c].op /\ call'[c].stage = "sending" /\ call'[c].first = nextId
    BY Zenon, <1>1 DEF ClientInv, ClientType, IsOperation
  <2>2. wire'[c].st = "sent" /\ wire'[c].req = Sent(call[c].op, nextId)
    BY Zenon, <1>0, <1>1 DEF WireInv, IsExchange
  <2> QED BY Zenon, <1>1, <1>2, <2>1, <2>2 DEF Own
<1>3. CASE d # c
  <2>1. call'[d] = call[d] /\ wire'[d] = wire[d]
    BY Zenon, <1>0, <1>1, <1>3 DEF ClientInv, ClientType, WireInv
  <2> QED BY Zenon, <2>1
<1> QED BY Zenon, <1>2, <1>3

LEMMA QuitsIsOwn ==
  ASSUME ClientInv, NEW c \in Calls, Quits(c), NEW d \in Calls, Own(d, call[d], wire[d], srv[d])
  PROVE  Own(d, call'[d], wire'[d], srv[d])
<1>0. wire' = wire /\ IsOperation(call[c])
  BY Zenon DEF Quits, ClientInv, ClientType
<1>1. ASSUME call[c].stage \in {"waiting", "granted"}, call'[c].op = call[c].op,
             call'[c].stage \in {"err", "dropped"}, d = c
      PROVE  Own(d, call'[d], wire'[d], srv[d])
  BY Zenon, <1>0, <1>1 DEF Own
<1>2. CASE LeavesQueue(c)
  <2>1. call' = [call EXCEPT ![c].stage = "dropped"] /\ call[c].stage = "waiting"
    BY Zenon, <1>2 DEF LeavesQueue
  <2>2. call'[c].op = call[c].op /\ call'[c].stage = "dropped"
    BY Zenon, <1>0, <2>1 DEF ClientInv, ClientType, IsOperation
  <2>3. d # c => call'[d] = call[d]
    BY Zenon, <2>1 DEF ClientInv, ClientType
  <2> QED BY Zenon, <1>0, <1>1, <2>1, <2>2, <2>3
<1>3. ASSUME NEW end, call[c].stage = "granted", Ends(c, end), end.stage # "ok"
      PROVE  Own(d, call'[d], wire'[d], srv[d])
  <2>1. call'[c].op = call[c].op /\ call'[c].stage = end.stage
    BY Zenon, <1>3, EndsForItself
  <2>2. end.stage \in {"err", "dropped"}
    BY Zenon, <1>3 DEF Ends, Over
  <2>3. CASE d = c
    BY Zenon, <1>1, <1>3, <2>1, <2>2, <2>3
  <2>4. CASE d # c
    BY Zenon, <1>0, <1>3, <2>4, EndsForOthers
  <2> QED BY Zenon, <2>3, <2>4
<1> QED BY Zenon, <1>2, <1>3 DEF Quits

LEMMA TakesIsOwn ==
  ASSUME StubsFit, ClientInv, WireInv, NEW c \in Calls, Takes(c), NEW d \in Calls,
         Own(d, call[d], wire[d], srv[d])
  PROVE  Own(d, call'[d], wire'[d], srv[d])
<1>0. c \in Exchanges /\ d \in Exchanges
  BY Zenon DEF Exchanges
<1>1. wire' = [wire EXCEPT ![c] = [Quiet EXCEPT !.st = "gone"]] /\ call[c].stage = "sending"
  BY Zenon DEF Takes
<1>2. PICK end : /\ Ends(c, end)
                 /\ \/ end.stage # "ok"
                    \/ /\ wire[c].st = "replied"
                       /\ end = Outcome(call[c].op, call[c].first, wire[c].rep)
  BY Zenon DEF Takes
<1>3. CASE d # c
  <2>1. wire'[d] = wire[d]
    BY Zenon, <1>0, <1>1, <1>3 DEF WireInv
  <2> QED BY Zenon, <1>2, <1>3, <2>1, EndsForOthers
<1>4. CASE d = c
  <2> DEFINE k == call[c]
             m == call'[c]
  <2>1. m.stage = end.stage /\ m.result = end.result /\ m.op = k.op /\ m.first = k.first
    BY Zenon, <1>2, EndsForItself
  <2>2. wire'[c].st = "gone"
    <3>1. wire'[c] = [Quiet EXCEPT !.st = "gone"]
      BY Zenon, <1>0, <1>1 DEF WireInv
    <3>2. [Quiet EXCEPT !.st = "gone"].st = "gone"
      BY Zenon DEF Quiet
    <3> QED BY Zenon, <3>1, <3>2
  <2>3. k.op \in Ops[c] /\ k.first \in Nat
    BY Zenon, <1>1, <1>4 DEF Own, ClientInv, ClientType, IsOperation
  <2>4. ASSUME m.stage = "ok", k.op.kind # "notification"
        PROVE  AnswersAll(k.op, k.first, end.result)
    <3>1. end.stage = "ok" /\ wire[c].st = "replied" /\ end = Outcome(k.op, k.first, wire[c].rep)
      BY Zenon, <1>2, <2>1, <2>4
    <3>2. AnswersOperation(k.op, k.first, wire[c].rep.body)
      BY Zenon, <1>4, <3>1 DEF Own
    <3>3. k.op.kind # "batch" => Len(k.op.entries) = 1
      BY Zenon, <2>3 DEF StubsFit
    <3> HIDE DEF k
    <3> QED BY Zenon, <2>3, <2>4, <3>1, <3>2, <3>3, OutcomeAnswers
  <2>5. m.stage \in Over
    BY Zenon, <1>2, <2>1 DEF Ends
  <2>6. m.stage \notin {"idle", "waiting", "granted"}
    BY Zenon, <2>5 DEF Over
  <2> QED BY Zenon, <1>4, <2>1, <2>2, <2>3, <2>4, <2>6 DEF Own
<1> QED BY Zenon, <1>3, <1>4

-----------------------------------------------------------------------------
(* The invariant. *)

LEMMA OwnInit == Init => OwnInv
<1> SUFFICES ASSUME Init, NEW c \in Calls PROVE Own(c, call[c], wire[c], srv[c])
  BY Zenon DEF OwnInv
<1>1. call[c] = Idle /\ wire[c] = Quiet /\ srv[c] = Unserved
  BY Zenon DEF Init, ClientInit, Exchanges
<1>2. Idle.stage = "idle" /\ Quiet.st = "none" /\ Unserved.stage = "none"
  BY Zenon DEF Idle, Quiet, Unserved
<1> QED BY Zenon, <1>1, <1>2 DEF Own

LEMMA OwnNext ==
  ASSUME StubsFit, ClientInv, GuardInv, WireInv, ServedInv, OwnInv, [Next]_vars
  PROVE  OwnInv'
<1>0. UNCHANGED config
  <2>1. ASSUME NEW x \in Exchanges, ServerStep(x) \/ SessionEnds(x) PROVE UNCHANGED config
    BY Zenon, <2>1, ServerKinds DEF GuardInv
  <2>2. ASSUME NEW x, ForeignReply(x) \/ StrangerSends(x) \/ StrangerLeaves(x) PROVE UNCHANGED config
    BY Zenon, <2>2 DEF ForeignReply, StrangerSends, StrangerLeaves
  <2>3. UNCHANGED vars => UNCHANGED config
    BY Zenon DEF vars
  <2> QED BY Zenon, <2>1, <2>2, <2>3 DEF Next
<1> SUFFICES ASSUME config.peer = "own", NEW d \in Calls, Own(d, call[d], wire[d], srv[d])
             PROVE  Own(d, call'[d], wire'[d], srv'[d])
  BY Zenon, <1>0 DEF OwnInv
<1>1. ASSUME NEW c \in Calls, ClientStep(c) \/ CallerStep(c), UNCHANGED <<config, srv, guard>>
      PROVE  Own(d, call'[d], wire'[d], srv'[d])
  <2>1. srv' = srv
    BY Zenon, <1>1
  <2>2. Own(d, call'[d], wire'[d], srv[d])
    BY Zenon, <1>1, ClientWire, IssueIsOwn, PutsIsOwn, QuitsIsOwn, TakesIsOwn
  <2> QED BY Zenon, <2>1, <2>2
<1>2. ASSUME NEW x \in Exchanges, ServerStep(x) \/ SessionEnds(x)
      PROVE  Own(d, call'[d], wire'[d], srv'[d])
  <2>1. call' = call
    BY Zenon, <1>2 DEF ServerStep, SessionEnds, Receive, Read, RunSingle, RunEntry, FinishBatch,
                       DropService, clientVars
  <2>2. d \in Exchanges /\ call[d].first \in Nat /\ ServerType
    BY Zenon DEF Exchanges, GuardInv, ClientInv, ClientType, IsOperation
  <2>3. CASE x = d
    BY Zenon, <1>2, <2>1, <2>2, <2>3, ServerIsOwn
  <2>4. CASE x # d
    <3>1. wire'[d] = wire[d] /\ srv'[d] = srv[d]
      BY Zenon, <1>2, <2>2, <2>4, OthersAreKept
    <3> QED BY Zenon, <2>1, <3>1
  <2> QED BY Zenon, <2>3, <2>4
<1>3. ASSUME NEW x \in Strangers, StrangerSends(x) \/ StrangerLeaves(x)
      PROVE  Own(d, call'[d], wire'[d], srv'[d])
  <2>1. d # x /\ d \in Exchanges /\ x \in Exchanges
    BY Zenon, HttpExchangeAssumption DEF Exchanges
  <2>2. call' = call /\ srv' = srv
    BY Zenon, <1>3 DEF StrangerSends, StrangerLeaves, clientVars
  <2>3. \E w : wire' = [wire EXCEPT ![x] = w]
    BY Zenon, <1>3, <2>1, PeersKeepWire
  <2>4. wire'[d] = wire[d]
    BY Zenon, <2>1, <2>3 DEF WireInv
  <2> QED BY Zenon, <2>2, <2>4
<1>4. ~ \E c \in Calls : ForeignReply(c)
  BY Zenon DEF ForeignReply
<1>5. CASE UNCHANGED vars
  BY Zenon, <1>5 DEF vars
<1> QED BY Zenon, <1>1, <1>2, <1>3, <1>4, <1>5 DEF Next

LEMMA OwnImplies == OwnInv => AnswersAreOwn
<1> SUFFICES ASSUME OwnInv, config.peer = "own", NEW c \in Calls
             PROVE  /\ call[c].stage = "ok" /\ call[c].op.kind # "notification" =>
                         /\ Len(call[c].result) = Len(call[c].op.entries)
                         /\ \A i \in DOMAIN call[c].op.entries :
                              AnswersEntry(call[c].op, call[c].first, i, call[c].result[i])
                    /\ wire[c].st = "replied" => NoneInvalid(wire[c].rep.body.items)
  BY Zenon DEF AnswersAreOwn, AnswersEntry, NoneInvalid
<1>1. Own(c, call[c], wire[c], srv[c])
  BY Zenon DEF OwnInv
<1>2. ASSUME call[c].stage = "ok", call[c].op.kind # "notification"
      PROVE  /\ Len(call[c].result) = Len(call[c].op.entries)
             /\ \A i \in DOMAIN call[c].op.entries :
                  AnswersEntry(call[c].op, call[c].first, i, call[c].result[i])
  <2>1. call[c].op \in Ops[c] /\ AnswersAll(call[c].op, call[c].first, call[c].result)
    BY Zenon, <1>1, <1>2 DEF Own
  <2>2. call[c].op.entries \in Seq(Range(call[c].op.entries))
    BY Zenon, <2>1, HttpClientAssumption
  <2>3. DOMAIN call[c].op.entries = 1 .. Len(call[c].op.entries)
    BY <2>2
  <2> QED BY Zenon, <2>1, <2>3 DEF AnswersAll
<1> QED BY Zenon, <1>1, <1>2 DEF Own, AnswersOperation

(* Between the client and this server no argument is lost or moved, and    *)
(* every success answers its own entry, for every number of operations,    *)
(* permits and connections, whatever other clients send meanwhile and      *)
(* whenever a caller gives up: provided that the stubs of a method agree.  *)
THEOREM AnswersAreAlwaysOwn == StubsFit => (Spec => []AnswersAreOwn)
<1> SUFFICES ASSUME StubsFit PROVE Spec => []AnswersAreOwn
  OBVIOUS
<1>1. ClientInv /\ GuardInv /\ WireInv /\ ServedInv /\ OwnInv /\ [Next]_vars => OwnInv'
  BY Zenon, OwnNext
<1>2. Spec => [](ClientInv /\ GuardInv /\ WireInv /\ ServedInv)
  BY ClientInvariant, ServerInit, ServerNext, PTL DEF Spec
<1> QED BY <1>1, <1>2, OwnInit, OwnImplies, PTL DEF Spec

=============================================================================
