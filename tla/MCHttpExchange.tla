--------------------------- MODULE MCHttpExchange ---------------------------
(***************************************************************************)
(* Instances of HttpExchange.  "add" takes an argument and an optional     *)
(* one, positionally; "set" takes them by name; "put" takes one object;    *)
(* "big" has a result that is larger than max_response_body_size allows.   *)
(***************************************************************************)
EXTENDS HttpExchange

CONSTANTS c1, c2, x1

TwoCalls == {c1, c2}
OneStranger == {x1}

MCValues == {"v", "w"}
MCArgNames == <<"a", "b">>

MCMethods == {"add", "set", "put", "big", "sub"}
MCMethodKind == [m \in MCMethods |-> IF m = "sub" THEN "subscription" ELSE "call"]
MCSignature ==
  [m \in MCMethods |-> CASE m \in {"add", "set"} -> <<"req", "opt">>
                         [] m = "put" -> <<"opt">>
                         [] OTHER -> <<>>]
MCStyle == [m \in MCMethods |-> CASE m = "set" -> "Map" [] m = "put" -> "Object"
                                  [] OTHER -> "Array"]
MCResultSize == [m \in MCMethods |-> IF m = "big" THEN 9 ELSE 2]

Entry(m, args) == [method |-> m, style |-> IF m \in MCMethods THEN MCStyle[m] ELSE "Array",
                   args |-> args]
Op(kind, entries) == [kind |-> kind, entries |-> entries]

\* The stubs of this instance agree, as AnswersAreAlwaysOwn supposes.
ASSUME StubsAgree == StubsFit

SomeOps == {Op("batch", <<Entry("add", <<"w", "null">>), Entry("put", <<"v">>)>>)}

AllOps ==
  {Op("request", <<Entry("set", <<"w", "null">>)>>),
   Op("request", <<Entry("add", <<"v", "w">>)>>),
   Op("request", <<Entry("put", <<"null">>)>>),
   Op("request", <<Entry("big", <<>>)>>),
   Op("request", <<Entry("sub", <<>>)>>),
   Op("notification", <<Entry("put", <<"v">>)>>),
   Op("batch", <<>>),
   Op("batch", <<Entry("set", <<"v", "w">>), Entry("set", <<"v", "w">>)>>),
   Op("batch", <<Entry("add", <<"v", "w">>), Entry("gone", <<>>)>>),
   Op("batch", <<Entry("put", <<"v">>), Entry("put", <<"w">>), Entry("put", <<"null">>)>>)}

MCOps == [c \in TwoCalls |-> IF c = c1 THEN AllOps ELSE SomeOps]

MCConfigs ==
  {SetBatchRequestConfig(ServerDefault("own", TRUE), Limit(3)),
   ServerDefault("foreign", TRUE),
   SetBatchRequestConfig(HttpOnly(ServerDefault("own", FALSE)), Disabled),
   WsOnly(ServerDefault("own", TRUE))}

Host(h, p) == [scheme |-> "", host |-> h, port |-> p]
MCUrl == [scheme |-> "http", host |-> "home", port |-> "", password |-> "secret"]
MCHeaders == [h \in {"accept"} |-> "any"]
MCAllowOnly == {[scheme |-> "http", host |-> "home", port |-> "80"], Host("home", "99")}
MCProxyPairs == <<<<"/health", "put">>, <<"/big", "big">>>>

Ask(verb, path, host, uri, body) ==
  [verb |-> verb, path |-> path, json |-> TRUE, upgrade |-> "no",
   host |-> host, uri |-> uri, body |-> body]
Empty == Body("none", <<>>, 0)
It(id, m, params) == [id |-> id, method |-> m, params |-> params,
                      fields |-> RequestFields(id, params)]
Bad(id) == [id |-> id, method |-> "", params |-> <<>>, fields |-> <<"jsonrpc", "id">>]
Broken == [kind |-> "broken", n |-> 0]
Twice(it) == [it EXCEPT !.fields = Append(@, "id")]
Single(it) == Body("one", <<it>>, 1 + Len(it.params))
Plain == Ask("POST", "/", Target, NoAuthority, Single(It(Id(7), "add", <<"[", "v", "]">>)))
Many(items) == [Plain EXCEPT !.body = Body("many", items, SizeOf(items))]

MCStrangeRequests ==
  {Plain,
   [Plain EXCEPT !.host = Host("away", "")],
   [Plain EXCEPT !.host = Host("home", "99"), !.uri = Host("home", "99")],
   [Plain EXCEPT !.host = Host("home", "98")],
   [Plain EXCEPT !.uri = Host("away", "")],
   [Plain EXCEPT !.host = Host("home", "bad")],
   [Plain EXCEPT !.json = FALSE],
   [Plain EXCEPT !.verb = "PUT", !.path = "/health"],
   [Plain EXCEPT !.verb = "GET", !.path = "/health", !.body = Empty],
   [Many(<<Bad(NullId)>>) EXCEPT !.verb = "GET", !.path = "/big"],
   [Plain EXCEPT !.verb = "GET", !.path = "/health", !.upgrade = "valid", !.body = Empty],
   [Plain EXCEPT !.verb = "GET", !.upgrade = "valid", !.body = Empty],
   [Plain EXCEPT !.verb = "GET", !.upgrade = "broken", !.body = Empty],
   [Plain EXCEPT !.body = Empty],
   [Plain EXCEPT !.body.lead = "other"],
   [Plain EXCEPT !.body.size = 20, !.body.first = 20],
   [Plain EXCEPT !.body.size = 40, !.body.first = 2],
   [Plain EXCEPT !.body.size = 20, !.body.first = 20, !.body.chunked = TRUE],
   [Plain EXCEPT !.body = Single(Bad(Broken))],
   [Plain EXCEPT !.body = Single(Bad(Id(7)))],
   [Plain EXCEPT !.body = Single(It(Id(7), "add", <<>>))],
   [Plain EXCEPT !.body = [Body("junk", <<>>, 3) EXCEPT !.lead = "["]],
   Many(<<>>), Many(<<It(Broken, "add", <<>>), Twice(It(Id(7), "add", <<>>))>>),
   Many(<<Bad(Id(7)), It(NoId, "add", <<>>), It(Id(8), "add", <<"[", "v", "]">>)>>),
   Many(<<Bad(NullId), Bad(Broken), Bad(NullId), Bad(NullId)>>)}

Rp(kind, n, err) == [id |-> [kind |-> kind, n |-> n], err |-> err, method |-> "", args |-> <<>>,
                     fits |-> TRUE, fields |-> ResponseFields(err)]
Rps == {Rp("number", n, "") : n \in 0 .. 2}
         \cup {Rp("number", 1, "Oops"), Rp("string", 1, ""), Rp("text", 0, ""),
               [Rp("number", 0, "") EXCEPT !.fits = FALSE],
               [Rp("number", 1, "") EXCEPT !.fields = <<"id", "result">>],
               [Rp("number", 1, "") EXCEPT !.fields = Append(@, "error")]}

MCReplies ==
  {Reply(200, Body("one", <<rp>>, 3)) : rp \in Rps} \cup
  {Reply(200, Body("many", <<a, b>>, 6)) : a \in {Rp("number", 0, ""), Rp("string", 1, "")},
                                          b \in Rps} \cup
  {Reply(200, Body("many", <<Rp("number", 1, ""), Rp("number", 0, "")>>, 6)), Text(500),
   Text(200), Reply(200, Body("one", <<Rp("number", 0, "")>>, 50))}
=============================================================================
