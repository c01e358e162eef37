---------------------------- MODULE MCRpcModule ----------------------------
(* A small instance of RpcModule: two modules, a server, and traits whose   *)
(* names and aliases are drawn from the same few names.                     *)
EXTENDS RpcGenerated

CONSTANTS m1, m2, s1, c1, c2

X == <<"x">>
Sub == <<"subscribe", "x">>
Unsub == <<"unsubscribe", "x">>
MCNames == {X, Sub, Unsub}

Flag(label) == [label |-> label, form |-> "flag"]
Arg(label, value) == [label |-> label, form |-> "value", value |-> value]
Group(label) == [label |-> label, form |-> "group", value |-> [g \in {"A", "B"} |-> {"Given"}]]
Opt(cond, arg) == IF cond THEN <<arg>> ELSE <<>>
Name(name) == Arg("name", [name |-> name, mapped |-> Absent])

\* Types over two parameters, in every place the visitors look into.
Path(ident, args) ==
  [kind |-> "path", qself |-> <<>>, leading |-> FALSE, segs |-> <<[ident |-> ident, args |-> args]>>]
A == ParamType("A")
B == ParamType("B")
Lifetime == [kind |-> "lifetime", of |-> <<>>]
RpcResult(ty) == Path("RpcResult", <<ty>>)
Types ==
  {A, Path("Vec", <<A>>), [kind |-> "tuple", of |-> <<A, Path("Vec", <<B>>)>>],
   [kind |-> "ref", of |-> <<[kind |-> "slice", of |-> <<B>>]>>],
   [kind |-> "dyn", of |-> <<Path("Fn", <<A, B>>)>>],
   [A EXCEPT !.leading = TRUE],
   [A EXCEPT !.segs = Append(@, [ident |-> "Hash", args |-> <<B>>])],
   [A EXCEPT !.qself = <<B>>],
   [kind |-> "macro", segs |-> <<[ident |-> "A", args |-> <<>>]>>]}

AParam(ty) == [pat |-> "ident", name |-> "p", args |-> <<>>, ty |-> ty]
Item(attrs, args, async) ==
  [kind |-> "fn", attrs |-> attrs, args |-> args, async |-> async, receiver |-> TRUE,
   params |-> <<AParam(Path("Vec", <<A>>))>>, returns |-> <<RpcResult(B)>>]
AMethod(name, aliases) ==
  Item({"method"}, <<Name(name)>> \o Opt(aliases # <<>>, Arg("aliases", aliases)), FALSE)
ASub(name, unsub) ==
  Item({"subscription"}, <<Name(name), Arg("item", B)>>
                          \o Opt(unsub # Absent, Arg("unsubscribe", unsub)), TRUE)
With(item, arg) == [item EXCEPT !.args = Append(@, arg)]
Trait(ns, items) ==
  [args |-> <<Flag("client"), Flag("server")>> \o Opt(ns # Absent, Arg("namespace", ns)),
   items |-> items, generics |-> {"A", "B"}, where |-> [g \in {"A", "B"} |-> {}],
   cargo |-> [c \in {"jsonrpsee", "http-client", "ws-client", "wasm-client", "server"} |->
                IF c = "jsonrpsee" THEN "name" ELSE "missing"]]
Alone(item) == Trait(Absent, <<item>>)
TraitWith(args) == [Alone(AMethod(X, <<>>)) EXCEPT !.args = args]

\* One method and one subscription over a given type.
Typed(ty, ret) ==
  Trait(Absent, <<[With(AMethod(X, <<>>), Flag("with_extensions")) EXCEPT
                   !.params = <<AParam(ty), AParam(B)>>, !.returns = ret],
                With([ASub(Sub, Absent) EXCEPT !.args[2].value = ty], Flag("with_extensions"))>>)

\* Traits that each break one rule of the attributes.
Broken ==
  {Trait(Absent, <<>>), TraitWith(<<>>),
   TraitWith(<<Flag("server"), Flag("server")>>),
   TraitWith(<<Flag("server"), Flag("clients")>>),
   TraitWith(<<Arg("server", "x")>>),
   TraitWith(<<Flag("server"), Group("client_bounds")>>),
   TraitWith(<<Flag("client"), Group("server_bounds")>>),
   Alone([AMethod(X, <<>>) EXCEPT !.kind = "type"]),
   Alone([AMethod(X, <<>>) EXCEPT !.receiver = FALSE]),
   Alone([AMethod(X, <<>>) EXCEPT !.attrs = {}]),
   Alone([AMethod(X, <<>>) EXCEPT !.attrs = {"method", "subscription"}]),
   Alone([AMethod(X, <<>>) EXCEPT !.args = <<>>]),
   Alone([AMethod(X, <<>>) EXCEPT !.params[1].pat = "_"]),
   Alone([AMethod(X, <<>>) EXCEPT !.params[1].args = <<Flag("rename")>>]),
   Alone([With(AMethod(X, <<>>), Flag("blocking")) EXCEPT !.async = TRUE]),
   Alone(With(AMethod(X, <<>>), Arg("param_kind", "list"))),
   Alone([With(AMethod(X, <<>>), Arg("param_kind", "object")) EXCEPT !.params = <<>>]),
   Alone(With(AMethod(X, <<>>), Arg("item", B))),
   Alone([AMethod(X, <<>>) EXCEPT !.args[1].value.mapped = Sub]),
   Alone([ASub(Sub, Absent) EXCEPT !.args = <<Name(Sub)>>]),
   Alone([AMethod(X, <<>>) EXCEPT !.returns = <<Lifetime>>]),
   Alone([AMethod(X, <<>>) EXCEPT !.returns = <<A>>]),
   Alone([AMethod(X, <<>>) EXCEPT !.returns = <<Path("RpcResult", <<A, B>>)>>]),
   [Alone(AMethod(X, <<>>)) EXCEPT !.cargo["jsonrpsee"] = "itself"],
   [Alone(AMethod(X, <<>>)) EXCEPT !.cargo["jsonrpsee"] = "missing", !.cargo["server"] = "name"],
   Alone(With(ASub(Sub, Absent), Flag("blocking")))}

\* A method and a subscription under every choice of their names, traits that
\* use the other arguments, and the broken ones.
MCDescriptions ==
  {Trait(ns, <<AMethod(n, a), ASub(s, u)>>) :
     ns \in {Absent, "subscribe"}, n \in {X, Sub}, a \in {<<>>, <<Sub>>, <<Unsub>>},
     s \in {X, Sub}, u \in {Absent, X}}
  \cup {Alone(With(AMethod(X, <<Unsub>>), Flag("blocking"))),
        Alone([ASub(Sub, Absent) EXCEPT !.args[1].value.mapped = Sub]),
        Alone(With(ASub(Sub, Absent), Arg("unsubscribe_aliases", <<X>>))),
        [Alone(With(AMethod(X, <<Unsub>>), Flag("blocking")))
           EXCEPT !.args = <<Flag("client"), Flag("server"), Group("client_bounds"),
                             Group("server_bounds")>>]}
  \cup {[Alone(With(AMethod(X, <<Unsub>>), Flag("blocking"))) EXCEPT !.cargo = [c \in DOMAIN @ |->
           IF c \in {"ws-client", "server"} THEN "name" ELSE "missing"]]}
  \cup {Typed(ty, <<Path("Result", <<ty, A>>)>>) : ty \in Types}
  \cup {Typed(B, ret) : ret \in {<<>>, <<Path("ResponsePayload", <<Lifetime, A>>)>>}}
  \cup Broken
=============================================================================
