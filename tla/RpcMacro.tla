------------------------------ MODULE RpcMacro ------------------------------
(* What the rpc attribute makes of a trait: which descriptions compile, and *)
(* the registrations the generated into_rpc performs, in their order.  A    *)
(* name is a sequence of atoms, so that a namespace can be put before it    *)
(* and an alias can spell out a namespaced name.                            *)
EXTENDS RpcTypes, FiniteSets
LOCAL INSTANCE SequencesExt

CONSTANT Absent  \* an argument that is left out

-----------------------------------------------------------------------------
\* The arguments of an attribute: a sequence of labels, each with what follows
\* it, as a flag, "= value" or a parenthesised group.

\* retain: no argument that is not allowed, and none twice.
Retain(args, allowed) ==
  /\ \A i \in DOMAIN args : args[i].label \in allowed
  /\ \A i, j \in DOMAIN args : args[i].label = args[j].label => i = j

\* Argument::flag, value and group: the form each label is parsed as.
FormOf(label) ==
  CASE label \in {"client", "server", "blocking", "with_extensions"} -> "flag"
    [] label \in {"client_bounds", "server_bounds"} -> "group"
    [] OTHER -> "value"

\* optional: the argument's value, Absent when it is left out.
Has(args, label) == \E i \in DOMAIN args : args[i].label = label
Value(args, label) ==
  IF Has(args, label)
    THEN args[CHOOSE i \in DOMAIN args : args[i].label = label].value
    ELSE Absent

\* The attribute parses: what it may hold, and what it must.
Parses(args, allowed, required) ==
  /\ Retain(args, allowed)
  /\ \A i \in DOMAIN args : args[i].form = FormOf(args[i].label)
  /\ \A label \in required : Has(args, label)

\* parse_param_kind
ParamKind(args) == IF Has(args, "param_kind") THEN Value(args, "param_kind") ELSE "array"

\* parse_aliases
AliasList(args, label) == IF Has(args, label) THEN Value(args, label) ELSE <<>>

\* NameMapping: the name of a subscription, and of its notifications after =>.
NameOf(item) == Value(item.args, "name").name
NotifNameOverride(item) == Value(item.args, "name").mapped

-----------------------------------------------------------------------------
\* The descriptions of methods and subscriptions.

NeedsServer(d) == Has(d.args, "server")
NeedsClient(d) == Has(d.args, "client")

\* rpc_identifier: the namespace and its separator before the name.
RpcIdentifier(d, name) ==
  IF Has(d.args, "namespace") THEN <<Value(d.args, "namespace")>> \o name ELSE name

\* build_unsubscribe_method: "subscribe" is replaced, and only at the start.
DerivesUnsubscribe(name) == name # <<>> /\ Head(name) = "subscribe"
Unsubscribe(item) ==
  IF Has(item.args, "unsubscribe") THEN Value(item.args, "unsubscribe")
                                   ELSE <<"unsubscribe">> \o Tail(NameOf(item))

IsMethod(item) == "method" \in item.attrs
IsSubscription(item) == "subscription" \in item.attrs
MethodsOf(d) == SelectSeq(d.items, IsMethod)
SubscriptionsOf(d) == SelectSeq(d.items, IsSubscription)

\* RpcFnArg::from_arg_attrs: a parameter is an identifier, possibly renamed.
ParamCompiles(param) ==
  param.pat = "ident" /\ Parses(param.args, {"rename"}, {})

\* What the two from_item share.
CommonCompiles(item) ==
  /\ ParamKind(item.args) \in {"array", "map", "object"}
  /\ ParamKind(item.args) = "object" => Len(item.params) = 1
  /\ \A i \in DOMAIN item.params : ParamCompiles(item.params[i])

\* RpcMethod::from_item
MethodCompiles(item) ==
  /\ Parses(item.args, {"aliases", "blocking", "name", "param_kind", "with_extensions"}, {"name"})
  /\ NotifNameOverride(item) = Absent
  /\ Has(item.args, "blocking") => ~item.async
  /\ CommonCompiles(item)

\* RpcSubscription::from_item
SubscriptionCompiles(item) ==
  /\ Parses(item.args, {"aliases", "item", "name", "param_kind", "unsubscribe",
                        "unsubscribe_aliases", "with_extensions"}, {"item", "name"})
  /\ Has(item.args, "unsubscribe") \/ DerivesUnsubscribe(NameOf(item))
  /\ CommonCompiles(item)

\* One entry of the trait: a function with a receiver and one of the attributes.
ItemCompiles(item) ==
  /\ item.kind = "fn" /\ item.receiver
  /\ Cardinality(item.attrs) = 1
  /\ IsMethod(item) => MethodCompiles(item)
  /\ IsSubscription(item) => SubscriptionCompiles(item)

\* Mutant: aliases are not checked.
CheckedNamesButAliases(d) ==
  LET ms == MethodsOf(d)
      ss == SubscriptionsOf(d)
  IN  [i \in DOMAIN ms |-> RpcIdentifier(d, NameOf(ms[i]))]
      \o FlattenSeq([i \in DOMAIN ss |->
           <<RpcIdentifier(d, NameOf(ss[i])), RpcIdentifier(d, Unsubscribe(ss[i]))>>])

\* The names render_into_rpc passes to check_name.
Optional(d, name) == IF name = Absent THEN <<>> ELSE <<RpcIdentifier(d, name)>>
Aliases(items) == FlattenSeq([i \in DOMAIN items |-> AliasList(items[i].args, "aliases")])
UnsubscribeAliases(items) ==
  FlattenSeq([i \in DOMAIN items |-> AliasList(items[i].args, "unsubscribe_aliases")])
CheckedNames(d) ==
  LET ms == MethodsOf(d)
      ss == SubscriptionsOf(d)
  IN  [i \in DOMAIN ms |-> RpcIdentifier(d, NameOf(ms[i]))]
      \o FlattenSeq([i \in DOMAIN ss |->
           <<RpcIdentifier(d, NameOf(ss[i])), RpcIdentifier(d, Unsubscribe(ss[i]))>>
             \o Optional(d, NotifNameOverride(ss[i]))])
      \o Aliases(ms) \o Aliases(ss) \o UnsubscribeAliases(ss)

\* find_jsonrpsee_crate: "jsonrpsee", or one of the crates it is made of, is a
\* dependency; the macro cannot be used inside these crates.
FindCrate(cargo, names) ==
  \/ cargo["jsonrpsee"] = "name"
  \/ cargo["jsonrpsee"] = "missing" /\ \E n \in names : cargo[n] = "name"

\* RpcDescription::from_item and render: the trait compiles.  Names are only
\* checked when a server is rendered.
Compiles(d) ==
  /\ Parses(d.args, {"client", "server", "namespace", "namespace_separator",
                     "client_bounds", "server_bounds"}, {})
  /\ NeedsServer(d) \/ NeedsClient(d)
  /\ Has(d.args, "client_bounds") => NeedsClient(d)
  /\ Has(d.args, "server_bounds") => NeedsServer(d)
  /\ NeedsClient(d) => FindCrate(d.cargo, {"http-client", "ws-client", "wasm-client"})
  /\ NeedsServer(d) => FindCrate(d.cargo, {"server"})
  /\ d.items # <<>>
  /\ \A i \in DOMAIN d.items : ItemCompiles(d.items[i])
  /\ NeedsServer(d) => \A i, j \in DOMAIN CheckedNames(d) :
                   CheckedNames(d)[i] = CheckedNames(d)[j] => i = j
  /\ NeedsClient(d) => \A i \in DOMAIN MethodsOf(d) :
                   LET ret == MethodsOf(d)[i].returns IN ret # <<>> => ReturnCompiles(ret[1])

\* The register_* calls of into_rpc, in their order.
Method(d, item) ==
  [op |-> "method", name |-> RpcIdentifier(d, NameOf(item)),
   kind |-> IF item.async THEN "Async"
            ELSE IF Has(item.args, "blocking") THEN "Blocking" ELSE "Sync"]
Subscription(d, item) ==
  [op |-> "subscription", name |-> RpcIdentifier(d, NameOf(item)),
   unsubscribe |-> RpcIdentifier(d, Unsubscribe(item))]
AliasesOf(names, existing) ==
  [i \in DOMAIN names |-> [op |-> "alias", name |-> names[i], existing |-> existing]]
Registrations(d) ==
  LET ms == MethodsOf(d)
      ss == SubscriptionsOf(d)
  IN  [i \in DOMAIN ms |-> Method(d, ms[i])]
      \o [i \in DOMAIN ss |-> Subscription(d, ss[i])]
      \o FlattenSeq([i \in DOMAIN ms |->
           AliasesOf(AliasList(ms[i].args, "aliases"), RpcIdentifier(d, NameOf(ms[i])))])
      \o FlattenSeq([i \in DOMAIN ss |->
           AliasesOf(AliasList(ss[i].args, "aliases"), RpcIdentifier(d, NameOf(ss[i])))
           \o AliasesOf(AliasList(ss[i].args, "unsubscribe_aliases"),
                        RpcIdentifier(d, Unsubscribe(ss[i])))])

-----------------------------------------------------------------------------
\* The functions of the server trait and how into_rpc calls them, and the
\* requests of the generated client.

\* render_methods: what is put into the signature the user wrote.
ParamNames(item) == [i \in DOMAIN item.params |-> item.params[i].name]
ServerSignature(item) ==
  LET written == <<"self">> \o ParamNames(item)
      withSink == IF IsSubscription(item) THEN InsertAt(written, 2, "sink") ELSE written
  IN  IF Has(item.args, "with_extensions")
        THEN InsertAt(withSink, IF IsSubscription(item) THEN 3 ELSE 2, "ext")
        ELSE withSink

\* render_into_rpc: the arguments of that function where it is called.
CallArguments(item) ==
  <<"self">> \o (IF IsSubscription(item) THEN <<"sink">> ELSE <<>>)
             \o (IF Has(item.args, "with_extensions") THEN <<"ext">> ELSE <<>>)
             \o ParamNames(item)

\* render_client with render_method and render_sub.
RenderMethod(d, item) ==
  [call |-> IF item.returns = <<>> THEN "notification" ELSE "request",
   name |-> RpcIdentifier(d, NameOf(item))]

\* Mutant: the client unsubscribes with the name as it is written.
RenderSubWithoutNamespace(d, item) ==
  [call |-> "subscribe", name |-> RpcIdentifier(d, NameOf(item)),
   unsubscribe |-> Unsubscribe(item)]

RenderSub(d, item) ==
  [call |-> "subscribe", name |-> RpcIdentifier(d, NameOf(item)),
   unsubscribe |-> RpcIdentifier(d, Unsubscribe(item))]
ClientRequests(d) ==
  {RenderMethod(d, MethodsOf(d)[i]) : i \in DOMAIN MethodsOf(d)}
  \cup {RenderSub(d, SubscriptionsOf(d)[i]) : i \in DOMAIN SubscriptionsOf(d)}

\* The bounds on the type parameters of the two generated traits.
SubTypes(d) == {Value(SubscriptionsOf(d)[i].args, "item") : i \in DOMAIN SubscriptionsOf(d)}
SubParams(d) == UNION {VisitType(ty, d.generics) : ty \in SubTypes(d)}
Given(d, label) == IF Has(d.args, label) THEN <<Value(d.args, label)>> ELSE <<>>
ClientWhere(d) ==
  WhereClause(d, Given(d, "client_bounds"), [g \in d.generics |-> ClientBounds(d, SubParams(d), g)])
ServerWhere(d) ==
  WhereClause(d, Given(d, "server_bounds"), [g \in d.generics |-> ServerBounds(d, SubParams(d), g)])
=============================================================================
