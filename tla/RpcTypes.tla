------------------------------ MODULE RpcTypes ------------------------------
(* The types in a trait under the rpc attribute, as trees: where its type   *)
(* parameters are used, and what is asked of them in the generated code.    *)
(*   a path         qself (none or one type), whether it starts with ::,    *)
(*                  and segments, each an identifier with type arguments    *)
(*   a macro call   the path of the macro                                   *)
(*   anything else  the types (or, in dyn and impl, the bounds) it holds    *)
EXTENDS Naturals, Sequences

\* The types directly in a type.
Inner(ty) ==
  CASE ty.kind = "path" ->
         {ty.qself[i] : i \in DOMAIN ty.qself}
         \cup UNION {{ty.segs[i].args[j] : j \in DOMAIN ty.segs[i].args} : i \in DOMAIN ty.segs}
    [] ty.kind = "macro" -> {}
    [] OTHER -> {ty.of[i] : i \in DOMAIN ty.of}

\* FindSubscriptionParams::visit_path: a parameter is a path of one segment.
VisitPath(ty, generics) ==
  IF ty.kind = "path" /\ ~ty.leading /\ Len(ty.segs) = 1
    THEN {ty.segs[1].ident} \cap generics
    ELSE {}

\* FindSubscriptionParams::visit_type: the parameters anywhere in a type.
RECURSIVE VisitType(_, _)
VisitType(ty, generics) ==
  VisitPath(ty, generics) \cup UNION {VisitType(t, generics) : t \in Inner(ty)}

\* The identifiers syn's own visitor meets: every segment of every path.
OwnIdents(ty) ==
  CASE ty.kind \in {"path", "macro"} -> {ty.segs[i].ident : i \in DOMAIN ty.segs}
    [] OTHER -> {}
RECURSIVE Idents(_)
Idents(ty) == OwnIdents(ty) \cup UNION {Idents(t) : t \in Inner(ty)}

\* FindAllParams: the parameters met in the arguments and the results of the
\* functions (visit_fn_arg also meets the name of the argument).
InputParams(d) ==
  d.generics \cap UNION {UNION {{it.params[i].name} \cup Idents(it.params[i].ty)
                                : i \in DOMAIN it.params}
                         : it \in {d.items[k] : k \in DOMAIN d.items}}
RetParams(d) ==
  d.generics \cap UNION {UNION {Idents(it.returns[i]) : i \in DOMAIN it.returns}
                         : it \in {d.items[k] : k \in DOMAIN d.items}}

\* generate_where_clause, for the sides whose bounds are not given: what is
\* asked of a type parameter.  sub holds the parameters of the subscriptions.
ClientBounds(d, sub, g) ==
  {"Send", "Sync", "static"}
  \cup (IF g \in InputParams(d) THEN {"Serialize"} ELSE {})
  \cup (IF g \in RetParams(d) \cup sub THEN {"DeserializeOwned"} ELSE {})
ServerBounds(d, sub, g) ==
  {"Send", "Sync", "static"}
  \cup (IF g \in InputParams(d) THEN {"DeserializeOwned"} ELSE {})
  \cup (IF g \in RetParams(d) THEN {"Clone"} ELSE {})
  \cup (IF g \in RetParams(d) \cup sub THEN {"Serialize"} ELSE {})

\* generate_where_clause: bounds that are given take the place of the derived
\* ones; those of the trait itself hold in both cases.
WhereClause(d, given, derived) ==
  [g \in d.generics |->
     d.where[g] \cup (IF given # <<>> THEN given[1][g] ELSE derived[g])]

\* return_result_type: what the client makes of the type of a result.
Arity == [Result |-> 2, RpcResult |-> 1, ResponsePayload |-> 2]
ReturnCompiles(ty) ==
  /\ ty.kind = "path"
  /\ LET last == ty.segs[Len(ty.segs)]
     IN  last.ident \in DOMAIN Arity /\ Len(last.args) = Arity[last.ident]

-----------------------------------------------------------------------------
\* Reference: a type parameter is used where the type that is its name stands.
RECURSIVE Subterms(_)
Subterms(ty) == {ty} \cup UNION {Subterms(t) : t \in Inner(ty)}
ParamType(g) ==
  [kind |-> "path", qself |-> <<>>, leading |-> FALSE, segs |-> <<[ident |-> g, args |-> <<>>]>>]
Uses(ty, g) == ParamType(g) \in Subterms(ty)
=============================================================================
