---------------------------- MODULE RpcGenerated ----------------------------
(* RpcModule with the code the rpc attribute generates: what into_rpc        *)
(* registers, and whether the client and the server of a trait fit.          *)
EXTENDS RpcModule, RpcMacro

CONSTANT Descriptions  \* the traits the rpc attribute is put on

\* What the rpc attribute renders for the server: nothing where the trait does
\* not compile, or the code of into_rpc.
Rendered ==
  {IF Compiles(d) THEN Registrations(d) ELSE None :
     d \in {e \in Descriptions : Compiles(e) => NeedsServer(e)}}

\* What a sequence of registrations leaves; handle_register_result ignores
\* the errors, which a debug build turns into a panic.
RegisterAll(list, from) ==
  LET after[i \in 0..Len(list)] ==
        IF i = 0
          THEN [table |-> Empty, failed |-> FALSE, subs |-> from]
          ELSE LET before == after[i - 1]
                   r == Register(before.table, list[i], before.subs + 1)
               IN  [table |-> r.table,
                    failed |-> before.failed \/ r.result # "Ok",
                    subs |-> IF list[i].op = "subscription" /\ r.result = "Ok"
                               THEN before.subs + 1
                               ELSE before.subs]
  IN  after[Len(list)]

-----------------------------------------------------------------------------
\* One request of a generated client finds its method in the table.
Serves(t, q) ==
  /\ q.name \in DOMAIN t
  /\ IF q.call = "subscribe"
       THEN /\ t[q.name].kind = "Subscription"
            /\ q.unsubscribe \in DOMAIN t
            /\ t[q.unsubscribe] = [kind |-> "Unsubscription", subs |-> t[q.name].subs]
       ELSE t[q.name].kind \in {"Sync", "Async", "Blocking"}

\* What one side puts into JSON has bounds to be written there and, on the other
\* side, to be read, unless the user wrote the bounds of that side.
Crosses(d, types, from, to) ==
  \A ty \in types, g \in d.generics :
    Uses(ty, g) => "Serialize" \in from[g] /\ "DeserializeOwned" \in to[g]
Derived(d) == Given(d, "client_bounds") = <<>> /\ Given(d, "server_bounds") = <<>>

\* The client and the server of one trait.
Fit(d) ==
  LET items == {d.items[i] : i \in DOMAIN d.items} IN
  /\ \A it \in items : CallArguments(it) = ServerSignature(it)
  /\ \A q \in ClientRequests(d) : Serves(RegisterAll(Registrations(d), 0).table, q)
  /\ Derived(d) =>
       /\ Crosses(d, UNION {{it.params[i].ty : i \in DOMAIN it.params} : it \in items},
                  ClientWhere(d), ServerWhere(d))
       /\ Crosses(d, SubTypes(d) \cup UNION {{it.returns[i] : i \in DOMAIN it.returns}
                                           : it \in items},
                  ServerWhere(d), ClientWhere(d))
Misfits == {d \in Descriptions : Compiles(d) /\ NeedsServer(d) /\ NeedsClient(d) /\ ~Fit(d)}
\* The two halves that are generated from a trait that compiles fit: into_rpc
\* never reaches panic_fail_register (handle_register_result) and calls the
\* functions of the server trait with their arguments in place, what the client
\* requests is registered with the right kind and over one Subscribers map
\* (render_method, render_sub), and the parameters, results and items that use
\* a type parameter can be written on one side and read on the other
\* (generate_where_clause).
GeneratedSidesAgree == result # "Panic" /\ Misfits = {}
=============================================================================
