----------------------------- MODULE RpcModule -----------------------------
(* RpcModule and Methods: registration by hand and by generated code,       *)
(* aliases, removal, merging, the clone-on-write table a running server     *)
(* shares with the module it was started from, and the calls made on        *)
(* Methods directly, without a server.                                      *)
EXTENDS Naturals, Sequences, FiniteSets

CONSTANTS
  Names,         \* method names
  MethodKinds,   \* the kinds of method registered by hand
  Modules,       \* handles the user registers through
  Servers,       \* handles of running servers
  MaxSubs,       \* bound: Subscribers maps that are ever created
  MaxOps,        \* bound: operations on modules and calls
  Codes,         \* what the rpc attribute generates: the registrations of an
                 \* into_rpc, or None for a trait that does not compile
  Calls,         \* direct calls
  None

VARIABLES
  heap,     \* the callbacks in each allocation
  cell,     \* the allocation each handle points to, or None
  made,     \* Subscribers maps created so far
  ops,      \* operations on modules and calls made
  result,   \* the result of the last operation on a module
  removed,  \* history: maps one of whose two methods was removed
  into,     \* the module an into_rpc is filling, or None
  code,     \* the registrations it has left
  call,     \* the state of each direct call
  entries   \* the subscriptions in each Subscribers map

intoVars == <<into, code>>
tableVars == <<heap, cell, made, result, removed, intoVars>>
callVars == <<call, entries>>
vars == <<tableVars, callVars, ops>>

Handles == Modules \cup Servers
Subs == 1..MaxSubs
Cells == 1..Cardinality(Handles)  \* allocations an Arc may point to
Errors == {"AlreadyRegistered", "SubscriptionNameConflict", "MethodNotFound", "CompileError"}

\* The server traits that compile, and the ones that do not.
Compiled == Codes \ {None}
Uncompiled == Codes \cap {None}

\* A handle is of a module or of a server; only a subscription has an
\* unsubscribe method, by hand and in generated code.
Callable == {"Sync", "Async", "Blocking"}
ASSUME RpcModuleAssumption ==
  /\ IsFiniteSet(Modules) /\ IsFiniteSet(Servers) /\ Modules \cap Servers = {}
  /\ MaxSubs \in Nat
  /\ None \notin Handles /\ None \notin Cells
  /\ None \notin {"True", "Subscribed"}
  /\ MethodKinds \subseteq Callable
  /\ \A list \in Compiled :
       /\ list \in Seq({list[i] : i \in DOMAIN list})
       /\ \A i \in DOMAIN list :
            /\ list[i].op \in {"method", "subscription", "alias"}
            /\ list[i].op = "method" => list[i].kind \in Callable

Empty == [n \in {} |-> None]
Table(h) == heap[cell[h]]
Insert(t, name, callback) ==
  [n \in DOMAIN t \cup {name} |-> IF n = name THEN callback ELSE t[n]]

-----------------------------------------------------------------------------
\* Registration, as a function of the table.

Ok(t) == [result |-> "Ok", table |-> t]
Err(t, e) == [result |-> e, table |-> t]

\* verify_and_insert
RegisterMethod(t, op) ==
  IF op.name \in DOMAIN t
    THEN Err(t, "AlreadyRegistered")
    ELSE Ok(Insert(t, op.name, [kind |-> op.kind, subs |-> 0]))

\* Mutant: the unsubscribe method is inserted before the name of the
\* subscription is verified.
RegisterUnsubscribeFirst(t, op, subs) ==
  IF op.name = op.unsubscribe
    THEN Err(t, "SubscriptionNameConflict")
    ELSE IF op.unsubscribe \in DOMAIN t
      THEN Err(t, "AlreadyRegistered")
      ELSE LET u == Insert(t, op.unsubscribe, [kind |-> "Unsubscription", subs |-> subs])
           IN  IF op.name \in DOMAIN t
                 THEN Err(u, "AlreadyRegistered")
                 ELSE Ok(Insert(u, op.name, [kind |-> "Subscription", subs |-> subs]))

\* register_subscription(_raw) with verify_and_register_unsubscribe: both names
\* are verified, then the two callbacks are inserted with one Subscribers map.
RegisterSubscription(t, op, subs) ==
  IF op.name = op.unsubscribe
    THEN Err(t, "SubscriptionNameConflict")
    ELSE IF {op.name, op.unsubscribe} \cap DOMAIN t # {}
      THEN Err(t, "AlreadyRegistered")
      ELSE Ok(Insert(Insert(t, op.unsubscribe, [kind |-> "Unsubscription", subs |-> subs]),
                     op.name, [kind |-> "Subscription", subs |-> subs]))

\* register_alias: the callback is cloned, its Subscribers map is shared.
RegisterAlias(t, op) ==
  IF op.name \in DOMAIN t
    THEN Err(t, "AlreadyRegistered")
    ELSE IF op.existing \notin DOMAIN t
      THEN Err(t, "MethodNotFound")
      ELSE Ok(Insert(t, op.name, t[op.existing]))

Register(t, op, subs) ==
  CASE op.op = "method" -> RegisterMethod(t, op)
    [] op.op = "subscription" -> RegisterSubscription(t, op, subs)
    [] op.op = "alias" -> RegisterAlias(t, op)

-----------------------------------------------------------------------------
\* Handles and the tables they share.

Init ==
  /\ heap = [c \in Cells |-> Empty]
  /\ cell = [h \in Handles |-> None]
  /\ made = 0 /\ ops = 0 /\ result = None /\ removed = {}
  /\ into = None /\ code = <<>>
  /\ call = [c \in Calls |-> [caller |-> "idle", handler |-> "none", subs |-> 0,
                              answer |-> None, of |-> None]]
  /\ entries = [r \in Subs |-> {}]

\* The handles point to newCell; an allocation nobody points to is freed.
Point(newCell, newHeap) ==
  /\ cell' = newCell
  /\ heap' = [c \in Cells |-> IF \E h \in Handles : newCell[h] = c THEN newHeap[c] ELSE Empty]

FreeCell == CHOOSE c \in Cells : \A h \in Handles : cell[h] # c

\* Mutant: the table is written where it is.
WriteInPlace(h, t) == Point(cell, [heap EXCEPT ![cell[h]] = t])

\* Arc::make_mut: a table that another handle shares is copied first.
Write(h, t) ==
  IF \E g \in Handles \ {h} : cell[g] = cell[h]
    THEN Point([cell EXCEPT ![h] = FreeCell], [heap EXCEPT ![FreeCell] = t])
    ELSE Point(cell, [heap EXCEPT ![cell[h]] = t])

\* RpcModule::new
New(m) ==
  /\ cell[m] = None
  /\ Point([cell EXCEPT ![m] = FreeCell], heap)
  /\ result' = "Ok"
  /\ UNCHANGED <<made, removed, intoVars, callVars>>

\* A register_* method called by the user.
RegisterOne(m, op) ==
  /\ cell[m] # None
  /\ op.op = "subscription" => made < MaxSubs
  /\ LET r == Register(Table(m), op, made + 1) IN
       /\ Write(m, r.table)
       /\ result' = r.result
       /\ made' = IF op.op = "subscription" /\ r.result = "Ok" THEN made + 1 ELSE made
  /\ UNCHANGED <<removed, intoVars, callVars>>

Ops ==
  [op : {"method"}, name : Names, kind : MethodKinds]
  \cup [op : {"subscription"}, name : Names, unsubscribe : Names]
  \cup [op : {"alias"}, name : Names, existing : Names]

\* remove_method removes one name; the other half of a subscription stays.
RemoveMethod(m, name) ==
  /\ cell[m] # None
  /\ Write(m, [n \in DOMAIN Table(m) \ {name} |-> Table(m)[n]])
  /\ result' = "Ok"
  /\ removed' = IF name \in DOMAIN Table(m) THEN removed \cup {Table(m)[name].subs}
                                            ELSE removed
  /\ UNCHANGED <<made, intoVars, callVars>>

\* Mutant: callbacks are moved up to the first name that is taken.
MergeUntilTaken(m, other) ==
  /\ m # other /\ cell[m] # None /\ cell[other] # None
  /\ LET mine == Table(m)
         theirs == Table(other)
         left == [cell EXCEPT ![other] = None]
     IN /\ Point(left, [heap EXCEPT ![cell[m]] =
                          [n \in DOMAIN mine \cup DOMAIN theirs |->
                             IF n \in DOMAIN mine THEN mine[n] ELSE theirs[n]]])
        /\ result' = IF DOMAIN mine \cap DOMAIN theirs # {} THEN "AlreadyRegistered" ELSE "Ok"
  /\ UNCHANGED <<made, removed, intoVars, callVars>>

\* merge verifies every name of other before it moves the first callback.
Merge(m, other) ==
  /\ m # other /\ cell[m] # None /\ cell[other] # None
  /\ LET mine == Table(m)
         theirs == Table(other)
         left == [cell EXCEPT ![other] = None]
         target == IF \E g \in Handles \ {m} : cell[g] = cell[m] THEN FreeCell ELSE cell[m]
         both == [n \in DOMAIN mine \cup DOMAIN theirs |->
                    IF n \in DOMAIN theirs THEN theirs[n] ELSE mine[n]]
     IN \/ /\ DOMAIN mine \cap DOMAIN theirs # {}
           /\ Point(left, heap)
           /\ result' = "AlreadyRegistered"
        \/ /\ DOMAIN mine \cap DOMAIN theirs = {}
           /\ Point([left EXCEPT ![m] = target], [heap EXCEPT ![target] = both])
           /\ result' = "Ok"
  /\ UNCHANGED <<made, removed, intoVars, callVars>>

\* A server is started with a clone of the module.
Start(m, s) ==
  /\ cell[m] # None /\ cell[s] = None
  /\ Point([cell EXCEPT ![s] = cell[m]], heap)
  /\ result' = "Ok"
  /\ UNCHANGED <<made, removed, intoVars, callVars>>

\* The into_rpc of a generated server trait creates a module.
IntoRpc(m, list) ==
  /\ cell[m] = None /\ into = None
  /\ Point([cell EXCEPT ![m] = FreeCell], heap)
  /\ into' = (IF list = <<>> THEN None ELSE m) /\ code' = list
  /\ result' = "Ok"
  /\ UNCHANGED <<made, removed, callVars>>

DoesNotCompile ==
  /\ result' = "CompileError"
  /\ UNCHANGED <<heap, cell, made, removed, intoVars, callVars>>

\* Its next registration; handle_register_result ignores an error, which a
\* debug build turns into a panic.  Nobody else has the module before into_rpc
\* returns it, after the last one.
Generated ==
  /\ into # None
  /\ Head(code).op = "subscription" => made < MaxSubs
  /\ LET r == Register(Table(into), Head(code), made + 1) IN
       /\ Write(into, r.table)
       /\ result' = IF r.result = "Ok" THEN "Ok" ELSE "Panic"
       /\ made' = IF Head(code).op = "subscription" /\ r.result = "Ok" THEN made + 1 ELSE made
  /\ code' = Tail(code)
  /\ into' = IF code' = <<>> THEN None ELSE into
  /\ UNCHANGED <<removed, callVars>>

-----------------------------------------------------------------------------
\* Calls on Methods without a server: call, subscribe and raw_json_request.

Answer(c, a) == call' = [call EXCEPT ![c].caller = "answered", ![c].answer = a]

\* Mutant: unsubscribing finds the subscription and leaves it in the map.
InvokeKeepsEntry(c, h, name) ==
  /\ call[c].caller = "idle" /\ cell[h] # None /\ name \in DOMAIN Table(h)
  /\ LET cb == Table(h)[name] IN
       \/ /\ cb.kind = "Subscription"
          /\ call' = [call EXCEPT ![c].caller = "waiting", ![c].handler = "pending",
                                 ![c].subs = cb.subs]
       \/ /\ cb.kind = "Unsubscription"
          /\ \E s \in Calls \ {c} :
               /\ call[s].answer = "Subscribed"
               /\ call' = [call EXCEPT ![c].caller = "answered", ![c].subs = cb.subs,
                            ![c].of = s,
                                  ![c].answer = IF s \in entries[cb.subs] THEN "True" ELSE "False"]
  /\ UNCHANGED <<tableVars, entries>>

\* inner_call looks the method up and runs its callback up to the first await.
\* An unsubscribe call names the subscription of another call.
Invoke(c, h, name) ==
  /\ call[c].caller = "idle" /\ cell[h] # None
  /\ \/ name \notin DOMAIN Table(h) /\ Answer(c, "MethodNotFound") /\ UNCHANGED entries
     \/ /\ name \in DOMAIN Table(h)
        /\ LET cb == Table(h)[name] IN
             \/ cb.kind = "Sync" /\ Answer(c, "Ok") /\ UNCHANGED entries
             \/ /\ cb.kind \in {"Async", "Blocking"}
                /\ call' = [call EXCEPT ![c].caller = "waiting", ![c].handler = cb.kind]
                /\ UNCHANGED entries
             \/ /\ cb.kind = "Subscription"
                /\ call' = [call EXCEPT ![c].caller = "waiting", ![c].handler = "pending",
                                       ![c].subs = cb.subs]
                /\ UNCHANGED entries
             \/ /\ cb.kind = "Unsubscription"
                /\ \E s \in Calls \ {c} :
                     /\ call[s].answer = "Subscribed"
                     /\ call' = [call EXCEPT ![c].caller = "answered", ![c].subs = cb.subs,
                                  ![c].of = s,
                                  ![c].answer = IF s \in entries[cb.subs] THEN "True" ELSE "False"]
                     /\ entries' = [entries EXCEPT ![cb.subs] = @ \ {s}]
  /\ UNCHANGED tableVars

\* The future of an async or a blocking method ends; a blocking one may panic,
\* which is answered with an error that has no id.
Finish(c) ==
  /\ call[c].caller = "waiting" /\ call[c].handler \in {"Async", "Blocking"}
  /\ \/ Answer(c, "Ok")
     \/ call[c].handler = "Blocking" /\ Answer(c, "InternalErrorWithoutId")
  /\ UNCHANGED <<tableVars, entries>>

Handler(c, from, to) ==
  /\ call[c].handler = from
  /\ call' = [call EXCEPT ![c].handler = to]

\* PendingSubscriptionSink::accept in its three steps: the response goes into
\* the channel, then to the waiting callback, then the sink into Subscribers.
AcceptSend(c) ==
  /\ IF call[c].caller = "gone" THEN Handler(c, "pending", "failed")
                                ELSE Handler(c, "pending", "sent")
  /\ UNCHANGED <<tableVars, entries>>
AcceptReply(c) ==
  /\ IF call[c].caller = "gone" THEN Handler(c, "sent", "failed")
                                ELSE Handler(c, "sent", "replied")
  /\ UNCHANGED <<tableVars, entries>>
AcceptInsert(c) ==
  /\ Handler(c, "replied", "active")
  /\ entries' = [entries EXCEPT ![call[c].subs] = @ \cup {c}]
  /\ UNCHANGED tableVars

\* PendingSubscriptionSink::reject, and its drop.
Reject(c) == Handler(c, "pending", "rejected") /\ UNCHANGED <<tableVars, entries>>
DropPending(c) == Handler(c, "pending", "dropped") /\ UNCHANGED <<tableVars, entries>>

\* The SubscriptionSink is dropped.
DropSink(c) ==
  /\ Handler(c, "active", "ended")
  /\ entries' = [entries EXCEPT ![call[c].subs] = @ \ {c}]
  /\ UNCHANGED tableVars

\* Mutant: the answer of a rejected call is not waited for.
AnsweredIfAccepted(c) ==
  /\ call[c].caller = "waiting"
  /\ call[c].handler \in {"replied", "active", "ended"} /\ Answer(c, "Subscribed")
  /\ UNCHANGED <<tableVars, entries>>

\* inner_call has the answer of the callback and takes its copy from the
\* channel.  It holds a sender itself: if no copy was sent it waits on.
Answered(c) ==
  /\ call[c].caller = "waiting"
  /\ \/ call[c].handler \in {"replied", "active", "ended"} /\ Answer(c, "Subscribed")
     \/ call[c].handler = "rejected" /\ Answer(c, "Rejected")
  /\ UNCHANGED <<tableVars, entries>>

\* The caller drops the future.
GiveUp(c) ==
  /\ call[c].caller = "waiting"
  /\ call' = [call EXCEPT ![c].caller = "gone"]
  /\ UNCHANGED <<tableVars, entries>>

-----------------------------------------------------------------------------
TableStep ==
  /\ ops < MaxOps /\ ops' = ops + 1
  /\ \E m \in Modules \ {into} :
       \/ New(m)
       \/ \E op \in Ops : RegisterOne(m, op)
       \/ \E n \in Names : RemoveMethod(m, n)
       \/ \E o \in Modules \ {into} : Merge(m, o)
       \/ \E s \in Servers : Start(m, s)
       \/ \E list \in Compiled : IntoRpc(m, list)
       \/ \E list \in Uncompiled : DoesNotCompile

\* The steps a call takes by itself once it was made.
Progress(c) ==
  \/ Finish(c) \/ Answered(c) \/ AcceptSend(c) \/ AcceptReply(c) \/ AcceptInsert(c)
  \/ Reject(c) \/ DropPending(c)

CallStep ==
  \E c \in Calls :
    \/ /\ ops < MaxOps /\ ops' = ops + 1
       /\ \E h \in Handles \ {into}, n \in Names : Invoke(c, h, n)
    \/ (Progress(c) \/ DropSink(c) \/ GiveUp(c)) /\ UNCHANGED ops

IntoRpcStep == Generated /\ UNCHANGED ops

Next == TableStep \/ CallStep \/ IntoRpcStep

Spec == Init /\ [][Next]_vars
\* Handlers return and futures that can go on are polled.
FairSpec == Spec /\ \A c \in Calls : WF_vars(Progress(c) /\ UNCHANGED ops)

-----------------------------------------------------------------------------
\* Properties.

\* Through aliases, merges and failed registrations every table that has one
\* method of a subscription has the other, over the same Subscribers map,
\* unless remove_method took one of them (verify_and_register_unsubscribe).
PairsStayTogether ==
  \A h \in Handles : cell[h] # None =>
    \A n \in DOMAIN Table(h) :
      LET cb == Table(h)[n]
          other == [kind |-> IF cb.kind = "Subscription" THEN "Unsubscription" ELSE "Subscription",
                    subs |-> cb.subs]
      IN  cb.subs \notin {0} \cup removed => \E k \in DOMAIN Table(h) : Table(h)[k] = other

\* A running server answers with the methods it was started with, whatever is
\* registered, removed or merged through the module later (mut_callbacks).
RunningServersAreIsolated ==
  [][\A s \in Servers : cell[s] # None => cell'[s] # None /\ heap'[cell'[s]] = Table(s)]_vars

\* A registration, alias or merge that is refused leaves the module as it was,
\* and one that succeeds puts no callback in the place of another.
RegistrationAddsAllOrNothing ==
  [][\A m \in Modules : cell[m] # None /\ cell'[m] # None =>
       LET old == Table(m)
           new == heap'[cell'[m]]
       IN  /\ result' \in Errors => new = old
           /\ \A n \in DOMAIN old \cap DOMAIN new : new[n] = old[n]]_vars

\* A subscription whose unsubscribe call returned true is in no Subscribers map
\* again, although accept inserts it after it has answered.
UnsubscribedIsForgotten ==
  \A c, s \in Calls : call[c].of = s /\ call[c].answer = "True" => s \notin entries[call[c].subs]

\* A direct call is answered, unless its caller gave up or its handler dropped
\* the pending subscription (inner_call).
DirectCallsEnd ==
  \A c \in Calls :
    call[c].caller = "waiting" ~> (call[c].caller # "waiting" \/ call[c].handler = "dropped")

\* "If this is dropped ... a default error is sent out as response to the
\* subscription call."
DroppedIsAnswered ==
  \A c \in Calls : call[c].handler = "dropped" ~> call[c].caller # "waiting"
=============================================================================
