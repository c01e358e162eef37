-------------------------- MODULE RpcModuleProofs --------------------------
(***************************************************************************)
(* Safety of RpcModule for every set of names, modules, servers and calls, *)
(* whatever the rpc attribute generates.                                   *)
(***************************************************************************)
EXTENDS RpcModule, FiniteSetTheorems, TLAPS

(* What a handle points to, and an allocation nobody points to is empty. *)
HeapInv ==
    /\ cell \in [Handles -> Cells \cup {None}]
    /\ heap = [c \in Cells |-> heap[c]]
    /\ \A c \in Cells : (\A h \in Handles : cell[h] # c) => heap[c] = Empty

(* An into_rpc fills a module that exists with registrations of a trait. *)
CodeOps == UNION {{list[i] : i \in DOMAIN list} : list \in Compiled}
IntoInv ==
    /\ into \in Modules \cup {None}
    /\ into # None => cell[into] # None /\ code # <<>>
    /\ code \in Seq(CodeOps)

(* A step leaves a handle and its table. *)
Kept(g) ==
    /\ cell'[g] = None <=> cell[g] = None
    /\ cell[g] # None => heap'[cell'[g]] = Table(g)

-----------------------------------------------------------------------------
(* There are finitely many handles and as many allocations. *)
LEMMA HandlesFinite ==
    /\ IsFiniteSet(Handles)
    /\ Cardinality(Handles) \in Nat
    /\ IsFiniteSet(Cells)
    /\ Cardinality(Cells) = Cardinality(Handles)
<1>1. IsFiniteSet(Handles)
  BY Zenon, RpcModuleAssumption, FS_Union DEF Handles
<1>2. Cardinality(Handles) \in Nat
  BY Zenon, <1>1, FS_CardinalityType
<1>3. /\ IsFiniteSet(1..Cardinality(Handles))
      /\ Cardinality(1..Cardinality(Handles))
           = IF 1 > Cardinality(Handles) THEN 0 ELSE Cardinality(Handles) - 1 + 1
  BY <1>2, FS_Interval
<1> QED
  BY <1>1, <1>2, <1>3 DEF Cells

(* An allocation is free when a handle points to none, or shares its own. *)
LEMMA FreeCellExists ==
    ASSUME HeapInv, NEW h \in Handles,
           cell[h] = None \/ \E g \in Handles \ {h} : cell[g] = cell[h]
    PROVE  FreeCell \in Cells /\ \A g \in Handles : cell[g] # FreeCell
<1>1. SUFFICES \E c \in Cells : \A g \in Handles : cell[g] # c
  BY Zenon, <1>1 DEF FreeCell
<1>2. SUFFICES ASSUME \A c \in Cells : \E g \in Handles : cell[g] = c
               PROVE  FALSE
  BY Zenon
<1>3. \A c \in Cells : \E g \in Handles \ {h} : cell[g] = c
  BY Zenon, <1>2, RpcModuleAssumption
<1> DEFINE f == [c \in Cells |-> CHOOSE g \in Handles \ {h} : cell[g] = c]
<1>4. f \in [Cells -> Handles \ {h}]
  BY Zenon, <1>3
<1>5. /\ IsFiniteSet(Handles \ {h})
      /\ Cardinality(Handles \ {h}) = Cardinality(Handles) - 1
  BY Zenon, HandlesFinite, FS_RemoveElement
<1>6. Cardinality(Handles \ {h}) < Cardinality(Cells)
  BY <1>5, HandlesFinite
<1>7. PICK x, y \in Cells : x # y /\ f[x] = f[y]
  <2> HIDE DEF f
  <2> QED
    BY <1>4, <1>5, <1>6, HandlesFinite, FS_PigeonHole
<1>8. cell[f[x]] = x /\ cell[f[y]] = y
  BY Zenon, <1>3
<1> QED
  BY Zenon, <1>7, <1>8

(* What the handles point to after Point. *)
LEMMA PointTables ==
    ASSUME NEW newCell \in [Handles -> Cells \cup {None}], NEW newHeap,
           Point(newCell, newHeap)
    PROVE  /\ HeapInv'
           /\ cell' = newCell
           /\ \A h \in Handles : cell'[h] # None => heap'[cell'[h]] = newHeap[newCell[h]]
<1>1. cell' = newCell
  BY Zenon DEF Point
<1>2. heap' = [c \in Cells |-> IF \E h \in Handles : newCell[h] = c THEN newHeap[c] ELSE Empty]
  BY Zenon DEF Point
<1>3. \A h \in Handles : cell'[h] # None => heap'[cell'[h]] = newHeap[newCell[h]]
  BY Zenon, <1>1, <1>2
<1>4. HeapInv'
  BY Zenon, <1>1, <1>2 DEF HeapInv
<1> QED
  BY Zenon, <1>1, <1>3, <1>4

(* Arc::make_mut: the table of the handle is replaced and no other one. *)
LEMMA WriteTables ==
    ASSUME HeapInv, NEW h \in Handles, cell[h] # None, NEW t, Write(h, t)
    PROVE  /\ HeapInv'
           /\ cell'[h] # None /\ heap'[cell'[h]] = t
           /\ \A g \in Handles \ {h} : Kept(g)
<1>0. cell \in [Handles -> Cells \cup {None}] /\ heap = [c \in Cells |-> heap[c]] /\ None \notin Cells
  BY Zenon, RpcModuleAssumption DEF HeapInv
<1>1. CASE \E g \in Handles \ {h} : cell[g] = cell[h]
  <2>1. FreeCell \in Cells /\ \A g \in Handles : cell[g] # FreeCell
    BY Zenon, <1>1, FreeCellExists
  <2> DEFINE new == [cell EXCEPT ![h] = FreeCell]
             mem == [heap EXCEPT ![FreeCell] = t]
  <2>2. Point(new, mem)
    BY Zenon, <1>1 DEF Write
  <2>3. /\ new \in [Handles -> Cells \cup {None}]
        /\ new[h] = FreeCell
        /\ \A g \in Handles \ {h} : new[g] = cell[g]
    BY Zenon, <1>0, <2>1
  <2>4. mem[FreeCell] = t /\ \A c \in Cells \ {FreeCell} : mem[c] = heap[c]
    BY Zenon, <1>0, <2>1
  <2> HIDE DEF new, mem
  <2>5. /\ HeapInv' /\ cell' = new
        /\ \A g \in Handles : cell'[g] # None => heap'[cell'[g]] = mem[new[g]]
    BY Zenon, <2>2, <2>3, PointTables
  <2> HIDE DEF FreeCell
  <2> QED
    BY <1>0, <2>1, <2>3, <2>4, <2>5 DEF Table, Kept
<1>2. CASE ~\E g \in Handles \ {h} : cell[g] = cell[h]
  <2> DEFINE mem == [heap EXCEPT ![cell[h]] = t]
  <2>1. Point(cell, mem)
    BY Zenon, <1>2 DEF Write
  <2>2. mem[cell[h]] = t /\ \A c \in Cells \ {cell[h]} : mem[c] = heap[c]
    BY Zenon, <1>0
  <2> HIDE DEF mem
  <2>3. /\ HeapInv' /\ cell' = cell
        /\ \A g \in Handles : cell'[g] # None => heap'[cell'[g]] = mem[cell[g]]
    BY <1>0, <2>1, PointTables
  <2> QED
    BY Zenon, <1>0, <1>2, <2>2, <2>3 DEF Table, Kept
<1> QED
  BY Zenon, <1>1, <1>2

(* RpcModule::new, by hand and in into_rpc: an empty table, no other change. *)
LEMMA NewTables ==
    ASSUME HeapInv, NEW m \in Handles, cell[m] = None,
           Point([cell EXCEPT ![m] = FreeCell], heap)
    PROVE  /\ HeapInv'
           /\ cell'[m] # None /\ heap'[cell'[m]] = Empty
           /\ \A g \in Handles \ {m} : Kept(g)
<1>0. cell \in [Handles -> Cells \cup {None}] /\ None \notin Cells
  BY Zenon, RpcModuleAssumption DEF HeapInv
<1>1. FreeCell \in Cells /\ \A g \in Handles : cell[g] # FreeCell
  BY Zenon, FreeCellExists
<1>2. heap[FreeCell] = Empty
  BY Zenon, <1>1 DEF HeapInv
<1> HIDE DEF FreeCell
<1> DEFINE new == [cell EXCEPT ![m] = FreeCell]
<1>3. /\ new \in [Handles -> Cells \cup {None}]
      /\ new[m] = FreeCell
      /\ \A g \in Handles \ {m} : new[g] = cell[g]
  BY Zenon, <1>0, <1>1
<1>4. Point(new, heap)
  BY Zenon
<1> HIDE DEF new
<1>5. /\ HeapInv' /\ cell' = new
      /\ \A g \in Handles : cell'[g] # None => heap'[cell'[g]] = heap[new[g]]
  BY Zenon, <1>3, <1>4, PointTables
<1> QED
  BY Zenon, <1>0, <1>1, <1>2, <1>3, <1>5 DEF Table, Kept

(* Starting a server: its handle points to the table of the module. *)
LEMMA StartTables ==
    ASSUME HeapInv, NEW m \in Handles, NEW s \in Handles, Start(m, s)
    PROVE  /\ HeapInv'
           /\ cell'[s] # None /\ heap'[cell'[s]] = Table(m)
           /\ \A g \in Handles \ {s} : Kept(g)
<1>0. cell \in [Handles -> Cells \cup {None}] /\ None \notin Cells
  BY Zenon, RpcModuleAssumption DEF HeapInv
<1> DEFINE new == [cell EXCEPT ![s] = cell[m]]
<1>1. /\ new \in [Handles -> Cells \cup {None}]
      /\ new[s] = cell[m] /\ cell[m] # None
      /\ \A g \in Handles \ {s} : new[g] = cell[g]
  BY Zenon, <1>0 DEF Start
<1>2. Point(new, heap)
  BY Zenon DEF Start
<1> HIDE DEF new
<1>3. /\ HeapInv' /\ cell' = new
      /\ \A g \in Handles : cell'[g] # None => heap'[cell'[g]] = heap[new[g]]
  BY <1>1, <1>2, PointTables
<1> QED
  BY Zenon, <1>0, <1>1, <1>3 DEF Table, Kept
(* merge: other is consumed; a success leaves both tables in m. *)
Both(mine, theirs) ==
    [n \in DOMAIN mine \cup DOMAIN theirs |-> IF n \in DOMAIN theirs THEN theirs[n] ELSE mine[n]]
LEMMA MergeTables ==
    ASSUME HeapInv, NEW m \in Handles, NEW other \in Handles, Merge(m, other)
    PROVE  /\ HeapInv'
           /\ cell'[m] # None /\ cell'[other] = None
           /\ \/ result' = "AlreadyRegistered" /\ heap'[cell'[m]] = Table(m)
              \/ /\ result' = "Ok"
                 /\ DOMAIN Table(m) \cap DOMAIN Table(other) = {}
                 /\ heap'[cell'[m]] = Both(Table(m), Table(other))
           /\ \A g \in Handles \ {m, other} : Kept(g)
<1>0. /\ cell \in [Handles -> Cells \cup {None}] /\ heap = [c \in Cells |-> heap[c]]
      /\ None \notin Cells
      /\ m # other /\ cell[m] # None /\ cell[other] # None
  BY Zenon, RpcModuleAssumption DEF HeapInv, Merge
<1> DEFINE left == [cell EXCEPT ![other] = None]
<1>1. /\ left \in [Handles -> Cells \cup {None}]
      /\ left[other] = None
      /\ \A g \in Handles \ {other} : left[g] = cell[g]
  BY Zenon, <1>0
<1>2. CASE Point(left, heap) /\ result' = "AlreadyRegistered"
  <2> HIDE DEF left
  <2>1. /\ HeapInv' /\ cell' = left
        /\ \A g \in Handles : cell'[g] # None => heap'[cell'[g]] = heap[left[g]]
    BY Zenon, <1>1, <1>2, PointTables
  <2> QED
    BY <1>0, <1>1, <1>2, <2>1 DEF Table, Kept
<1> DEFINE shared == \E g \in Handles \ {m} : cell[g] = cell[m]
           target == IF shared THEN FreeCell ELSE cell[m]
           new == [left EXCEPT ![m] = target]
           mem == [heap EXCEPT ![target] = Both(Table(m), Table(other))]
<1>3. CASE /\ DOMAIN Table(m) \cap DOMAIN Table(other) = {}
           /\ Point(new, mem) /\ result' = "Ok"
  <2>1. target \in Cells /\ \A g \in Handles \ {m} : cell[g] # target
    <3>1. CASE shared
      BY Zenon, <3>1, FreeCellExists
    <3>2. CASE ~shared
      BY Zenon, <3>2, <1>0
    <3> QED
      BY Zenon, <3>1, <3>2
  <2> HIDE DEF left, target
  <2>2. /\ new \in [Handles -> Cells \cup {None}]
        /\ new[m] = target /\ new[other] = None
        /\ \A g \in Handles \ {m, other} : new[g] = cell[g]
    BY Zenon, <1>0, <1>1, <2>1
  <2>3. /\ mem[target] = Both(Table(m), Table(other))
        /\ \A c \in Cells \ {target} : mem[c] = heap[c]
    BY Zenon, <1>0, <2>1
  <2> HIDE DEF new, mem
  <2>4. /\ HeapInv' /\ cell' = new
        /\ \A g \in Handles : cell'[g] # None => heap'[cell'[g]] = mem[new[g]]
    BY Zenon, <1>3, <2>2, PointTables
  <2>5. /\ cell'[m] # None /\ cell'[other] = None
        /\ heap'[cell'[m]] = Both(Table(m), Table(other))
    BY Zenon, <1>0, <2>1, <2>2, <2>3, <2>4
  <2>6. \A g \in Handles \ {m, other} : Kept(g)
    BY <1>0, <2>1, <2>2, <2>3, <2>4 DEF Table, Kept
  <2> QED
    BY Zenon, <1>3, <2>4, <2>5, <2>6
<1> QED
  BY Zenon, <1>2, <1>3 DEF Merge, Both

-----------------------------------------------------------------------------
(* A table with subscriptions over the maps 1 to subs: a callback that is not *)
(* of a subscription has no map, and the other half of one is there unless    *)
(* a half of it is gone.                                                      *)
Callbacks(subs) ==
    [kind : Callable \cup {"Subscription", "Unsubscription"}, subs : 0..subs]
OtherHalf(cb) ==
    [kind |-> IF cb.kind = "Subscription" THEN "Unsubscription" ELSE "Subscription",
     subs |-> cb.subs]
GoodTable(t, subs, gone) ==
    /\ t = [n \in DOMAIN t |-> t[n]]
    /\ \A n \in DOMAIN t : /\ t[n] \in Callbacks(subs)
                           /\ t[n].kind \in Callable <=> t[n].subs = 0
    /\ \A n \in DOMAIN t :
         t[n].subs \notin {0} \cup gone => \E k \in DOMAIN t : t[k] = OtherHalf(t[n])

(* It stays good when maps are created and when halves go elsewhere. *)
LEMMA GoodGrows ==
    ASSUME NEW t, NEW a \in Nat, NEW b \in Nat, a <= b, NEW gone, NEW more,
           gone \subseteq more, GoodTable(t, a, gone)
    PROVE  GoodTable(t, b, more)
<1>1. \A n \in DOMAIN t : t[n] \in Callbacks(b)
  BY DEF GoodTable, Callbacks
<1> QED
  BY Zenon, <1>1 DEF GoodTable

(* What the register_* methods may be given. *)
IsOp(op) ==
    /\ op.op \in {"method", "subscription", "alias"}
    /\ op.op = "method" => op.kind \in Callable

(* A registration adds to the table, or is refused and leaves it. *)
LEMMA RegisterAdds ==
    ASSUME NEW t, NEW op, IsOp(op), NEW subs
    PROVE  LET r == Register(t, op, subs) IN
             /\ r.result = "Ok" \/ r.result \in Errors
             /\ r.result # "Ok" => r.table = t
             /\ \A n \in DOMAIN t : n \in DOMAIN r.table /\ r.table[n] = t[n]
<1>1. CASE op.op = "method"
  BY Zenon, <1>1 DEF Register, RegisterMethod, Insert, Ok, Err, Errors
<1>2. CASE op.op = "alias"
  BY Zenon, <1>2 DEF Register, RegisterAlias, Insert, Ok, Err, Errors
<1>3. CASE op.op = "subscription"
  <2> DEFINE u == Insert(t, op.unsubscribe, [kind |-> "Unsubscription", subs |-> subs])
             w == Insert(u, op.name, [kind |-> "Subscription", subs |-> subs])
  <2>1. CASE op.name # op.unsubscribe /\ {op.name, op.unsubscribe} \cap DOMAIN t = {}
    <3>1. DOMAIN u = DOMAIN t \cup {op.unsubscribe} /\ \A n \in DOMAIN t : u[n] = t[n]
      BY Zenon, <2>1 DEF Insert
    <3>2. Register(t, op, subs) = [result |-> "Ok", table |-> w]
      BY Zenon, <1>3, <2>1 DEF Register, RegisterSubscription, Ok
    <3> HIDE DEF u
    <3>3. DOMAIN w = DOMAIN u \cup {op.name} /\ \A n \in DOMAIN u : w[n] = u[n]
      BY Zenon, <2>1, <3>1 DEF Insert
    <3> HIDE DEF w
    <3> QED
      BY <3>1, <3>2, <3>3
  <2>2. CASE ~(op.name # op.unsubscribe /\ {op.name, op.unsubscribe} \cap DOMAIN t = {})
    BY Zenon, <1>3, <2>2 DEF Register, RegisterSubscription, Err, Errors
  <2> QED
    BY Zenon, <2>1, <2>2
<1> QED
  BY Zenon, <1>1, <1>2, <1>3 DEF IsOp
(* A good callback under a new name: its other half is there, or it needs none. *)
LEMMA InsertGood ==
    ASSUME NEW t, NEW name, NEW subs \in Nat, NEW cb \in Callbacks(subs), NEW gone,
           name \notin DOMAIN t, GoodTable(t, subs, gone),
           cb.kind \in Callable <=> cb.subs = 0,
           cb.subs = 0 \/ cb \in {t[n] : n \in DOMAIN t}
    PROVE  GoodTable(Insert(t, name, cb), subs, gone)
<1> DEFINE u == Insert(t, name, cb)
<1>1. /\ u = [n \in DOMAIN u |-> u[n]] /\ DOMAIN u = DOMAIN t \cup {name}
      /\ u[name] = cb /\ \A n \in DOMAIN t : u[n] = t[n]
  BY Zenon DEF Insert
<1> HIDE DEF u
<1>2. \A n \in DOMAIN u : /\ u[n] \in Callbacks(subs)
                          /\ u[n].kind \in Callable <=> u[n].subs = 0
  BY Zenon, <1>1 DEF GoodTable
<1>3. ASSUME NEW n \in DOMAIN u, u[n].subs \notin {0} \cup gone
      PROVE  \E k \in DOMAIN u : u[k] = OtherHalf(u[n])
  <2>1. PICK i \in DOMAIN t : t[i] = u[n]
    BY Zenon, <1>1, <1>3
  <2>2. PICK k \in DOMAIN t : t[k] = OtherHalf(t[i])
    BY Zenon, <1>3, <2>1 DEF GoodTable
  <2> QED
    BY Zenon, <1>1, <2>1, <2>2
<1>4. GoodTable(u, subs, gone)
  BY Zenon, <1>1, <1>2, <1>3 DEF GoodTable
<1> QED
  BY Zenon, <1>4 DEF u

(* verify_and_register_unsubscribe: both halves over a map that is new. *)
LEMMA PairGood ==
    ASSUME NEW t, NEW a, NEW b, NEW subs \in Nat, NEW gone,
           a # b, a \notin DOMAIN t, b \notin DOMAIN t, GoodTable(t, subs, gone)
    PROVE  GoodTable(Insert(Insert(t, b, [kind |-> "Unsubscription", subs |-> subs + 1]),
                            a, [kind |-> "Subscription", subs |-> subs + 1]),
                     subs + 1, gone)
<1> DEFINE s == [kind |-> "Subscription", subs |-> subs + 1]
           e == [kind |-> "Unsubscription", subs |-> subs + 1]
           u == Insert(Insert(t, b, e), a, s)
<1>1. /\ u = [n \in DOMAIN u |-> u[n]] /\ DOMAIN u = DOMAIN t \cup {a, b}
      /\ u[a] = s /\ u[b] = e /\ \A n \in DOMAIN t : u[n] = t[n]
  BY Zenon DEF Insert
<1>2. s \in Callbacks(subs + 1) /\ e \in Callbacks(subs + 1)
  BY DEF Callbacks
<1>3. s = OtherHalf(e) /\ e = OtherHalf(s)
  BY Zenon DEF OtherHalf
<1>4. s.kind \notin Callable /\ e.kind \notin Callable /\ s.subs # 0 /\ e.subs # 0
  BY DEF Callable
<1> HIDE DEF u, s, e
<1>5. GoodTable(t, subs + 1, gone)
  BY GoodGrows
<1>6. \A n \in DOMAIN u : /\ u[n] \in Callbacks(subs + 1)
                          /\ u[n].kind \in Callable <=> u[n].subs = 0
  BY Zenon, <1>1, <1>2, <1>4, <1>5 DEF GoodTable
<1>7. ASSUME NEW n \in DOMAIN u, u[n].subs \notin {0} \cup gone
      PROVE  \E k \in DOMAIN u : u[k] = OtherHalf(u[n])
  BY <1>1, <1>3, <1>5, <1>7 DEF GoodTable
<1>8. GoodTable(u, subs + 1, gone)
  BY Zenon, <1>1, <1>6, <1>7 DEF GoodTable
<1> QED
  BY Zenon, <1>8 DEF u, s, e

(* Every registration keeps a table good. *)
LEMMA RegisterGood ==
    ASSUME NEW t, NEW op, IsOp(op), NEW subs \in Nat, NEW gone, GoodTable(t, subs, gone)
    PROVE  LET r == Register(t, op, subs + 1) IN
             GoodTable(r.table,
                       IF op.op = "subscription" /\ r.result = "Ok" THEN subs + 1 ELSE subs,
                       gone)
<1> DEFINE r == Register(t, op, subs + 1)
<1>1. CASE r.result # "Ok"
  <2>1. r.table = t
    BY <1>1, RegisterAdds
  <2> QED
    BY Zenon, <1>1, <2>1
<1>2. CASE op.op = "method" /\ r.result = "Ok"
  <2> DEFINE cb == [kind |-> op.kind, subs |-> 0]
  <2>1. op.name \notin DOMAIN t /\ r.table = Insert(t, op.name, cb)
    BY Zenon, <1>2 DEF Register, RegisterMethod, Ok, Err
  <2>2. cb \in Callbacks(subs) /\ cb.kind \in Callable /\ cb.subs = 0
    BY <1>2 DEF IsOp, Callbacks
  <2> HIDE DEF cb
  <2>3. GoodTable(Insert(t, op.name, cb), subs, gone)
    BY Zenon, <2>1, <2>2, InsertGood
  <2> QED
    BY Zenon, <1>2, <2>1, <2>3
<1>3. CASE op.op = "alias" /\ r.result = "Ok"
  <2> DEFINE cb == t[op.existing]
  <2>1. /\ op.name \notin DOMAIN t /\ op.existing \in DOMAIN t
        /\ r.table = Insert(t, op.name, cb)
    BY Zenon, <1>3 DEF Register, RegisterAlias, Ok, Err
  <2>2. /\ cb \in Callbacks(subs)
        /\ cb.kind \in Callable <=> cb.subs = 0
        /\ cb \in {t[n] : n \in DOMAIN t}
    BY Zenon, <2>1 DEF GoodTable
  <2> HIDE DEF cb
  <2>3. GoodTable(Insert(t, op.name, cb), subs, gone)
    BY Zenon, <2>1, <2>2, InsertGood
  <2> QED
    BY Zenon, <1>3, <2>1, <2>3
<1>4. CASE op.op = "subscription" /\ r.result = "Ok"
  <2>1. /\ op.name # op.unsubscribe
        /\ op.name \notin DOMAIN t /\ op.unsubscribe \notin DOMAIN t
        /\ r.table = Insert(Insert(t, op.unsubscribe,
                                   [kind |-> "Unsubscription", subs |-> subs + 1]),
                            op.name, [kind |-> "Subscription", subs |-> subs + 1])
    BY Zenon, <1>4 DEF Register, RegisterSubscription, Ok, Err
  <2>2. GoodTable(r.table, subs + 1, gone)
    BY Zenon, <2>1, PairGood
  <2> QED
    BY Zenon, <1>4, <2>2
<1> QED
  BY Zenon, <1>1, <1>2, <1>3, <1>4 DEF IsOp

(* remove_method: the half that stays is among the ones whose half is gone. *)
Without(t, name) == [n \in DOMAIN t \ {name} |-> t[n]]
Gone(t, name, gone) == IF name \in DOMAIN t THEN gone \cup {t[name].subs} ELSE gone
LEMMA RemoveGood ==
    ASSUME NEW t, NEW name, NEW subs \in Nat, NEW gone, GoodTable(t, subs, gone)
    PROVE  GoodTable(Without(t, name), subs, Gone(t, name, gone))
<1> DEFINE u == Without(t, name)
<1>1. /\ u = [n \in DOMAIN u |-> u[n]] /\ DOMAIN u = DOMAIN t \ {name}
      /\ \A n \in DOMAIN u : u[n] = t[n]
  BY Zenon DEF Without
<1> HIDE DEF u
<1>2. \A n \in DOMAIN u : /\ u[n] \in Callbacks(subs)
                          /\ u[n].kind \in Callable <=> u[n].subs = 0
  BY Zenon, <1>1 DEF GoodTable
<1>3. ASSUME NEW n \in DOMAIN u, u[n].subs \notin {0} \cup Gone(t, name, gone)
      PROVE  \E k \in DOMAIN u : u[k] = OtherHalf(u[n])
  <2>1. t[n].subs \notin {0} \cup gone
    BY Zenon, <1>1, <1>3 DEF Gone
  <2>2. PICK k \in DOMAIN t : t[k] = OtherHalf(t[n])
    BY Zenon, <1>1, <2>1 DEF GoodTable
  <2>3. t[k].subs = t[n].subs
    BY <2>2 DEF OtherHalf
  <2>4. k # name
    BY Zenon, <1>1, <1>3, <2>3 DEF Gone
  <2> QED
    BY Zenon, <1>1, <2>2, <2>4
<1>4. GoodTable(u, subs, Gone(t, name, gone))
  BY Zenon, <1>1, <1>2, <1>3 DEF GoodTable
<1> QED
  BY Zenon, <1>4 DEF u

(* merge: the two halves of a subscription come from one table. *)
LEMMA MergeGood ==
    ASSUME NEW t, NEW o, NEW subs \in Nat, NEW gone, DOMAIN t \cap DOMAIN o = {},
           GoodTable(t, subs, gone), GoodTable(o, subs, gone)
    PROVE  GoodTable(Both(t, o), subs, gone)
<1> DEFINE u == Both(t, o)
<1>1. /\ u = [n \in DOMAIN u |-> u[n]] /\ DOMAIN u = DOMAIN t \cup DOMAIN o
      /\ \A n \in DOMAIN t : u[n] = t[n]
      /\ \A n \in DOMAIN o : u[n] = o[n]
  BY Zenon DEF Both
<1> HIDE DEF u
<1>2. \A n \in DOMAIN u : /\ u[n] \in Callbacks(subs)
                          /\ u[n].kind \in Callable <=> u[n].subs = 0
  BY Zenon, <1>1 DEF GoodTable
<1>3. \A n \in DOMAIN u :
        u[n].subs \notin {0} \cup gone => \E k \in DOMAIN u : u[k] = OtherHalf(u[n])
  BY <1>1 DEF GoodTable
<1>4. GoodTable(u, subs, gone)
  BY Zenon, <1>1, <1>2, <1>3 DEF GoodTable
<1> QED
  BY Zenon, <1>4 DEF u
-----------------------------------------------------------------------------
(* The steps by what they do to the tables. *)
Changed(h, t) ==
    /\ HeapInv'
    /\ cell'[h] # None /\ heap'[cell'[h]] = t
    /\ \A g \in Handles \ {h} : Kept(g)

Quiet == UNCHANGED <<heap, cell, made, removed>>
Registered(m, op) ==
    LET r == Register(Table(m), op, made + 1) IN
    /\ cell[m] # None /\ IsOp(op)
    /\ op.op = "subscription" => made < MaxSubs
    /\ Changed(m, r.table)
    /\ result' \in Errors => r.result # "Ok"
    /\ made' = (IF op.op = "subscription" /\ r.result = "Ok" THEN made + 1 ELSE made)
    /\ UNCHANGED removed
Created(h, t) == cell[h] = None /\ Changed(h, t) /\ UNCHANGED <<made, removed>>
Removed(m, name) ==
    /\ cell[m] # None
    /\ Changed(m, Without(Table(m), name))
    /\ result' \notin Errors
    /\ removed' = Gone(Table(m), name, removed)
    /\ UNCHANGED made
Merged(m, other) ==
    /\ cell[m] # None /\ cell[other] # None /\ m # other
    /\ HeapInv'
    /\ cell'[m] # None /\ cell'[other] = None
    /\ \/ heap'[cell'[m]] = Table(m)
       \/ /\ result' \notin Errors
          /\ DOMAIN Table(m) \cap DOMAIN Table(other) = {}
          /\ heap'[cell'[m]] = Both(Table(m), Table(other))
    /\ \A g \in Handles \ {m, other} : Kept(g)
    /\ UNCHANGED <<made, removed>>

Kinds ==
    \/ Quiet
    \/ \E m \in Modules : \E op : Registered(m, op)
    \/ \E m \in Modules : Created(m, Empty)
    \/ \E m \in Modules : \E name \in Names : Removed(m, name)
    \/ \E m \in Modules : \E other \in Modules \ {into} : Merged(m, other)
    \/ \E m \in Modules : \E s \in Servers : cell[m] # None /\ Created(s, Table(m))

(* What the user registers is an operation, and what into_rpc registers. *)
LEMMA OpsAreOps ==
    /\ \A op \in Ops : IsOp(op)
    /\ \A op \in CodeOps : IsOp(op)
<1>1. \A op \in Ops : IsOp(op)
  BY Zenon, RpcModuleAssumption DEF Ops, IsOp
<1>2. ASSUME NEW op \in CodeOps
      PROVE  IsOp(op)
  <2>1. PICK list \in Compiled : op \in {list[i] : i \in DOMAIN list}
    BY Zenon DEF CodeOps
  <2>2. PICK i \in DOMAIN list : op = list[i]
    BY Zenon, <2>1
  <2> QED
    BY Zenon, <2>2, RpcModuleAssumption DEF IsOp
<1> QED
  BY Zenon, <1>1, <1>2

(* A call changes no table. *)
LEMMA CallsKeepTables ==
    ASSUME CallStep
    PROVE  UNCHANGED tableVars
<1>1. PICK c \in Calls : \/ \E h \in Handles \ {into}, n \in Names : Invoke(c, h, n)
                         \/ Progress(c) \/ DropSink(c) \/ GiveUp(c)
  BY Zenon DEF CallStep
<1>2. ASSUME NEW h, NEW n, Invoke(c, h, n) PROVE UNCHANGED tableVars
  BY Zenon, <1>2 DEF Invoke
<1>3. Finish(c) \/ Answered(c) => UNCHANGED tableVars
  BY Zenon DEF Finish, Answered
<1>4. AcceptSend(c) \/ AcceptReply(c) \/ AcceptInsert(c) => UNCHANGED tableVars
  BY Zenon DEF AcceptSend, AcceptReply, AcceptInsert
<1>5. Reject(c) \/ DropPending(c) \/ DropSink(c) \/ GiveUp(c) => UNCHANGED tableVars
  BY Zenon DEF Reject, DropPending, DropSink, GiveUp
<1> QED
  BY Zenon, <1>1, <1>2, <1>3, <1>4, <1>5 DEF Progress

(* Every step is of one of these kinds. *)
LEMMA StepKinds ==
    ASSUME HeapInv, IntoInv, [Next]_vars
    PROVE  Kinds
<1>0. /\ \A m \in Modules : m \in Handles
      /\ \A s \in Servers : s \in Handles
  BY Zenon DEF Handles
<1>1. ASSUME NEW m \in Modules, New(m)
      PROVE  Kinds
  <2>1. Created(m, Empty)
    BY Zenon, <1>0, <1>1, NewTables DEF New, Created, Changed
  <2> QED
    BY Zenon, <2>1 DEF Kinds
<1>2. ASSUME NEW m \in Modules, NEW op \in Ops, RegisterOne(m, op)
      PROVE  Kinds
  <2> DEFINE r == Register(Table(m), op, made + 1)
  <2>1. cell[m] # None /\ IsOp(op) /\ Write(m, r.table)
    BY Zenon, <1>2, OpsAreOps DEF RegisterOne
  <2>2. Changed(m, r.table)
    <3> HIDE DEF r
    <3> QED
      BY Zenon, <1>0, <2>1, WriteTables DEF Changed
  <2>3. result' \in Errors => r.result # "Ok"
    BY Zenon, <1>2 DEF RegisterOne, Errors
  <2>4. Registered(m, op)
    BY Zenon, <1>2, <2>1, <2>2, <2>3 DEF RegisterOne, Registered
  <2> QED
    BY Zenon, <2>4 DEF Kinds
<1>3. ASSUME NEW m \in Modules, NEW n \in Names, RemoveMethod(m, n)
      PROVE  Kinds
  <2>1. cell[m] # None /\ Write(m, Without(Table(m), n))
    BY Zenon, <1>3 DEF RemoveMethod, Without
  <2>2. Changed(m, Without(Table(m), n))
    BY Zenon, <1>0, <2>1, WriteTables DEF Changed
  <2>3. Removed(m, n)
    BY Zenon, <1>3, <2>1, <2>2 DEF RemoveMethod, Removed, Gone, Errors
  <2> QED
    BY Zenon, <2>3 DEF Kinds
<1>4. ASSUME NEW m \in Modules, NEW o \in Modules \ {into}, Merge(m, o)
      PROVE  Kinds
  <2>1. cell[m] # None /\ cell[o] # None /\ m # o /\ UNCHANGED <<made, removed>>
    BY Zenon, <1>4 DEF Merge
  <2>2. /\ HeapInv'
        /\ cell'[m] # None /\ cell'[o] = None
        /\ \/ result' = "AlreadyRegistered" /\ heap'[cell'[m]] = Table(m)
           \/ /\ result' = "Ok"
              /\ DOMAIN Table(m) \cap DOMAIN Table(o) = {}
              /\ heap'[cell'[m]] = Both(Table(m), Table(o))
        /\ \A g \in Handles \ {m, o} : Kept(g)
    BY Zenon, <1>0, <1>4, MergeTables
  <2>3. Merged(m, o)
    BY Zenon, <2>1, <2>2 DEF Merged, Errors
  <2> QED
    BY Zenon, <2>3 DEF Kinds
<1>5. ASSUME NEW m \in Modules, NEW s \in Servers, Start(m, s)
      PROVE  Kinds
  <2>1. cell[m] # None /\ cell[s] = None /\ UNCHANGED <<made, removed>>
    BY Zenon, <1>5 DEF Start
  <2>2. Changed(s, Table(m))
    BY Zenon, <1>0, <1>5, StartTables DEF Changed
  <2> QED
    BY Zenon, <2>1, <2>2 DEF Kinds, Created
<1>6. ASSUME NEW m \in Modules, NEW list \in Compiled, IntoRpc(m, list)
      PROVE  Kinds
  <2>1. Created(m, Empty)
    BY Zenon, <1>0, <1>6, NewTables DEF IntoRpc, Created, Changed
  <2> QED
    BY Zenon, <2>1 DEF Kinds
<1>7. CASE Generated
  <2> DEFINE op == Head(code)
             r == Register(Table(into), op, made + 1)
  <2>1. /\ into \in Modules /\ cell[into] # None
        /\ code \in Seq(CodeOps) /\ code # <<>>
    BY Zenon, <1>7 DEF Generated, IntoInv
  <2>2. IsOp(op)
    BY <2>1, OpsAreOps
  <2>3. /\ Write(into, r.table)
        /\ op.op = "subscription" => made < MaxSubs
        /\ result' = (IF r.result = "Ok" THEN "Ok" ELSE "Panic")
        /\ made' = (IF op.op = "subscription" /\ r.result = "Ok" THEN made + 1 ELSE made)
        /\ UNCHANGED removed
    BY Zenon, <1>7 DEF Generated
  <2>4. Changed(into, r.table)
    <3> HIDE DEF r
    <3> QED
      BY Zenon, <1>0, <2>1, <2>3, WriteTables DEF Changed
  <2>5. result' \notin Errors
    BY Zenon, <2>3 DEF Errors
  <2>6. Registered(into, op)
    <3> HIDE DEF op
    <3> QED
      BY Zenon, <2>1, <2>2, <2>3, <2>4, <2>5 DEF Registered
  <2> QED
    BY Zenon, <2>1, <2>6 DEF Kinds
<1>8. CASE DoesNotCompile \/ CallStep \/ UNCHANGED vars
  <2>1. CASE DoesNotCompile
    BY Zenon, <2>1 DEF DoesNotCompile, Quiet, Kinds
  <2>2. CASE CallStep
    <3>1. UNCHANGED tableVars
      BY Zenon, <2>2, CallsKeepTables
    <3> QED
      BY Zenon, <3>1 DEF tableVars, Quiet, Kinds
  <2>3. CASE UNCHANGED vars
    BY Zenon, <2>3 DEF vars, tableVars, Quiet, Kinds
  <2> QED
    BY Zenon, <1>8, <2>1, <2>2, <2>3
<1> QED
  BY Zenon, <1>1, <1>2, <1>3, <1>4, <1>5, <1>6, <1>7, <1>8 DEF Next, TableStep, IntoRpcStep
-----------------------------------------------------------------------------
(* Every handle has a good table. *)
TablesInv ==
    /\ made \in 0..MaxSubs
    /\ \A h \in Handles : cell[h] # None => GoodTable(Table(h), made, removed)

RpcInv == HeapInv /\ IntoInv /\ TablesInv

(* One table was replaced by a good one. *)
LEMMA ChangedIsGood ==
    ASSUME TablesInv, NEW h \in Handles, NEW t, Changed(h, t), GoodTable(t, made', removed'),
           made' \in 0..MaxSubs, made <= made', removed \subseteq removed'
    PROVE  TablesInv'
<1>1. made \in Nat /\ made' \in Nat
  BY RpcModuleAssumption DEF TablesInv
<1>2. GoodTable(heap'[cell'[h]], made', removed')
  BY Zenon DEF Changed
<1>3. ASSUME NEW g \in Handles \ {h}, cell'[g] # None
      PROVE  GoodTable(heap'[cell'[g]], made', removed')
  <2>1. cell[g] # None /\ heap'[cell'[g]] = Table(g)
    BY Zenon, <1>3 DEF Changed, Kept
  <2>2. GoodTable(Table(g), made, removed)
    BY Zenon, <2>1 DEF TablesInv
  <2> QED
    BY <1>1, <2>1, <2>2, GoodGrows
<1> QED
  BY Zenon, <1>2, <1>3 DEF TablesInv, Table

LEMMA EmptyGood ==
    ASSUME NEW subs, NEW gone
    PROVE  GoodTable(Empty, subs, gone)
BY Zenon DEF GoodTable, Empty

(* Every step keeps the tables good. *)
LEMMA KindsKeepTables ==
    ASSUME TablesInv, Kinds
    PROVE  TablesInv'
<1>0. /\ Modules \subseteq Handles /\ Servers \subseteq Handles
      /\ made \in Nat /\ MaxSubs \in Nat /\ made <= MaxSubs
  BY RpcModuleAssumption DEF Handles, TablesInv
<1>1. CASE Quiet
  BY Zenon, <1>1 DEF Quiet, TablesInv, Table
<1>2. ASSUME NEW m \in Modules, NEW op, Registered(m, op)
      PROVE  TablesInv'
  <2> DEFINE r == Register(Table(m), op, made + 1)
  <2>1. /\ cell[m] # None /\ IsOp(op) /\ Changed(m, r.table) /\ removed' = removed
        /\ made' = (IF op.op = "subscription" /\ r.result = "Ok" THEN made + 1 ELSE made)
        /\ op.op = "subscription" => made < MaxSubs
    BY Zenon, <1>2 DEF Registered
  <2>2. GoodTable(Table(m), made, removed)
    BY Zenon, <1>0, <2>1 DEF TablesInv
  <2>3. GoodTable(r.table, made', removed')
    BY Zenon, <1>0, <2>1, <2>2, RegisterGood
  <2>4. made' \in 0..MaxSubs /\ made <= made'
    BY <1>0, <2>1
  <2> HIDE DEF r
  <2> QED
    BY Zenon, <1>0, <2>1, <2>3, <2>4, ChangedIsGood
<1>3. ASSUME NEW m \in Modules, Created(m, Empty)
      PROVE  TablesInv'
  BY <1>0, <1>3, EmptyGood, ChangedIsGood DEF Created
<1>4. ASSUME NEW m \in Modules, NEW name \in Names, Removed(m, name)
      PROVE  TablesInv'
  <2> DEFINE t == Without(Table(m), name)
  <2>1. cell[m] # None /\ Changed(m, t) /\ made' = made /\ removed' = Gone(Table(m), name, removed)
    BY Zenon, <1>4 DEF Removed
  <2>2. GoodTable(Table(m), made, removed)
    BY Zenon, <1>0, <2>1 DEF TablesInv
  <2>3. GoodTable(t, made', removed')
    BY Zenon, <1>0, <2>1, <2>2, RemoveGood
  <2>4. removed \subseteq removed'
    BY Zenon, <2>1 DEF Gone
  <2> HIDE DEF t
  <2> QED
    BY <1>0, <2>1, <2>3, <2>4, ChangedIsGood
<1>5. ASSUME NEW m \in Modules, NEW other \in Modules, Merged(m, other)
      PROVE  TablesInv'
  <2>1. /\ cell[m] # None /\ cell[other] # None /\ made' = made /\ removed' = removed
        /\ cell'[other] = None
        /\ \A g \in Handles \ {m, other} : Kept(g)
    BY Zenon, <1>5 DEF Merged
  <2>2. GoodTable(Table(m), made, removed) /\ GoodTable(Table(other), made, removed)
    BY Zenon, <1>0, <2>1 DEF TablesInv
  <2>3. GoodTable(heap'[cell'[m]], made, removed)
    BY Zenon, <1>0, <1>5, <2>2, MergeGood DEF Merged
  <2>4. ASSUME NEW g \in Handles \ {m, other}, cell'[g] # None
        PROVE  GoodTable(heap'[cell'[g]], made, removed)
    BY Zenon, <2>1, <2>4 DEF Kept, TablesInv
  <2> QED
    BY Zenon, <1>0, <2>1, <2>3, <2>4 DEF TablesInv, Table
<1>6. ASSUME NEW m \in Modules, NEW s \in Servers, cell[m] # None, Created(s, Table(m))
      PROVE  TablesInv'
  <2>1. GoodTable(Table(m), made', removed')
    BY Zenon, <1>0, <1>6 DEF TablesInv, Created
  <2> QED
    BY <1>0, <1>6, <2>1, ChangedIsGood DEF Created
<1> QED
  BY Zenon, <1>1, <1>2, <1>3, <1>4, <1>5, <1>6 DEF Kinds

(* Every step keeps what the handles point to. *)
LEMMA KindsKeepHeap ==
    ASSUME HeapInv, Kinds
    PROVE  HeapInv'
<1>1. CASE Quiet
  BY Zenon, <1>1 DEF Quiet, HeapInv
<1> QED
  BY Zenon, <1>1 DEF Kinds, Registered, Created, Removed, Merged, Changed

(* No module goes but the one a merge consumes, and not while into_rpc fills it. *)
LEMMA IntoStays ==
    ASSUME IntoInv, Kinds, into # None
    PROVE  cell'[into] # None
<1>0. into \in Modules /\ into \in Handles /\ cell[into] # None
  BY Zenon DEF IntoInv, Handles
<1>1. CASE Quiet
  BY Zenon, <1>0, <1>1 DEF Quiet
<1>2. ASSUME NEW h, NEW t, Changed(h, t)
      PROVE  cell'[into] # None
  BY Zenon, <1>0, <1>2 DEF Changed, Kept
<1>3. ASSUME NEW m, NEW other \in Modules \ {into}, Merged(m, other)
      PROVE  cell'[into] # None
  BY Zenon, <1>0, <1>3 DEF Merged, Kept
<1> QED
  BY Zenon, <1>1, <1>2, <1>3 DEF Kinds, Registered, Created, Removed

LEMMA StepKeepsInto ==
    ASSUME HeapInv, IntoInv, [Next]_vars
    PROVE  IntoInv'
<1>0. Kinds /\ Modules \subseteq Handles /\ None \notin Modules
  BY Zenon, StepKinds, RpcModuleAssumption DEF Handles
<1>1. CASE UNCHANGED intoVars
  BY Zenon, <1>0, <1>1, IntoStays DEF IntoInv, intoVars
<1>2. ASSUME NEW m \in Modules, NEW list \in Compiled, IntoRpc(m, list)
      PROVE  IntoInv'
  <2>1. list \in Seq(CodeOps)
    <3>1. list \in Seq({list[i] : i \in DOMAIN list})
      BY Zenon, RpcModuleAssumption
    <3>2. {list[i] : i \in DOMAIN list} \subseteq CodeOps
      BY Zenon DEF CodeOps
    <3> QED
      BY <3>1, <3>2
  <2>2. cell'[m] # None
    BY Zenon, <1>0, <1>2, NewTables DEF IntoRpc
  <2> QED
    BY Zenon, <1>2, <2>1, <2>2 DEF IntoRpc, IntoInv
<1>3. CASE Generated
  <2>1. code \in Seq(CodeOps) /\ code # <<>> /\ into \in Modules /\ into # None
    BY Zenon, <1>3 DEF Generated, IntoInv
  <2>2. Tail(code) \in Seq(CodeOps)
    BY <2>1
  <2>3. cell'[into] # None
    BY Zenon, <1>0, <2>1, IntoStays
  <2>4. code' = Tail(code) /\ into' = IF code' = <<>> THEN None ELSE into
    BY Zenon, <1>3 DEF Generated
  <2> QED
    BY Zenon, <2>1, <2>2, <2>3, <2>4 DEF IntoInv
<1>4. CallStep => UNCHANGED intoVars
  BY Zenon, CallsKeepTables DEF tableVars
<1>5. ASSUME TableStep
      PROVE  \/ UNCHANGED intoVars
             \/ \E m \in Modules : \E list \in Compiled : IntoRpc(m, list)
  BY Zenon, <1>5 DEF TableStep, New, RegisterOne, RemoveMethod, Merge, Start, DoesNotCompile
<1>6. UNCHANGED vars => UNCHANGED intoVars
  BY Zenon DEF vars, tableVars
<1> QED
  BY Zenon, <1>1, <1>2, <1>3, <1>4, <1>5, <1>6 DEF Next, IntoRpcStep

(* The invariant holds initially and is kept. *)
LEMMA RpcInit ==
    ASSUME Init
    PROVE  RpcInv
<1>1. cell = [h \in Handles |-> None] /\ heap = [c \in Cells |-> Empty]
  BY Zenon DEF Init
<1>2. HeapInv
  BY Zenon, <1>1 DEF HeapInv
<1>3. IntoInv
  BY DEF Init, IntoInv
<1>4. TablesInv
  BY <1>1, RpcModuleAssumption DEF Init, TablesInv
<1> QED
  BY Zenon, <1>2, <1>3, <1>4 DEF RpcInv

LEMMA RpcNext ==
    ASSUME RpcInv, [Next]_vars
    PROVE  RpcInv' /\ Kinds
BY Zenon, StepKinds, KindsKeepHeap, KindsKeepTables, StepKeepsInto DEF RpcInv

LEMMA RpcInvariant == Spec => []RpcInv
<1>1. Init => RpcInv
  BY Zenon, RpcInit
<1>2. RpcInv /\ [Next]_vars => RpcInv'
  BY Zenon, RpcNext
<1> QED
  BY <1>1, <1>2, PTL DEF Spec

(* Every table that has one method of a subscription has the other over the  *)
(* same Subscribers map, unless remove_method took one of them, through any  *)
(* sequence of registrations, aliases, merges and generated into_rpc code    *)
(* (verify_and_register_unsubscribe).                                        *)
THEOREM PairsAlwaysStayTogether == Spec => []PairsStayTogether
<1>1. RpcInv => PairsStayTogether
  BY Zenon DEF RpcInv, TablesInv, GoodTable, OtherHalf, PairsStayTogether
<1> QED
  BY <1>1, RpcInvariant, PTL

(* A running server answers with the methods it was started with, whatever is *)
(* registered, removed or merged through the module it shares its table with  *)
(* (mut_callbacks).                                                           *)
THEOREM ServersAreAlwaysIsolated == Spec => RunningServersAreIsolated
<1> DEFINE P == \A s \in Servers : cell[s] # None => cell'[s] # None /\ heap'[cell'[s]] = Table(s)
<1>0. Servers \subseteq Handles /\ Modules \cap Servers = {}
  BY Zenon, RpcModuleAssumption DEF Handles
<1>1. ASSUME Kinds
      PROVE  P
  <2>1. CASE Quiet
    BY Zenon, <2>1 DEF Quiet, Table
  <2>2. ASSUME NEW h, NEW t, Changed(h, t), h \notin Servers \/ cell[h] = None
        PROVE  P
    BY Zenon, <1>0, <2>2 DEF Changed, Kept
  <2>3. ASSUME NEW m \in Modules, NEW other \in Modules, Merged(m, other)
        PROVE  P
    BY Zenon, <1>0, <2>3 DEF Merged, Kept
  <2> HIDE DEF P
  <2> QED
    BY Zenon, <1>0, <1>1, <2>1, <2>2, <2>3 DEF Kinds, Registered, Created, Removed
<1>2. RpcInv /\ [Next]_vars => [P]_vars
  BY Zenon, <1>1, RpcNext
<1> QED
  BY <1>2, RpcInvariant, PTL DEF Spec, RunningServersAreIsolated

(* A registration, alias or merge that is refused leaves every module as it    *)
(* was, and one that succeeds replaces no callback (verify_method_name and the *)
(* order of its calls in register_*, merge and the generated into_rpc).        *)
THEOREM RegistrationAlwaysAddsAllOrNothing == Spec => RegistrationAddsAllOrNothing
<1> DEFINE Q(m) == LET old == Table(m)
                       new == heap'[cell'[m]]
                   IN  /\ result' \in Errors => new = old
                       /\ \A n \in DOMAIN old \cap DOMAIN new : new[n] = old[n]
           P == \A m \in Modules : cell[m] # None /\ cell'[m] # None => Q(m)
<1>0. Modules \subseteq Handles /\ Modules \cap Servers = {}
  BY Zenon, RpcModuleAssumption DEF Handles
<1>1. ASSUME NEW g, cell[g] # None, heap'[cell'[g]] = Table(g)
      PROVE  Q(g)
  BY Zenon, <1>1
<1>2. ASSUME NEW h \in Handles, NEW t, Changed(h, t), h \in Modules /\ cell[h] # None => Q(h)
      PROVE  P
  <2> HIDE DEF Q
  <2> QED
    BY Zenon, <1>0, <1>1, <1>2 DEF Changed, Kept
<1>3. ASSUME NEW m \in Modules, NEW op, Registered(m, op)
      PROVE  P
  <2> DEFINE r == Register(Table(m), op, made + 1)
  <2>1. IsOp(op)
    BY Zenon, <1>3 DEF Registered
  <2>2. heap'[cell'[m]] = r.table
    BY Zenon, <1>3 DEF Registered, Changed
  <2>3. /\ r.result # "Ok" => r.table = Table(m)
        /\ \A n \in DOMAIN Table(m) : n \in DOMAIN r.table /\ r.table[n] = Table(m)[n]
    BY <2>1, RegisterAdds
  <2>4. Changed(m, r.table) /\ (result' \in Errors => r.result # "Ok")
    BY Zenon, <1>3 DEF Registered
  <2> HIDE DEF r
  <2>5. Q(m)
    BY Zenon, <2>2, <2>3, <2>4
  <2> HIDE DEF P, Q
  <2> QED
    BY Zenon, <1>0, <1>2, <2>4, <2>5
<1>4. ASSUME NEW m \in Modules, NEW name \in Names, Removed(m, name)
      PROVE  P
  <2>1. Q(m)
    BY Zenon, <1>4 DEF Removed, Changed, Without
  <2> HIDE DEF P, Q
  <2> QED
    BY Zenon, <1>0, <1>2, <1>4, <2>1 DEF Removed
<1>5. ASSUME NEW m \in Modules, NEW other \in Modules, Merged(m, other)
      PROVE  P
  <2>1. Q(m)
    BY Zenon, <1>5 DEF Merged, Both
  <2> HIDE DEF Q
  <2> QED
    BY Zenon, <1>0, <1>1, <1>5, <2>1 DEF Merged, Kept
<1>6. ASSUME Quiet
      PROVE  P
  BY Zenon, <1>6 DEF Quiet, Table
<1>7. ASSUME NEW h \in Handles, NEW t, Created(h, t)
      PROVE  P
  <2> HIDE DEF P, Q
  <2> QED
    BY Zenon, <1>2, <1>7 DEF Created
<1>8. Kinds => P
  <2> HIDE DEF P, Q
  <2> QED
    BY Zenon, <1>3, <1>4, <1>5, <1>6, <1>7 DEF Kinds, Handles
<1>9. RpcInv /\ [Next]_vars => [P]_vars
  BY Zenon, <1>8, RpcNext
<1> QED
  BY <1>9, RpcInvariant, PTL DEF Spec, RegistrationAddsAllOrNothing
-----------------------------------------------------------------------------
(* The calls.  A subscription enters its map when accept is done and leaves  *)
(* it when it is unsubscribed or its sink is dropped; one that is found by   *)
(* an unsubscribe call was accepted and is not accepted again.               *)
Pending == {"pending", "sent", "replied", "active", "ended", "rejected", "dropped", "failed"}
CallStates ==
    [caller : {"idle", "waiting", "answered", "gone"},
     handler : {"none", "Async", "Blocking"} \cup Pending,
     subs : 0..MaxSubs,
     answer : {"Ok", "MethodNotFound", "InternalErrorWithoutId", "True", "False",
               "Subscribed", "Rejected", None},
     of : Calls \cup {None}]
CallInv ==
    /\ call \in [Calls -> CallStates]
    /\ entries \in [Subs -> SUBSET Calls]
    /\ \A c \in Calls :
         /\ call[c].caller = "idle" => call[c].handler = "none" /\ call[c].answer = None
         /\ call[c].handler \in Pending => call[c].subs \in Subs
    /\ \A r \in Subs : \A s \in entries[r] : call[s].handler = "active" /\ call[s].subs = r
    /\ \A c \in Calls : call[c].answer = "True" =>
         /\ call[c].subs \in Subs
         /\ call[c].of \in Calls /\ call[call[c].of].handler \in {"active", "ended"}
         /\ call[c].of \notin entries[call[c].subs]

(* A call whose handler does not pass accept or end, and that finds nothing. *)
LEMMA CallGoesOn ==
    ASSUME CallInv, NEW c \in Calls, NEW s \in CallStates, call' = [call EXCEPT ![c] = s],
           UNCHANGED entries,
           s.caller # "idle",
           s.handler \in Pending => s.subs \in Subs,
           call[c].handler \in {"active", "ended"}
             => s.handler = call[c].handler /\ s.subs = call[c].subs,
           s.answer = "True" => /\ call[c].answer = "True"
                                /\ s.subs = call[c].subs /\ s.of = call[c].of
    PROVE  CallInv'
<1>1. /\ call'[c] = s /\ call' \in [Calls -> CallStates]
      /\ \A d \in Calls \ {c} : call'[d] = call[d]
  BY DEF CallInv
<1>2. entries' \in [Subs -> SUBSET Calls] /\ entries' = entries
  BY Zenon DEF CallInv
<1>3. \A d \in Calls :
         /\ call'[d].caller = "idle" => call'[d].handler = "none" /\ call'[d].answer = None
         /\ call'[d].handler \in Pending => call'[d].subs \in Subs
  BY <1>1 DEF CallInv
<1>4. \A d \in Calls : call[d].handler \in {"active", "ended"}
                         => call'[d].handler = call[d].handler /\ call'[d].subs = call[d].subs
  BY Zenon, <1>1
<1>5. \A r \in Subs : \A d \in entries'[r] : call'[d].handler = "active" /\ call'[d].subs = r
  BY <1>2, <1>4 DEF CallInv
<1>6. \A d \in Calls : call'[d].answer = "True" =>
         /\ call[d].answer = "True"
         /\ call'[d].subs = call[d].subs /\ call'[d].of = call[d].of
  BY Zenon, <1>1
<1>7. \A d \in Calls : call'[d].answer = "True" =>
         /\ call'[d].subs \in Subs
         /\ call'[d].of \in Calls /\ call'[call'[d].of].handler \in {"active", "ended"}
         /\ call'[d].of \notin entries'[call'[d].subs]
  BY <1>2, <1>4, <1>6 DEF CallInv
<1> QED
  BY Zenon, <1>1, <1>2, <1>3, <1>5, <1>7 DEF CallInv

(* A handler goes on by itself: the other fields of its call stay. *)
Moved(c, from, to, s) ==
    /\ call' = [call EXCEPT ![c] = s] /\ s \in CallStates
    /\ call[c].handler = from /\ s.handler = to /\ s.caller # "idle"
    /\ s.answer = call[c].answer /\ s.subs = call[c].subs /\ s.of = call[c].of
    /\ s.subs \in Subs
LEMMA HandlerStep ==
    ASSUME CallInv, NEW c \in Calls, NEW from, NEW to \in Pending, Handler(c, from, to),
           from \in Pending
    PROVE  Moved(c, from, to, [call[c] EXCEPT !.handler = to])
<1> DEFINE s == [call[c] EXCEPT !.handler = to]
<1>1. call[c] \in CallStates /\ call[c].handler = from
  BY Zenon DEF CallInv, Handler
<1>2. call' = [call EXCEPT ![c] = s]
  BY Zenon DEF Handler
<1>3. /\ s \in CallStates /\ s.handler = to /\ s.caller = call[c].caller
      /\ s.answer = call[c].answer /\ s.subs = call[c].subs /\ s.of = call[c].of
  BY Zenon, <1>1 DEF CallStates
<1>4. call[c].caller # "idle" /\ call[c].subs \in Subs
  BY Zenon, <1>1 DEF CallInv, Pending
<1> HIDE DEF s
<1>5. Moved(c, from, to, s)
  BY Zenon, <1>1, <1>2, <1>3, <1>4 DEF Moved
<1> QED
  BY Zenon, <1>5 DEF s

(* A handler that is not past accept. *)
LEMMA HandlerGoesOn ==
    ASSUME CallInv, NEW c \in Calls, NEW from \in {"pending", "sent"}, NEW to \in Pending,
           Handler(c, from, to), UNCHANGED entries
    PROVE  CallInv'
<1> DEFINE s == [call[c] EXCEPT !.handler = to]
<1>0. from \in Pending /\ to \in Pending /\ Handler(c, from, to)
  BY Zenon DEF Pending
<1>1. Moved(c, from, to, s)
  BY Zenon, <1>0, HandlerStep
<1> HIDE DEF s
<1> QED
  BY Zenon, <1>1, CallGoesOn DEF Moved

(* accept puts the subscription into its map. *)
LEMMA AcceptInserts ==
    ASSUME CallInv, NEW c \in Calls, AcceptInsert(c)
    PROVE  CallInv'
<1> DEFINE s == [call[c] EXCEPT !.handler = "active"]
<1>0. "replied" \in Pending /\ "active" \in Pending /\ Handler(c, "replied", "active")
  BY Zenon DEF Pending, AcceptInsert
<1>1. Moved(c, "replied", "active", s)
  BY Zenon, <1>0, HandlerStep
<1> HIDE DEF s
<1>2. /\ call'[c] = s /\ call' \in [Calls -> CallStates]
      /\ \A d \in Calls \ {c} : call'[d] = call[d]
  BY <1>1 DEF Moved, CallInv
<1>3. /\ entries' \in [Subs -> SUBSET Calls]
      /\ entries'[s.subs] = entries[s.subs] \cup {c}
      /\ \A r \in Subs \ {s.subs} : entries'[r] = entries[r]
  BY <1>1 DEF Moved, AcceptInsert, CallInv
<1>4. \A d \in Calls :
         /\ call'[d].caller = "idle" => call'[d].handler = "none" /\ call'[d].answer = None
         /\ call'[d].handler \in Pending => call'[d].subs \in Subs
  BY <1>1, <1>2 DEF Moved, CallInv
<1>5. \A r \in Subs : \A d \in entries'[r] : call'[d].handler = "active" /\ call'[d].subs = r
  BY <1>1, <1>2, <1>3 DEF Moved, CallInv
<1>6. ASSUME NEW d \in Calls, call'[d].answer = "True"
      PROVE  /\ call'[d].subs \in Subs
             /\ call'[d].of \in Calls /\ call'[call'[d].of].handler \in {"active", "ended"}
             /\ call'[d].of \notin entries'[call'[d].subs]
  <2>1. call[d].answer = "True" /\ call'[d].subs = call[d].subs /\ call'[d].of = call[d].of
    BY Zenon, <1>1, <1>2, <1>6 DEF Moved
  <2>2. /\ call[d].subs \in Subs /\ call[d].of \in Calls
        /\ call[call[d].of].handler \in {"active", "ended"}
        /\ call[d].of \notin entries[call[d].subs]
    BY Zenon, <2>1 DEF CallInv
  <2>3. call[d].of # c
    BY Zenon, <1>1, <2>2 DEF Moved
  <2> QED
    BY <1>2, <1>3, <2>1, <2>2, <2>3
<1> QED
  BY Zenon, <1>2, <1>3, <1>4, <1>5, <1>6 DEF CallInv

(* The drop of a SubscriptionSink takes it out. *)
LEMMA SinkDrops ==
    ASSUME CallInv, NEW c \in Calls, DropSink(c)
    PROVE  CallInv'
<1> DEFINE s == [call[c] EXCEPT !.handler = "ended"]
<1>0. "active" \in Pending /\ "ended" \in Pending /\ Handler(c, "active", "ended")
  BY Zenon DEF Pending, DropSink
<1>1. Moved(c, "active", "ended", s)
  BY Zenon, <1>0, HandlerStep
<1> HIDE DEF s
<1>2. /\ call'[c] = s /\ call' \in [Calls -> CallStates]
      /\ \A d \in Calls \ {c} : call'[d] = call[d]
  BY <1>1 DEF Moved, CallInv
<1>3. /\ entries' \in [Subs -> SUBSET Calls]
      /\ entries'[s.subs] = entries[s.subs] \ {c}
      /\ \A r \in Subs \ {s.subs} : entries'[r] = entries[r]
  BY <1>1 DEF Moved, DropSink, CallInv
<1>4. \A d \in Calls :
         /\ call'[d].caller = "idle" => call'[d].handler = "none" /\ call'[d].answer = None
         /\ call'[d].handler \in Pending => call'[d].subs \in Subs
  BY <1>1, <1>2 DEF Moved, CallInv
<1>5. \A r \in Subs : \A d \in entries'[r] : call'[d].handler = "active" /\ call'[d].subs = r
  <2>1. \A r \in Subs : \A d \in entries'[r] : d \in entries[r] /\ d # c
    BY <1>1, <1>3 DEF Moved, CallInv
  <2> QED
    BY <1>2, <1>3, <2>1 DEF CallInv
<1>6. ASSUME NEW d \in Calls, call'[d].answer = "True"
      PROVE  /\ call'[d].subs \in Subs
             /\ call'[d].of \in Calls /\ call'[call'[d].of].handler \in {"active", "ended"}
             /\ call'[d].of \notin entries'[call'[d].subs]
  <2>1. call[d].answer = "True" /\ call'[d].subs = call[d].subs /\ call'[d].of = call[d].of
    BY Zenon, <1>1, <1>2, <1>6 DEF Moved
  <2>2. /\ call[d].subs \in Subs /\ call[d].of \in Calls
        /\ call[call[d].of].handler \in {"active", "ended"}
        /\ call[d].of \notin entries[call[d].subs]
    BY Zenon, <2>1 DEF CallInv
  <2> QED
    BY <1>1, <1>2, <1>3, <2>1, <2>2 DEF Moved
<1> QED
  BY Zenon, <1>2, <1>3, <1>4, <1>5, <1>6 DEF CallInv
(* An answer that finds no subscription. *)
LEMMA AnswerGoesOn ==
    ASSUME CallInv, NEW c \in Calls, Answer(c, "Ok") \/ Answer(c, "MethodNotFound")
             \/ Answer(c, "InternalErrorWithoutId") \/ Answer(c, "Subscribed")
             \/ Answer(c, "Rejected"),
           UNCHANGED entries
    PROVE  CallInv'
<1>1. PICK a \in {"Ok", "MethodNotFound", "InternalErrorWithoutId", "Subscribed", "Rejected"} :
        Answer(c, a)
  BY Zenon
<1> DEFINE s == [call[c] EXCEPT !.caller = "answered", !.answer = a]
<1>2. call[c] \in CallStates /\ (call[c].handler \in Pending => call[c].subs \in Subs)
  BY Zenon DEF CallInv
<1>3. call' = [call EXCEPT ![c] = s]
  BY Zenon, <1>1 DEF Answer
<1>4. /\ s \in CallStates /\ s.caller = "answered" /\ s.answer = a
      /\ s.handler = call[c].handler /\ s.subs = call[c].subs /\ s.of = call[c].of
  BY Zenon, <1>2 DEF CallStates
<1> HIDE DEF s
<1> QED
  BY Zenon, <1>2, <1>3, <1>4, CallGoesOn

(* A caller that gives up leaves its handler alone. *)
LEMMA GiveUpGoesOn ==
    ASSUME CallInv, NEW c \in Calls, GiveUp(c)
    PROVE  CallInv'
<1> DEFINE s == [call[c] EXCEPT !.caller = "gone"]
<1>1. call[c] \in CallStates /\ (call[c].handler \in Pending => call[c].subs \in Subs)
  BY Zenon DEF CallInv
<1>2. call' = [call EXCEPT ![c] = s] /\ UNCHANGED entries
  BY Zenon DEF GiveUp
<1>3. /\ s \in CallStates /\ s.caller = "gone" /\ s.answer = call[c].answer
      /\ s.handler = call[c].handler /\ s.subs = call[c].subs /\ s.of = call[c].of
  BY Zenon, <1>1 DEF CallStates
<1> HIDE DEF s
<1> QED
  BY Zenon, <1>1, <1>2, <1>3, CallGoesOn

(* A callback starts: it has a Subscribers map if it is of a subscription. *)
LEMMA InvokeStarts ==
    ASSUME CallInv, NEW c \in Calls, call[c].caller = "idle", UNCHANGED entries,
           NEW handler \in {"Async", "Blocking", "pending"}, NEW subs \in 0..MaxSubs,
           handler = "pending" => subs \in Subs,
           call' = [call EXCEPT ![c] = [call[c] EXCEPT !.caller = "waiting",
                                                       !.handler = handler, !.subs = subs]]
    PROVE  CallInv'
<1> DEFINE s == [call[c] EXCEPT !.caller = "waiting", !.handler = handler, !.subs = subs]
<1>1. call[c] \in CallStates /\ call[c].handler = "none" /\ call[c].answer = None
  BY Zenon DEF CallInv
<1>2. /\ s \in CallStates /\ s.caller = "waiting" /\ s.answer = None
      /\ s.handler = handler /\ s.subs = subs
  BY Zenon, <1>1 DEF CallStates, Pending
<1>3. handler \in Pending => subs \in Subs
  BY Zenon DEF Pending
<1>4. None # "True"
  BY Zenon, RpcModuleAssumption
<1> HIDE DEF s
<1>5. call' = [call EXCEPT ![c] = s]
  BY Zenon DEF s
<1> QED
  BY Zenon, <1>1, <1>2, <1>3, <1>4, <1>5, CallGoesOn

(* Unsubscribing takes what it finds out of the map. *)
LEMMA Unsubscribes ==
    ASSUME CallInv, NEW c \in Calls, call[c].caller = "idle", NEW r \in Subs,
           NEW o \in Calls \ {c},
           call' = [call EXCEPT ![c] = [call[c] EXCEPT
                      !.caller = "answered", !.subs = r, !.of = o,
                      !.answer = IF o \in entries[r] THEN "True" ELSE "False"]],
           entries' = [entries EXCEPT ![r] = @ \ {o}]
    PROVE  CallInv'
<1> DEFINE a == IF o \in entries[r] THEN "True" ELSE "False"
           s == [call[c] EXCEPT !.caller = "answered", !.subs = r, !.of = o, !.answer = a]
<1>1. call[c] \in CallStates /\ call[c].handler = "none"
  BY Zenon DEF CallInv
<1>2. /\ s \in CallStates /\ s.caller = "answered" /\ s.answer = a
      /\ s.handler = "none" /\ s.subs = r /\ s.of = o
  <2>1. a \in {"True", "False"} /\ r \in 0..MaxSubs
    BY RpcModuleAssumption DEF Subs
  <2> HIDE DEF a
  <2> QED
    BY Zenon, <1>1, <2>1 DEF CallStates
<1>3. call' = [call EXCEPT ![c] = s]
  BY Zenon
<1>4. a = "True" => o \in entries[r]
  BY Zenon
<1> HIDE DEF s, a
<1>5. /\ call'[c] = s /\ call' \in [Calls -> CallStates]
      /\ \A d \in Calls \ {c} : call'[d] = call[d]
  BY <1>2, <1>3 DEF CallInv
<1>6. /\ entries' \in [Subs -> SUBSET Calls]
      /\ entries'[r] = entries[r] \ {o}
      /\ \A q \in Subs \ {r} : entries'[q] = entries[q]
  BY DEF CallInv
<1>7. \A d \in Calls :
         /\ call'[d].caller = "idle" => call'[d].handler = "none" /\ call'[d].answer = None
         /\ call'[d].handler \in Pending => call'[d].subs \in Subs
  BY <1>2, <1>5 DEF CallInv, Pending
<1>8. \A q \in Subs : \A d \in entries'[q] : call'[d].handler = "active" /\ call'[d].subs = q
  <2>1. \A q \in Subs : \A d \in entries'[q] : d \in entries[q] /\ d \in Calls
    BY <1>6 DEF CallInv
  <2>2. \A q \in Subs : \A d \in entries[q] : d # c
    BY Zenon, <1>1 DEF CallInv
  <2> QED
    BY <1>5, <2>1, <2>2 DEF CallInv
<1>9. ASSUME NEW d \in Calls, call'[d].answer = "True"
      PROVE  /\ call'[d].subs \in Subs
             /\ call'[d].of \in Calls /\ call'[call'[d].of].handler \in {"active", "ended"}
             /\ call'[d].of \notin entries'[call'[d].subs]
  <2>1. CASE d = c
    <3>1. call[o].handler = "active" /\ call'[o] = call[o]
      BY <1>2, <1>4, <1>5, <1>9, <2>1 DEF CallInv
    <3> QED
      BY <1>2, <1>5, <1>6, <2>1, <3>1
  <2>2. CASE d # c
    <3>1. /\ call'[d] = call[d]
          /\ call[d].subs \in Subs /\ call[d].of \in Calls
          /\ call[call[d].of].handler \in {"active", "ended"}
          /\ call[d].of \notin entries[call[d].subs]
      BY Zenon, <1>5, <1>9, <2>2 DEF CallInv
    <3>2. call[d].of # c
      BY Zenon, <1>1, <3>1
    <3> QED
      BY <1>5, <1>6, <3>1, <3>2
  <2> QED
    BY Zenon, <2>1, <2>2
<1> QED
  BY Zenon, <1>5, <1>6, <1>7, <1>8, <1>9 DEF CallInv
(* Every step keeps the calls. *)
LEMMA InvokeKeepsCalls ==
    ASSUME CallInv, TablesInv, NEW c \in Calls, NEW h \in Handles, NEW n, Invoke(c, h, n)
    PROVE  CallInv'
<1> DEFINE cb == Table(h)[n]
<1>0. /\ call[c].caller = "idle" /\ cell[h] # None
      /\ MaxSubs \in Nat
      /\ call \in [Calls -> CallStates] /\ call[c].subs \in 0..MaxSubs
  BY Zenon, RpcModuleAssumption DEF Invoke, CallInv, CallStates
<1>1. n \in DOMAIN Table(h) =>
        /\ cb.kind \in Callable <=> cb.subs = 0
        /\ cb.subs \in 0..made /\ made \in 0..MaxSubs
  BY Zenon, <1>0 DEF TablesInv, GoodTable, Callbacks
<1>2. ASSUME n \in DOMAIN Table(h), cb.kind \in {"Subscription", "Unsubscription"}
      PROVE  cb.subs \in Subs /\ cb.subs \in 0..MaxSubs
  BY <1>0, <1>1, <1>2 DEF Callable, Subs
<1>3. CASE (Answer(c, "MethodNotFound") \/ Answer(c, "Ok")) /\ UNCHANGED entries
  BY Zenon, <1>3, AnswerGoesOn
<1>4. CASE /\ cb.kind \in {"Async", "Blocking"}
           /\ call' = [call EXCEPT ![c].caller = "waiting", ![c].handler = cb.kind]
           /\ UNCHANGED entries
  <2> HIDE DEF cb
  <2>1. call' = [call EXCEPT ![c] = [call[c] EXCEPT !.caller = "waiting", !.handler = cb.kind,
                                                     !.subs = call[c].subs]]
    BY Zenon, <1>0, <1>4 DEF CallStates
  <2> QED
    BY <1>0, <1>4, <2>1, InvokeStarts
<1>5. CASE /\ n \in DOMAIN Table(h) /\ cb.kind = "Subscription"
           /\ call' = [call EXCEPT ![c].caller = "waiting", ![c].handler = "pending",
                                  ![c].subs = cb.subs]
           /\ UNCHANGED entries
  <2>1. cb.subs \in Subs /\ cb.subs \in 0..MaxSubs
    BY Zenon, <1>2, <1>5
  <2> HIDE DEF cb
  <2>2. call' = [call EXCEPT ![c] = [call[c] EXCEPT !.caller = "waiting",
                                       !.handler = "pending", !.subs = cb.subs]]
    BY Zenon, <1>5
  <2> QED
    BY Zenon, <1>0, <1>5, <2>1, <2>2, InvokeStarts
<1>6. CASE /\ n \in DOMAIN Table(h) /\ cb.kind = "Unsubscription"
           /\ \E s \in Calls \ {c} :
                /\ call[s].answer = "Subscribed"
                /\ call' = [call EXCEPT ![c].caller = "answered", ![c].subs = cb.subs,
                             ![c].of = s,
                             ![c].answer = IF s \in entries[cb.subs] THEN "True" ELSE "False"]
                /\ entries' = [entries EXCEPT ![cb.subs] = @ \ {s}]
  <2>1. cb.subs \in Subs
    BY Zenon, <1>2, <1>6
  <2> HIDE DEF cb
  <2>2. PICK s \in Calls \ {c} :
          /\ call' = [call EXCEPT ![c].caller = "answered", ![c].subs = cb.subs,
                       ![c].of = s,
                       ![c].answer = IF s \in entries[cb.subs] THEN "True" ELSE "False"]
          /\ entries' = [entries EXCEPT ![cb.subs] = @ \ {s}]
    BY Zenon, <1>6
  <2>3. call' = [call EXCEPT ![c] = [call[c] EXCEPT
                   !.caller = "answered", !.subs = cb.subs, !.of = s,
                   !.answer = IF s \in entries[cb.subs] THEN "True" ELSE "False"]]
    BY Zenon, <2>2
  <2> QED
    BY Zenon, <1>0, <2>1, <2>2, <2>3, Unsubscribes
<1> QED
  BY <1>3, <1>4, <1>5, <1>6, Zenon DEF Invoke

LEMMA StepKeepsCalls ==
    ASSUME CallInv, TablesInv, [Next]_vars
    PROVE  CallInv'
<1>1. CASE UNCHANGED callVars
  BY Zenon, <1>1 DEF callVars, CallInv
<1>2. TableStep \/ IntoRpcStep \/ UNCHANGED vars => UNCHANGED callVars
  BY Zenon DEF TableStep, New, RegisterOne, RemoveMethod, Merge, Start, IntoRpc, DoesNotCompile,
         IntoRpcStep, Generated, vars
<1>3. CASE CallStep
  <2>1. PICK c \in Calls : \/ \E h \in Handles \ {into}, n \in Names : Invoke(c, h, n)
                           \/ Progress(c) \/ DropSink(c) \/ GiveUp(c)
    BY Zenon, <1>3 DEF CallStep
  <2>2. ASSUME NEW h \in Handles, NEW n, Invoke(c, h, n) PROVE CallInv'
    BY Zenon, <2>2, InvokeKeepsCalls
  <2>3. Finish(c) \/ Answered(c) => CallInv'
    BY Zenon, AnswerGoesOn DEF Finish, Answered
  <2>4. ASSUME AcceptSend(c) \/ AcceptReply(c) \/ Reject(c) \/ DropPending(c)
        PROVE  CallInv'
    <3>1. PICK from \in {"pending", "sent"} : \E to \in Pending : Handler(c, from, to)
      BY Zenon, <2>4 DEF AcceptSend, AcceptReply, Reject, DropPending, Pending
    <3>2. UNCHANGED entries
      BY Zenon, <2>4 DEF AcceptSend, AcceptReply, Reject, DropPending
    <3> QED
      BY Zenon, <3>1, <3>2, HandlerGoesOn
  <2> QED
    BY Zenon, <2>1, <2>2, <2>3, <2>4, AcceptInserts, SinkDrops, GiveUpGoesOn DEF Progress
<1> QED
  BY Zenon, <1>1, <1>2, <1>3 DEF Next

(* A subscription whose unsubscribe call returned true is in no Subscribers    *)
(* map again, although accept inserts it only after it has answered: it is     *)
(* found only once it is inserted, and it is inserted once.                    *)
THEOREM UnsubscribedIsAlwaysForgotten == Spec => []UnsubscribedIsForgotten
<1>1. Init => CallInv
  <2> SUFFICES ASSUME Init PROVE CallInv
    BY Zenon
  <2> DEFINE s == [caller |-> "idle", handler |-> "none", subs |-> 0,
                   answer |-> None, of |-> None]
  <2>1. s \in CallStates /\ s.caller = "idle" /\ s.handler = "none" /\ s.answer = None
    BY RpcModuleAssumption DEF CallStates
  <2>2. call = [c \in Calls |-> s] /\ entries = [r \in Subs |-> {}]
    BY Zenon DEF Init
  <2> HIDE DEF s
  <2> QED
    BY Zenon, <2>1, <2>2, RpcModuleAssumption DEF CallInv, Pending
<1>2. RpcInv /\ CallInv /\ [Next]_vars => CallInv'
  BY Zenon, StepKeepsCalls DEF RpcInv
<1>3. CallInv => UnsubscribedIsForgotten
  BY DEF CallInv, UnsubscribedIsForgotten
<1> QED
  BY <1>1, <1>2, <1>3, RpcInvariant, PTL DEF Spec
=============================================================================
