-------------------------- MODULE HttpClientProofs --------------------------
(***************************************************************************)
(* What each step of the HTTP client does to its permits and to the        *)
(* contract of ClientT, for every limit, every set of operations and       *)
(* whatever the peer answers.  Nothing is assumed of the replies: only the *)
(* checks of request and batch_request make an answer belong to its entry. *)
(***************************************************************************)
EXTENDS HttpClient, FiniteSetTheorems, TLAPS

Stages == {"idle", "waiting", "granted", "sending", "ok", "err", "dropped"}
Over == {"ok", "err", "dropped"}

(* A record of an operation.  The request and the answer may be anything. *)
IsOperation(r) == r \in [stage : Stages, op : {r.op}, first : Nat, result : {r.result}]

ClientType ==
  /\ DOMAIN call = Calls /\ call = [c \in Calls |-> call[c]]
  /\ \A c \in Calls : IsOperation(call[c])
  /\ \A c \in Calls : call[c].stage # "ok" => call[c].result = <<>>
  /\ free \in Nat /\ nextId \in Nat
  /\ waiting \in Seq(Calls)

(* The queue of the semaphore: who waits is in it, once. *)
QueueInv ==
  /\ \A i \in 1 .. Len(waiting) : call[waiting[i]].stage = "waiting"
  /\ \A i, j \in 1 .. Len(waiting) : waiting[i] = waiting[j] => i = j
  /\ \A c \in Asleep : \E i \in 1 .. Len(waiting) : waiting[i] = c

PermitInv ==
  /\ free + Cardinality(Holders) = MaxConcurrent
  /\ waiting # <<>> => free = 0

ClientInv == ClientType /\ QueueInv /\ PermitInv

-----------------------------------------------------------------------------
(* What an operation makes of a reply. *)

InOrder(first, result) ==
  \A i \in DOMAIN result : result[i].err = "" => result[i].id.n - first + 1 = i

IsEnd(end, first) ==
  /\ end \in [stage : {"ok", "err"}, result : {end.result}]
  /\ end.stage = "err" => end.result = <<>>
  /\ InOrder(first, end.result)

LEMMA FailedIsEnd ==
  ASSUME NEW first, NEW e
  PROVE  IsEnd(Failed(e), first)
BY DEF IsEnd, InOrder, Failed, Ended

LEMMA RequestIsEnd ==
  ASSUME NEW first \in Nat, NEW rp
  PROVE  IsEnd(ReturnRequest(first, rp), first)
<1>1. CASE ReturnRequest(first, rp) = Ended("ok", <<rp>>) /\ rp.id = Id(first)
  <2>1. rp.id.n - first + 1 = 1
    BY <1>1 DEF Id
  <2>2. InOrder(first, <<rp>>)
    <3>1. DOMAIN <<rp>> = {1} /\ <<rp>>[1] = rp
      OBVIOUS
    <3> QED BY <2>1, <3>1, Zenon DEF InOrder
  <2> QED BY <1>1, <2>2 DEF IsEnd, Ended
<1>2. CASE ReturnRequest(first, rp) \in {Failed("Call"), Failed("ParseError"),
                                         Failed("InvalidRequestId")}
  BY Zenon, <1>2, FailedIsEnd
<1> QED BY <1>1, <1>2, Zenon DEF ReturnRequest

LEMMA BatchIsEnd ==
  ASSUME NEW first \in Nat, NEW rps
  PROVE  IsEnd(ReturnBatch(first, rps), first)
<1> DEFINE bad == {i \in DOMAIN rps : EntryError(first, Len(rps), rps[i]) # ""}
           for(p) == {i \in DOMAIN rps : rps[i].id.n = first + p - 1}
           last(p) == {i \in for(p) : \A j \in for(p) : j <= i}
           place(p) == IF last(p) = {} THEN Placeholder
                       ELSE rps[CHOOSE i \in last(p) : TRUE]
           all == [p \in 1 .. Len(rps) |-> place(p)]
<1>1. CASE bad # {}
  BY <1>1, FailedIsEnd, Zenon DEF ReturnBatch
<1>2. CASE bad = {}
  <2>1. ReturnBatch(first, rps) = Ended("ok", all)
    BY <1>2, Zenon DEF ReturnBatch
  <2>2. ASSUME NEW p \in 1 .. Len(rps), place(p).err = ""
        PROVE  place(p).id.n - first + 1 = p
    <3>1. last(p) # {}
      BY <2>2, Zenon DEF Placeholder
    <3>2. PICK i \in last(p) : place(p) = rps[i]
      BY Zenon, <3>1
    <3>3. rps[i].id.n = first + p - 1
      BY Zenon, <3>2
    <3> QED BY <3>2, <3>3
  <2>3. InOrder(first, all)
    BY <2>2, Zenon DEF InOrder
  <2> QED BY <2>1, <2>3 DEF IsEnd, Ended
<1> QED BY <1>1, <1>2, Zenon

LEMMA OutcomeIsEnd ==
  ASSUME NEW op, NEW first \in Nat, NEW rep
  PROVE  IsEnd(Outcome(op, first, rep), first)
<1>1. IsEnd(Ended("ok", <<>>), first)
  BY DEF IsEnd, InOrder, Ended
<1> QED BY <1>1, FailedIsEnd, RequestIsEnd, BatchIsEnd DEF Outcome

-----------------------------------------------------------------------------
(* The end of an operation, and the permit it hands on. *)

(* What End does to the operations, without the records. *)
Handed(c, end, d) ==
  IF d = c THEN [call[c] EXCEPT !.stage = end.stage, !.result = end.result]
  ELSE IF waiting # <<>> /\ d = waiting[1] THEN [call[d] EXCEPT !.stage = "granted"]
  ELSE call[d]

LEMMA EndStep ==
  ASSUME ClientInv, NEW c \in Holders, NEW end, end.stage \in Over,
         end.stage # "ok" => end.result = <<>>,
         End(c, end)
  PROVE  /\ call' = [d \in Calls |-> Handed(c, end, d)]
         /\ waiting = <<>> => waiting' = <<>> /\ free' = free + 1
         /\ waiting # <<>> => waiting' = Tail(waiting) /\ free' = free
         /\ waiting # <<>> => waiting[1] \in Asleep
         /\ c \in Calls /\ c \notin Asleep
<1>1. c \in Calls /\ c \notin Asleep
  BY Zenon DEF Holders, Asleep
<1>2. waiting # <<>> => waiting[1] \in Asleep
  BY DEF ClientInv, ClientType, QueueInv, Asleep
<1>3. CASE waiting = <<>>
  BY Zenon, <1>1, <1>3 DEF End, Handed, ClientInv, ClientType
<1>4. CASE waiting # <<>>
  <2>1. Head(waiting) = waiting[1] /\ waiting[1] \in Calls /\ waiting[1] # c
    BY <1>1, <1>2, <1>4 DEF ClientInv, ClientType, Asleep
  <2>2. call' = [[call EXCEPT ![c].stage = end.stage, ![c].result = end.result]
                   EXCEPT ![waiting[1]].stage = "granted"]
    BY Zenon, <1>4, <2>1 DEF End
  <2>3. call' = [d \in Calls |-> Handed(c, end, d)]
    <3> DEFINE over == [call[c] EXCEPT !.stage = end.stage, !.result = end.result]
               mid == [call EXCEPT ![c].stage = end.stage, ![c].result = end.result]
    <3>1. mid = [d \in Calls |-> IF d = c THEN over ELSE call[d]]
      BY Zenon, <1>1 DEF ClientInv, ClientType
    <3>2. call' = [mid EXCEPT ![waiting[1]].stage = "granted"]
      BY Zenon, <2>2
    <3> HIDE DEF mid
    <3>3. call' = [d \in Calls |-> IF d = waiting[1] THEN [mid[d] EXCEPT !.stage = "granted"]
                                   ELSE mid[d]]
      BY <2>1, <3>1, <3>2, Zenon
    <3> QED BY Zenon, <1>4, <2>1, <3>1, <3>3 DEF Handed
  <2> QED BY Zenon, <1>1, <1>2, <1>4, <2>3 DEF End
<1> QED BY Zenon, <1>1, <1>2, <1>3, <1>4

LEMMA EndKeepsType ==
  ASSUME ClientInv, NEW c \in Holders, NEW end, end.stage \in Over,
         end.stage # "ok" => end.result = <<>>,
         End(c, end), nextId' \in Nat
  PROVE  ClientType'
<1>1. ASSUME NEW d \in Calls
      PROVE  IsOperation(Handed(c, end, d))
             /\ (Handed(c, end, d).stage # "ok" => Handed(c, end, d).result = <<>>)
  <2>1. IsOperation(call[d]) /\ (call[d].stage # "ok" => call[d].result = <<>>) /\ IsOperation(call[c])
    BY Zenon DEF ClientInv, ClientType, Holders
  <2>2. CASE d = c
    BY <2>1, <2>2, Zenon DEF Handed, IsOperation, Over, Stages
  <2>3. CASE d # c /\ waiting # <<>> /\ d = waiting[1]
    BY <2>1, <2>3, EndStep, Zenon DEF Handed, IsOperation, Stages, Asleep
  <2>4. CASE d # c /\ ~(waiting # <<>> /\ d = waiting[1])
    BY Zenon, <2>1, <2>4 DEF Handed
  <2> QED BY Zenon, <2>2, <2>3, <2>4
<1>2. free \in Nat /\ waiting \in Seq(Calls)
  BY Zenon DEF ClientInv, ClientType
<1>3. free' \in Nat /\ waiting' \in Seq(Calls)
  <2> HIDE DEF Handed
  <2>1. CASE waiting = <<>>
    BY <1>2, <2>1 DEF End
  <2>2. CASE waiting # <<>>
    <3>1. Tail(waiting) \in Seq(Calls)
      BY <1>2, <2>2
    <3> QED BY <1>2, <2>2, <3>1, Zenon DEF End
  <2> QED BY Zenon, <2>1, <2>2
<1>4. call' = [d \in Calls |-> Handed(c, end, d)]
  BY Zenon, EndStep
<1>5. \A d \in Calls : call'[d] = Handed(c, end, d)
  BY Zenon, <1>4
<1>6. DOMAIN call' = Calls /\ call' = [d \in Calls |-> call'[d]]
  BY Zenon, <1>4
<1> QED BY Zenon, <1>1, <1>3, <1>5, <1>6 DEF ClientType

LEMMA EndStages ==
  ASSUME ClientInv, NEW c \in Holders, NEW end, end.stage \in Over,
         end.stage # "ok" => end.result = <<>>,
         End(c, end), NEW d \in Calls
  PROVE  call'[d].stage = IF d = c THEN end.stage
                          ELSE IF waiting # <<>> /\ d = waiting[1] THEN "granted"
                          ELSE call[d].stage
<1>1. call'[d] = Handed(c, end, d)
  BY EndStep
<1>2. IsOperation(call[d])
  BY Zenon DEF ClientInv, ClientType
<1> QED BY Zenon, <1>1, <1>2 DEF Handed, IsOperation

LEMMA EndKeepsQueue ==
  ASSUME ClientInv, NEW c \in Holders, NEW end, end.stage \in Over,
         end.stage # "ok" => end.result = <<>>,
         End(c, end)
  PROVE  QueueInv'
<1> DEFINE stage(d) == IF d = c THEN end.stage
                       ELSE IF waiting # <<>> /\ d = waiting[1] THEN "granted"
                       ELSE call[d].stage
<1>1. \A d \in Calls : call'[d].stage = stage(d)
  BY Zenon, EndStages
<1>2. waiting \in Seq(Calls) /\ QueueInv /\ c \in Calls /\ c \notin Asleep
  BY Zenon, EndStep DEF ClientInv, ClientType
<1>3. Asleep' = {d \in Calls : stage(d) = "waiting"}
  BY Zenon, <1>1 DEF Asleep
<1>4. \A d \in Asleep' : d \in Asleep /\ (waiting # <<>> => d # waiting[1])
  BY Zenon, <1>3 DEF Asleep, Over
<1>5. CASE waiting = <<>>
  <2>1. Asleep = {}
    BY <1>2, <1>5 DEF QueueInv
  <2>2. waiting' = <<>>
    BY Zenon, <1>5 DEF End
  <2> QED BY <1>4, <2>1, <2>2 DEF QueueInv
<1>6. CASE waiting # <<>>
  <2>1. waiting' = Tail(waiting)
    BY Zenon, <1>6 DEF End
  <2>2. Len(waiting') = Len(waiting) - 1 /\ Len(waiting) \in Nat \ {0}
    BY <1>2, <1>6, <2>1
  <2>3. \A i \in 1 .. Len(waiting') : waiting'[i] = waiting[i + 1] /\ i + 1 \in 1 .. Len(waiting)
    BY <1>2, <1>6, <2>1, <2>2
  <2>4. ASSUME NEW i \in 1 .. Len(waiting')
        PROVE  call'[waiting'[i]].stage = "waiting"
    <3>1. waiting[i + 1] \in Calls /\ call[waiting[i + 1]].stage = "waiting"
      BY <1>2, <2>3 DEF QueueInv
    <3>2. waiting[i + 1] # waiting[1]
      BY <1>2, <2>2, <2>3 DEF QueueInv
    <3>3. waiting[i + 1] # c
      BY Zenon, <1>2, <3>1 DEF Asleep
    <3> QED BY Zenon, <1>1, <2>3, <3>1, <3>2, <3>3
  <2>5. ASSUME NEW i \in 1 .. Len(waiting'), NEW j \in 1 .. Len(waiting'), waiting'[i] = waiting'[j]
        PROVE  i = j
    <3>1. i + 1 = j + 1
      BY <1>2, <2>3, <2>5 DEF QueueInv
    <3> QED BY <3>1
  <2>6. ASSUME NEW d \in Asleep'
        PROVE  \E i \in 1 .. Len(waiting') : waiting'[i] = d
    <3>1. PICK k \in 1 .. Len(waiting) : waiting[k] = d
      BY Zenon, <1>2, <1>4 DEF QueueInv
    <3>2. k # 1
      BY Zenon, <1>4, <1>6, <3>1
    <3>3. k - 1 \in 1 .. Len(waiting')
      BY <2>2, <3>2
    <3>4. waiting'[k - 1] = d
      BY <2>3, <3>1, <3>3
    <3> QED BY Zenon, <3>3, <3>4
  <2> HIDE DEF stage
  <2> QED BY Zenon, <2>4, <2>5, <2>6 DEF QueueInv
<1> QED BY Zenon, <1>5, <1>6

LEMMA EndKeepsPermits ==
  ASSUME ClientInv, NEW c \in Holders, NEW end, end.stage \in Over,
         end.stage # "ok" => end.result = <<>>,
         End(c, end)
  PROVE  PermitInv'
<1> DEFINE stage(d) == IF d = c THEN end.stage
                       ELSE IF waiting # <<>> /\ d = waiting[1] THEN "granted"
                       ELSE call[d].stage
<1>1. \A d \in Calls : call'[d].stage = stage(d)
  BY Zenon, EndStages
<1>2. Holders' = {d \in Calls : stage(d) \in {"granted", "sending"}}
  BY Zenon, <1>1 DEF Holders
<1>3. free \in Nat /\ MaxConcurrent \in Nat
  BY Zenon, HttpClientAssumption DEF ClientInv, ClientType
<1>4. IsFiniteSet(Holders) /\ Cardinality(Holders) \in Nat
  BY Zenon, FS_Subset, FS_CardinalityType, HttpClientAssumption DEF Holders
<1>5. IsFiniteSet(Holders \ {c}) /\ Cardinality(Holders \ {c}) = Cardinality(Holders) - 1
  BY Zenon, <1>4, FS_RemoveElement
<1>6. CASE waiting = <<>>
  <2>1. Holders' = Holders \ {c}
    BY Zenon, <1>2, <1>6 DEF Holders, Over
  <2>2. free' = free + 1 /\ waiting' = <<>>
    BY Zenon, <1>6 DEF End
  <2> QED BY <1>3, <1>4, <1>5, <2>1, <2>2 DEF ClientInv, PermitInv
<1>7. CASE waiting # <<>>
  <2>1. waiting[1] \in Calls /\ waiting[1] \notin Holders
    BY Zenon, <1>7, EndStep DEF Asleep, Holders
  <2>2. Holders' = (Holders \ {c}) \cup {waiting[1]}
    BY Zenon, <1>2, <1>7, <2>1 DEF Holders, Over
  <2>3. Cardinality(Holders') = Cardinality(Holders)
    <3>1. Cardinality((Holders \ {c}) \cup {waiting[1]}) = Cardinality(Holders \ {c}) + 1
      BY <1>5, <2>1, FS_AddElement, Zenon
    <3> QED BY <1>4, <1>5, <2>2, <3>1
  <2>4. free' = free
    BY Zenon, <1>7 DEF End
  <2> QED BY Zenon, <1>7, <2>3, <2>4 DEF ClientInv, PermitInv
<1> QED BY Zenon, <1>6, <1>7

LEMMA EndKeepsInv ==
  ASSUME ClientInv, NEW c \in Holders, NEW end, end.stage \in Over,
         end.stage # "ok" => end.result = <<>>,
         End(c, end), nextId' \in Nat
  PROVE  ClientInv'
BY Zenon, EndKeepsType, EndKeepsQueue, EndKeepsPermits DEF ClientInv

-----------------------------------------------------------------------------
(* The steps that change one operation and nobody else's permit. *)

LEMMA OneCall ==
  ASSUME ClientType, NEW c \in Calls, call' = [call EXCEPT ![c] = call'[c]],
         IsOperation(call'[c]), call'[c].stage # "ok" => call'[c].result = <<>>,
         free' \in Nat, nextId' \in Nat, waiting' \in Seq(Calls)
  PROVE  ClientType' /\ \A d \in Calls \ {c} : call'[d] = call[d]
<1>1. call' = [d \in Calls |-> IF d = c THEN call'[c] ELSE call[d]]
  BY Zenon DEF ClientType
<1>2. DOMAIN call' = Calls /\ call' = [d \in Calls |-> call'[d]]
  BY Zenon, <1>1
<1>3. \A d \in Calls \ {c} : call'[d] = call[d]
  BY Zenon, <1>1
<1> QED BY Zenon, <1>2, <1>3 DEF ClientType

LEMMA IssueKeepsInv ==
  ASSUME ClientInv, NEW c \in Calls, NEW op, Issue(c, op)
  PROVE  ClientInv'
<1>0. ClientType /\ QueueInv /\ PermitInv
  BY Zenon DEF ClientInv
<1>1. IsOperation(call[c]) /\ call[c].stage = "idle" /\ call[c].result = <<>>
  BY Zenon, <1>0 DEF Issue, ClientType
<1>2. waiting \in Seq(Calls) /\ free \in Nat /\ nextId' \in Nat /\ MaxConcurrent \in Nat
  BY Zenon, <1>0, HttpClientAssumption DEF Issue, ClientType
<1>3. IsFiniteSet(Holders) /\ Cardinality(Holders) \in Nat /\ c \notin Holders /\ c \notin Asleep
  BY Zenon, <1>1, FS_Subset, FS_CardinalityType, HttpClientAssumption DEF Holders, Asleep
<1>4. CASE free > 0 /\ call' = [call EXCEPT ![c].op = op, ![c].stage = "granted"]
           /\ free' = free - 1 /\ UNCHANGED waiting
  <2> DEFINE r == [call[c] EXCEPT !.op = op, !.stage = "granted"]
  <2>1. IsOperation(r) /\ r.stage = "granted" /\ r.result = <<>>
    BY <1>1, Zenon DEF IsOperation, Stages
  <2>2. call'[c] = r /\ call' = [call EXCEPT ![c] = call'[c]]
    BY <1>0, <1>4, Zenon DEF ClientType
  <2>3. free' \in Nat /\ waiting' = waiting /\ waiting = <<>>
    BY <1>0, <1>2, <1>4 DEF PermitInv
  <2> HIDE DEF r
  <2>4. ClientType' /\ (\A d \in Calls \ {c} : call'[d] = call[d]) /\ call'[c].stage = "granted"
    BY Zenon, <1>0, <1>2, <2>1, <2>2, <2>3, OneCall
  <2>5. Holders' = Holders \cup {c} /\ Asleep' = Asleep
    BY Zenon, <1>1, <2>4 DEF Holders, Asleep
  <2>6. QueueInv'
    BY <1>0, <2>3, <2>5 DEF QueueInv
  <2>7. Cardinality(Holders \cup {c}) = Cardinality(Holders) + 1
    BY <1>3, FS_AddElement, Zenon
  <2>8. PermitInv'
    BY <1>0, <1>2, <1>3, <1>4, <2>3, <2>5, <2>7 DEF PermitInv
  <2> QED BY Zenon, <2>4, <2>6, <2>8 DEF ClientInv
<1>5. CASE free = 0 /\ call' = [call EXCEPT ![c].op = op, ![c].stage = "waiting"]
           /\ waiting' = Append(waiting, c) /\ UNCHANGED free
  <2> DEFINE r == [call[c] EXCEPT !.op = op, !.stage = "waiting"]
  <2>1. IsOperation(r) /\ r.stage = "waiting" /\ r.result = <<>>
    BY <1>1, Zenon DEF IsOperation, Stages
  <2>2. call'[c] = r /\ call' = [call EXCEPT ![c] = call'[c]]
    BY <1>0, <1>5, Zenon DEF ClientType
  <2>3. free' = 0 /\ free' \in Nat /\ waiting' \in Seq(Calls)
    BY <1>2, <1>5
  <2> HIDE DEF r
  <2>4. ClientType' /\ (\A d \in Calls \ {c} : call'[d] = call[d]) /\ call'[c].stage = "waiting"
    BY Zenon, <1>0, <1>2, <2>1, <2>2, <2>3, OneCall
  <2>5. Holders' = Holders /\ Asleep' = Asleep \cup {c}
    BY Zenon, <1>1, <2>4 DEF Holders, Asleep
  <2>6. Len(waiting') = Len(waiting) + 1 /\ waiting'[Len(waiting) + 1] = c
        /\ Len(waiting) \in Nat
        /\ \A i \in 1 .. Len(waiting) : waiting'[i] = waiting[i]
    BY <1>2, <1>5
  <2>7. \A i \in 1 .. Len(waiting) : waiting[i] \in Calls /\ waiting[i] # c
    BY <1>0, <1>1, <1>2 DEF QueueInv
  <2>8. QueueInv'
    <3>1. \A i \in 1 .. Len(waiting') : i \in 1 .. Len(waiting) \/ i = Len(waiting) + 1
      BY <2>6
    <3>2. \A i \in 1 .. Len(waiting') : call'[waiting'[i]].stage = "waiting"
      BY <1>0, <2>4, <2>6, <2>7, <3>1 DEF QueueInv
    <3>3. \A i, j \in 1 .. Len(waiting') : waiting'[i] = waiting'[j] => i = j
      BY <1>0, <2>6, <2>7, <3>1 DEF QueueInv
    <3>4. \A d \in Asleep' : \E i \in 1 .. Len(waiting') : waiting'[i] = d
      BY <1>0, <2>5, <2>6 DEF QueueInv
    <3> QED BY Zenon, <1>0, <3>2, <3>3, <3>4 DEF QueueInv
  <2>9. PermitInv'
    BY Zenon, <1>0, <1>5, <2>3, <2>5 DEF PermitInv
  <2> QED BY Zenon, <2>4, <2>8, <2>9 DEF ClientInv
<1> QED BY Zenon, <1>4, <1>5 DEF Issue

(* The removal of one position of a queue without repetitions. *)
LEMMA RemoveAtElements ==
  ASSUME NEW S, NEW s \in Seq(S), NEW k \in 1 .. Len(s)
  PROVE  /\ RemoveAt(s, k) \in Seq(S)
         /\ Len(RemoveAt(s, k)) = Len(s) - 1
         /\ \A i \in 1 .. Len(s) - 1 : RemoveAt(s, k)[i] = IF i < k THEN s[i] ELSE s[i + 1]
<1> DEFINE a == SubSeq(s, 1, k - 1)
           b == SubSeq(s, k + 1, Len(s))
<1>1. Len(s) \in Nat /\ k - 1 \in Nat /\ Len(s) - k \in Nat
  OBVIOUS
<1>2. a \in Seq(S) /\ Len(a) = k - 1 /\ \A i \in 1 .. k - 1 : a[i] = s[i]
  BY <1>1
<1>3. b \in Seq(S) /\ Len(b) = Len(s) - k /\ \A i \in 1 .. Len(s) - k : b[i] = s[k + i]
  BY <1>1
<1>4. RemoveAt(s, k) = a \o b
  BY Zenon DEF RemoveAt
<1> HIDE DEF a, b
<1>5. RemoveAt(s, k) \in Seq(S) /\ Len(RemoveAt(s, k)) = Len(s) - 1
  BY <1>1, <1>2, <1>3, <1>4
<1>6. ASSUME NEW i \in 1 .. Len(s) - 1
      PROVE  RemoveAt(s, k)[i] = IF i < k THEN s[i] ELSE s[i + 1]
  <2>1. CASE i < k
    BY <1>1, <1>2, <1>3, <1>4, <2>1
  <2>2. CASE ~(i < k)
    <3>1. (a \o b)[i] = b[i - (k - 1)] /\ i - (k - 1) \in 1 .. Len(s) - k
      BY <1>1, <1>2, <1>3, <2>2
    <3>2. k + (i - (k - 1)) = i + 1
      BY <1>1
    <3> QED BY <1>3, <1>4, <2>2, <3>1, <3>2, Zenon
  <2> QED BY Zenon, <2>1, <2>2
<1> QED BY Zenon, <1>5, <1>6

LEMMA DropWaitingKeepsInv ==
  ASSUME ClientInv, NEW c \in Calls, call[c].stage = "waiting",
         call' = [call EXCEPT ![c].stage = "dropped"],
         NEW k \in DOMAIN waiting, waiting[k] = c, waiting' = RemoveAt(waiting, k),
         free' = free, nextId' = nextId
  PROVE  ClientInv' /\ \A d \in Calls \ {c} : call'[d] = call[d]
<1>0. ClientType /\ QueueInv /\ PermitInv
  BY Zenon DEF ClientInv
<1> DEFINE r == [call[c] EXCEPT !.stage = "dropped"]
<1>1. IsOperation(call[c]) /\ call[c].result = <<>>
  BY Zenon, <1>0 DEF ClientType
<1>2. IsOperation(r) /\ r.stage = "dropped" /\ r.result = <<>>
  BY Zenon, <1>1 DEF IsOperation, Stages
<1>3. call'[c] = r /\ call' = [call EXCEPT ![c] = call'[c]]
  BY Zenon, <1>0 DEF ClientType
<1> HIDE DEF r
<1>4. waiting \in Seq(Calls) /\ free' \in Nat /\ nextId' \in Nat /\ k \in 1 .. Len(waiting)
      /\ Len(waiting) \in Nat
  BY <1>0 DEF ClientType
<1>5. waiting' \in Seq(Calls) /\ Len(waiting') = Len(waiting) - 1
      /\ \A i \in 1 .. Len(waiting) - 1 :
           waiting'[i] = IF i < k THEN waiting[i] ELSE waiting[i + 1]
  BY Zenon, <1>4, RemoveAtElements
<1>6. ClientType' /\ (\A d \in Calls \ {c} : call'[d] = call[d]) /\ call'[c].stage = "dropped"
  BY <1>0, <1>2, <1>3, <1>4, <1>5, OneCall, Zenon
<1>7. Holders' = Holders /\ Asleep' = Asleep \ {c}
  BY Zenon, <1>6 DEF Holders, Asleep
<1> DEFINE old(i) == IF i < k THEN i ELSE i + 1
<1>8. \A i \in 1 .. Len(waiting') :
        old(i) \in 1 .. Len(waiting) /\ old(i) # k /\ waiting'[i] = waiting[old(i)]
  BY <1>4, <1>5
<1>9. QueueInv'
  <2>1. ASSUME NEW i \in 1 .. Len(waiting')
        PROVE  call'[waiting'[i]].stage = "waiting"
    <3>1. waiting[old(i)] \in Calls \ {c} /\ call[waiting[old(i)]].stage = "waiting"
      BY <1>0, <1>4, <1>8 DEF QueueInv
    <3> QED BY Zenon, <1>6, <1>8, <3>1
  <2>2. ASSUME NEW i \in 1 .. Len(waiting'), NEW j \in 1 .. Len(waiting'), waiting'[i] = waiting'[j]
        PROVE  i = j
    <3>1. old(i) = old(j)
      BY <1>0, <1>8, <2>2 DEF QueueInv
    <3> QED BY <1>4, <3>1
  <2>3. ASSUME NEW d \in Asleep'
        PROVE  \E i \in 1 .. Len(waiting') : waiting'[i] = d
    <3>1. PICK m \in 1 .. Len(waiting) : waiting[m] = d
      BY Zenon, <1>0, <1>7 DEF QueueInv
    <3>2. m # k
      BY Zenon, <1>7, <3>1
    <3>3. CASE m < k
      BY <1>4, <1>5, <3>1, <3>3
    <3>4. CASE m > k
      <4>1. m - 1 \in 1 .. Len(waiting') /\ ~(m - 1 < k)
        BY <1>4, <1>5, <3>4
      <4>2. waiting'[m - 1] = waiting[m]
        BY <1>4, <1>5, <4>1
      <4> QED BY Zenon, <3>1, <4>1, <4>2
    <3> QED BY <1>4, <3>2, <3>3, <3>4
  <2> HIDE DEF old
  <2> QED BY Zenon, <2>1, <2>2, <2>3 DEF QueueInv
<1>10. PermitInv'
  <2>1. waiting # <<>>
    BY <1>4
  <2> QED BY Zenon, <1>0, <1>7, <2>1 DEF PermitInv
<1> QED BY Zenon, <1>6, <1>9, <1>10 DEF ClientInv

LEMMA BeginKeepsInv ==
  ASSUME ClientInv, NEW c \in Calls, call[c].stage = "granted",
         call' = [call EXCEPT ![c].stage = "sending", ![c].first = nextId],
         free' = free, waiting' = waiting, nextId' \in Nat
  PROVE  /\ ClientInv'
         /\ \A d \in Calls \ {c} : call'[d] = call[d]
         /\ call'[c].stage = "sending" /\ call'[c].result = <<>>
<1>0. ClientType /\ QueueInv /\ PermitInv
  BY Zenon DEF ClientInv
<1> DEFINE r == [call[c] EXCEPT !.stage = "sending", !.first = nextId]
<1>1. IsOperation(call[c]) /\ call[c].result = <<>> /\ nextId \in Nat
  BY Zenon, <1>0 DEF ClientType
<1>2. IsOperation(r) /\ r.stage = "sending" /\ r.result = <<>>
  BY <1>1, Zenon DEF IsOperation, Stages
<1>3. call'[c] = r /\ call' = [call EXCEPT ![c] = call'[c]]
  BY <1>0, Zenon DEF ClientType
<1> HIDE DEF r
<1>4. waiting' \in Seq(Calls) /\ free' \in Nat
  BY Zenon, <1>0 DEF ClientType
<1>5. ClientType' /\ (\A d \in Calls \ {c} : call'[d] = call[d]) /\ call'[c].stage = "sending"
  BY <1>0, <1>2, <1>3, <1>4, OneCall, Zenon
<1>6. Holders' = Holders /\ Asleep' = Asleep
  BY <1>5, Zenon DEF Holders, Asleep
<1>7. \A i \in 1 .. Len(waiting) : waiting[i] \in Calls \ {c}
  BY <1>0 DEF QueueInv, ClientType
<1>8. QueueInv'
  <2>1. ASSUME NEW i \in 1 .. Len(waiting')
        PROVE  call'[waiting'[i]].stage = "waiting"
    <3>1. i \in 1 .. Len(waiting) /\ waiting'[i] = waiting[i]
      BY Zenon
    <3>2. call'[waiting[i]] = call[waiting[i]]
      BY <1>5, <1>7, <3>1, Zenon
    <3> QED BY <1>0, <3>1, <3>2 DEF QueueInv
  <2>2. \A i, j \in 1 .. Len(waiting') : waiting'[i] = waiting'[j] => i = j
    BY Zenon, <1>0 DEF QueueInv
  <2>3. \A d \in Asleep' : \E i \in 1 .. Len(waiting') : waiting'[i] = d
    BY Zenon, <1>0, <1>6 DEF QueueInv
  <2> QED BY <2>1, <2>2, <2>3, Zenon DEF QueueInv
<1>9. PermitInv'
  BY Zenon, <1>0, <1>6 DEF PermitInv
<1> QED BY <1>2, <1>3, <1>5, <1>8, <1>9, Zenon DEF ClientInv

-----------------------------------------------------------------------------
(* The invariant. *)

(* Every step of an operation is one of these. *)
Ends(c, end) ==
  /\ c \in Holders /\ End(c, end) /\ nextId' \in Nat
  /\ end.stage \in Over /\ (end.stage # "ok" => end.result = <<>>)

Begins(c) ==
  /\ call[c].stage = "granted"
  /\ call' = [call EXCEPT ![c].stage = "sending", ![c].first = nextId]
  /\ free' = free /\ waiting' = waiting /\ nextId' \in Nat

LeavesQueue(c) ==
  /\ call[c].stage = "waiting"
  /\ call' = [call EXCEPT ![c].stage = "dropped"]
  /\ \E k \in DOMAIN waiting : waiting[k] = c /\ waiting' = RemoveAt(waiting, k)
  /\ free' = free /\ nextId' = nextId

LEMMA StepKinds ==
  ASSUME ClientInv, NEW c \in Calls, ClientStep(c) \/ CallerStep(c)
  PROVE  \/ \E op \in Ops[c] : Issue(c, op)
         \/ Begins(c)
         \/ LeavesQueue(c)
         \/ Ends(c, Failed(""))
         \/ Ends(c, Ended("dropped", <<>>))
         \/ call[c].stage = "sending" /\ Ends(c, Outcome(call[c].op, call[c].first, wire[c].rep))
<1>1. nextId \in Nat /\ call[c].first \in Nat
  BY Zenon DEF ClientInv, ClientType, IsOperation
<1>2. \A e : IsEnd(Failed(e), 0) /\ Failed(e) = Failed("")
  BY Zenon, FailedIsEnd DEF Failed
<1>3. Failed("").stage \in Over /\ (Failed("").stage # "ok" => Failed("").result = <<>>)
  BY Zenon DEF Failed, Ended, Over
<1>4. CASE SendNothing(c)
  BY <1>1, <1>2, <1>3, <1>4, Zenon DEF SendNothing, Ends, Holders
<1>5. CASE Send(c)
  <2>1. nextId' \in Nat /\ c \in Holders
    BY <1>1, <1>5 DEF Send, Holders
  <2> QED BY <1>2, <1>3, <1>5, <2>1, Zenon DEF Send, Ends, Begins
<1>6. CASE Return(c)
  <2> DEFINE end == Outcome(call[c].op, call[c].first, wire[c].rep)
  <2>1. IsEnd(end, call[c].first)
    BY Zenon, <1>1, OutcomeIsEnd
  <2>2. c \in Holders /\ End(c, end) /\ nextId' \in Nat /\ call[c].stage = "sending"
    BY Zenon, <1>1, <1>6 DEF Return, Holders
  <2> HIDE DEF end
  <2>3. Ends(c, end)
    BY Zenon, <2>1, <2>2 DEF Ends, IsEnd, Over
  <2> QED BY Zenon, <2>2, <2>3 DEF end
<1>7. CASE \E e : Abort(c, e)
  BY <1>1, <1>2, <1>3, <1>7, Zenon DEF Abort, Ends, Holders
<1>8. CASE Drop(c)
  <2> DEFINE end == Ended("dropped", <<>>)
  <2>1. end.stage \in Over /\ (end.stage # "ok" => end.result = <<>>)
    BY Zenon DEF Ended, Over
  <2> HIDE DEF end
  <2>2. nextId' = nextId /\ (LeavesQueue(c) \/ (c \in Holders /\ End(c, end)))
    BY Zenon, <1>8 DEF Drop, LeavesQueue, Holders, end
  <2>3. LeavesQueue(c) \/ Ends(c, end)
    BY Zenon, <1>1, <2>1, <2>2 DEF Ends
  <2> QED BY <2>3, Zenon DEF end
<1>9. CASE \E op \in Ops[c] : Issue(c, op)
  BY <1>9, Zenon
<1> QED BY <1>4, <1>5, <1>6, <1>7, <1>8, <1>9, Zenon
        DEF ClientStep, CallerStep, Poll, Timeout, ConnectionFails

LEMMA ClientInitInv == ClientInit => ClientInv
<1> SUFFICES ASSUME ClientInit PROVE ClientInv
  BY Zenon
<1>1. ClientType
  BY HttpClientAssumption DEF ClientInit, ClientType, IsOperation, Idle, Stages
<1>2. Holders = {} /\ Asleep = {} /\ waiting = <<>> /\ free = MaxConcurrent
  BY Zenon DEF ClientInit, Holders, Asleep, Idle
<1>3. Cardinality(Holders) = 0
  BY Zenon, <1>2, FS_EmptySet
<1>4. PermitInv
  BY <1>2, <1>3, HttpClientAssumption DEF PermitInv
<1>5. QueueInv
  BY <1>2 DEF QueueInv
<1> QED BY Zenon, <1>1, <1>4, <1>5 DEF ClientInv

LEMMA SteadyKeepsInv ==
  ASSUME ClientInv, UNCHANGED clientVars
  PROVE  ClientInv'
BY Zenon DEF ClientInv, clientVars, ClientType, QueueInv, PermitInv, Holders, Asleep

(* Every step of an operation, its caller included, keeps the invariant.   *)
LEMMA ClientKeepsInv ==
  ASSUME ClientInv, NEW c \in Calls, ClientStep(c) \/ CallerStep(c)
  PROVE  ClientInv'
<1>1. CASE \E op \in Ops[c] : Issue(c, op)
  BY Zenon, <1>1, IssueKeepsInv
<1>2. CASE Begins(c)
  BY <1>2, BeginKeepsInv, Zenon DEF Begins
<1>3. CASE LeavesQueue(c)
  BY <1>3, DropWaitingKeepsInv, Zenon DEF LeavesQueue
<1>4. ASSUME NEW end, Ends(c, end) PROVE ClientInv'
  BY Zenon, <1>4, EndKeepsInv DEF Ends
<1> QED BY <1>1, <1>2, <1>3, <1>4, StepKinds, Zenon

(* The invariant is what PermitsMatchCalls says, and more. *)
LEMMA InvMatchesCalls == ClientInv => PermitsMatchCalls
<1> SUFFICES ASSUME ClientInv PROVE PermitsMatchCalls
  BY Zenon
<1>1. waiting \in Seq(Calls) /\ DOMAIN waiting = 1 .. Len(waiting)
  BY DEF ClientInv, ClientType
<1>2. Range(waiting) = Asleep
  BY <1>1 DEF ClientInv, QueueInv, Range, Asleep
<1>3. IsInjective(waiting)
  BY Zenon, <1>1 DEF ClientInv, QueueInv, IsInjective
<1> QED BY Zenon, <1>2, <1>3 DEF ClientInv, PermitInv, PermitsMatchCalls

-----------------------------------------------------------------------------
(* The refinement. *)

AbsState == [c \in Calls |-> ContractState(call[c].stage)]
AbsResult == [c \in Calls |-> ContractResult(call[c].first, call[c].result)]
absVars == <<AbsState, AbsResult>>

MapsTo(c, to) ==
  /\ AbsState' = [AbsState EXCEPT ![c] = to]
  /\ AbsResult' = AbsResult

LEMMA ToIssue ==
  ASSUME NEW c \in Calls, AbsState[c] = "idle", MapsTo(c, "queued")
  PROVE  Contract!Next
<1>1. Contract!Issue(c)
  BY Zenon DEF Contract!Issue, Contract!Move, MapsTo, AbsState, AbsResult
<1> QED BY Zenon, <1>1 DEF Contract!Next

(* The Cardinality the contract's module imports is the same function. *)
LEMMA SameCardinality ==
  ASSUME NEW S
  PROVE  Contract!Cardinality(S) = Cardinality(S)
BY Zenon DEF Contract!Cardinality, Cardinality

LEMMA ToBegin ==
  ASSUME NEW c \in Calls, AbsState[c] = "queued", MapsTo(c, "running"),
         Cardinality({d \in Calls : AbsState[d] = "running"}) < MaxConcurrent
  PROVE  Contract!Next
<1>1. Contract!Begin(c)
  <2>1. Contract!Running = {d \in Calls : AbsState[d] = "running"}
    BY Zenon DEF Contract!Running, AbsState
  <2>2. Contract!Move(c, {"queued"}, "running")
    BY Zenon DEF Contract!Move, MapsTo, AbsState
  <2>3. Contract!Cardinality(Contract!Running) < MaxConcurrent
    BY Zenon, <2>1, SameCardinality
  <2>4. UNCHANGED AbsResult
    BY Zenon DEF MapsTo
  <2> QED BY Zenon, <2>2, <2>3, <2>4 DEF Contract!Begin, AbsResult
<1> QED BY Zenon, <1>1 DEF Contract!Next

LEMMA ToFail ==
  ASSUME NEW c \in Calls, AbsState[c] \in {"queued", "running"},
         MapsTo(c, "failed") \/ MapsTo(c, "dropped")
  PROVE  Contract!Next
<1>1. Contract!Fail(c) \/ Contract!Drop(c)
  BY Zenon DEF Contract!Fail, Contract!Drop, Contract!Move, MapsTo, AbsState, AbsResult
<1> QED BY Zenon, <1>1 DEF Contract!Next

LEMMA ToAnswer ==
  ASSUME NEW c \in Calls, AbsState[c] = "running",
         AbsState' = [AbsState EXCEPT ![c] = "answered"],
         AbsResult' = [AbsResult EXCEPT ![c] = AbsResult'[c]],
         \A i \in DOMAIN AbsResult'[c] : AbsResult'[c][i] \in {0, i}
  PROVE  Contract!Next
<1>1. Contract!Answer(c)
  BY Zenon DEF Contract!Answer, Contract!InPlace, Contract!Move, AbsState, AbsResult
<1> QED BY Zenon, <1>1 DEF Contract!Next

(* An operation without an answer maps to an empty result whatever the id  *)
(* its request got.                                                        *)
LEMMA NoAnswerYet ==
  ASSUME NEW first
  PROVE  ContractResult(first, <<>>) = <<>>
BY DEF ContractResult

(* A step that moves c, and leaves the others where they are for the       *)
(* contract, is seen only at c.                                            *)
LEMMA SeenAt ==
  ASSUME NEW c \in Calls,
         \A d \in Calls \ {c} : /\ ContractState(call'[d].stage) = ContractState(call[d].stage)
                                /\ ContractResult(call'[d].first, call'[d].result)
                                     = ContractResult(call[d].first, call[d].result)
  PROVE  /\ AbsState' = [AbsState EXCEPT ![c] = ContractState(call'[c].stage)]
         /\ AbsResult' = [AbsResult EXCEPT ![c] = AbsResult'[c]]
         /\ call[c].result = <<>> /\ call'[c].result = <<>> => AbsResult' = AbsResult
<1> DEFINE st(d) == ContractState(call[d].stage)
           stp(d) == ContractState(call'[d].stage)
           rs(d) == ContractResult(call[d].first, call[d].result)
           rsp(d) == ContractResult(call'[d].first, call'[d].result)
<1>1. AbsState = [d \in Calls |-> st(d)] /\ AbsState' = [d \in Calls |-> stp(d)]
  BY Zenon DEF AbsState
<1>2. AbsResult = [d \in Calls |-> rs(d)] /\ AbsResult' = [d \in Calls |-> rsp(d)]
  BY Zenon DEF AbsResult
<1>3. \A d \in Calls \ {c} : stp(d) = st(d) /\ rsp(d) = rs(d)
  BY Zenon
<1>4. call[c].result = <<>> /\ call'[c].result = <<>> => rs(c) = <<>> /\ rsp(c) = <<>>
  BY Zenon, NoAnswerYet
<1>5. ContractState(call'[c].stage) = stp(c)
  BY Zenon
<1> HIDE DEF st, stp, rs, rsp
<1> QED BY <1>1, <1>2, <1>3, <1>4, <1>5, Zenon

LEMMA EndIsSeen ==
  ASSUME ClientInv, NEW c \in Calls, NEW end, Ends(c, end)
  PROVE  /\ AbsState[c] \in {"queued", "running"}
         /\ AbsState' = [AbsState EXCEPT ![c] = ContractState(end.stage)]
         /\ AbsResult' = [AbsResult EXCEPT ![c] = AbsResult'[c]]
         /\ end.stage # "ok" => AbsResult' = AbsResult
         /\ AbsResult'[c] = ContractResult(call[c].first, end.result)
<1>1. ASSUME NEW d \in Calls
      PROVE  call'[d] = Handed(c, end, d)
  BY EndStep DEF Ends
<1>2. \A d \in Calls : IsOperation(call[d])
  BY Zenon DEF ClientInv, ClientType
<1>3. call'[c].stage = end.stage /\ call'[c].result = end.result /\ call'[c].first = call[c].first
  <2>1. call'[c] = [call[c] EXCEPT !.stage = end.stage, !.result = end.result]
    BY <1>1, Zenon DEF Handed
  <2> QED BY Zenon, <1>2, <2>1 DEF IsOperation
<1>4. ASSUME NEW d \in Calls \ {c}
      PROVE  /\ ContractState(call'[d].stage) = ContractState(call[d].stage)
             /\ call'[d].first = call[d].first /\ call'[d].result = call[d].result
  <2>1. CASE waiting # <<>> /\ d = waiting[1]
    <3>1. call[d].stage = "waiting"
      BY Zenon, <2>1, EndStep DEF Ends, Asleep
    <3>2. call'[d] = [call[d] EXCEPT !.stage = "granted"]
      BY Zenon, <1>1, <2>1 DEF Handed
    <3>3. call'[d].stage = "granted" /\ call'[d].first = call[d].first
          /\ call'[d].result = call[d].result
      BY Zenon, <1>2, <3>2 DEF IsOperation
    <3> QED BY Zenon, <3>1, <3>3 DEF ContractState
  <2>2. CASE ~(waiting # <<>> /\ d = waiting[1])
    BY <1>1, <2>2, Zenon DEF Handed
  <2> QED BY Zenon, <2>1, <2>2
<1>5. call[c].stage \in {"granted", "sending"} /\ call[c].result = <<>>
  BY Zenon DEF Ends, Holders, ClientInv, ClientType
<1>6. AbsState[c] \in {"queued", "running"}
  BY Zenon, <1>5 DEF AbsState, ContractState
<1>7. \A d \in Calls \ {c} : ContractResult(call'[d].first, call'[d].result)
                               = ContractResult(call[d].first, call[d].result)
  BY Zenon, <1>4
<1>8. /\ AbsState' = [AbsState EXCEPT ![c] = ContractState(call'[c].stage)]
      /\ AbsResult' = [AbsResult EXCEPT ![c] = AbsResult'[c]]
      /\ call[c].result = <<>> /\ call'[c].result = <<>> => AbsResult' = AbsResult
  BY Zenon, <1>4, <1>7, SeenAt
<1>9. AbsResult'[c] = ContractResult(call'[c].first, call'[c].result)
  BY Zenon DEF AbsResult
<1> QED BY Zenon, <1>3, <1>5, <1>6, <1>8, <1>9 DEF Ends

LEMMA AnswerIsInPlace ==
  ASSUME NEW first \in Nat, NEW result, InOrder(first, result),
         NEW i \in DOMAIN ContractResult(first, result)
  PROVE  ContractResult(first, result)[i] \in {0, i}
<1>1. i \in DOMAIN result
  BY Zenon DEF ContractResult
<1> QED BY <1>1, Zenon DEF ContractResult, InOrder

LEMMA EndsRefine ==
  ASSUME ClientInv, NEW c \in Calls, NEW end, Ends(c, end),
         end.stage = "ok" => call[c].stage = "sending" /\ InOrder(call[c].first, end.result)
  PROVE  Contract!Next
<1>1. CASE end.stage = "ok"
  <2>1. AbsState[c] = "running" /\ ContractState(end.stage) = "answered"
    BY Zenon, <1>1 DEF AbsState, ContractState
  <2>2. call[c].first \in Nat
    BY Zenon DEF ClientInv, ClientType, IsOperation
  <2>3. \A i \in DOMAIN AbsResult'[c] : AbsResult'[c][i] \in {0, i}
    BY <1>1, <2>2, EndIsSeen, AnswerIsInPlace
  <2> QED BY <2>1, <2>3, EndIsSeen, ToAnswer
<1>2. CASE end.stage # "ok"
  <2>1. ContractState(end.stage) \in {"failed", "dropped"}
    BY Zenon, <1>2 DEF Ends, Over, ContractState
  <2>2. MapsTo(c, "failed") \/ MapsTo(c, "dropped")
    BY <1>2, <2>1, EndIsSeen DEF MapsTo
  <2> QED BY Zenon, <2>2, EndIsSeen, ToFail
<1> QED BY Zenon, <1>1, <1>2

LEMMA BeginRefines ==
  ASSUME ClientInv, NEW c \in Calls, Begins(c)
  PROVE  Contract!Next
<1>1. ClientInv' /\ (\A d \in Calls \ {c} : call'[d] = call[d])
      /\ call'[c].stage = "sending" /\ call'[c].result = <<>>
  BY BeginKeepsInv, Zenon DEF Begins
<1>2. call[c].stage = "granted" /\ call[c].result = <<>> /\ c \in Holders
  BY Zenon DEF Begins, ClientInv, ClientType, Holders
<1>3. MapsTo(c, "running")
  BY Zenon, <1>1, <1>2, SeenAt DEF MapsTo, ContractState
<1>4. AbsState[c] = "queued"
  BY Zenon, <1>2 DEF AbsState, ContractState
<1>5. Cardinality({d \in Calls : AbsState[d] = "running"}) < MaxConcurrent
  <2> DEFINE running == {d \in Calls : AbsState[d] = "running"}
  <2>1. running \subseteq Holders \ {c}
    BY Zenon, <1>4 DEF AbsState, ContractState, Holders
  <2>2. IsFiniteSet(Holders) /\ Cardinality(Holders) \in Nat
    BY Zenon, FS_Subset, FS_CardinalityType, HttpClientAssumption DEF Holders
  <2>3. IsFiniteSet(Holders \ {c}) /\ Cardinality(Holders \ {c}) = Cardinality(Holders) - 1
    BY Zenon, <1>2, <2>2, FS_RemoveElement
  <2>4. Cardinality(running) <= Cardinality(Holders \ {c}) /\ Cardinality(running) \in Nat
    BY Zenon, <2>1, <2>3, FS_Subset, FS_CardinalityType
  <2>5. Cardinality(Holders) <= MaxConcurrent /\ MaxConcurrent \in Nat
    BY <2>2, HttpClientAssumption DEF ClientInv, PermitInv, ClientType
  <2> QED BY <2>2, <2>3, <2>4, <2>5
<1> QED BY Zenon, <1>3, <1>4, <1>5, ToBegin

LEMMA IssueRefines ==
  ASSUME ClientInv, NEW c \in Calls, NEW op, Issue(c, op)
  PROVE  Contract!Next
<1>1. IsOperation(call[c]) /\ call[c].stage = "idle" /\ call[c].result = <<>>
  BY Zenon DEF Issue, ClientInv, ClientType
<1>2. \E st \in {"granted", "waiting"} : call' = [call EXCEPT ![c].op = op, ![c].stage = st]
  BY Zenon DEF Issue
<1>3. PICK st \in {"granted", "waiting"} : call' = [call EXCEPT ![c].op = op, ![c].stage = st]
  BY <1>2, Zenon
<1>4. call'[c] = [call[c] EXCEPT !.op = op, !.stage = st]
      /\ \A d \in Calls \ {c} : call'[d] = call[d]
  BY Zenon, <1>3 DEF ClientInv, ClientType
<1>5. call'[c].stage = st /\ call'[c].result = <<>>
  BY Zenon, <1>1, <1>4 DEF IsOperation
<1>6. MapsTo(c, "queued")
  BY <1>1, <1>4, <1>5, SeenAt, Zenon DEF MapsTo, ContractState
<1>7. AbsState[c] = "idle"
  BY Zenon, <1>1 DEF AbsState, ContractState
<1> QED BY Zenon, <1>6, <1>7, ToIssue

LEMMA LeavesQueueRefines ==
  ASSUME ClientInv, NEW c \in Calls, LeavesQueue(c)
  PROVE  Contract!Next
<1>1. IsOperation(call[c]) /\ call[c].stage = "waiting" /\ call[c].result = <<>>
  BY Zenon DEF LeavesQueue, ClientInv, ClientType
<1>2. call'[c] = [call[c] EXCEPT !.stage = "dropped"]
      /\ \A d \in Calls \ {c} : call'[d] = call[d]
  BY Zenon DEF LeavesQueue, ClientInv, ClientType
<1>3. call'[c].stage = "dropped" /\ call'[c].result = <<>>
  BY Zenon, <1>1, <1>2 DEF IsOperation
<1>4. MapsTo(c, "dropped")
  BY <1>1, <1>2, <1>3, SeenAt, Zenon DEF MapsTo, ContractState
<1>5. AbsState[c] = "queued"
  BY Zenon, <1>1 DEF AbsState, ContractState
<1> QED BY Zenon, <1>4, <1>5, ToFail

(* Every step of an operation is a step of the contract. *)
LEMMA ClientRefines ==
  ASSUME ClientInv, NEW c \in Calls, ClientStep(c) \/ CallerStep(c)
  PROVE  Contract!Next
<1>1. CASE \E op \in Ops[c] : Issue(c, op)
  BY Zenon, <1>1, IssueRefines
<1>2. CASE Begins(c)
  BY Zenon, <1>2, BeginRefines
<1>3. CASE LeavesQueue(c)
  BY Zenon, <1>3, LeavesQueueRefines
<1>4. ASSUME NEW end, Ends(c, end), end = Failed("") \/ end = Ended("dropped", <<>>)
      PROVE  Contract!Next
  <2>1. end.stage # "ok"
    BY <1>4 DEF Failed, Ended
  <2> QED BY <1>4, <2>1, EndsRefine, Zenon
<1>5. ASSUME call[c].stage = "sending", Ends(c, Outcome(call[c].op, call[c].first, wire[c].rep))
      PROVE  Contract!Next
  <2> DEFINE end == Outcome(call[c].op, call[c].first, wire[c].rep)
  <2>1. call[c].first \in Nat
    BY Zenon DEF ClientInv, ClientType, IsOperation
  <2>2. InOrder(call[c].first, end.result)
    BY Zenon, <2>1, OutcomeIsEnd DEF IsEnd
  <2>3. Ends(c, end)
    BY Zenon, <1>5
  <2> HIDE DEF end
  <2> QED BY Zenon, <1>5, <2>2, <2>3, EndsRefine
<1> QED BY <1>1, <1>2, <1>3, <1>4, <1>5, StepKinds, Zenon

-----------------------------------------------------------------------------
(* Answers to the own operation, and what the client makes of them. *)

(* The request of the operation, as it is put on the wire. *)
Sent(op, first) == Post(RequestBody(op, first))

(* An answer to the entry i, or an error in its place. *)
AnswersEntry(op, first, i, r) ==
  /\ r.id = Id(first + i - 1)
  /\ r.err = "" => r.method = op.entries[i].method /\ r.args = op.entries[i].args

AnswersAll(op, first, rps) ==
  /\ Len(rps) = Len(op.entries)
  /\ \A i \in 1 .. Len(op.entries) : AnswersEntry(op, first, i, rps[i])

NoneInvalid(rps) == \A i \in DOMAIN rps : rps[i].err # "InvalidParams"

(* The body of a reply that answers nothing but the operation. *)
AnswersOperation(op, first, body) ==
  /\ NoneInvalid(body.items)
  /\ body.form = "many" => /\ body.items \in Seq(Range(body.items))
                           /\ AnswersAll(op, first, body.items)
  /\ body.form = "one" /\ body.items[1].err = "" => AnswersEntry(op, first, 1, body.items[1])

LEMMA Singleton ==
  ASSUME NEW r
  PROVE  DOMAIN <<r>> = {1} /\ <<r>>[1] = r /\ Len(<<r>>) = 1 /\ 1 .. 1 = {1}
OBVIOUS

(* The answers to a batch come in the order of its entries, and            *)
(* batch_request leaves them there.                                        *)
LEMMA BatchStays ==
  ASSUME NEW op, NEW first \in Nat, NEW rps, rps \in Seq(Range(rps)), AnswersAll(op, first, rps),
         NEW end, end = ReturnBatch(first, rps), end.stage = "ok"
  PROVE  AnswersAll(op, first, end.result)
<1> DEFINE bad == {i \in DOMAIN rps : EntryError(first, Len(rps), rps[i]) # ""}
           for(p) == {i \in DOMAIN rps : rps[i].id.n = first + p - 1}
           last(p) == {i \in for(p) : \A j \in for(p) : j <= i}
           all == [p \in 1 .. Len(rps) |-> IF last(p) = {} THEN Placeholder
                                           ELSE rps[CHOOSE i \in last(p) : TRUE]]
<1>1. end = IF bad # {} THEN Failed("InvalidRequestId or ParseError") ELSE Ended("ok", all)
  BY Zenon DEF ReturnBatch
<1>2. DOMAIN rps = 1 .. Len(rps) /\ Len(rps) \in Nat /\ Len(rps) = Len(op.entries)
  BY DEF AnswersAll
<1>3. \A i \in 1 .. Len(rps) : rps[i].id.n = first + i - 1
  <2>1. \A i \in 1 .. Len(rps) : rps[i].id = Id(first + i - 1)
    BY Zenon, <1>2 DEF AnswersAll, AnswersEntry
  <2>2. \A n : Id(n).n = n
    BY Zenon DEF Id
  <2> QED BY Zenon, <2>1, <2>2
<1>4. \A p \in 1 .. Len(rps) : last(p) = {p}
  <2> SUFFICES ASSUME NEW p \in 1 .. Len(rps) PROVE last(p) = {p}
    OBVIOUS
  <2>1. for(p) = {p}
    BY <1>2, <1>3
  <2> HIDE DEF for
  <2>2. p <= p
    BY <1>2
  <2> QED BY Zenon, <2>1, <2>2
<1> HIDE DEF last, bad
<1>5. all = [p \in 1 .. Len(rps) |-> rps[p]]
  <2>1. \A p : (CHOOSE i \in {p} : TRUE) = p
    BY SMT
  <2>2. \A p \in 1 .. Len(rps) : last(p) # {} /\ rps[CHOOSE i \in last(p) : TRUE] = rps[p]
    BY Zenon, <1>4, <2>1
  <2> QED BY Zenon, <2>2
<1> HIDE DEF all
<1>6. end.result = all
  <2>1. Failed("InvalidRequestId or ParseError").stage = "err"
    BY Zenon DEF Failed, Ended
  <2>2. end = Ended("ok", all)
    BY Zenon, <1>1, <2>1
  <2>3. Ended("ok", all).result = all
    BY Zenon DEF Ended
  <2> QED BY Zenon, <2>2, <2>3
<1>7. all = rps
  BY <1>2, <1>5
<1> QED BY Zenon, <1>6, <1>7

LEMMA RequestStays ==
  ASSUME NEW op, Len(op.entries) = 1, NEW first, NEW rp,
         rp.err = "" => AnswersEntry(op, first, 1, rp),
         NEW end, end = ReturnRequest(first, rp), end.stage = "ok"
  PROVE  AnswersAll(op, first, end.result)
<1>1. Failed("Call").stage = "err" /\ \A e : Failed(e) = Failed("Call")
  BY Zenon DEF Failed, Ended
<1>2. rp.err = "" /\ end = Ended("ok", <<rp>>)
  <2>1. end = Failed("Call") \/ (rp.err = "" /\ end = Ended("ok", <<rp>>))
    BY Zenon, <1>1 DEF ReturnRequest
  <2> QED BY Zenon, <1>1, <2>1
<1>3. end.result = <<rp>>
  <2>1. Ended("ok", <<rp>>).result = <<rp>>
    BY Zenon DEF Ended
  <2> QED BY Zenon, <1>2, <2>1
<1>4. Len(end.result) = 1 /\ end.result[1] = rp
  BY Zenon, <1>3, Singleton
<1> QED BY Zenon, <1>2, <1>4, Singleton DEF AnswersAll

LEMMA OutcomeAnswers ==
  ASSUME NEW op, op.kind # "notification", op.kind # "batch" => Len(op.entries) = 1,
         NEW first \in Nat, NEW rep, AnswersOperation(op, first, rep.body),
         NEW end, end = Outcome(op, first, rep), end.stage = "ok"
  PROVE  AnswersAll(op, first, end.result)
<1> DEFINE rps == rep.body.items
<1>1. \A e : Failed(e).stage = "err"
  BY Zenon DEF Failed, Ended
<1>2. \/ \E e : end = Failed(e)
      \/ op.kind = "request" /\ rep.body.form = "one" /\ end = ReturnRequest(first, rps[1])
      \/ op.kind = "batch" /\ rep.body.form = "many" /\ end = ReturnBatch(first, rps)
  BY DEF Outcome
<1>3. CASE \E e : end = Failed(e)
  BY Zenon, <1>1, <1>3
<1>4. CASE op.kind = "request" /\ rep.body.form = "one" /\ end = ReturnRequest(first, rps[1])
  <2>1. Len(op.entries) = 1 /\ (rps[1].err = "" => AnswersEntry(op, first, 1, rps[1]))
    BY Zenon, <1>4 DEF AnswersOperation
  <2> QED BY Zenon, <1>4, <2>1, RequestStays
<1>5. CASE op.kind = "batch" /\ rep.body.form = "many" /\ end = ReturnBatch(first, rps)
  BY Zenon, <1>5, BatchStays DEF AnswersOperation
<1> QED BY Zenon, <1>2, <1>3, <1>4, <1>5

-----------------------------------------------------------------------------
(* The steps of an operation and what they do to its exchange. *)
Puts(c) == Begins(c) /\ wire' = [wire EXCEPT ![c].st = "sent", ![c].req = Sent(call[c].op, nextId)]
Quits(c) ==
  /\ wire' = wire
  /\ LeavesQueue(c) \/ (call[c].stage = "granted" /\ \E end : Ends(c, end) /\ end.stage # "ok")
Takes(c) ==
  /\ wire' = [wire EXCEPT ![c] = [Quiet EXCEPT !.st = "gone"]]
  /\ call[c].stage = "sending"
  /\ \E end : /\ Ends(c, end)
              /\ \/ end.stage # "ok"
                 \/ /\ wire[c].st = "replied"
                    /\ end = Outcome(call[c].op, call[c].first, wire[c].rep)

LEMMA ClientWire ==
  ASSUME ClientInv, NEW c \in Calls, ClientStep(c) \/ CallerStep(c)
  PROVE  \/ \E op \in Ops[c] : Issue(c, op)
         \/ Puts(c) \/ Quits(c) \/ Takes(c)
<1>1. nextId \in Nat /\ call[c].first \in Nat
  BY Zenon DEF ClientInv, ClientType, IsOperation
<1>2. \A e : Failed(e).stage \in Over /\ Failed(e).stage # "ok" /\ Failed(e).result = <<>>
  BY Zenon DEF Failed, Ended, Over
<1>3. LET end == Ended("dropped", <<>>) IN end.stage \in Over /\ end.stage # "ok" /\ end.result = <<>>
  BY Zenon DEF Ended, Over
<1>4. ASSUME NEW end, End(c, end), call[c].stage \in {"granted", "sending"}, nextId' \in Nat,
             end.stage \in Over, end.stage # "ok" => end.result = <<>>
      PROVE  Ends(c, end)
  BY Zenon, <1>4 DEF Ends, Holders
<1>5. CASE SendNothing(c)
  BY Zenon, <1>1, <1>2, <1>4, <1>5 DEF SendNothing, Quits
<1>6. CASE Send(c)
  <2>1. nextId' \in Nat /\ call[c].stage = "granted"
    BY <1>1, <1>6 DEF Send
  <2> QED BY Zenon, <1>2, <1>4, <1>6, <2>1 DEF Send, Quits, Puts, Begins, Sent
<1>7. CASE Return(c)
  <2> DEFINE end == Outcome(call[c].op, call[c].first, wire[c].rep)
  <2>1. IsEnd(end, call[c].first)
    BY Zenon, <1>1, OutcomeIsEnd
  <2>2. End(c, end) /\ nextId' \in Nat /\ call[c].stage = "sending" /\ wire[c].st = "replied"
        /\ wire' = [wire EXCEPT ![c] = [Quiet EXCEPT !.st = "gone"]]
    BY Zenon, <1>1, <1>7 DEF Return
  <2> HIDE DEF end
  <2>3. end.stage \in Over /\ (end.stage # "ok" => end.result = <<>>)
    BY Zenon, <2>1 DEF IsEnd, Over
  <2>4. Ends(c, end)
    BY Zenon, <1>4, <2>2, <2>3
  <2> QED BY Zenon, <2>2, <2>4 DEF Takes, end
<1>8. CASE \E e : Abort(c, e)
  BY Zenon, <1>1, <1>2, <1>4, <1>8 DEF Abort, Takes
<1>9. CASE Drop(c)
  BY Zenon, <1>1, <1>3, <1>4, <1>9 DEF Drop, LeavesQueue, Quits, Takes
<1>10. CASE \E op \in Ops[c] : Issue(c, op)
  BY Zenon, <1>10
<1> QED BY Zenon, <1>5, <1>6, <1>7, <1>8, <1>9, <1>10
        DEF ClientStep, CallerStep, Poll, Timeout, ConnectionFails

LEMMA EndsForItself ==
  ASSUME ClientInv, NEW c \in Calls, NEW end, Ends(c, end)
  PROVE  /\ call'[c].stage = end.stage /\ call'[c].result = end.result
         /\ call'[c].op = call[c].op /\ call'[c].first = call[c].first
<1>0. call' = [e \in Calls |-> Handed(c, end, e)]
  BY Zenon, EndStep DEF Ends
<1>1. call'[c] = Handed(c, end, c)
  BY Zenon, <1>0
<1>2. IsOperation(call[c])
  BY Zenon DEF ClientInv, ClientType
<1> QED BY Zenon, <1>1, <1>2 DEF Handed, IsOperation
=============================================================================
