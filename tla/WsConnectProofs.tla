-------------------------- MODULE WsConnectProofs --------------------------
(***************************************************************************)
(* Safety of WsConnect for every resolver, every set of URLs and Location  *)
(* headers and every limit.  The invariant is inductive once it says what  *)
(* holds at the head of the loop, before the addresses are taken.          *)
(***************************************************************************)
EXTENDS WsConnect, WellFoundedInduction, TLAPS

Connecting == phase \in {"round", "dial", "tls", "handshake"}

(* An address of h. *)
AddressOf(a, h) == \E i \in 1..Len(Dns[h]) : Dns[h][i] = a

(* What the loop keeps from one step to the next. *)
LoopInv ==
  /\ Connecting => target \in Targets /\ HasSlash(target.path)
  /\ Connecting => (connector <=> target.mode = "Tls")
  /\ phase = "build" => round <= followed
  /\ Dialling => round <= followed + 1
  /\ phase = "round" /\ found # <<>> => round <= followed
  /\ Dialling => found = <<>> \/ round <= followed
  /\ Dialling => \A i \in 1..Len(found) : AddressOf(found[i], target.host)
  /\ Dialling /\ ~moved => \A i \in 1..Len(addrs) : AddressOf(addrs[i], target.host)
  /\ phase = "round" /\ (~moved \/ found # addrs) =>
       \A i \in 1..Len(found) : AddressOf(found[i], target.host)

IInv == TypeOK /\ LoopInv

-----------------------------------------------------------------------------
(* A path that has a slash has a last one: rfind returns it. *)
LEMMA LastSlashIsASlash ==
  ASSUME NEW path \in Seq(STRING), HasSlash(path)
  PROVE  LastSlash(path) \in 1..Len(path) /\ path[LastSlash(path)] = "/"
<1> DEFINE R == OpToRel(<, Nat)
           T == {n \in Nat : n < Len(path) /\ path[Len(path) - n] = "/"}
<1>1. T # {}
  <2>1. PICK i \in 1..Len(path) : path[i] = "/"
    BY DEF HasSlash
  <2>2. Len(path) \in Nat
    OBVIOUS
  <2>3. Len(path) - i \in Nat /\ Len(path) - i < Len(path) /\ Len(path) - (Len(path) - i) = i
    BY <2>1, <2>2
  <2> QED
    BY <2>1, <2>3
<1>2. \E x \in T : \A y \in T : ~(<<y, x>> \in R)
  <2>1. IsWellFoundedOn(R, Nat)
    BY NatLessThanWellFounded
  <2>2. T \subseteq Nat
    OBVIOUS
  <2> HIDE DEF R, T
  <2> QED
    BY <2>1, <2>2, <1>1, WFMin, Zenon
<1>3. PICK x \in T : \A y \in T : ~(y < x)
  BY <1>2 DEF OpToRel
<1>4. \E i \in 1..Len(path) :
         path[i] = "/" /\ \A j \in i+1..Len(path) : path[j] # "/"
  <2>1. Len(path) \in Nat
    OBVIOUS
  <2>2. Len(path) - x \in 1..Len(path) /\ path[Len(path) - x] = "/"
    BY <1>3, <2>1
  <2>3. ASSUME NEW j \in (Len(path) - x)+1..Len(path), path[j] = "/" PROVE FALSE
    <3>1. Len(path) - j \in Nat /\ Len(path) - j < x /\ Len(path) - (Len(path) - j) = j
      BY <2>1, <1>3, <2>3
    <3> QED
      BY <3>1, <1>3, <2>1, <2>3
  <2> QED
    BY <2>2, <2>3
<1> QED
  BY <1>4 DEF LastSlash

(* What a relative redirection makes of a path has a slash again. *)
LEMMA RelativeHasSlash ==
  ASSUME NEW path \in Seq(STRING), NEW location \in Seq(STRING),
         HasSlash(path) \/ (location # <<>> /\ location[1] = "/")
  PROVE  Relative(path, location) \in Seq(STRING) /\ HasSlash(Relative(path, location))
<1>1. CASE location # <<>> /\ location[1] = "/"
  BY <1>1 DEF Relative, HasSlash
<1>2. CASE ~(location # <<>> /\ location[1] = "/")
  <2> DEFINE n == LastSlash(path)
             p == SubSeq(path, 1, n)
  <2>1. HasSlash(path)
    BY <1>2
  <2>2. n \in 1..Len(path) /\ path[n] = "/"
    BY <2>1, LastSlashIsASlash
  <2>3. p \in Seq(STRING) /\ Len(p) = n /\ p[n] = "/"
    BY <2>2
  <2>4. Relative(path, location) = p \o location
    BY <1>2 DEF Relative
  <2>5. /\ p \o location \in Seq(STRING)
        /\ n \in 1..Len(p \o location)
        /\ (p \o location)[n] = "/"
    <3> HIDE DEF p
    <3> QED
      BY <2>2, <2>3
  <2> QED
    BY <2>4, <2>5 DEF HasSlash
<1> QED
  BY <1>1, <1>2

(* The addresses of a host are its own. *)
LEMMA DnsIsOwn ==
  ASSUME NEW h \in Hosts
  PROVE  Dns[h] \in Seq(Addresses) /\ \A i \in 1..Len(Dns[h]) : AddressOf(Dns[h][i], h)
BY WsConnectAssumption DEF AddressOf

(* The Target of a URL that TryFrom accepts. *)
LEMMA TargetOfUrl ==
  ASSUME NEW url, IsUrl(url), IsTarget(url)
  PROVE  /\ TargetOf(url) \in Targets /\ HasSlash(TargetOf(url).path)
         /\ TargetOf(url).host = url.host /\ url.host \in Hosts
         /\ TargetOf(url).mode = Mode(url)
<1>1. url \in UrlType /\ url.host \in Hosts /\ url.path \in Seq(STRING) /\ HasSlash(url.path)
  BY DEF IsUrl, IsTarget, UrlType
<1>2. Mode(url) \in {"Plain", "Tls"}
  BY DEF Mode
<1> QED
  BY <1>1, <1>2 DEF TargetOf, Targets

LEMMA InitInv == Init => IInv
<1> SUFFICES ASSUME Init PROVE IInv
  OBVIOUS
<1>1. builder \in [max_redirections : RedirectLimits \cup {5},
                  certificate_store : {"Native", "Custom"}, encryption : BOOLEAN,
                  max_request_size : SizeLimits \cup {Default.max_request_size}]
  BY DEF Init, Default
<1>2. found \in Seq(Addresses) /\ addrs \in Seq(Addresses)
  BY DEF Init
<1>3. TypeOK
  <2> HIDE DEF Default
  <2>1. ~Dialling /\ phase \in Phases
    BY DEF Init, Dialling, Phases
  <2>2. /\ target = None /\ connector = FALSE /\ moved = FALSE /\ next = 0 /\ round = 0
        /\ followed = 0 /\ err = None /\ answer = None /\ link = None
    BY DEF Init
  <2> QED
    BY <1>1, <1>2, <2>1, <2>2 DEF TypeOK
<1>4. LoopInv
  BY DEF Init, LoopInv, Connecting, Dialling
<1> QED
  BY <1>3, <1>4 DEF IInv

(* A step that leaves the loop's variables alone. *)
LEMMA SameLoop ==
  ASSUME IInv, UNCHANGED <<loopVars, moved, followed>>,
         phase' = phase \/ phase' \in {"done", "stream"}
  PROVE  LoopInv'
BY DEF IInv, TypeOK, LoopInv, Connecting, Dialling, AddressOf, loopVars, Targets, HasSlash

(* An attempt that fails goes on with the next address or round. *)
LEMMA AttemptFailsInv ==
  ASSUME IInv, Dialling, NEW e \in Errors, AttemptFails(e)
  PROVE  IInv'
<1>1. TypeOK'
  BY DEF IInv, TypeOK, AttemptFails, NextAddress, linkVars, Dialling, Phases
<1>2. LoopInv'
  BY DEF IInv, TypeOK, LoopInv, AttemptFails, NextAddress, linkVars, Dialling, Connecting,
         AddressOf
<1> QED
  BY <1>1, <1>2 DEF IInv

(* The head of the loop over max_redirections. *)
LEMMA RoundInv ==
  ASSUME IInv, Round
  PROVE  IInv'
<1>1. CASE round < builder.max_redirections /\ round' = round + 1
  <2> USE <1>1
  <2>0. /\ addrs' = found /\ found' = <<>> /\ next' = 1 /\ moved' = (moved /\ found = addrs)
        /\ phase' = (IF found = <<>> THEN "round" ELSE "dial")
        /\ UNCHANGED <<builder, target, connector, err, answer, followed, linkVars>>
    BY DEF Round, IInv, TypeOK, loopVars, Return
  <2>1. TypeOK'
    BY <2>0 DEF IInv, TypeOK, linkVars, Dialling, Phases
  <2>2. LoopInv'
    BY <2>0 DEF IInv, TypeOK, LoopInv, Round, Dialling, Connecting, AddressOf
  <2> QED
    BY <2>1, <2>2 DEF IInv
<1>2. CASE ~(round < builder.max_redirections /\ round' = round + 1)
  <2>0. /\ phase' = "done" /\ answer' = (IF err = None THEN "NoAddressFound" ELSE err)
        /\ UNCHANGED <<builder, link, loopVars, moved, followed>>
    BY <1>2 DEF Round, Return, linkVars
  <2>1. TypeOK'
    BY <2>0 DEF IInv, TypeOK, loopVars, Dialling, Phases, Errors
  <2>2. LoopInv'
    BY <2>0, SameLoop
  <2> QED
    BY <2>1, <2>2 DEF IInv
<1> QED
  BY <1>1, <1>2

(* An absolute redirection. *)
LEMMA RedirectAbsoluteInv ==
  ASSUME IInv, Dialling, NEW url, IsUrl(url), RedirectAbsolute(url)
  PROVE  IInv'
<1>0. moved' = TRUE /\ followed' = followed + 1
  BY DEF RedirectAbsolute
<1>1. ASSUME NEW e \in Errors, Return(e), UNCHANGED <<addrs, next, round, err>>,
             target' \in Targets \cup {None}, connector' \in BOOLEAN,
             found' \in Seq(Addresses)
      PROVE  IInv'
  <2>1. TypeOK'
    BY <1>0, <1>1 DEF IInv, TypeOK, Return, linkVars, Dialling, Phases
  <2>2. LoopInv'
    BY <1>1 DEF LoopInv, Return, Connecting, Dialling
  <2> QED
    BY <2>1, <2>2 DEF IInv
<1>2. CASE Return("Io") /\ UNCHANGED loopVars
  BY <1>1, <1>2 DEF IInv, TypeOK, loopVars, Errors
<1>3. CASE /\ url.host # NoHost /\ found' = Dns[url.host] /\ ~IsTarget(url)
           /\ Return("Url") /\ UNCHANGED <<target, connector, addrs, next, round, err>>
  <2>1. found' \in Seq(Addresses)
    BY <1>3, DnsIsOwn DEF IsUrl, UrlType
  <2> QED
    BY <1>1, <1>3, <2>1 DEF IInv, TypeOK, Errors
<1>4. CASE /\ found' = Dns[url.host] /\ IsTarget(url) /\ target' = TargetOf(url)
           /\ Return("CertificateStore") /\ UNCHANGED <<connector, addrs, next, round, err>>
  <2>1. found' \in Seq(Addresses) /\ target' \in Targets
    BY <1>4, DnsIsOwn, TargetOfUrl
  <2> QED
    BY <1>1, <1>4, <2>1 DEF IInv, TypeOK, Errors
<1>5. CASE /\ found' = Dns[url.host] /\ IsTarget(url) /\ target' = TargetOf(url)
           /\ connector' = (Mode(url) = "Tls") /\ NextAddress
           /\ UNCHANGED <<builder, addrs, round, err, answer, linkVars>>
  <2>1. /\ target' \in Targets /\ HasSlash(target'.path)
        /\ target'.mode = Mode(url) /\ target'.host \in Hosts
        /\ found' = Dns[target'.host]
    BY <1>5, TargetOfUrl
  <2>2. /\ found' \in Seq(Addresses)
        /\ \A i \in 1..Len(found') : AddressOf(found'[i], target'.host)
    BY <2>1, DnsIsOwn
  <2>3. TypeOK'
    BY <1>0, <1>5, <2>1, <2>2 DEF IInv, TypeOK, NextAddress, linkVars, Dialling, Phases
  <2>4. LoopInv'
    <3>1. (Connecting => target \in Targets /\ HasSlash(target.path))'
      BY <2>1 DEF HasSlash
    <3>2. round' <= followed'
      BY <1>0, <1>5 DEF IInv, TypeOK, LoopInv
    <3>3. (\A i \in 1..Len(found) : AddressOf(found[i], target.host))'
      BY <2>2 DEF AddressOf
    <3>4. (Connecting => (connector <=> target.mode = "Tls"))'
      BY <1>5, <2>1
    <3> QED
      BY <1>0, <3>1, <3>2, <3>3, <3>4, <2>3 DEF LoopInv, TypeOK
  <2> QED
    BY <2>3, <2>4 DEF IInv
<1> QED
  BY <1>2, <1>3, <1>4, <1>5 DEF RedirectAbsolute

(* A relative redirection. *)
LEMMA RedirectRelativeInv ==
  ASSUME IInv, Dialling, NEW location \in Seq(STRING), RedirectRelative(location)
  PROVE  IInv'
<1>1. target \in Targets /\ target.path \in Seq(STRING) /\ HasSlash(target.path)
  BY DEF IInv, LoopInv, Connecting, Dialling, Targets
<1>2. /\ target' = [target EXCEPT !.path = Relative(target.path, location)]
      /\ found' = addrs /\ phase' = "round" /\ followed' = followed + 1
      /\ UNCHANGED <<builder, connector, addrs, next, round, err, answer, moved, linkVars>>
  BY <1>1 DEF RedirectRelative
<1>3. Relative(target.path, location) \in Seq(STRING) /\ HasSlash(Relative(target.path, location))
  BY <1>1, RelativeHasSlash
<1>4. /\ target' \in Targets /\ target'.path = Relative(target.path, location)
      /\ target'.host = target.host /\ target'.mode = target.mode
  BY <1>1, <1>2, <1>3 DEF Targets
<1>5. TypeOK'
  BY <1>2, <1>4 DEF IInv, TypeOK, linkVars, Dialling, Phases
<1>6. LoopInv'
  <2>1. (Connecting => target \in Targets /\ HasSlash(target.path))'
    BY <1>3, <1>4 DEF HasSlash
  <2> QED
    BY <1>2, <1>4, <2>1 DEF IInv, TypeOK, LoopInv, Dialling, Connecting, AddressOf
<1> QED
  BY <1>5, <1>6 DEF IInv

-----------------------------------------------------------------------------
(* The builder's steps. *)
LEMMA BuildInv ==
  ASSUME IInv, NEW url \in Urls, Build(url)
  PROVE  IInv'
<1>0. IsUrl(url) /\ phase = "build" /\ UNCHANGED <<addrs, next, round, err, moved, followed>>
  BY WsConnectAssumption DEF Build
<1>1. ASSUME NEW e \in Errors, Return(e), UNCHANGED found,
             target' \in Targets \cup {None}, connector' \in BOOLEAN
      PROVE  IInv'
  <2>1. TypeOK'
    BY <1>0, <1>1 DEF IInv, TypeOK, Return, linkVars, Dialling, Phases
  <2>2. LoopInv'
    BY <1>1 DEF LoopInv, Return, Connecting, Dialling
  <2> QED
    BY <2>1, <2>2 DEF IInv
<1>2. CASE ~IsTarget(url)
  BY <1>1, <1>2 DEF Build, IInv, TypeOK, Errors
<1>3. CASE IsTarget(url) /\ Mode(url) = "Tls" /\ ~StoreWorks
  <2>1. TargetOf(url) \in Targets
    BY <1>0, <1>3, TargetOfUrl
  <2> QED
    BY <1>1, <1>3, <2>1 DEF Build, IInv, TypeOK, Errors
<1>4. CASE IsTarget(url) /\ (Mode(url) = "Tls" => StoreWorks)
  <2>1. /\ target' = TargetOf(url) /\ connector' = (Mode(url) = "Tls")
        /\ \/ /\ found' = Dns[url.host] /\ phase' = "round"
              /\ UNCHANGED <<builder, answer, linkVars>>
           \/ Return("ResolutionFailed") /\ found' = found
    BY <1>4 DEF Build
  <2>2. /\ target' \in Targets /\ HasSlash(target'.path) /\ target'.host = url.host
        /\ target'.mode = Mode(url) /\ url.host \in Hosts
    BY <1>0, <1>4, <2>1, TargetOfUrl
  <2>3. CASE Return("ResolutionFailed") /\ found' = found
    BY <1>1, <2>1, <2>2, <2>3 DEF Errors
  <2>4. CASE /\ found' = Dns[url.host] /\ phase' = "round"
             /\ UNCHANGED <<builder, answer, linkVars>>
    <3>1. found' \in Seq(Addresses)
      BY <2>2, <2>4, DnsIsOwn
    <3>2. (\A i \in 1..Len(found) : AddressOf(found[i], target.host))'
      BY <2>2, <2>4, DnsIsOwn DEF AddressOf
    <3>3. TypeOK'
      BY <1>0, <2>1, <2>2, <2>4, <3>1 DEF IInv, TypeOK, linkVars, Dialling, Phases
    <3>4. (Connecting => target \in Targets /\ HasSlash(target.path))'
      BY <2>2 DEF HasSlash
    <3>5. (Connecting => (connector <=> target.mode = "Tls"))'
      BY <2>1, <2>2
    <3>6. round' <= followed'
      BY <1>0 DEF IInv, LoopInv, TypeOK
    <3>7. LoopInv'
      BY <2>4, <3>2, <3>4, <3>5, <3>6 DEF LoopInv, Dialling
    <3> QED
      BY <3>3, <3>7 DEF IInv
  <2> QED
    BY <2>1, <2>3, <2>4
<1> QED
  BY <1>2, <1>3, <1>4

LEMMA BuildStepInv ==
  ASSUME IInv, BuildStep
  PROVE  IInv'
<1>1. CASE Set
  <2>1. LoopInv'
    BY <1>1, SameLoop DEF Set
  <2>2. /\ UNCHANGED <<phase, loopVars, answer, moved, followed, linkVars>>
        /\ builder' \in [max_redirections : RedirectLimits \cup {5},
                         certificate_store : {"Native", "Custom"}, encryption : BOOLEAN,
                         max_request_size : SizeLimits \cup {Default.max_request_size}]
    BY <1>1 DEF Set, IInv, TypeOK
  <2>3. TypeOK'
    BY <2>2 DEF IInv, TypeOK, loopVars, linkVars, Dialling
  <2> QED
    BY <2>1, <2>3 DEF IInv
<1>2. CASE BuildUnparsable
  <2>1. LoopInv'
    BY <1>2, SameLoop DEF BuildUnparsable, Return
  <2>2. TypeOK'
    BY <1>2 DEF BuildUnparsable, Return, IInv, TypeOK, loopVars, linkVars, Dialling, Phases, Errors
  <2> QED
    BY <2>1, <2>2 DEF IInv
<1>3. CASE WebConnect
  <2>1. LoopInv'
    BY <1>3, SameLoop DEF WebConnect
  <2>2. TypeOK'
    BY <1>3 DEF WebConnect, IInv, TypeOK, loopVars, Dialling, Phases, Errors
  <2> QED
    BY <2>1, <2>2 DEF IInv
<1>4. ASSUME NEW url \in Urls, BuildWithStream(url) PROVE IInv'
  <2>1. UNCHANGED <<connector, found, addrs, next, round, err, moved, followed>>
    BY <1>4 DEF BuildWithStream
  <2>2. target' \in Targets \cup {None}
    BY <1>4, TargetOfUrl, WsConnectAssumption DEF BuildWithStream, IInv, TypeOK
  <2>3. phase' \in {"done", "stream"} /\ answer' \in {"Url", answer} /\ UNCHANGED <<builder, linkVars>>
    BY <1>4 DEF BuildWithStream, Return
  <2>4. TypeOK'
    BY <2>1, <2>2, <2>3 DEF IInv, TypeOK, linkVars, Dialling, Phases, Errors
  <2>5. LoopInv'
    BY <2>3 DEF LoopInv, Connecting, Dialling
  <2> QED
    BY <2>4, <2>5 DEF IInv
<1> QED
  BY <1>1, <1>2, <1>3, <1>4, BuildInv DEF BuildStep

(* The answers of the network and of the peer, and the timer. *)
LEMMA AnswerInv ==
  ASSUME IInv, TcpTimeout \/ PeerStep
  PROVE  IInv'
<1>1. ASSUME UNCHANGED <<builder, loopVars, answer, moved, followed, linkVars>>,
             Dialling, phase' \in {"tls", "handshake"}
      PROVE  IInv'
  <2>1. TypeOK'
    BY <1>1 DEF IInv, TypeOK, loopVars, linkVars, Dialling, Phases
  <2>2. LoopInv'
    BY <1>1 DEF IInv, TypeOK, LoopInv, loopVars, Dialling, Connecting, AddressOf
  <2> QED
    BY <2>1, <2>2 DEF IInv
<1>2. ASSUME Established PROVE IInv'
  <2>1. LoopInv'
    BY <1>2, SameLoop DEF Established
  <2>2. TypeOK'
    BY <1>2 DEF Established, IInv, TypeOK, loopVars, Dialling, Phases
  <2> QED
    BY <2>1, <2>2 DEF IInv
<1>3. CASE TcpTimeout
  BY <1>3, AttemptFailsInv DEF TcpTimeout, Dialling, Errors
<1>4. CASE TcpAnswers
  BY <1>4, <1>1, AttemptFailsInv DEF TcpAnswers, Dialling, Errors
<1>5. CASE TlsAnswers
  BY <1>5, <1>1, AttemptFailsInv DEF TlsAnswers, Dialling, Errors
<1>6. CASE PeerAnswers
  <2>1. Dialling
    BY <1>6 DEF PeerAnswers, Dialling
  <2>2. ASSUME NEW l \in Locations, l.kind = "absolute", RedirectAbsolute(l.url) PROVE IInv'
    BY <2>1, <2>2, RedirectAbsoluteInv, WsConnectAssumption
  <2>3. ASSUME NEW l \in Locations, l.kind = "relative", RedirectRelative(l.path) PROVE IInv'
    BY <2>1, <2>3, RedirectRelativeInv, WsConnectAssumption
  <2>4. ASSUME NEW e \in {"Rejected", "Transport", "Url"}, AttemptFails(e) PROVE IInv'
    BY <2>1, <2>4, AttemptFailsInv DEF Errors
  <2> QED
    BY <1>6, <1>2, <2>2, <2>3, <2>4 DEF PeerAnswers
<1>7. CASE StreamAnswers
  <2>1. ASSUME NEW e \in {"Rejected", "Transport", "Redirected"}, Return(e),
               UNCHANGED <<loopVars, moved, followed>>
        PROVE  IInv'
    <3>1. LoopInv'
      BY <2>1, SameLoop DEF Return
    <3>2. TypeOK'
      BY <2>1 DEF Return, IInv, TypeOK, loopVars, linkVars, Dialling, Phases, Errors
    <3> QED
      BY <3>1, <3>2 DEF IInv
  <2> QED
    BY <1>7, <1>2, <2>1 DEF StreamAnswers
<1> QED
  BY <1>3, <1>4, <1>5, <1>6, <1>7 DEF PeerStep

(* The transport's steps leave the loop alone. *)
LEMMA LinkStepInv ==
  ASSUME IInv, LinkStep
  PROVE  IInv'
<1>1. /\ UNCHANGED <<builder, phase, loopVars, answer, moved, followed>>
      /\ link' \in {"ws", "web", "failed", "closed", None}
  BY DEF LinkStep, Receive, Close, Send, IInv, TypeOK
<1>2. LoopInv'
  BY <1>1, SameLoop
<1>3. TypeOK'
  BY <1>1 DEF IInv, TypeOK, loopVars, Dialling
<1> QED
  BY <1>2, <1>3 DEF IInv

LEMMA NextInv == IInv /\ [Next]_vars => IInv'
<1> SUFFICES ASSUME IInv, [Next]_vars PROVE IInv'
  OBVIOUS
<1>1. CASE UNCHANGED vars
  <2>1. UNCHANGED <<builder, phase, loopVars, answer, moved, followed, link>>
    BY <1>1 DEF vars, linkVars
  <2>2. LoopInv'
    BY <2>1, SameLoop
  <2>3. TypeOK'
    BY <2>1 DEF IInv, TypeOK, loopVars, Dialling
  <2> QED
    BY <2>2, <2>3 DEF IInv
<1> QED
  BY <1>1, BuildStepInv, RoundInv, AnswerInv, LinkStepInv DEF Next, ClientStep

(* The loop's invariant implies what is said of the handshakes. *)
LEMMA InvSafe ==
  IInv => TlsMatchesTarget /\ AddressesBelongToTarget /\ RoundsFollowRedirections
            /\ PathKeepsItsSlash
BY DEF IInv, TypeOK, LoopInv, Dialling, Connecting, AddressOf, TlsMatchesTarget,
       AddressesBelongToTarget, RoundsFollowRedirections, PathKeepsItsSlash

-----------------------------------------------------------------------------
(* Every variable of the connecting task keeps its type, and an address is *)
(* only dialled if it exists: try_connect_over_tcp, connect.               *)
THEOREM WsConnectTypeOK == Spec => []TypeOK
<1>1. IInv => TypeOK
  BY DEF IInv
<1> QED
  BY <1>1, InitInv, NextInv, PTL DEF Spec

(* The connector of try_connect_over_tcp follows the mode of the target    *)
(* through every sequence of redirections.                                 *)
THEOREM TlsFollowsTarget == Spec => []TlsMatchesTarget
BY InitInv, NextInv, InvSafe, PTL DEF Spec

(* Handshakes stay with the addresses of their host until an absolute      *)
(* redirection is met over addresses that are still being tried.           *)
THEOREM HandshakesStayWithHost == Spec => []AddressesBelongToTarget
BY InitInv, NextInv, InvSafe, PTL DEF Spec

(* A round of try_connect_over_tcp that dials was preceded by a            *)
(* redirection for every round before it.                                  *)
THEOREM NoRoundIsRetried == Spec => []RoundsFollowRedirections
BY InitInv, NextInv, InvSafe, PTL DEF Spec

(* The branch of try_connect_over_tcp marked as a bug is unreachable.      *)
THEOREM PathAlwaysHasSlash == Spec => []PathKeepsItsSlash
BY InitInv, NextInv, InvSafe, PTL DEF Spec

-----------------------------------------------------------------------------
(* A transport exists only once the builder has returned, so the settings  *)
(* it was given are final; nothing was sent or received before.            *)
LinkInv ==
  /\ phase # "done" => link = None
  /\ link = None => wire = None /\ got = None
  /\ WireHonoursBuilder

LEMMA LinkInit == Init => LinkInv
BY DEF Init, LinkInv, WireHonoursBuilder

(* A step that leaves the transport alone while there is none. *)
LEMMA SameLink ==
  ASSUME LinkInv, UNCHANGED linkVars, phase # "done"
  PROVE  LinkInv'
BY WsConnectAssumption DEF LinkInv, WireHonoursBuilder, linkVars

(* The steps up to the end of connecting. *)
LEMMA LinkConnects ==
  ASSUME LinkInv, BuildStep \/ ClientStep \/ TcpTimeout \/ PeerStep
  PROVE  LinkInv'
<1>1. phase # "done"
  BY DEF BuildStep, Set, BuildUnparsable, WebConnect, Build, BuildWithStream, ClientStep, Round,
         TcpTimeout, PeerStep, TcpAnswers, TlsAnswers, PeerAnswers, StreamAnswers
<1>2. ASSUME phase' = "done", UNCHANGED <<wire, got>>, link' \in {link, "web", "ws"}
      PROVE  LinkInv'
  BY <1>1, <1>2, WsConnectAssumption DEF LinkInv, WireHonoursBuilder
<1>3. CASE WebConnect
  BY <1>3, <1>2 DEF WebConnect
<1>4. CASE Established
  BY <1>4, <1>2 DEF Established
<1>5. CASE Set \/ BuildUnparsable \/ \E url \in Urls : Build(url) \/ BuildWithStream(url)
  BY <1>5, <1>1, SameLink DEF Set, BuildUnparsable, Build, BuildWithStream, Return, linkVars
<1>6. CASE ClientStep \/ TcpTimeout \/ TcpAnswers \/ TlsAnswers
  BY <1>6, <1>1, SameLink DEF ClientStep, Round, TcpTimeout, TcpAnswers, TlsAnswers, AttemptFails,
                              Return, linkVars
<1>7. ASSUME NEW url, RedirectAbsolute(url) PROVE LinkInv'
  BY <1>7, <1>1, SameLink DEF RedirectAbsolute, Return, linkVars
<1>8. ASSUME NEW location, RedirectRelative(location) PROVE LinkInv'
  BY <1>8, <1>1, SameLink DEF RedirectRelative, AttemptFails, linkVars
<1>9. ASSUME NEW e, Return(e) \/ AttemptFails(e) PROVE LinkInv'
  BY <1>9, <1>1, SameLink DEF AttemptFails, Return, linkVars
<1>10. CASE PeerAnswers
  BY <1>10, <1>4, <1>7, <1>8, <1>9 DEF PeerAnswers
<1>11. CASE StreamAnswers
  BY <1>11, <1>4, <1>9 DEF StreamAnswers
<1> QED
  BY <1>3, <1>5, <1>6, <1>10, <1>11 DEF BuildStep, PeerStep

(* The steps of the transport: the settings do not change any more. *)
LEMMA LinkWorks ==
  ASSUME TypeOK, LinkInv, LinkStep
  PROVE  LinkInv'
<1>0. builder.encryption \in BOOLEAN
  BY DEF TypeOK
<1>1. link \in {"ws", "web", "failed"} /\ link # None /\ phase = "done"
  BY WsConnectAssumption DEF LinkInv, LinkStep, Receive, Close, Send
<1>2. UNCHANGED <<builder, phase, answer>>
  BY DEF LinkStep, Receive, Close, Send
<1>3. CASE Receive
  <2>1. UNCHANGED wire /\ link' \in {link, "failed"}
    BY <1>3 DEF Receive
  <2>2. link' = "ws" /\ got' # got /\ got'.kind = "Text" => got'.opened = builder.encryption
    <3>1. CASE got' \in [kind : {"Text"}, opened : {link = "ws" /\ builder.encryption}]
      BY <1>0, <2>1, <3>1
    <3>2. CASE got' \in [kind : {"Bytes"} \cup (IF link = "ws" THEN {"Pong"} ELSE {}),
                         opened : {FALSE}]
      BY <3>2
    <3> QED
      BY <1>3, <3>1, <3>2 DEF Receive
  <2> QED
    BY <1>1, <1>2, <2>1, <2>2, WsConnectAssumption DEF LinkInv, WireHonoursBuilder
<1>4. CASE Close
  BY <1>1, <1>2, <1>4, WsConnectAssumption DEF Close, LinkInv, WireHonoursBuilder
<1>5. ASSUME NEW n \in BodySizes, Send(n) PROVE LinkInv'
  <2>1. UNCHANGED got /\ link' \in {link, "failed"}
    BY <1>5 DEF Send
  <2>2. link = "ws" /\ wire' # wire => wire'.sealed = builder.encryption
                                      /\ wire'.size <= builder.max_request_size
    BY <1>0, <1>5 DEF Send
  <2> QED
    BY <1>1, <1>2, <2>1, <2>2, WsConnectAssumption DEF LinkInv, WireHonoursBuilder
<1> QED
  BY <1>3, <1>4, <1>5 DEF LinkStep

(* What Sender::send hands to the WebSocket honours the settings the       *)
(* builder ended with, and Receiver::receive decrypts text exactly when    *)
(* there is a key.                                                         *)
THEOREM TransportHonoursBuilder == Spec => []WireHonoursBuilder
<1>1. IInv /\ LinkInv /\ [Next]_vars => LinkInv'
  <2> SUFFICES ASSUME IInv, LinkInv, [Next]_vars PROVE LinkInv'
    OBVIOUS
  <2>1. CASE UNCHANGED vars
    BY <2>1 DEF vars, linkVars, LinkInv, WireHonoursBuilder
  <2> QED
    BY <2>1, LinkConnects, LinkWorks DEF Next, IInv
<1>2. LinkInv => WireHonoursBuilder
  BY DEF LinkInv
<1> QED
  BY <1>1, <1>2, LinkInit, InitInv, NextInv, PTL DEF Spec
=============================================================================
