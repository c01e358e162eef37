----------------------------- MODULE WsConnect -----------------------------
(* How a client obtains a WebSocket transport: the builders of the         *)
(* ws-client, wasm-client and client-transport crates, the connection loop *)
(* try_connect_over_tcp with its addresses, redirections and TLS mode, and *)
(* the sender and receiver a successful handshake leaves.  The resolver,   *)
(* the TCP and TLS stacks and the peer are external: they answer anything, *)
(* at any time or never.                                                   *)
EXTENDS Naturals, Sequences, FiniteSets

CONSTANTS
  Urls,            \* the URLs a user may pass
  Locations,       \* the Location headers a peer may answer with
  Dns,             \* for each host the addresses it resolves to
  RedirectLimits,  \* the values of max_redirections
  SizeLimits,      \* the values of max_request_size
  BodySizes,       \* the sizes of the messages sent
  PlatformStore,   \* feature tls-rustls-platform-verifier
  NoHost,          \* a URL without a host
  None

VARIABLES
  builder,    \* the settings of the builder
  phase,      \* where the connecting task stands
  target,     \* the Target of the next handshake
  connector,  \* whether a TLS connector is held
  found,      \* target_sockaddrs
  addrs,      \* sockaddrs, the addresses of this round
  next,       \* index in addrs of the address being tried
  round,      \* iterations of the redirection loop begun
  err,        \* the error of the last failed attempt
  answer,     \* what the builder returned
  moved,      \* history: an absolute redirection was met over these addresses
  followed,   \* history: redirections met
  link,       \* the transport of an established connection
  wire,       \* the last frame handed to the WebSocket
  got         \* the last message handed to the client

loopVars == <<target, connector, found, addrs, next, round, err>>
linkVars == <<link, wire, got>>
vars == <<builder, phase, loopVars, answer, moved, followed, linkVars>>

Hosts == DOMAIN Dns
Schemes == {"ws", "wss", "http"}
Errors == {"Parse", "Url", "CertificateStore", "ResolutionFailed", "Io", "Timeout",
           "Rejected", "Redirected", "Transport", "NoAddressFound", "Js"}
Phases == {"build", "round", "dial", "tls", "stream", "handshake", "done"}
Addresses == UNION {{Dns[h][i] : i \in 1..Len(Dns[h])} : h \in Hosts}

\* The settings a transport depends on, and their values after Default.
Default == [max_redirections |-> 5, certificate_store |-> "Native",
            encryption |-> FALSE, max_request_size |-> 10 * 1024 * 1024]

\* Whether a path has a '/'.
HasSlash(path) == \E i \in 1..Len(path) : path[i] = "/"

\* A URL, and what the url crate guarantees of its path: that of a ws or wss
\* URL begins with a slash.
UrlType == [scheme : Schemes, host : Hosts \cup {NoHost}, path : Seq(STRING)]
IsUrl(url) == url \in UrlType /\ (url.scheme \in {"ws", "wss"} => HasSlash(url.path))

ASSUME WsConnectAssumption ==
  /\ \A h \in Hosts : Dns[h] \in Seq(Addresses)
  /\ NoHost \notin Hosts /\ None \notin {"ws", "web", "failed", "closed"}
  /\ \A u \in Urls : IsUrl(u)
  /\ \A l \in Locations : l.kind = "absolute" => IsUrl(l.url)
  /\ \A l \in Locations : l.kind = "relative" => l.path \in Seq(STRING)
  /\ RedirectLimits \subseteq Nat /\ SizeLimits \subseteq Nat /\ BodySizes \subseteq Nat

-----------------------------------------------------------------------------
\* Target: where a handshake goes and what it says.

Targets == [host : Hosts, mode : {"Plain", "Tls"}, path : Seq(STRING)]

Mode(url) == IF url.scheme = "wss" THEN "Tls" ELSE "Plain"

\* Whether TryFrom<Url> accepts the URL.
IsTarget(url) == url.scheme \in {"ws", "wss"} /\ url.host # NoHost

TargetOf(url) ==
  [host |-> url.host, mode |-> Mode(url), path |-> url.path]

\* Whether build_tls_config succeeds.
StoreWorks == builder.certificate_store = "Custom" \/ PlatformStore

\* The offset rfind('/') returns in a path that has a slash.
LastSlash(path) ==
  CHOOSE i \in 1..Len(path) : path[i] = "/" /\ \A j \in i+1..Len(path) : path[j] # "/"

\* A relative location replaces the whole path, or what follows its last slash.
Relative(path, location) ==
  IF location # <<>> /\ location[1] = "/"
    THEN location
    ELSE SubSeq(path, 1, LastSlash(path)) \o location

-----------------------------------------------------------------------------
\* The builder.

Init ==
  /\ builder = Default /\ phase = "build"
  /\ target = None /\ connector = FALSE
  /\ found = <<>> /\ addrs = <<>> /\ next = 0 /\ round = 0 /\ err = None
  /\ answer = None /\ moved = FALSE /\ followed = 0
  /\ link = None /\ wire = None /\ got = None

\* A setter of WsClientBuilder or WsTransportClientBuilder.
Set ==
  /\ phase = "build"
  /\ \/ \E n \in RedirectLimits : builder' = [builder EXCEPT !.max_redirections = n]
     \/ \E n \in SizeLimits : builder' = [builder EXCEPT !.max_request_size = n]
     \/ builder' = [builder EXCEPT !.certificate_store = "Custom"]
     \/ builder' = [builder EXCEPT !.encryption = TRUE]
  /\ UNCHANGED <<phase, loopVars, answer, moved, followed, linkVars>>

\* The builder returns an error.
Return(e) ==
  /\ phase' = "done" /\ answer' = e
  /\ UNCHANGED <<builder, linkVars>>

\* Url::parse refuses the string given to build or build_with_stream.
BuildUnparsable ==
  /\ phase = "build"
  /\ Return("Parse")
  /\ UNCHANGED <<loopVars, moved, followed>>

\* build: the first steps of try_connect_over_tcp, up to the loop.
Build(url) ==
  /\ phase = "build"
  /\ UNCHANGED <<addrs, next, round, err, moved, followed>>
  /\ \/ /\ ~IsTarget(url)
        /\ Return("Url")
        /\ UNCHANGED <<target, connector, found>>
     \/ /\ IsTarget(url) /\ Mode(url) = "Tls" /\ ~StoreWorks
        /\ Return("CertificateStore")
        /\ target' = TargetOf(url)
        /\ UNCHANGED <<connector, found>>
     \/ /\ IsTarget(url) /\ (Mode(url) = "Tls" => StoreWorks)
        /\ target' = TargetOf(url)
        /\ connector' = (Mode(url) = "Tls")
        /\ \/ /\ found' = Dns[url.host] /\ phase' = "round"
              /\ UNCHANGED <<builder, answer, linkVars>>
           \/ Return("ResolutionFailed") /\ found' = found

\* build_with_stream: one handshake over the stream the caller connected.
BuildWithStream(url) ==
  /\ phase = "build"
  /\ UNCHANGED <<connector, found, addrs, next, round, err, moved, followed>>
  /\ \/ /\ ~IsTarget(url)
        /\ Return("Url")
        /\ UNCHANGED target
     \/ /\ IsTarget(url)
        /\ target' = TargetOf(url) /\ phase' = "stream"
        /\ UNCHANGED <<builder, answer, linkVars>>

\* The web transport: the browser opens the socket, with none of the settings.
WebConnect ==
  /\ phase = "build"
  /\ phase' = "done"
  /\ \/ answer' = "Js" /\ link' = link
     \/ answer' = "Connected" /\ link' = "web"
  /\ UNCHANGED <<builder, loopVars, moved, followed, wire, got>>

-----------------------------------------------------------------------------
\* try_connect_over_tcp: the redirection loop.

\* Mutant: the addresses are copied where they should be taken.
RoundKeepsFound ==
  /\ phase = "round"
  /\ \/ /\ round < builder.max_redirections
        /\ round' = round + 1
        /\ addrs' = found /\ found' = found
        /\ next' = 1 /\ moved' = (moved /\ found = addrs)
        /\ phase' = IF found = <<>> THEN "round" ELSE "dial"
        /\ UNCHANGED <<builder, target, connector, err, answer, followed, linkVars>>
     \/ /\ round = builder.max_redirections
        /\ Return(IF err = None THEN "NoAddressFound" ELSE err)
        /\ UNCHANGED <<loopVars, moved, followed>>

\* The head of the outer loop: take the addresses, or give up.
Round ==
  /\ phase = "round"
  /\ \/ /\ round < builder.max_redirections
        /\ round' = round + 1
        /\ addrs' = found /\ found' = <<>>
        /\ next' = 1 /\ moved' = (moved /\ found = addrs)
        /\ phase' = IF found = <<>> THEN "round" ELSE "dial"
        /\ UNCHANGED <<builder, target, connector, err, answer, followed, linkVars>>
     \/ /\ round = builder.max_redirections
        /\ Return(IF err = None THEN "NoAddressFound" ELSE err)
        /\ UNCHANGED <<loopVars, moved, followed>>

\* The inner loop goes on to the next address of the round.
NextAddress ==
  /\ next' = next + 1
  /\ phase' = IF next < Len(addrs) THEN "dial" ELSE "round"

\* An attempt fails with e; the error is kept and the next address is tried.
AttemptFails(e) ==
  /\ err' = e
  /\ NextAddress
  /\ UNCHANGED <<builder, target, connector, found, addrs, round, answer, moved,
                 followed, linkVars>>

\* connect: the TCP connection opens or fails, or connection_timeout elapses
\* first.
TcpAnswers ==
  /\ phase = "dial"
  /\ \/ AttemptFails("Io")
     \/ /\ phase' = IF connector THEN "tls" ELSE "handshake"
        /\ UNCHANGED <<builder, loopVars, answer, moved, followed, linkVars>>

TcpTimeout == phase = "dial" /\ AttemptFails("Timeout")

\* connect goes on with the TLS handshake after the timer has been dropped.
TlsAnswers ==
  /\ phase = "tls"
  /\ \/ \E e \in {"Url", "Io"} : AttemptFails(e)
     \/ /\ phase' = "handshake"
        /\ UNCHANGED <<builder, loopVars, answer, moved, followed, linkVars>>

\* try_connect returns the sender and the receiver.
Established ==
  /\ phase' = "done" /\ answer' = "Connected" /\ link' = "ws"
  /\ UNCHANGED <<builder, loopVars, moved, followed, wire, got>>

\* Mutant: a connector that was built once is kept.
RedirectKeepsConnector(url) ==
  /\ moved' = TRUE /\ followed' = followed + 1
  /\ url.host # NoHost /\ IsTarget(url)
  /\ found' = Dns[url.host]
  /\ target' = TargetOf(url)
  /\ connector' = (connector \/ Mode(url) = "Tls")
  /\ NextAddress
  /\ UNCHANGED <<builder, addrs, round, err, answer, linkVars>>

\* A redirection to a URL: the new host is resolved, target and connector are
\* replaced, and the loop over the addresses of the round goes on.
RedirectAbsolute(url) ==
  /\ moved' = TRUE /\ followed' = followed + 1
  /\ \/ /\ Return("Io")
        /\ UNCHANGED loopVars
     \/ /\ url.host # NoHost
        /\ found' = Dns[url.host]
        /\ \/ /\ ~IsTarget(url)
              /\ Return("Url")
              /\ UNCHANGED <<target, connector, addrs, next, round, err>>
           \/ /\ IsTarget(url)
              /\ target' = TargetOf(url)
              /\ \/ /\ Mode(url) = "Tls" /\ ~connector /\ ~StoreWorks
                    /\ Return("CertificateStore")
                    /\ UNCHANGED <<connector, addrs, next, round, err>>
                 \/ /\ Mode(url) = "Tls" /\ ~connector => StoreWorks
                    /\ connector' = (Mode(url) = "Tls")
                    /\ NextAddress
                    /\ UNCHANGED <<builder, addrs, round, err, answer, linkVars>>

\* Mutant: the host of the handshake is taken from the location too.
RedirectRelativeElsewhere(location) ==
  /\ \E h \in Hosts : target' = [target EXCEPT !.host = h,
                                              !.path = Relative(target.path, location)]
  /\ found' = addrs
  /\ phase' = "round"
  /\ followed' = followed + 1
  /\ UNCHANGED <<builder, connector, addrs, next, round, err, answer, moved, linkVars>>

\* Mutant: a relative redirection is retried at once, outside the loop.
RedirectRelativeAtOnce(location) ==
  /\ target' = [target EXCEPT !.path = Relative(target.path, location)]
  /\ next' = 1 /\ phase' = "dial"
  /\ UNCHANGED <<builder, connector, found, addrs, round, err, answer, moved, followed,
                 linkVars>>

\* A relative redirection: the path is replaced and the addresses of the round
\* are tried again from the first.
RedirectRelative(location) ==
  IF ~HasSlash(target.path) /\ (location = <<>> \/ location[1] # "/")
    THEN AttemptFails("Url")
    ELSE /\ target' = [target EXCEPT !.path = Relative(target.path, location)]
         /\ found' = addrs
         /\ phase' = "round"
         /\ followed' = followed + 1
         /\ UNCHANGED <<builder, connector, addrs, next, round, err, answer, moved, linkVars>>

\* The peer answers the handshake of try_connect.
PeerAnswers ==
  /\ phase = "handshake"
  /\ \/ Established
     \/ \E e \in {"Rejected", "Transport"} : AttemptFails(e)
     \/ \E l \in Locations :
          \/ l.kind = "absolute" /\ RedirectAbsolute(l.url)
          \/ l.kind = "relative" /\ RedirectRelative(l.path)
          \/ l.kind = "invalid" /\ AttemptFails("Url")

\* The same answers to the handshake of build_with_stream.
StreamAnswers ==
  /\ phase = "stream"
  /\ \/ Established
     \/ /\ \E e \in {"Rejected", "Transport", "Redirected"} : Return(e)
        /\ UNCHANGED <<loopVars, moved, followed>>

-----------------------------------------------------------------------------
\* The sender and the receiver.

\* encrypt lengthens a message by one unit.
Overhead == 1

\* Mutant: the size is checked before the message is encrypted.
SendChecksFirst(size) ==
  /\ link \in {"ws", "web"}
  /\ link = "ws" => size <= builder.max_request_size
  /\ LET seals == link = "ws" /\ builder.encryption
     IN  wire' = [size |-> IF seals THEN size + Overhead ELSE size, sealed |-> seals]
  /\ UNCHANGED <<builder, phase, loopVars, answer, moved, followed, link, got>>

\* Sender::send.  A message encrypt refuses is reported as MessageTooLarge.
Send(size) ==
  /\ link \in {"ws", "web"}
  /\ LET seals == link = "ws" /\ builder.encryption
         body == [size |-> IF seals THEN size + Overhead ELSE size, sealed |-> seals]
     IN \/ /\ link = "ws" => body.size <= builder.max_request_size
           /\ wire' = body
           /\ link' \in {link, "failed"}
        \/ /\ link = "ws" /\ (seals \/ body.size > builder.max_request_size)
           /\ UNCHANGED <<wire, link>>
  /\ UNCHANGED <<builder, phase, loopVars, answer, moved, followed, got>>

\* Receiver::receive.  Text is decrypted when the client was given a key, and
\* what decrypt refuses is an error; binary data is handed over as it came.
Receive ==
  /\ link \in {"ws", "web"}
  /\ \/ /\ got' \in [kind : {"Text"}, opened : {link = "ws" /\ builder.encryption}]
        /\ UNCHANGED link
     \/ /\ got' \in [kind : {"Bytes"} \cup (IF link = "ws" THEN {"Pong"} ELSE {}),
                     opened : {FALSE}]
        /\ UNCHANGED link
     \/ link' = "failed" /\ UNCHANGED got
  /\ UNCHANGED <<builder, phase, loopVars, answer, moved, followed, wire>>

\* Sender::close.
Close ==
  /\ link \in {"ws", "failed"}
  /\ link' = "closed"
  /\ UNCHANGED <<builder, phase, loopVars, answer, moved, followed, wire, got>>

-----------------------------------------------------------------------------
\* The steps of the connecting task and of its timer.
ClientStep == Round
\* The answers of the resolver and of the peers.
PeerStep == TcpAnswers \/ TlsAnswers \/ PeerAnswers \/ StreamAnswers

BuildStep ==
  \/ Set \/ BuildUnparsable \/ WebConnect
  \/ \E url \in Urls : Build(url) \/ BuildWithStream(url)

LinkStep == Receive \/ Close \/ \E n \in BodySizes : Send(n)

Next == BuildStep \/ ClientStep \/ TcpTimeout \/ PeerStep \/ LinkStep

Spec == Init /\ [][Next]_vars

\* The task is polled and its timer fires.
TaskFairness == WF_vars(ClientStep) /\ WF_vars(TcpTimeout)
\* Peers that answer what they are asked.
FairSpec == Spec /\ TaskFairness /\ WF_vars(PeerStep)
\* Peers that may fall silent.
SilentSpec == Spec /\ TaskFairness

-----------------------------------------------------------------------------
\* Properties.

Dialling == phase \in {"dial", "tls", "handshake"}

\* Every variable holds a value of its type.
TypeOK ==
  /\ phase \in Phases
  /\ builder \in [max_redirections : RedirectLimits \cup {5},
                  certificate_store : {"Native", "Custom"}, encryption : BOOLEAN,
                  max_request_size : SizeLimits \cup {Default.max_request_size}]
  /\ target \in Targets \cup {None}
  /\ connector \in BOOLEAN /\ moved \in BOOLEAN
  /\ found \in Seq(Addresses) /\ addrs \in Seq(Addresses)
  /\ Dialling => next \in 1..Len(addrs)
  /\ next \in Nat /\ round \in Nat /\ followed \in Nat
  /\ err \in Errors \cup {None}
  /\ answer \in Errors \cup {"Connected", None}
  /\ link \in {"ws", "web", "failed", "closed", None}

\* Whatever redirections were met, TLS is spoken exactly when the URL in force
\* is a wss URL (the connector of try_connect_over_tcp is rebuilt or dropped
\* with each absolute redirection).
TlsMatchesTarget == Dialling => (connector <=> target.mode = "Tls")

\* A handshake goes to an address of its target's host, as long as no absolute
\* redirection was met while these addresses were tried by try_connect_over_tcp.
AddressesBelongToTarget ==
  Dialling /\ ~moved => \E i \in 1..Len(Dns[target.host]) : Dns[target.host][i] = addrs[next]

\* The addresses of a round are dialled again only after a redirection:
\* mem::take empties the list, so a round that failed everywhere is not retried.
RoundsFollowRedirections == Dialling => round <= followed + 1

\* The path of a target always has a slash, so the branch of
\* try_connect_over_tcp that reports "this is a bug" is never taken.
PathKeepsItsSlash == Dialling => HasSlash(target.path)

\* What reaches the WebSocket is encrypted if a key was set, and its size after
\* encryption is within max_request_size; text reaches the client decrypted.
WireHonoursBuilder ==
  /\ wire # None /\ answer = "Connected" /\ link = "ws" =>
       wire.sealed = builder.encryption /\ wire.size <= builder.max_request_size
  /\ got # None /\ link = "ws" /\ got.kind = "Text" => got.opened = builder.encryption

\* If the peers answer, connecting ends, whatever they answer: the loop over
\* max_redirections is finite.
ConnectingEnds == phase # "build" ~> phase = "done"

\* A handshake goes to an address of its target's host: the comment in
\* try_connect_over_tcp reuses addresses for relative locations only.
HandshakesReachTheirHost ==
  Dialling => \E i \in 1..Len(Dns[target.host]) : Dns[target.host][i] = addrs[next]

\* "Set connection timeout for the handshake": a handshake that has begun ends
\* although the peer falls silent.
HandshakeIsTimed == phase = "handshake" ~> phase # "handshake"
=============================================================================
