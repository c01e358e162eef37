---------------------------- MODULE MCWsConnect ----------------------------
(* A small instance of WsConnect: two hosts, one with two addresses, and   *)
(* every kind of Location header.                                          *)
EXTENDS WsConnect

CONSTANTS a1, a2, b1

MCDns == [h \in {"a", "b"} |-> IF h = "a" THEN <<a1, a2>> ELSE <<b1>>]

Url(scheme, host, path) == [scheme |-> scheme, host |-> host, path |-> path]
PlainA == Url("ws", "a", <<"/">>)
SecureB == Url("wss", "b", <<"/", "x", "?", "/">>)

MCUrls == {PlainA, SecureB, Url("http", "a", <<"/">>)}
MCLocations ==
  {[kind |-> "absolute", url |-> u] : u \in {PlainA, SecureB, Url("http", "b", <<"/">>),
                                            Url("http", NoHost, <<>>)}}
  \cup {[kind |-> "relative", path |-> p] : p \in {<<>>, <<"y">>, <<"/", "y">>}}
  \cup {[kind |-> "invalid"]}
MCBodySizes == {1, 2, 10485760, 10485761}
=============================================================================
