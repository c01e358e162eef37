------------------------------ MODULE MCServer ------------------------------
(* Small instances of Server. *)
EXTENDS Server, TLC

CONSTANTS c1, c2, h1, h2, b1, b2

OneConn == {c1}
TwoConns == {c1, c2}
=============================================================================
