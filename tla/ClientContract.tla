--------------------------- MODULE ClientContract ---------------------------
(***************************************************************************)
(* What the trait ClientT (core/src/client/mod.rs) promises the caller of  *)
(* notification, request and batch_request, whatever transport is below:   *)
(* an operation is issued once, at most Limit operations are on their way  *)
(* to the server, each of them ends at most once, and an answer that is a  *)
(* success answers the entry of the request it is handed out for.          *)
(***************************************************************************)
EXTENDS Naturals, Sequences, FiniteSets

CONSTANTS Calls, Limit

VARIABLES
  state,   \* how far each operation is
  result   \* the answer: for each position the entry it answers, 0 if an error

States == {"idle", "queued", "running", "answered", "failed", "dropped"}

Running == {c \in Calls : state[c] = "running"}

Init ==
  /\ state = [c \in Calls |-> "idle"]
  /\ result = [c \in Calls |-> <<>>]

Move(c, from, to) == state[c] \in from /\ state' = [state EXCEPT ![c] = to]

Issue(c) == Move(c, {"idle"}, "queued") /\ UNCHANGED result

Begin(c) ==
  /\ Cardinality(Running) < Limit
  /\ Move(c, {"queued"}, "running")
  /\ UNCHANGED result

\* A success stands at the position of the entry it answers.
InPlace(r) == \A i \in DOMAIN r : r[i] \in {0, i}

Answer(c) ==
  /\ Move(c, {"running"}, "answered")
  /\ InPlace(result'[c])
  /\ result' = [result EXCEPT ![c] = result'[c]]

Fail(c) == Move(c, {"queued", "running"}, "failed") /\ UNCHANGED result

Drop(c) == Move(c, {"queued", "running"}, "dropped") /\ UNCHANGED result

Next == \E c \in Calls : Issue(c) \/ Begin(c) \/ Answer(c) \/ Fail(c) \/ Drop(c)

Spec == Init /\ [][Next]_<<state, result>>
=============================================================================
