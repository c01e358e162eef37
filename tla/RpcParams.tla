------------------------------ MODULE RpcParams ------------------------------
(***************************************************************************)
(* The arguments of a call on their way from the generated client stub to  *)
(* the generated server stub: ParamsBuilder (core/src/params.rs), the      *)
(* encoding of render_client.rs, Params and ParamsSequence                 *)
(* (types/src/params.rs) and the decoding of render_server.rs.             *)
(*                                                                         *)
(* JSON is a sequence of tokens: a bracket, a separator, a name or a whole *)
(* value.  Absent params (None) are the empty text.  A signature is the    *)
(* sequence of the kinds of the arguments: "req" for a type T, "opt" for   *)
(* an Option<T>; argument i is called ArgNames[i].                         *)
(***************************************************************************)
EXTENDS Integers, Sequences, FiniteSets, Functions, Folds, TLC

CONSTANTS
  Values,    \* values every argument type T accepts
  ArgNames   \* names of the arguments of a method

Null == "null"
Missing == "missing"   \* Rust's None where a parser may also return a value
Invalid == "invalid"   \* an InvalidParams error

(* ParamsBuilder.                                                          *)

Positional == [bytes |-> <<>>, start |-> "[", end |-> "]"]
Named == [bytes |-> <<>>, start |-> "{", end |-> "}"]

Write(b, tokens) ==
  [b EXCEPT !.bytes = (IF @ = <<>> THEN <<b.start>> ELSE @) \o tokens \o <<",">>]

Insert(b, value) == Write(b, <<value>>)
InsertNamed(b, name, value) == Write(b, <<name, ":", value>>)

Build(b) ==
  CASE b.bytes = <<>> -> <<>>
    [] b.bytes # <<>> /\ b.bytes[Len(b.bytes)] = "," -> [b.bytes EXCEPT ![Len(b.bytes)] = b.end]
    [] OTHER -> Append(b.bytes, b.end)

(* The client stub: encode_params.                                         *)

\* From base, step for each position of s, the first one first.
ForEach(s, step(_, _), base) ==
  MapThenFoldSet(LAMBDA i, b : step(b, i), base, LAMBDA i : i,
                 LAMBDA S : CHOOSE last \in S : \A i \in S : i <= last, DOMAIN s)

EncodeParams(style, args) ==
  CASE args = <<>> -> <<>>
    [] args # <<>> /\ style = "Object" -> IF Len(args) = 1 THEN args ELSE <<>>
    [] args # <<>> /\ style = "Map" ->
         Build(ForEach(args, LAMBDA b, i : InsertNamed(b, ArgNames[i], args[i]), Named))
    [] OTHER -> Build(ForEach(args, LAMBDA b, i : Insert(b, args[i]), Positional))

(* Params and ParamsSequence.                                              *)

\* An explicit null is read as absent params by Request's Option.
Params(text) == IF text = <<Null>> THEN <<>> ELSE text

IsObject(params) == params # <<>> /\ params[1] = "{"

Sequence(params) == IF params = <<"[", "]">> THEN <<>> ELSE params

Accepts(kind, value) == value \in Values \/ (kind = "opt" /\ value = Null)

NextInner(kind, json) ==
  LET got(out, rest) == [out |-> out, rest |-> rest] IN
  CASE json = <<>> -> got(Missing, <<>>)
    [] json # <<>> /\ json[1] = "]" -> got(Missing, <<>>)
    [] json # <<>> /\ json[1] \notin {"[", ",", "]"} -> got(Invalid, json)
    [] json # <<>> /\ json[1] \in {"[", ","} ->
         CASE Len(json) = 1 -> got(Missing, json)
           [] Len(json) > 1 /\ Accepts(kind, json[2]) ->
                got(json[2], SubSeq(json, 3, Len(json)))
           [] OTHER -> got(Invalid, <<>>)

\* next for a type T, optional_next for an Option<T>.
NextParam(kind, json) ==
  LET r == NextInner(kind, json) IN
  IF r.out # Missing THEN r
  ELSE [r EXCEPT !.out = IF kind = "opt" THEN Null ELSE Invalid]

Parse(kind, params) ==
  LET value == IF params = <<>> THEN Null ELSE params[1] IN
  IF Len(params) <= 1 /\ Accepts(kind, value) THEN value ELSE Invalid

(* The server stub: render_params_decoding.  The result is the sequence of *)
(* the arguments; an argument that is Invalid makes the stub answer with   *)
(* the error.                                                              *)

DecodeArray(sig, params) ==
  ForEach(sig, LAMBDA s, i :
                 LET r == NextParam(sig[i], s.json)
                 IN  [json |-> r.rest, args |-> Append(s.args, r.out)],
          [json |-> Sequence(params), args |-> <<>>]).args

DecodeMap(sig, params) ==
  LET at(i) == {k \in 2 .. Len(params) - 2 :
                  params[k] = ArgNames[i] /\ params[k + 1] = ":"}
      field(i) ==
        CASE at(i) = {} -> IF sig[i] = "opt" THEN Null ELSE Invalid
          [] Cardinality(at(i)) > 1 -> Invalid
          [] OTHER -> LET v == params[(CHOOSE k \in at(i) : TRUE) + 2]
                      IN  IF Accepts(sig[i], v) THEN v ELSE Invalid
  IN  [i \in 1 .. Len(sig) |-> field(i)]

DecodeParams(style, sig, params) ==
  CASE sig = <<>> -> <<>>
    [] sig # <<>> /\ style = "Object" -> [i \in 1 .. Len(sig) |-> Parse(sig[i], params)]
    [] sig # <<>> /\ style # "Object" /\ IsObject(params) -> DecodeMap(sig, params)
    [] OTHER -> DecodeArray(sig, params)

Decodes(args) == \A i \in DOMAIN args : args[i] # Invalid
=============================================================================
