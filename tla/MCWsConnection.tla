--------------------------- MODULE MCWsConnection ---------------------------
(* Small instances of WsConnection: the messages of the peer in each run. *)
EXTENDS WsConnection, TLC

CONSTANTS c1, c2, n1, s1, s2, u1, b1, x1, g1, v1, i1, i2

\* Single requests of every kind but subscriptions, and a batch.
PlainRequests == {c1, b1, c2, n1, x1, g1, v1}
\* Two subscriptions that compete for a permit, and an unsubscribe of one.
SubscribeRequests == {s1, s2, u1}
\* A call and a subscription when the server stops.
StopRequests == {c1, s1}
\* A subscription as the entry of a batch.
BatchRequests == {b1, s1}
\* A message that cannot be decrypted.
GarbledRequests == {c1, g1}

OneId == {i1}
TwoIds == {i1, i2}
IdSymmetry == Permutations(TwoIds)

KindIn(rs) ==
    [r \in rs |-> CASE r \in {c1, c2} -> "call"
                    [] r = n1         -> "notification"
                    [] r \in {s1, s2} -> "subscribe"
                    [] r = u1         -> "unsubscribe"
                    [] r = b1         -> "batch"
                    [] r = x1         -> "toolarge"
                    [] r = g1         -> "garbled"
                    [] r = v1         -> "invalid"]
EntriesIn(rs, es) == [r \in rs |-> IF r = b1 THEN es ELSE <<>>]
TargetIn(rs, t) == [r \in rs |-> t]

PlainKind == KindIn(PlainRequests)
PlainEntries == EntriesIn(PlainRequests, <<n1, c2>>)
PlainTarget == TargetIn(PlainRequests, c1)
SubscribeKind == KindIn(SubscribeRequests)
SubscribeEntries == EntriesIn(SubscribeRequests, <<>>)
SubscribeTarget == TargetIn(SubscribeRequests, s1)
StopKind == KindIn(StopRequests)
StopEntries == EntriesIn(StopRequests, <<>>)
StopTarget == TargetIn(StopRequests, s1)
BatchKind == KindIn(BatchRequests)
BatchEntries == EntriesIn(BatchRequests, <<s1>>)
BatchTarget == TargetIn(BatchRequests, s1)
GarbledKind == KindIn(GarbledRequests)
GarbledEntries == EntriesIn(GarbledRequests, <<>>)
GarbledTarget == TargetIn(GarbledRequests, c1)
=============================================================================
