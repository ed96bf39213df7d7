---------------------------- MODULE MCConnector ----------------------------
(* Small instances of Connector for TLC. *)
EXTENDS Connector, TLC

CONSTANTS c1, c2, c3, r1, r2, a1, w1, w2, x, y

Upsert(r, v, d, t, a) ==
    [kind |-> "record-upsert", rec |-> r, ver |-> v, data |-> d, at |-> t, accepts |-> a]
End(o) == [kind |-> "stream-end", outcome |-> o, at |-> 1]
Preview(a, r, n, s) == [kind |-> "preview", attempt |-> a, target |-> r, seq |-> n, status |-> s]

OneWorker == [c \in Calls |-> w1]
TwoWorkers == [c \in Calls |-> IF c = c1 THEN w1 ELSE w2]
CallSymmetry == Permutations(Calls)

\* Two versions of one record, a record with two writers, then the end.
PlainRequests == {Upsert(r1, 1, x, 1, None), Upsert(r1, 2, x, 1, None),
                  Upsert(r2, 1, x, 1, None), Upsert(r2, 1, y, 1, None), End("completed")}

\* An attempt that succeeds or fails, the record version that accepts it, a
\* record of another id that wrongly names it, the next version, the end.
StreamRequests == {Preview(a1, r1, 0, "active"), Preview(a1, r1, 1, "succeeded"),
                   Preview(a1, r1, 1, "failed"), Upsert(r1, 1, x, 1, a1),
                   Upsert(r2, 1, x, 1, a1), Upsert(r1, 2, x, 1, None), End("completed")}

\* An accepted attempt, a conflicting write and a next version, under expiry.
RetentionRequests == {Preview(a1, r1, 0, "active"), Preview(a1, r1, 1, "succeeded"),
                      Upsert(r1, 1, x, 1, a1), Upsert(r1, 1, y, 1, None),
                      Upsert(r1, 2, x, 1, None)}
=============================================================================
