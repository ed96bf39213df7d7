----------------------------- MODULE RecordLog -----------------------------
(***************************************************************************)
(* What a RecordStore with a LivePublisher promises (updates/connector.go, *)
(* protocol/v2): the current snapshot of each record only moves to higher  *)
(* versions; each durable event enters the log at most once, with one      *)
(* cursor, and after the record reached its version; what is delivered     *)
(* live is an entry of the log.  No calls, retries or failures here.       *)
(***************************************************************************)
EXTENDS Naturals

CONSTANTS
    RecordIds,
    Upserts,        \* events that carry a record snapshot
    Ends,           \* stream-end events
    Cursors,
    Key(_),         \* the idempotency key of an event
    Snapshot(_),    \* the record row an upsert stores
    Blank           \* the row of a record never written

VARIABLES current, log, delivered

lvars == <<current, log, delivered>>

Entry == [event : Upserts \cup Ends, cursor : Cursors]

Init ==
    /\ current = [r \in RecordIds |-> Blank]
    /\ log = {}
    /\ delivered = {}

\* The record takes a higher version.
Accept(e) ==
    /\ current[e.rec].ver < e.ver
    /\ current' = [current EXCEPT ![e.rec] = Snapshot(e)]
    /\ UNCHANGED <<log, delivered>>

Reached(e) == current[e.rec].ver > e.ver \/ current[e.rec] = Snapshot(e)

\* A new event enters the log, an upsert only when its record is readable.
Append(e, k) ==
    /\ e \in Upserts => Reached(e)
    /\ \A m \in log : Key(m.event) # Key(e)
    /\ log' = log \cup {[event |-> e, cursor |-> k]}
    /\ UNCHANGED <<current, delivered>>

\* An entry is published; it may be published again.
Deliver(m) ==
    /\ delivered' = delivered \cup {m}
    /\ UNCHANGED <<current, log>>

Next ==
    \/ \E e \in Upserts : Accept(e)
    \/ \E e \in Upserts \cup Ends, k \in Cursors : Append(e, k)
    \/ \E m \in log : Deliver(m)

Spec == Init /\ [][Next]_lvars
=============================================================================
