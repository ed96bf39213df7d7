----------------------------- MODULE Connector -----------------------------
(***************************************************************************)
(* The bundled durable connectors (connectors/redis-dynamodb and           *)
(* connectors/appsync-dynamodb).  Both run the same protocol over one      *)
(* DynamoDB table: an operation is a sequence of single-item table calls,  *)
(* each atomic and consistently read, followed by one live publish.        *)
(* A call is one execution of one operation.  Temporal may start another   *)
(* execution of the same event while an earlier one, timed out, is still   *)
(* running; any call may stop with an error between two of its steps; and  *)
(* the AWS client may send a write again after its response was lost.      *)
(*                                                                         *)
(* Data abstraction: an event stands for its own hash (eventHash covers    *)
(* every field but the cursor); "data" is the content of a record,         *)
(* updatedAt included; "target" is the pair (targetRecordId, lane); a      *)
(* preview's snapshot is a function of its attempt and sequence.           *)
(***************************************************************************)
EXTENDS Naturals

CONSTANTS
    Calls,          \* executions that can be in progress at one time
    Workers,        \* activity worker processes
    Host,           \* the worker each call runs in
    RecordIds, Attempts, Payloads, Outcomes, Times,
    None,           \* an absent attempt, event or field ("" in the code)
    Requests,       \* the events the workflows and relays of one stream submit
    Cursors,        \* bound: the cursors that can be allocated
    SyncedClocks,   \* TRUE: cursors of different workers follow allocation order
    Expiry,         \* TRUE: DynamoDB may delete rows that carry expiresAt
    MaxFaults       \* bound: errors, crashes and lost responses in a behaviour

PreviewStatus == {"active", "succeeded", "failed", "canceled"}

UpsertEvent == [kind : {"record-upsert"}, rec : RecordIds, ver : Nat \ {0},
                data : Payloads, at : Times, accepts : Attempts \cup {None}]
EndEvent == [kind : {"stream-end"}, outcome : Outcomes, at : Times]
PreviewEvent == [kind : {"preview"}, attempt : Attempts, target : RecordIds,
                 seq : Nat, status : PreviewStatus]

ASSUME ConstantsAssumption ==
    /\ Host \in [Calls -> Workers]
    /\ Requests \subseteq UpsertEvent \cup EndEvent \cup PreviewEvent
    /\ None \notin Requests \cup Attempts
    /\ Cursors \subseteq Nat \ {0}
    /\ SyncedClocks \in BOOLEAN
    /\ Expiry \in BOOLEAN
    /\ MaxFaults \in Nat

Upserts == {e \in Requests : e.kind = "record-upsert"}
Ends == {e \in Requests : e.kind = "stream-end"}
Previews == {e \in Requests : e.kind = "preview"}
Durables == Upserts \cup Ends

\* The semantic idempotency key: "recordId:vN" or "stream:S:end:outcome".
EventId(e) == IF e.kind = "record-upsert" THEN <<"record", e.rec, e.ver>>
                                          ELSE <<"end", e.outcome>>
EventIds == {EventId(e) : e \in Durables}

VARIABLES
    records,    \* record# rows: the current snapshot of each record
    events,     \* event# rows: durable events and their cursors
    previews,   \* preview# rows: one manifest per attempt
    terminal,   \* the terminal# row
    live,       \* everything ever published: a set of [event, cursor]
    used,       \* cursors handed out by newEventID
    lastCursor, \* the last cursor of each worker process
    issued,     \* events a workflow or relay has submitted at least once
    acked,      \* events whose call returned nil to its submitter
    pc, req, cur,  \* of each call: next step, its event, its local cursor
    faults

store == <<records, events, previews, terminal>>
clock == <<used, lastCursor>>
flow == <<issued, acked>>
frame == <<pc, req, cur>>
vars == <<store, live, clock, flow, frame, faults>>

NoRecord == [ver |-> 0, data |-> None, accepts |-> None]
NoRow == [event |-> None, cursor |-> 0]
NoPreview == [seq |-> 0, status |-> "absent", target |-> None]

Init ==
    /\ records = [r \in RecordIds |-> NoRecord]
    /\ events = [i \in EventIds |-> NoRow]
    /\ previews = [a \in Attempts |-> NoPreview]
    /\ terminal = NoRow
    /\ live = {}
    /\ used = {}
    /\ lastCursor = [w \in Workers |-> 0]
    /\ issued = {}
    /\ acked = {}
    /\ pc = [c \in Calls |-> "idle"]
    /\ req = [c \in Calls |-> None]
    /\ cur = [c \in Calls |-> 0]
    /\ faults = 0

-----------------------------------------------------------------------------
(* What the submitters guarantee.                                          *)

\* temporalai.WriteRecord blocks its coroutine until the activity succeeds, so a
\* writer issues version v after its own version v - 1 was acknowledged.  A record
\* may have several writers (two tool calls with one toolCallId), whose writes of
\* one version differ and overlap.  An attempt is accepted only from a receipt,
\* which exists after its EndPreview returned.
MayUpsert(e) ==
    /\ e.ver > 1 =>
         \E f \in acked \cap Upserts : f.rec = e.rec /\ f.ver = e.ver - 1
    /\ e.accepts # None =>
         \E p \in acked \cap Previews : p.attempt = e.accepts /\ p.status = "succeeded"
    /\ issued \cap Ends = {}

\* Mutant: EndStream is called while record writes are outstanding.
MayEndEarly(e) == e \in Ends

\* temporalai.EndStream: "Callers must invoke it only after all accepted records
\* have been written."
MayEnd(e) == issued \cap Durables \subseteq acked

\* A relay submits the events of an attempt in sequence order and ends an
\* attempt once.  A checkpoint whose call failed is sent again by complete; only
\* a failed or canceled end may follow a call that has not succeeded.
MayPreview(e) ==
    /\ \A p \in issued \cap Previews : p.attempt = e.attempt =>
         p.status = "active" /\ (p.seq < e.seq \/ p = e)
    /\ \A p \in Previews : p.attempt = e.attempt /\ p.seq < e.seq /\ p.status = "active" =>
         p \in (IF e.status \in {"failed", "canceled"} THEN issued ELSE acked)

MayIssue(e) ==
    CASE e \in Upserts -> e \in issued \/ MayUpsert(e)
      [] e \in Ends -> e \in issued \/ MayEnd(e)
      [] e \in Previews -> MayPreview(e)

\* Mutant: the durable event is persisted before the record row.
FirstStepLogFirst(e) ==
    IF e \in Previews THEN "previewGet" ELSE "eventGet"

\* Mutant: validateAcceptedPreviewTarget is not called.
FirstStepUnchecked(e) ==
    CASE e \in Upserts -> "recordGet"
      [] e \in Ends -> "eventGet"
      [] e \in Previews -> "previewGet"

FirstStep(e) ==
    CASE e \in Upserts -> IF e.accepts = None THEN "recordGet" ELSE "validate"
      [] e \in Ends -> "eventGet"
      [] e \in Previews -> "previewGet"

-----------------------------------------------------------------------------
(* Steps shared by the operations.                                         *)

Goto(c, label) == pc' = [pc EXCEPT ![c] = label]

\* The call leaves its slot; its local state is gone.
Leave(c) ==
    /\ pc' = [pc EXCEPT ![c] = "idle"]
    /\ req' = [req EXCEPT ![c] = None]
    /\ cur' = [cur EXCEPT ![c] = 0]

\* return nil: the submitter sees the call succeed.
ReturnNil(c) ==
    /\ Leave(c)
    /\ acked' = acked \cup {req[c]}
    /\ UNCHANGED issued

\* return err: a workflow's activity is retried, a relay's caller gives up.
ReturnError(c) == Leave(c) /\ UNCHANGED flow

At(c, label) == pc[c] = label

\* newEventID: under a process-wide mutex, above every cursor of this process.
\* Nothing in the code orders the cursors of two processes.
NewCursors(w) ==
    {k \in Cursors \ used :
        IF SyncedClocks THEN \A j \in Cursors \ used : k <= j
                        ELSE lastCursor[w] < k}

AllocateCursor(c, k) ==
    /\ k \in NewCursors(Host[c])
    /\ cur' = [cur EXCEPT ![c] = k]
    /\ used' = used \cup {k}
    /\ lastCursor' = [lastCursor EXCEPT ![Host[c]] = k]

\* An operation begins: BeginPreview, CheckpointPreview, EndPreview,
\* UpsertRecord or EndStream, first called or called again by a retry.
Submit(c, e) ==
    /\ At(c, "idle")
    /\ e \notin acked
    /\ MayIssue(e)
    /\ Goto(c, FirstStep(e))
    /\ req' = [req EXCEPT ![c] = e]
    /\ issued' = issued \cup {e}
    /\ UNCHANGED <<store, live, clock, acked, cur, faults>>

\* PublishUpdate, the last step of every operation, of a connector that has a
\* live transport: with Disabled (redis connector.go:112) or without a domain
\* (appsync connector.go:123) it returns nil and nothing is published.
Deliver(c) ==
    /\ At(c, "publish")
    /\ live' = live \cup {[event |-> req[c], cursor |-> cur[c]]}

Publish(c) ==
    /\ Deliver(c)
    /\ ReturnNil(c)
    /\ UNCHANGED <<store, clock, faults>>

-----------------------------------------------------------------------------
(* UpsertRecord                                                            *)

\* validateAcceptedPreviewTarget
ValidateTarget(c) ==
    LET row == previews[req[c].accepts] IN
    /\ At(c, "validate")
    /\ IF row.status # "absent" /\ row.target # req[c].rec
         THEN ReturnError(c)                        \* ErrRecordConflict
         ELSE Goto(c, "recordGet") /\ UNCHANGED <<req, cur, flow>>
    /\ UNCHANGED <<store, live, clock, faults>>

\* eventId and payloadHash of the row are those of the event.
SameRecord(row, e) == row.ver = e.ver /\ row.data = e.data /\ row.accepts = e.accepts

RecordRow(e) == [ver |-> e.ver, data |-> e.data, accepts |-> e.accepts]

\* Mutant: a version that is already current counts as stale.
RecordGetSkipsCurrent(c) ==
    LET e == req[c]  row == records[e.rec] IN
    /\ At(c, "recordGet")
    /\ \/ row.ver >= e.ver /\ ReturnNil(c)
       \/ row.ver < e.ver /\ Goto(c, "recordPut") /\ UNCHANGED <<req, cur, flow>>
    /\ UNCHANGED <<store, live, clock, faults>>

\* Mutant: writing the current version again is a conflict even when identical.
RecordGetNotIdempotent(c) ==
    LET e == req[c]  row == records[e.rec] IN
    /\ At(c, "recordGet")
    /\ \/ row.ver > e.ver /\ ReturnNil(c)
       \/ row.ver = e.ver /\ ReturnError(c)
       \/ row.ver < e.ver /\ Goto(c, "recordPut") /\ UNCHANGED <<req, cur, flow>>
    /\ UNCHANGED <<store, live, clock, faults>>

\* putCurrentRecord, the first read
RecordGet(c) ==
    LET e == req[c]  row == records[e.rec] IN
    /\ At(c, "recordGet")
    /\ \/ row.ver > e.ver /\ ReturnNil(c)         \* stale version: a no-op
       \/ SameRecord(row, e) /\ Goto(c, "eventGet") /\ UNCHANGED <<req, cur, flow>>
       \/ row.ver = e.ver /\ ~SameRecord(row, e) /\ ReturnError(c)   \* ErrRecordConflict
       \/ row.ver < e.ver /\ Goto(c, "recordPut") /\ UNCHANGED <<req, cur, flow>>
    /\ UNCHANGED <<store, live, clock, faults>>

\* Mutant: the record row is written without a condition.
RecordUnconditional(e) == TRUE

\* the ConditionExpression of the record row
RecordCondition(e) == records[e.rec].ver < e.ver \/ SameRecord(records[e.rec], e)

WriteRecordRow(e) ==
    /\ RecordCondition(e)
    /\ records' = [records EXCEPT ![e.rec] = RecordRow(e)]
    /\ UNCHANGED <<events, previews, terminal>>

\* putCurrentRecord, the conditional write
RecordPut(c) ==
    /\ At(c, "recordPut")
    /\ \/ WriteRecordRow(req[c]) /\ Goto(c, "eventGet")
       \/ ~RecordCondition(req[c]) /\ Goto(c, "recordCheck") /\ UNCHANGED store
    /\ UNCHANGED <<live, clock, flow, req, cur, faults>>

\* putCurrentRecord, the read after the condition failed
RecordCheck(c) ==
    LET e == req[c]  row == records[e.rec] IN
    /\ At(c, "recordCheck")
    /\ \/ row.ver > e.ver /\ ReturnNil(c)
       \/ SameRecord(row, e) /\ Goto(c, "eventGet") /\ UNCHANGED <<req, cur, flow>>
       \/ row.ver <= e.ver /\ ~SameRecord(row, e) /\ ReturnError(c)  \* ErrRecordConflict
    /\ UNCHANGED <<store, live, clock, faults>>

-----------------------------------------------------------------------------
(* persistDurableEvent, shared by UpsertRecord and EndStream               *)

AfterEvent(e) ==
    CASE e \in Ends -> "terminalPut"
      [] e \in Upserts -> IF e.accepts = None THEN "publish" ELSE "accept"

\* Mutant: the row is compared but the call keeps the cursor it allocated.
KeepOwnCursor(c) ==
    LET e == req[c]  row == events[EventId(e)] IN
    /\ row.cursor # 0
    /\ IF row.event # e THEN ReturnError(c)
                        ELSE Goto(c, AfterEvent(e)) /\ UNCHANGED <<req, cur, flow>>

\* An event row is reused only for the same event (eventHash), and then the
\* call continues with the cursor the row carries.
AdoptCursor(c) ==
    LET e == req[c]  row == events[EventId(e)] IN
    /\ row.cursor # 0
    /\ IF row.event # e
         THEN ReturnError(c)                        \* ErrEventConflict
         ELSE /\ cur' = [cur EXCEPT ![c] = row.cursor]
              /\ Goto(c, AfterEvent(e))
              /\ UNCHANGED <<req, flow>>

EventGet(c) ==
    /\ At(c, "eventGet")
    /\ \/ AdoptCursor(c) /\ UNCHANGED clock
       \/ /\ events[EventId(req[c])].cursor = 0
          /\ \E k \in Cursors : AllocateCursor(c, k)
          /\ Goto(c, "eventPut")
          /\ UNCHANGED <<req, flow>>
    /\ UNCHANGED <<store, live, faults>>

\* Mutant: the event row is written without attribute_not_exists.
EventUnconditional(e) == TRUE

EventAbsent(e) == events[EventId(e)].cursor = 0

WriteEventRow(e, k) ==
    /\ EventAbsent(e)
    /\ events' = [events EXCEPT ![EventId(e)] = [event |-> e, cursor |-> k]]
    /\ UNCHANGED <<records, previews, terminal>>

EventPut(c) ==
    /\ At(c, "eventPut")
    /\ \/ WriteEventRow(req[c], cur[c]) /\ Goto(c, AfterEvent(req[c]))
       \/ ~EventAbsent(req[c]) /\ Goto(c, "eventCheck") /\ UNCHANGED store
    /\ UNCHANGED <<live, clock, flow, req, cur, faults>>

\* The read after the condition failed; the row may have expired meanwhile.
EventCheck(c) ==
    /\ At(c, "eventCheck")
    /\ \/ AdoptCursor(c)
       \/ EventAbsent(req[c]) /\ ReturnError(c)    \* "exists without cursor"
    /\ UNCHANGED <<store, live, clock, faults>>

\* Mutant: the update is not conditional on the row and creates it.
AcceptedUpsert(a) == [previews EXCEPT ![a].status = "accepted"]

\* markPreviewAccepted: conditional on the row alone, not on its status.
Accepted(a) ==
    IF previews[a].status = "absent" THEN previews
                                     ELSE [previews EXCEPT ![a].status = "accepted"]

MarkAccepted(c) ==
    /\ At(c, "accept")
    /\ previews' = Accepted(req[c].accepts)
    /\ Goto(c, "publish")
    /\ UNCHANGED <<records, events, terminal, live, clock, flow, req, cur, faults>>

\* putTerminal: an unconditional write.
TerminalRow(c) == [event |-> req[c], cursor |-> cur[c]]

PutTerminal(c) ==
    /\ At(c, "terminalPut")
    /\ terminal' = TerminalRow(c)
    /\ Goto(c, "publish")
    /\ UNCHANGED <<records, events, previews, live, clock, flow, req, cur, faults>>

-----------------------------------------------------------------------------
(* putPreview, shared by BeginPreview, CheckpointPreview and EndPreview    *)

PreviewGet(c) ==
    LET e == req[c]  row == previews[e.attempt] IN
    /\ At(c, "previewGet")
    /\ \/ /\ row.status # "absent" /\ row.target # e.target
          /\ ReturnError(c)                         \* ErrEventConflict
       \/ /\ row.status # "absent" => row.target = e.target
          /\ Goto(c, IF \/ row.seq > e.seq
                        \/ row.status \in {"accepted", "failed", "canceled"}
                     THEN "publish" ELSE "previewPut")
          /\ UNCHANGED <<req, cur, flow>>
    /\ UNCHANGED <<store, live, clock, faults>>

\* Mutant: the preview row is written without a condition.
PreviewUnconditional(e) == TRUE

\* the ConditionExpression of the preview row
PreviewCondition(e) ==
    LET row == previews[e.attempt] IN
    \/ row.status = "absent"
    \/ row.seq < e.seq /\ row.status = "active"
    \/ row.seq = e.seq /\ row.status = e.status

WritePreviewRow(e) ==
    /\ PreviewCondition(e)
    /\ previews' = [previews EXCEPT ![e.attempt] =
                      [seq |-> e.seq, status |-> e.status, target |-> e.target]]
    /\ UNCHANGED <<records, events, terminal>>

\* A failed condition is success: the operation goes on to publish.
PreviewPut(c) ==
    /\ At(c, "previewPut")
    /\ \/ WritePreviewRow(req[c])
       \/ ~PreviewCondition(req[c]) /\ UNCHANGED store
    /\ Goto(c, "publish")
    /\ UNCHANGED <<live, clock, flow, req, cur, faults>>

-----------------------------------------------------------------------------
(* The environment.                                                        *)

\* A step fails before it has an effect: a table or network error, a missing
\* stream, a canceled context, a crash of the worker.  Only a publish may fail
\* after its effect: ModeBoth's XADD after its PUBLISH, or a lost response.
Fault(c) ==
    /\ ~At(c, "idle")
    /\ faults < MaxFaults
    /\ UNCHANGED live \/ Deliver(c)
    /\ ReturnError(c)
    /\ faults' = faults + 1
    /\ UNCHANGED <<store, clock>>

\* A write took effect but its response was lost: the AWS client, still inside
\* the same step, sends it again.
Resend(c) ==
    /\ faults < MaxFaults
    /\ \/ At(c, "recordPut") /\ WriteRecordRow(req[c])
       \/ At(c, "eventPut") /\ WriteEventRow(req[c], cur[c])
       \/ At(c, "previewPut") /\ WritePreviewRow(req[c])
    /\ faults' = faults + 1
    /\ UNCHANGED <<live, clock, flow, frame>>

\* DynamoDB's TTL removes an event row or a preview row.
Expire ==
    /\ Expiry
    /\ \/ \E i \in EventIds : /\ events[i] # NoRow
                              /\ events' = [events EXCEPT ![i] = NoRow]
                              /\ UNCHANGED previews
       \/ \E a \in Attempts : /\ previews[a] # NoPreview
                              /\ previews' = [previews EXCEPT ![a] = NoPreview]
                              /\ UNCHANGED events
    /\ UNCHANGED <<records, terminal, live, clock, flow, frame, faults>>

\* No call is in progress; the stream may rest here for ever, or be over.
Quiescent == (\A c \in Calls : At(c, "idle")) /\ UNCHANGED vars

Step(c) ==
    \/ ValidateTarget(c) \/ RecordGet(c) \/ RecordPut(c) \/ RecordCheck(c)
    \/ EventGet(c) \/ EventPut(c) \/ EventCheck(c)
    \/ MarkAccepted(c) \/ PutTerminal(c)
    \/ PreviewGet(c) \/ PreviewPut(c) \/ Publish(c)

Next ==
    \/ \E c \in Calls : \E e \in Requests : Submit(c, e)
    \/ \E c \in Calls : Step(c) \/ Fault(c) \/ Resend(c)
    \/ Expire
    \/ Quiescent

\* A started call runs; Temporal retries a durable write until it succeeds (the
\* default retry policy has no attempt limit).  Strong fairness: the retry waits
\* in the task queue and takes a worker slot in the end, though other retries
\* take slots again and again.
Fairness ==
    /\ \A c \in Calls : WF_vars(Step(c))
    /\ \A e \in Durables : SF_vars(e \in issued /\ \E c \in Calls : Submit(c, e))

Spec == Init /\ [][Next]_vars
FairSpec == Spec /\ Fairness

-----------------------------------------------------------------------------
(* Properties.                                                             *)

Message == [event : Requests, cursor : Cursors \cup {0}]

Labels == {"idle", "validate", "recordGet", "recordPut", "recordCheck", "eventGet",
           "eventPut", "eventCheck", "accept", "terminalPut", "publish",
           "previewGet", "previewPut"}

RecordRows == [ver : Nat \ {0}, data : Payloads, accepts : Attempts \cup {None}]
EventRow == [event : Durables, cursor : Cursors]
Manifest == [seq : Nat, status : PreviewStatus \cup {"accepted"}, target : RecordIds]

\* The type of every variable; a row is absent or complete.
TypeOK ==
    /\ records \in [RecordIds -> RecordRows \cup {NoRecord}]
    /\ events \in [EventIds -> EventRow \cup {NoRow}]
    /\ previews \in [Attempts -> Manifest \cup {NoPreview}]
    /\ terminal \in EventRow \cup {NoRow}
    /\ live \subseteq Message
    /\ used \subseteq Cursors
    /\ lastCursor \in [Workers -> Cursors \cup {0}]
    /\ issued \subseteq Requests
    /\ acked \subseteq issued
    /\ pc \in [Calls -> Labels]
    /\ req \in [Calls -> Requests \cup {None}]
    /\ cur \in [Calls -> Cursors \cup {0}]
    /\ faults \in 0..MaxFaults

\* The current snapshot of a record never goes back to a lower version, and a
\* version once stored keeps its content and acceptance, whatever executions of
\* older writes are still running (putCurrentRecord's ConditionExpression).
RecordAdvances(r) == records'[r].ver > records[r].ver \/ records'[r] = records[r]
RecordsAdvance == \A r \in RecordIds : RecordAdvances(r)

RecordNeverRegresses == [][RecordsAdvance]_vars

\* A write the workflow saw succeed is readable: the record row holds it, or a
\* higher version that superseded it ("Stores ignore lower record versions").
AckedIsReadable ==
    \A e \in acked \cap Upserts :
        records[e.rec].ver > e.ver \/ SameRecord(records[e.rec], e)

\* Nobody asks for another event under the key of e: its record version has one
\* writer.
Uncontested(e) == \A f \in Durables : EventId(f) = EventId(e) => f = e

\* A durable event whose submitter saw success is in the event log and was
\* published with the cursor of the log, in spite of the early return of
\* putCurrentRecord for stale versions (UpsertRecord lines 75-91).
AckedIsLogged ==
    ~Expiry => \A e \in acked \cap Durables : Uncontested(e) =>
                  /\ events[EventId(e)].event = e
                  /\ events[EventId(e)] \in live

\* Whatever is published of a durable event is its logged row: it was persisted
\* first, and every copy, by any execution, carries the one cursor the store
\* keeps ("the store assigns a cursor once and returns the original cursor on
\* an idempotent retry").
PublishedIsLogged ==
    ~Expiry => \A m \in live : m.event \in Durables => events[EventId(m.event)] = m

\* No two messages of one durable event carry different cursors.
OneCursorPerEvent ==
    \A m, n \in live : m.event = n.event /\ m.event \in Durables => m.cursor = n.cursor

\* The event log never runs ahead of the record rows: a client that finds an
\* upsert in the log can read that version, or a later one, of the record.
LoggedIsReadable ==
    \A e \in Upserts : events[EventId(e)].event = e =>
        records[e.rec].ver > e.ver \/ SameRecord(records[e.rec], e)

\* A preview is superseded only by a logged record event that names this exact
\* attempt and that the attempt targets; one record version supersedes at most
\* one attempt (docs/streaming.md "it can never supersede a second preview
\* under an already-persisted record version").
SupersededByTarget ==
    ~Expiry => \A a \in Attempts : previews[a].status = "accepted" =>
        \E e \in Upserts : /\ e.accepts = a
                            /\ e.rec = previews[a].target
                            /\ events[EventId(e)].event = e

\* Late checkpoints and ends never undo the manifest of an attempt: its sequence
\* does not fall, its target stays, failed, canceled and accepted are final and
\* succeeded can only become accepted.
Final(status) == status \in {"failed", "canceled", "accepted"}

ManifestAdvances(old, new) ==
    \/ old.status = "absent"
    \/ /\ new.target = old.target
       /\ new.seq >= old.seq
       /\ Final(old.status) => new = old
       /\ old.status = "succeeded" => new.status \in {"succeeded", "accepted"}

ManifestsAdvance ==
    [][~Expiry => \A a \in Attempts : ManifestAdvances(previews[a], previews'[a])]_vars

\* Once the terminal row is stored, the event log up to the cursor of the
\* stream-end holds every record event a workflow issued: the final replay
\* "through its cursor" misses none.
FinalReplayComplete ==
    terminal # NoRow /\ ~Expiry =>
        /\ events[EventId(terminal.event)] = terminal
        /\ \A e \in issued \cap Upserts : Uncontested(e) =>
             /\ events[EventId(e)].event = e
             /\ events[EventId(e)].cursor < terminal.cursor

\* A durable write that was issued is acknowledged in the end, unless another
\* writer owns its key or it accepts an attempt of another record: errors, lost
\* responses and a partly done earlier execution never leave a state from which
\* the retries cannot finish.
Acceptable(e) == e \in Upserts => \A p \in Previews : p.attempt = e.accepts => p.target = e.rec

RetriesComplete ==
    \A e \in Durables : Uncontested(e) /\ Acceptable(e) => ((e \in issued) ~> (e \in acked))

-----------------------------------------------------------------------------
(* The abstract record log this protocol implements while no row expires.  *)

LogRows == {events[i] : i \in EventIds} \ {NoRow}
Delivered == {m \in live : m.event \in Durables}

Log == INSTANCE RecordLog WITH
    Key <- EventId, Snapshot <- RecordRow, Blank <- NoRecord,
    current <- records, log <- LogRows, delivered <- Delivered

\* The interleaved, retried and partly failing table calls look, through the
\* rows and the published messages, like atomic accept, append and deliver.
ImplementsRecordLog == Log!Spec
=============================================================================
