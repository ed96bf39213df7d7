------------------------------- MODULE Relay -------------------------------
(***************************************************************************)
(* The preview relay of a model activity (updates/relay.go) inside the     *)
(* activity that drives it (activities.InvokeModelStream), for all the     *)
(* executions Temporal makes of one activity.  An execution is single      *)
(* threaded: it takes a part from the provider, calls the connector zero   *)
(* to three times and takes the next.  Executions overlap, because one     *)
(* that timed out runs on beside its retry until it notices.               *)
(*                                                                         *)
(* Data abstraction: a key is the position of an entry of r.attempts in    *)
(* sort.Strings order; text (with elements and object) is the set of the   *)
(* deltas it was built from, a delta being the execution and the number    *)
(* of the part that brought it, and one character long.  The connector     *)
(* stores and publishes one preview event as one step: attempts have one   *)
(* writer.                                                                 *)
(***************************************************************************)
EXTENDS Naturals, FiniteSets

CONSTANTS
    MaxExecutions,  \* bound: the executions of the activity
    Keys,           \* the lanes and tool calls of the model output
    Parts,          \* the parts the provider may send to each execution
    Policies,       \* FailurePolicy values in use
    SnapshotEveryChunks, SnapshotEveryCharacters,
    MaxParts,       \* bound: the parts of each execution
    MaxFaults       \* bound: failed connector calls and crashes

Executions == 1..MaxExecutions
StreamPart == [key : Keys, kind : {"start", "mark", "delta", "element"}]

ASSUME RelayAssumption ==
    /\ MaxExecutions \in Nat
    /\ Keys \subseteq Nat
    /\ Parts \in [Executions -> SUBSET StreamPart]
    /\ Policies \subseteq {"strict", "best-effort"}
    /\ SnapshotEveryChunks \in Nat \ {0}
    /\ SnapshotEveryCharacters \in Nat \ {0}
    /\ MaxParts \in [Executions -> Nat]
    /\ MaxFaults \in Nat

VARIABLES
    policy,     \* options.FailurePolicy
    pc,         \* of each execution: the step it is at
    part,       \* the part it is relaying
    taken,      \* how many parts it took from the provider
    attempts,   \* r.attempts: the state of each preview
    disabled,   \* r.disabled
    ending,     \* the outcome complete was called with
    ctxDone,    \* its context is done: Temporal gave the execution up
    receipts,   \* the receipts it returned with its result
    result,     \* what it returned: "none" yet, "ok", "error" or "crashed"
    manifests,  \* preview# rows: one manifest per attempt id
    live,       \* published chunks: [attempt, seq, delta]
    faults

relay == <<attempts, disabled, ending>>
outcome == <<receipts, result>>
store == <<manifests, live>>
vars == <<policy, pc, part, taken, relay, ctxDone, outcome, store, faults>>

NoPart == [key |-> 0, kind |-> "none"]
NoState == [begun |-> FALSE, seq |-> 0, text |-> {}, snapSeq |-> 0, snapLen |-> 0, ended |-> FALSE]
NoManifest == [status |-> "absent", seq |-> 0, text |-> {}]

\* Mutant: the attempt id does not name the activity attempt.
AttemptIdUnnumbered(x, k) == <<1, k>>

\* withActivityAttempt and ensurePreview: "base:activity-n:lane[:tool]".  The key
\* of r.attempts has the step of the part as well (relay.go:210) and the id has
\* not: one activity is taken to relay one step, so that the two name each other.
AttemptId(x, k) == <<x, k>>
AttemptIds == Executions \X Keys

Deltas == Executions \X Nat

Init ==
    /\ policy \in Policies
    /\ pc = [x \in Executions |-> "scheduled"]
    /\ part = [x \in Executions |-> NoPart]
    /\ taken = [x \in Executions |-> 0]
    /\ attempts = [x \in Executions |-> [k \in Keys |-> NoState]]
    /\ disabled = [x \in Executions |-> FALSE]
    /\ ending = [x \in Executions |-> "none"]
    /\ ctxDone = [x \in Executions |-> FALSE]
    /\ receipts = [x \in Executions |-> {}]
    /\ result = [x \in Executions |-> "none"]
    /\ manifests = [a \in AttemptIds |-> NoManifest]
    /\ live = {}
    /\ faults = 0

-----------------------------------------------------------------------------
(* Connector calls.                                                        *)

\* putPreview of the bundled connectors (module Connector): late, repeated and
\* superseded rows are ignored, and ignoring them is success.
Stored(a, row) ==
    LET old == manifests[a] IN
    IF \/ old.status = "absent"
       \/ old.status = "active" /\ old.seq < row.seq
       \/ old.status = row.status /\ old.seq = row.seq
    THEN [manifests EXCEPT ![a] = row]
    ELSE manifests

Goto(x, label) == pc' = [pc EXCEPT ![x] = label]

\* A call may fail because of a fault, or because its context is done; complete
\* runs under a fresh context when it cancels.
CallFails(x) ==
    \/ faults < MaxFaults /\ faults' = faults + 1
    \/ ctxDone[x] /\ ending[x] # "canceled" /\ UNCHANGED faults

\* handleError, taken for ErrStreamNotFound in best-effort mode: nil.
Disable(x) ==
    /\ policy = "best-effort"
    /\ disabled' = [disabled EXCEPT ![x] = TRUE]

Begun(x) == {k \in Keys : attempts[x][k].begun}
Open(x) == {k \in Begun(x) : ~attempts[x][k].ended}

\* The activity calls complete(outcome), which does nothing when disabled.
Complete(x, o) ==
    /\ ending' = [ending EXCEPT ![x] = o]
    /\ Goto(x, IF disabled[x] THEN "return" ELSE "closing")

\* Accept returned an error: the activity fails the relay and gives up.
AcceptFails(x) == Complete(x, "failed") /\ UNCHANGED disabled

-----------------------------------------------------------------------------
(* Accept                                                                  *)

\* Temporal starts the first execution, and the next one when it saw the last
\* one fail or gave it up.
Start(x) ==
    /\ pc[x] = "scheduled"
    /\ x - 1 \in Executions => ctxDone[x - 1] \/ result[x - 1] \in {"error", "crashed"}
    /\ Goto(x, "select")
    /\ UNCHANGED <<policy, part, taken, relay, ctxDone, outcome, store, faults>>

Emits(p) == p.kind # "start"

\* A part arrives, stream-start only as the first: Accept up to its first
\* connector call.
Receive(x, p) ==
    /\ pc[x] = "select"
    /\ p.kind = "start" => taken[x] = 0
    /\ taken[x] < MaxParts[x]
    /\ taken' = [taken EXCEPT ![x] = @ + 1]
    /\ part' = [part EXCEPT ![x] = p]
    /\ Goto(x, CASE disabled[x] -> "select"
                 [] ~disabled[x] /\ ~attempts[x][p.key].begun -> "begin"
                 [] ~disabled[x] /\ attempts[x][p.key].begun ->
                        IF Emits(p) THEN "chunk" ELSE "select")
    /\ UNCHANGED <<policy, relay, ctxDone, outcome, store, faults>>

\* ensurePreview: BeginPreview of a new key.
Begin(x) ==
    LET k == part[x].key
        a == AttemptId(x, k)
        row == [status |-> "active", seq |-> 0, text |-> {}]
    IN
    /\ pc[x] = "begin"
    /\ \/ /\ manifests' = Stored(a, row)
          /\ attempts' = [attempts EXCEPT ![x][k].begun = TRUE]
          /\ Goto(x, IF Emits(part[x]) THEN "chunk" ELSE "select")
          /\ UNCHANGED <<disabled, ending, faults>>
       \/ /\ CallFails(x)
          /\ UNCHANGED manifests \/ manifests' = Stored(a, row)
          /\ \/ Disable(x) /\ Goto(x, "select") /\ UNCHANGED ending
             \/ AcceptFails(x)
          /\ UNCHANGED attempts
    /\ UNCHANGED <<policy, part, taken, ctxDone, outcome, live>>

\* The content a part adds to the text and to the chunk.
Content(x) == IF part[x].kind \in {"delta", "element"} THEN {<<x, taken[x]>>} ELSE {}

Extended(x) ==
    LET s == attempts[x][part[x].key] IN
    [s EXCEPT !.seq = s.seq + 1, !.text = s.text \cup Content(x)]

\* Mutant: one chunk too late.
SnapshotDueLate(s) ==
    \/ s.seq - s.snapSeq > SnapshotEveryChunks
    \/ Cardinality(s.text) - s.snapLen >= SnapshotEveryCharacters

SnapshotDue(s) ==
    \/ s.seq - s.snapSeq >= SnapshotEveryChunks
    \/ Cardinality(s.text) - s.snapLen >= SnapshotEveryCharacters

\* The sequence and the text advance, then PublishUpdate sends the chunk.
Chunk(x) ==
    LET k == part[x].key
        s == Extended(x)
        message == [attempt |-> AttemptId(x, k), seq |-> s.seq, delta |-> Content(x)]
    IN
    /\ pc[x] = "chunk"
    /\ attempts' = [attempts EXCEPT ![x][k] = s]
    /\ \/ /\ live' = live \cup {message}
          /\ Goto(x, IF part[x].kind = "element" \/ SnapshotDue(s) THEN "checkpoint" ELSE "select")
          /\ UNCHANGED <<disabled, ending, faults>>
       \/ /\ CallFails(x)
          /\ UNCHANGED live \/ live' = live \cup {message}
          /\ \/ Disable(x) /\ Goto(x, "select") /\ UNCHANGED ending
             \/ AcceptFails(x)
    /\ UNCHANGED <<policy, part, taken, ctxDone, outcome, manifests>>

\* Mutant: the snapshot is labelled with the next sequence.
SnapshotAhead(s) == [status |-> "active", seq |-> s.seq + 1, text |-> s.text]

Snapshot(s) == [status |-> "active", seq |-> s.seq, text |-> s.text]

Snapped(s) == [s EXCEPT !.snapSeq = s.seq, !.snapLen = Cardinality(s.text)]

\* checkpoint of key k: CheckpointPreview; a failure after the effect leaves the
\* row stored and lastSnapshotSequence behind.
CheckpointCall(x, k, label) ==
    LET s == attempts[x][k]
        a == AttemptId(x, k)
    IN
    \/ /\ manifests' = Stored(a, Snapshot(s))
       /\ attempts' = [attempts EXCEPT ![x][k] = Snapped(s)]
       /\ Goto(x, label)
       /\ UNCHANGED <<disabled, ending, faults, outcome>>
    \/ /\ CallFails(x)
       /\ UNCHANGED manifests \/ manifests' = Stored(a, Snapshot(s))
       /\ \/ Disable(x) /\ Goto(x, label) /\ UNCHANGED <<ending, outcome>>
          \/ IF label = "select" THEN AcceptFails(x) /\ UNCHANGED outcome
                                 ELSE /\ Goto(x, "broken")
                                      /\ result' = [result EXCEPT ![x] = "error"]
                                      /\ UNCHANGED <<disabled, ending, receipts>>
       /\ UNCHANGED attempts

Checkpoint(x) ==
    /\ pc[x] = "checkpoint"
    /\ CheckpointCall(x, part[x].key, "select")
    /\ UNCHANGED <<policy, part, taken, ctxDone, live>>

-----------------------------------------------------------------------------
(* The end of an execution.                                                *)

Finish(x, o) ==
    /\ pc[x] = "select"
    /\ Complete(x, o)
    /\ UNCHANGED <<policy, part, taken, attempts, disabled, ctxDone, outcome, store, faults>>

\* The stream is closed, and had output: Succeed.
StreamCloses(x) == Finish(x, "succeeded")

\* Mutant: the type of the error part is passed as the outcome.
ProviderFailsAsError(x) == Finish(x, "error")

\* An error part, a provider error, or a stream that closes without output: Fail.
ProviderFails(x) == Finish(x, "failed")

\* The loop, or the provider call, sees the context done: Cancel.
SeesContextDone(x) == ctxDone[x] /\ Finish(x, "canceled")

\* The first open attempt in key order.
Turn(x, k) == k \in Open(x) /\ \A j \in Open(x) : k <= j

Unsaved(x, k) == ~disabled[x] /\ attempts[x][k].seq # attempts[x][k].snapSeq

\* complete: the checkpoint before the end event.
CloseSnapshot(x, k) ==
    /\ pc[x] = "closing"
    /\ Turn(x, k)
    /\ Unsaved(x, k)
    /\ CheckpointCall(x, k, "closing")
    /\ UNCHANGED <<policy, part, taken, ctxDone, live>>

\* Mutant: complete returns after the first attempt.
AfterEndStops(x) == "return"

\* complete goes on with the next attempt.
AfterEnd(x) == "closing"

EndedState(s) == [s EXCEPT !.seq = s.seq + 1, !.ended = TRUE]

\* complete: EndPreview.  It is called although the checkpoint just disabled the
\* relay; its own ErrStreamNotFound ends complete with nil.
CloseEnd(x, k) ==
    LET s == attempts[x][k]
        a == AttemptId(x, k)
        row == [status |-> ending[x], seq |-> s.seq + 1, text |-> s.text]
    IN
    /\ pc[x] = "closing"
    /\ Turn(x, k)
    /\ ~Unsaved(x, k)
    /\ \/ /\ manifests' = Stored(a, row)
          /\ attempts' = [attempts EXCEPT ![x][k] = EndedState(s)]
          /\ Goto(x, AfterEnd(x))
          /\ UNCHANGED <<disabled, faults, outcome>>
       \/ /\ CallFails(x)
          /\ UNCHANGED manifests \/ manifests' = Stored(a, row)
          /\ attempts' = [attempts EXCEPT ![x][k].seq = s.seq + 1]
          /\ \/ Disable(x) /\ Goto(x, "return") /\ UNCHANGED outcome
             \/ /\ Goto(x, "broken")
                /\ result' = [result EXCEPT ![x] = "error"]
                /\ UNCHANGED <<disabled, receipts>>
    /\ UNCHANGED <<policy, part, taken, ending, ctxDone, live>>

Receipt(x, k) ==
    [attempt |-> AttemptId(x, k), seq |-> attempts[x][k].seq, text |-> attempts[x][k].text]

\* complete returned nil: the activity returns its result with the receipts of
\* the ended attempts, or the provider's error.
Return(x) ==
    /\ \/ pc[x] = "return"
       \/ pc[x] = "closing" /\ Open(x) = {}
    /\ Goto(x, "done")
    /\ IF ending[x] = "succeeded"
         THEN /\ result' = [result EXCEPT ![x] = "ok"]
              /\ receipts' = [receipts EXCEPT ![x] =
                                {Receipt(x, k) : k \in {j \in Begun(x) : attempts[x][j].ended}}]
         ELSE result' = [result EXCEPT ![x] = "error"] /\ UNCHANGED receipts
    /\ UNCHANGED <<policy, part, taken, relay, ctxDone, store, faults>>

-----------------------------------------------------------------------------
(* The environment.                                                        *)

Over(x) == pc[x] \in {"scheduled", "done", "broken"}

\* StartToCloseTimeout, or the cancellation of the workflow.
ContextDone(x) ==
    /\ ~Over(x)
    /\ ctxDone' = [ctxDone EXCEPT ![x] = TRUE]
    /\ UNCHANGED <<policy, pc, part, taken, relay, outcome, store, faults>>

\* The worker dies.
Crash(x) ==
    /\ ~Over(x)
    /\ faults < MaxFaults
    /\ faults' = faults + 1
    /\ result' = [result EXCEPT ![x] = "crashed"]
    /\ Goto(x, "broken")
    /\ UNCHANGED <<policy, part, taken, relay, ctxDone, receipts, store>>

\* Nothing runs: the workflow has its result, or its bound of executions.
Settled == (\A x \in Executions : Over(x)) /\ UNCHANGED vars

Step(x) ==
    \/ \E p \in Parts[x] : Receive(x, p)
    \/ Begin(x) \/ Chunk(x) \/ Checkpoint(x)
    \/ StreamCloses(x) \/ ProviderFails(x) \/ SeesContextDone(x)
    \/ \E k \in Keys : CloseSnapshot(x, k) \/ CloseEnd(x, k)
    \/ Return(x)

Next ==
    \/ \E x \in Executions : Start(x) \/ Step(x) \/ ContextDone(x) \/ Crash(x)
    \/ Settled

Spec == Init /\ [][Next]_vars

-----------------------------------------------------------------------------
(* Properties.                                                             *)

PreviewState ==
    [begun : BOOLEAN, seq : Nat, text : SUBSET Deltas, snapSeq : Nat, snapLen : Nat, ended : BOOLEAN]
Manifest ==
    [status : {"active", "succeeded", "failed", "canceled"}, seq : Nat, text : SUBSET Deltas]

\* The type of every variable.
TypeOK ==
    /\ policy \in Policies
    /\ pc \in [Executions -> {"scheduled", "select", "begin", "chunk", "checkpoint",
                              "closing", "return", "done", "broken"}]
    /\ part \in [Executions -> StreamPart \cup {NoPart}]
    /\ taken \in [Executions -> Nat]
    /\ attempts \in [Executions -> [Keys -> PreviewState]]
    /\ disabled \in [Executions -> BOOLEAN]
    /\ ending \in [Executions -> {"none", "succeeded", "failed", "canceled"}]
    /\ ctxDone \in [Executions -> BOOLEAN]
    /\ receipts \in [Executions -> SUBSET [attempt : AttemptIds, seq : Nat, text : SUBSET Deltas]]
    /\ result \in [Executions -> {"none", "ok", "error", "crashed"}]
    /\ manifests \in [AttemptIds -> Manifest \cup {NoManifest}]
    /\ live \subseteq [attempt : AttemptIds, seq : Nat, delta : SUBSET Deltas]
    /\ faults \in 0..MaxFaults

\* A receipt tells the workflow what the store holds: the manifest of its attempt
\* is succeeded, at the receipt's sequence and with its whole text, and stays so
\* while other executions of the activity still run (docs/streaming.md "the exact
\* attempt and target record IDs, lane, final sequence, outcome, snapshot").
ReceiptIsStored ==
    \A x \in Executions : \A r \in receipts[x] :
        manifests[r.attempt] = [status |-> "succeeded", seq |-> r.seq, text |-> r.text]

\* The deltas a client applies after it loaded the manifest of an attempt: those
\* of the chunks above the manifest's sequence.
After(a) == {m \in live : m.attempt = a /\ m.seq > manifests[a].seq}
Later(a) == UNION {m.delta : m \in After(a)}

\* A client that joins while an execution waits for its next part loses nothing
\* and renders nothing twice: the manifest and the later chunks together are the
\* relay's text, and they do not overlap.
LateJoinerCatchesUp ==
    \A x \in Executions : pc[x] = "select" /\ ~disabled[x] =>
        \A k \in Begun(x) :
            LET a == AttemptId(x, k) IN
            /\ manifests[a].text \cup Later(a) = attempts[x][k].text
            /\ manifests[a].text \cap Later(a) = {}

\* Between parts the manifest is never SnapshotEveryChunks chunks, nor
\* SnapshotEveryCharacters characters, behind: what a crash can lose is bounded.
ManifestLagBounded ==
    \A x \in Executions : pc[x] = "select" /\ ~disabled[x] =>
        \A k \in Begun(x) :
            LET a == AttemptId(x, k) IN
            /\ Cardinality(After(a)) < SnapshotEveryChunks
            /\ Cardinality(Later(a)) < SnapshotEveryCharacters

\* Whatever way an execution ended, if its relay could be completed every lane it
\* opened is closed with that outcome and the whole text, chunks whose publish
\* failed included: nothing of a failed or canceled execution keeps rendering.
CompletedIsClosed ==
    \A x \in Executions : pc[x] = "done" /\ ~disabled[x] =>
        \A k \in Begun(x) :
            LET row == manifests[AttemptId(x, k)] IN
            row.status = ending[x] /\ row.text = attempts[x][k].text
=============================================================================
