# A TLA+ verification of go-temporal-ai-sdk

The repository runs AI agents as Temporal workflows. Its workflows own the
*durable records* of a conversation (messages, tool calls, interactions,
subagents); its activities send *previews* of model output while it is being
made; both reach clients through a connector that stores rows in DynamoDB and
publishes to Redis or AppSync. The code has few lines per operation and most of
its difficulty between them: retried and overlapping executions, coroutines that
share a snapshot, signals that arrive late, rows that expire. This directory
holds TLA+ models of that, checked by TLC, and theorems checked by TLAPS.

Every definition follows the source; `PROJECT.json` ("map") names the lines.

## 1. Inventory

| Component | Source | State | Operations | Talks to |
| --- | --- | --- | --- | --- |
| Durable connectors | `connectors/*/connector.go` | table rows `record#`, `event#`, `preview#`, `terminal#`; the cursor clock | UpsertRecord, EndStream, Begin/Checkpoint/EndPreview, PublishUpdate | DynamoDB, Redis or AppSync |
| Cursor allocation | `connectors/*/ulid.go` | last ULID of the process, under a mutex | newEventID | the connector |
| Stream resolvers, options | `connectors/*/resolver.go`, `options.go` | none | look-up of a stream, defaults | the connector |
| Preview relay | `updates/relay.go` | per attempt: sequence, text, last snapshot, ended | Accept, Succeed/Fail/Cancel (complete), Receipts | the connector; driven by the model activities |
| Protocol events | `updates/types.go`, `records.go`, `errors.go` | none | build, decode and validate events | everything |
| Composite, no-op connectors | `updates/connector.go` | none | fan-out of the connector interface | stores and publishers |
| Model, object activities | `activities/activities.go`, `stream_object.go`, `stream_output.go`, `nonstream_relay.go` | the parts received, the partial JSON answer | InvokeModel, InvokeModelStream, GenerateObject, StreamObject, InvokeEmbeddingModel | provider, relay |
| Tool activity, artifacts | `activities/tool.go`, `artifacts.go` | none | InvokeTool, compaction of large results | tools, artifact store |
| Workflow API | `temporalai/workflow.go`, `register.go` | none | WriteRecord, EndStream, InvokeModel, ... | activities, with retry policies |
| Agent loop | `temporalai/agent.go` | steps, calls, results; one coroutine per call | RunAgent: model call, message records, tool calls | workflow API, approvals, subagents |
| Tool approval | `temporalai/approval.go` | one wait per approval | RequestToolApproval | signals, timers, records |
| Background subagents | `temporalai/subagent.go` | a runtime and a snapshot per child | spawn, list, inspect, wait, message, cancel; listener; monitors | child workflows, signals |
| Wire types | `activities/wire.go`, `types.go` | none | fold of stream parts into a result; field-by-field conversions | activities and workflow API |

What is hard, and what each must get right:

- **Connectors.** One operation is several table calls. Executions overlap
  because Temporal retries an activity that timed out but is still running. A
  record must never regress; each durable event has one cursor; the log never
  names a record version that cannot be read; what was reported successful is
  there; and the final replay of a client, bounded by the cursor of
  `stream-end`, misses nothing. Manifests of finished attempts stay final.
- **Relay.** A checkpoint plus the chunks after it must give the text, at every
  moment a client may join; what a crash loses is bounded; every end closes all
  lanes; the receipt that a workflow uses to accept an attempt says what is stored.
- **Model activities.** A provider cuts its answer where it likes, interleaves the
  inputs of its calls and may give each of them several ways. The result must be the
  answer whatever the cuts; a preview must not show an element before it is whole;
  and the receipts from which the workflow writes records must say what the result says.
- **Tool activities.** A timed-out execution may run on beside its successor, which a
  retry or the fallback from a local activity began. A denied call must run in none
  of them; the one answer that is kept must be one execution's, behind whatever
  references its large values were replaced by; and the turn must end.
- **Agent and approvals.** A gated tool runs only after *its* approval, and only
  once both facts are durable; results go to their calls whatever order parallel
  coroutines end in; the loop returns in spite of failures and cancellation.
- **Subagents.** Spawner, canceller, listener and monitor write one snapshot.
  Sequences must advance, the last report must be true and stay, and waiters hear.

`PROJECT.json` ("hazards") lists each hazard at its line, with the properties
that cover it or the reason why none does.

## 2. Modules

| Module | Models | Composition |
| --- | --- | --- |
| `RecordLog` | what a record store with a publisher promises: atomic accept, append, deliver | abstract specification |
| `Connector` | both bundled connectors, one action per table call | implements `RecordLog` by a refinement mapping |
| `MCConnector` | requests of the connector runs | extends `Connector` |
| `ConnectorProofs`, `ConnectorLogProofs`, `ConnectorRefinement` | theorems of `Connector` | one extends the other |
| `Relay` / `MCRelay` | the relay inside its model activity, for all executions of one activity | the store of `Connector` as one atomic step: an attempt has one writer |
| `RelayProofs` | theorems of `Relay` | extends `Relay` |
| `ModelActivity` | the model and object activities as folds of a stream into a result and its lanes | the relay's calls of a part as one step; `Relay` has them one by one |
| `ToolActivity` | the executions of one tool call, from the gate to the compacted answer | the row of a tool call in `Agent` is its caller |
| `ToolActivityProofs` | theorems of `ToolActivity` | extends `ToolActivity` |
| `Turn` / `MCTurn` | what a step's model answer becomes: message records and a tool run | composes `ModelActivity` and `ToolActivity` |
| `TurnProofs` | theorems of `ModelActivity` and `Turn` | extends `Turn` and `ToolActivityProofs` |
| `Agent` / `MCAgent` | RunAgent, its tool coroutines and approvals | the row rule of `Connector` as one atomic step |
| `AgentProofs` | theorems of `Agent` | extends `Agent` |
| `Subagents` | the parent's manager and its children | children are the `started`/`progress`/`ending` reports of `Agent` |
| `SubagentsProofs` | theorems of `Subagents` | extends `Subagents` |

### Connector

A *call* is one execution of one operation, with a program counter, the event it
carries and a local cursor. The steps are the table calls in the code's order:

| Go | steps |
| --- | --- |
| `UpsertRecord` | `ValidateTarget` (if an attempt is accepted), `RecordGet`, `RecordPut`, `RecordCheck` (when the condition failed), `EventGet`, `EventPut`, `EventCheck`, `MarkAccepted`, `Publish` |
| `EndStream` | `EventGet`, `EventPut`, `EventCheck`, `PutTerminal`, `Publish` |
| `BeginPreview`, `CheckpointPreview`, `EndPreview` | `PreviewGet`, `PreviewPut`, `Publish` |

`Fault` ends a call with an error between two steps (or after a publish took
effect), `Resend` repeats a write whose response was lost, `Expire` deletes a row
that carries `expiresAt`. `Submit` starts an execution; it may start another of
the same event while one is running, which is what a retry after a timeout does.
`MayIssue` states what the submitters guarantee: a writer of a record waits for
version v before it writes v+1 (`WriteRecord` blocks), attempts are accepted only
with a receipt, `EndStream` follows all writes, a relay sends its events in order.
Several writers of one record version are allowed.

An event stands for its own hash; content is a payload value; a cursor is a
number. `SyncedClocks` says whether cursors of different processes follow the
order of allocation, as the code assumes and does not ensure.

### Relay

An execution is at `select` (waits for a part), `begin`, `chunk`, `checkpoint`
(the connector calls of `Accept`), `closing` (the loop of `complete`) or over.
`attempts` is `r.attempts`; text is the set of deltas it was built from, so that
loss and repetition are both visible. A failed connector call either took effect
or not, and `handleError` either disables the relay or fails the activity.
`ContextDone` and `Crash` may strike anywhere, and the next execution then starts
beside the last one. Not modelled: tool-call ids that sanitize alike, and parts of
several steps in one stream, which the key of `r.attempts` tells apart and the attempt
id does not.

### ModelActivity

`said` is how much of the intended answer the provider has sent; `PartsNext` are the
parts it may send next: any cut of text, reasoning and inputs, ends of inputs with or
without the whole input, calls that name their input again or not, a file, the
finish. `acc` is the fold of `GenerateResultFromAIStreamParts`, `tracker` the
`partialOutputTracker`, `lanes` is `r.attempts` with what each lane shows. The stream
may close or break anywhere. Text is a sequence of tokens; a JSON text consists of
`head`, of `part` and `rest` of one element after another, and `end`, so that an
element can be cut in its middle. `Relays` is `relay.Accept` of a part and of the
parts it is enriched by (`AcceptAll`, the fold over their batch): it succeeds, fails
the activity, or finds the stream missing.
`GenerateObject` and `InvokeModel` answer in one step (`AnswersAtOnce`).

### ToolActivity

`exec[e]` is execution e of one call: `gate`, `run`, then the compaction of `input`,
`result`, `output` and `error` in the code's order, and `return`. `attempt` is the
execution the workflow awaits, `accepted` the one whose answer it got. `TimeOut`
starts the next execution and leaves the old one running; `Retry` follows an error.
The store is a set of rows by key, kind and hash, the hash being the value itself; a
value is inline or a reference, and an error text that was compacted as output may
be compacted once more. A tool's policy may answer differently each time it is asked.

### Turn

`Answers` are the steps of `ModelActivity`, `RunTool` those of `ToolActivity`;
`TurnRunsTool` proves that a turn implements `ToolSpec`. Between them stand
`writeAgentMessageRecords` (`MessageRows`, one record per receipt, else the text),
`extractToolCalls` (`LocalCalls`) and the results on their way back (`Received`). One
call of an answer is followed; `Agent` has several beside each other.

### Agent

`pc` is what the main routine blocks on; `routine[i].at` what the coroutine of
call i blocks on. A write returns when the activity succeeded (`Writes`) or,
canceled or out of attempts, with an error (`WriteFails`), in which case the row
may or may not be there. `Cancel` may strike with writes in flight, and
`WriteLate` lets a record activity finish after RunAgent returned. When a
parallel call fails the main routine goes on and the other coroutines run until
the workflow is closed. Signals wait in a channel by name; `TimeOut` needs an
empty channel because the selector looks at the channel before the timer.

### Subagents

Snapshots are status and sequence. Coroutines of one workflow run one at a time,
each from one blocking call to the next, in the order they were created for the
events of one batch; the listener is created before every monitor, which gives
`Monitor` its guard `queue = <<>>`. The child reports as `RunAgent` does: each
signal's delivery is awaited (`Delivered`) and the last report carries sequence
steps + 2, or 2 after an error; a child whose record of a report fails ends without
it. `spawn` leaves `WaitForCancellation` unset, so the future of a canceled child may
be ready before the child closes: `MonitorGivesUp`. What the report of such a monitor
becomes is left open, for the child's later signals overwrite it; the properties of
the report speak of monitors that saw the child close (`"done"`).

## 3. Runs

| Run | Question | Answer |
| --- | --- | --- |
| `connector` | two overlapping executions out of rewritten and successive record versions, checkpoints, ends and acceptance of an attempt, the stream's end; two faults; retries with fairness | manifests only advance, only a logged record of the right target supersedes, published copies are the logged row, acknowledged is logged, the final replay is complete, every uncontested write succeeds in the end, and the whole implements `RecordLog` |
| `connector_retention` | two writers of one record version, the next version, an accepted attempt; event and preview rows expire at any moment | records never regress and a version keeps its content; acknowledged and logged writes stay readable |
| `connector_skew` | two processes with unordered clocks | **violated**: the final replay misses a record |
| `connector_expired` | event rows expire between two executions | **violated**: one event, two cursors |
| `relay` | two executions, two lanes, a fault, both failure policies | receipts are stored, late joiners catch up, lag is bounded, completed is closed |
| `agent` | two steps, parallel and sequential, gated and hosted calls, two responses, a fault, cancellation | the gate holds, records precede and match tool runs, the agent returns |
| `agent_child` | a child whose tool fails after a step | **violated**: its last snapshot reuses version two |
| `agent_canceled` | the workflow is canceled while a call waits for approval | **violated**: the interaction stays pending |
| `subagents` | three tool calls, one id, a child that may be refused, fail or succeed, with or without its last signal | sequences advance, the report is true and final unless the monitor gave up early, waiters hear |
| `subagents_canceled` | a canceled child | **violated**: it may be reported as failed |
| `turn` | ten asks of the four activities in every cut, six tools, two executions of the call, both failure policies | results, receipts, records and tool inputs say what the provider meant; the answer is one execution's; denied calls never run; the turn ends |
| `turn_elements` | a list of elements in JSON through the default lane | **violated**: two contents for one version of the message record |

**Bounds.** Every hazard needs at most two actors and an interloper. `connector` has
two calls at a time (which may be started again and again, so a third execution
follows the first) and two faults, one for each of them; three that overlap are
covered by the theorems, which hold for any number of calls. In
`connector` no two writes of one record version differ; `connector_retention` has
them. Two executions of an activity; two gated tool calls plus a hosted one (to make the result index differ from
the call index); a spawner, a waiter and a canceller. Version numbers reach 2, because
the rules compare only neighbours. `Cursors` bounds how many executions can allocate
one before the event's row exists; those beyond it wait and then adopt the row's. In
`subagents`, `Sinces = {6}` is above every sequence the child's reports reach, so only
the terminal status can wake that waiter. In `turn`, an answer has up to two elements
(one whole and one cut), two calls (to interleave), inputs of two tokens (to cut) and
one file; `MaxFaults = 1` gives two executions of the tool call, of which the first
may be slow or broken; `ToolActivityProofs` holds for any number. Payloads are small,
large inline, and large enough that their reference is compacted again.
Deadlock is checked except in `agent` and `subagents`, whose systems may really
stop: an approval without timeout waits for people, and no call need be made.

**Fairness.** `Connector`: a started call takes its steps (weak), and the retry of
an unfinished durable write gets a worker slot (strong: slots are taken and freed
by others); `recordActivityOptions` sets no attempt limit. `Agent`: the worker
runs every routine that can go on, activities and timers end; nothing makes people
answer or a workflow be canceled. `Subagents`: coroutines, children and signal
delivery; tool calls and the waiters' timers get none, since a waiter must hear of
the end without its timer. `Turn`: workers poll, so the activity that
is awaited goes on and is retried, and the workflow takes its results; nothing makes
a provider finish, an execution time out, or one that nobody waits for go on.
`Relay` states safety only.

## 4. Findings

1. **Clock skew** (`connector_skew`). Cursors are ULIDs of the local clock,
   monotonic per process. The `stream-end` of another worker may get a cursor
   below that of an acknowledged record, and "one final replay through its
   cursor" (`protocol/v2/README.md:62`) misses it.
2. **Expiring event rows** (`connector_expired`). Event rows carry the TTL that
   `docs/streaming.md:164` gives to previews. A retry after expiry publishes the
   event under a second cursor, against `protocol/v2/README.md:30`. Nothing else does
   (`SecondCursorIsOfExpiry`).
3. **Failing child** (`agent_child`). Its last snapshot has sequence 2, which its
   first step used. After one step the record write conflicts for ever; after two
   it is dropped as stale and the record stays running (`agent.go:131`).
4. **Canceled approval** (`agent_canceled`). Nothing sets `Canceled`; version two
   of the interaction is not written (`approval.go:94`, `docs/streaming.md:103`).
5. **Canceled child reported failed** (`subagents_canceled`). The monitor
   recognises cancellation by a status that the spawner and the child's own
   signals overwrite (`subagent.go:305`).
6. **Elements and text of one step** (`turn_elements`). In JSON format and the default
   lane the elements of a list are previewed in the lane of objects, whose target
   record is that of the text (`relay.go:230`). `writeAgentMessageRecords` writes
   version one of both; the second is a conflict
   (`protocol/v2/README.md:50`), which is retried without end. No other answer leads
   to it (`ConflictsAreOfElements`).

Two more places where the models do what the code does, and no run is needed to see
it: `temporalai.InvokeModel` and `temporalai.GenerateObject` return types without the
`PreviewReceipts` that `docs/migration-v2.md:33` speaks of, so their previews cannot be
accepted (`Received`); and a streamed tool call loses `ProviderExecuted`
(`wire.go:583`), so a hosted call is run locally (`Fold`, `LocalCalls`).


## 5. What is proved

The theorems hold for every value of the constants that satisfies the named
assumptions, `ConstantsAssumption` (any finite or infinite sets of calls,
workers, records and requests; cursors are positive numbers; `None` is not an
event or attempt), `RelayAssumption` (any
numbers of executions, lanes and parts; the snapshot intervals are positive),
`AgentAssumption` (inputs, tools and outcomes of the declared types; the model's
outputs have at most `MaxCalls` calls), `SubagentsAssumption` (the bounds and the
waiters' sequences are natural numbers), `ToolAssumption` (a policy that is set
has something to say; inputs are payloads; `None` is not one), `AsksAssumption` (the
calls of an intended answer have ids of their own), `JSONAssumption` (a JSON text ends
with its last token; `Nothing` is not a list), `LaneAssumption` (nor a lane) and
`TurnAssumption` (what an answer's calls pass is an input a tool may get). Answers may have
any length and be cut in any way. No proof assumes anything about fairness. `OneTarget` says that the previews of one attempt name one
target: `ensurePreview` (`updates/relay.go:223`) derives both from lane and tool call,
so it holds unless two tool-call ids sanitize alike.

| Theorem | Says | Inductive invariant |
| --- | --- | --- |
| `TypeCorrect` | `TypeOK` | `TypeInv` |
| `RecordsNeverRegress` | `RecordNeverRegresses` | `TypeInv` |
| `AckedReadable`, `LoggedReadable` | `AckedIsReadable`, `LoggedIsReadable` | `ReadableInv` |
| `PublishedLogged`, `SecondCursorIsOfExpiry` | `PublishedIsLogged`, `~Expiry => OneCursorPerEvent` | `LogInv` |
| `AckedLogged` | `AckedIsLogged` | `AckedInv` |
| `FinalReplay` | `SyncedClocks => FinalReplayComplete` | `FinalInv` |
| `LogRefinement` | `~Expiry => ImplementsRecordLog` | `LogMapInv` |
| `SupersededRightly`, `ManifestsNeverRegress` | `OneTarget => SupersededByTarget`, `OneTarget => ManifestsAdvance` | `PreviewInv` |
| `RelayTypes`, `ReceiptsAreStored`, `LateJoiners`, `ManifestLag`, `CompletedAreClosed` | `TypeOK`, `ReceiptIsStored`, `LateJoinerCatchesUp`, `ManifestLagBounded`, `CompletedIsClosed` | `IInv` |
| `SubmissionsInOrder`, `ManifestsGoForward` | a relay's submissions follow what is stored; a manifest is replaced by a higher sequence only, while active | `IInv /\ SameText` |
| `AgentTypeCorrect` | `TypeOK` | `TypeInv` |
| `RecordsPrecedeRuns`, `ResultsMatch`, `EndsAreRecorded` | `RecordedBeforeRun`, `ResultsMatchCalls`, `EndedIsRecorded` | `RowInv` |
| `VersionsFollow` | a call's records are written version by version | `RowInv` |
| `ChildrenCompleted` | `CompletedChildIsRecorded` | `TypeInv /\ Child` |
| `RunsAreApproved` | `RanOnlyApproved` | `ApprovalInv` |
| `SubagentsTypeCorrect` | `TypeOK` | `TypeInv` |
| `SequencesAdvance` | `SnapshotsAdvance` | `TypeInv` |
| `ReportTrue`, `ReportFinal`, `OneChild` | `ReportIsTrue`, `ReportIsFinal`, `OneChildPerId` | `ReportInv` |
| `ToolTypeCorrect` | `ToolTypeOK` | `TypeInv` |
| `AnswersAreWhatRan` | `ReturnedIsWhatRan` | `StoreInv` |
| `DenialsHold`, `HistoryIsSmall` | `DeniedNeverRan`, `HistoryStaysSmall` | `PolicyInv` |
| `ResultsAreAnswers`, `OnlyFinalElements` | `ResultIsAnswer`, `ElementsAreFinal` of an activity | `ModelInv` |
| `InputsInductive`, `ReceiptsTell` | the inductive invariant of tool inputs' lanes; `ReceiptsTellResult` of an activity | `ModelInv`, `InputsInv` |
| `TurnResultsAreAnswers`, `TurnOnlyFinalElements` | the same of a turn | `TurnInv` |
| `TurnInputsInductive`, `TurnReceiptsTell` | the same of a turn | `TurnInv`, `InputsInv` |
| `RecordsTellStep`, `ToolsRunAsIntended` | `RecordTellsStep`, `ToolRanAsIntended` | `TurnInv` |
| `ConflictsAreOfElements` | `NoRecordConflict`, except for the elements of a JSON list in the default lane | `TurnInv` |
| `TurnRunsTool` | a turn implements `ToolSpec` | `TurnInv` |
| `TurnAnswersAreWhatRan`, `TurnDenialsHold`, `TurnHistoryIsSmall` | `ReturnedIsWhatRan`, `DeniedNeverRan`, `HistoryStaysSmall` of a turn | `TurnRunsTool` |

**Connector.** `TypeInv` adds to `TypeOK` which event a call carries at each step
and that it holds a cursor where it must. `ReadableInv` adds `PastRecord`: a call
beyond the record row found or wrote its version there. It is needed because the
row is written many steps before the log names it, and it survives expiry because
record rows carry no TTL. `LogInv` adds `CarriesRow`: beyond `persistDurableEvent`
the call's local event and cursor *are* the logged row; without it nothing ties
what `Publish` sends to the table. Rows are put only if absent, so they stay
(`RowsStay`); that step is where the proofs need `~Expiry`, and the properties that
expiry would break are stated for tables that do not expire.

`AckedInv` is needed for the early return of `UpsertRecord`, which reports success
for a version older than the row without logging anything. `VersionIssued` and
`Chain` say that a row of version v exists only if v was submitted, and that v was
submitted only after v - 1 was acknowledged; so the stale write was acknowledged
before, by an execution that logged it, unless the version has a second writer
(`Uncontested`). `FinalInv` orders cursors: when `stream-end` takes a cursor all
record events are acknowledged (`EndAfterRecords`), hence logged, hence below it if
cursors follow allocation order. `connector_skew` shows the last assumption needed.

`LogRefinement` maps the three steps visible to a reader (the record row, the event
row, the publish) to `Accept`, `Append` and `Deliver` of `RecordLog`, every other
step to a stutter.

`PreviewInv` follows one attempt through the table: events are issued in sequence
order and one of them ends it (`OneEnd`), so a put that comes late, after a `Fault` or
a `Resend`, meets a row that is further (`PastPreview`); an upsert that accepts an
attempt was issued after its end was acknowledged (`AcceptsSucceeded`), and beyond
`ValidateTarget` the manifest it read has the record as its target (`PastValidate`).
Without `OneTarget` a later write could move the manifest to another record.

**Relay.** `IInv` says per execution what its step tells of the part it relays and of
its end (`Phase`), and per lane how far the manifest is behind. `Closed` is what makes
receipts true: an attempt that ended has its manifest ended alike, and no other
write of its execution follows. `Level` is needed for the late joiner: the manifest's
text and the chunks after it are disjoint and make up the text, and there are at most
`seq - snapSeq` of them; it holds only while parts are accepted, because `complete`
and a disabled relay give that up (`Current`). Executions share nothing: an attempt id
names its execution, and each writes its own rows. `SubmissionsInOrder` is the obligation that
`Connector` puts on a relay (the first part of `MayPreview`), for the calls that took
effect: a row it submits is the first of its attempt, later than the stored one, or
the same. The last case is why `SameText` is needed: a checkpoint that `complete`
sends again carries the text that the lost call stored, because no part was accepted
in between. The second part of `MayPreview`, that a succeeded end follows acknowledged
checkpoints, is not proved: in best-effort mode the end is still called after a
checkpoint that found the stream missing, an answer that `Connector` does not give.

**Agent.** `TypeInv` adds `Main`, which coroutines can exist for each place of the
main routine, and `Filled`, that each outcome received is in the slot of its call;
`Slots` shows that the slots of the calls a step executes are numbered without a gap,
hosted calls or not, so a step whose outcomes were all counted has all its results.
`RowInv` ties a coroutine to its rows: `Begun` says what a call has written by the time
it is where it is, `Bounded` that nothing goes past version two, `PastGate` that what
was started is past its gate. A store that ignores old versions and refuses other
content is what makes a finished row stay (`CallRows`), through cancellations and
writes that arrive late. `VersionsFollow` is the obligation `MayUpsert` that
`Connector` puts on its writers. `ApprovalInv` follows the signals: what waits in a
channel was sent (`Queued`), and as long as a call with its own signal name has taken
no response, the first one sent for it is the first one in its channel (`FirstKept`):
strays are dropped from the front, new ones go to the back. So the response it takes
is the first one it got, and an approved call is one that somebody approved
(`Approved`). With a shared name only the latter holds, as the code intends.

**Subagents.** `TypeInv` adds that a call awaits a runtime that was made and that a
child past its last snapshot has a result. `WrittenBy` enumerates the writers of a
snapshot. `ReportInv` shows that the monitor is the last: a child closes only
after its signals were delivered (`OwnSignals`), the monitor runs only when the
manager's queue is empty, so no signal of a reported child remains (`Reported`); its
spawner has resumed (`Spawners`), and a cancellation sees a terminal status. Nothing
of it is said of a monitor that gave up, whose child may go on. An id is freed only if
its child was refused, hence `StartedKnown`, hence `OneChild`.

**Tool calls.** `TypeInv` adds that executions not begun are as at first (`Fresh`) and
how deep the references of a value may be at each step of the compaction (`Depths`);
without it an error text might be looked for behind three references. `StoreInv` adds
that an artifact's key tells its content (`KeysTell`), so a second execution that
writes under the key of a first writes the same, and that every reference leads into
the store and from there to what the execution made (`Made`). `PolicyInv` says of
every execution beyond the gate that its approval and verdict let it pass, and of each
value that was looked at that it is stored or small.

**Model activities and turns.** `ModelInv` compares everything with the intended
answer by prefixes: `SaidOK` bounds what the provider has said, `AccOK` says that the
fold holds that prefix of the text, the reasoning and each input (`StreamTold`),
`Tracked` that the tracker is the one of the folded text, `LanesOK` that a lane shows
what the fold holds (`Shows`). No induction over the stream is needed, because a
prefix grows by a delta (`PrefixGrows`); the parts that one part is enriched by are a
batch of any length, and `AcceptAllChain` gives the lanes between them, over which
the lemmas about a batch go by induction over an interval. Elements are published as
often as the tracker's text became JSON with more of them, so a lane has a prefix of
the final elements, each once. When the stream closes with all said the prefixes are
the answer (`Returned`); cut short, the calls are the first ones.

`InputsInv` stands beside `ModelInv`, from which it is inductive: the lane of a call's
input shows what was streamed of it, that is a beginning, and after it the whole if a
`tool-input-end` carried the whole (`InputsStreamed`), and it belongs to a call of the
answer (`InputsAsked`). So the receipts of tool inputs tell what the preview shows,
which may be less or more than the input of the result; the receipts of text,
reasoning and values tell what the result says.

`TurnInv` adds that the rows written and the writes still to be made are those of the
result (`RowsKept`), that a stream shown to its end has all its receipts
(`AllReceipts`) and that the call that runs is one of the answer (`CallKept`). Two rows
with different contents of one version come from two lanes with the step's message as
target, and `LanesApart` shows that only elements beside their own text make both.

## 6. What is only model-checked

- Liveness (`RetriesComplete`, `AnsweredApprovalEnds`, `AgentReturns`,
  `WaiterHearsTheEnd`, `TurnEnds`): it rests on fairness and `ENABLED`, which the prover does
  not treat.
- Every violated property: its counterexample is the result. Two of them are proved to
  hold outside the circumstances of the finding (`SecondCursorIsOfExpiry`,
  `ConflictsAreOfElements`).

## 7. What is not modelled

- Resolvers, options and the conversions of `wire.go` other than the fold of a stream
  and the way of the receipts: look-ups, defaults and copies of fields, without state.
- `Composite`, and connectors other than the bundled two: what a composition promises
  depends on stores and publishers the caller brings.
- `DecodeEvent`, `ValidateEvent` and other validation: events are well formed. They
  check one field after another and keep nothing.
- The bits of a ULID.
- Previews of artifacts, their truncation at a byte limit, and error texts.
- `InvokeEmbeddingModel`: it passes a call and its result through.
- Streams of several steps: the relay's attempt ids would collide (hazard at
  `relay.go:210`), and no activity in `src/` makes more than one model call.
- Connectors without a live transport (`Disabled`, an empty AppSync domain):
  `PublishUpdate` returns nil and nothing is published, so what `Connector` says of
  copies is about connectors that publish.
- The end of a parent's loop by a failed spawn: `SpawnFailed` only returns, and the
  other calls may go on, which allows more than the code does.
- Provider-native approval parts of a stream, which the workflow hands on untouched.
- `list`, `inspect` and the query of subagents read only; `message` and the
  messages drained at each step; children that are not `RunAgent`; a canceled parent.
- Prompts, provider conversion, errors of invalid input to `RunAgent`; provider call
  ids that repeat.

What is assumed of the Temporal SDK, as the code relies on it: coroutines of one
workflow are cooperative and resume in the order they were created; a canceled
context fails pending and later activities at once, and signals to other workflows
that the code awaits are not tied to it; an activity that timed out may still run; the
future of a child that was not canceled is ready when the child has closed.

## 8. Plan

All safety properties that the runs find to hold are proved. What is left:

1. Where the other findings end: that a skewed cursor, a child's last snapshot and a
   canceled approval are the only ways to their violations. `FinalReplay` says so of the
   first (`SyncedClocks`).
2. A composition of agents over `Connector`. `VersionsFollow` discharges the part of
   `MayUpsert` about versions and `SubmissionsInOrder` that of `MayPreview` about
   sequences; the part about receipts needs `Relay` and `Turn` together, and
   `MayEnd` is the duty of the program that calls `EndStream`, which is not in `src/`.
3. The `message` tool and its drain: an acknowledged message after the last drain is
   never read. No doc promises otherwise, so there is no property to state yet.
