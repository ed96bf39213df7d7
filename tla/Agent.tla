------------------------------- MODULE Agent -------------------------------
(***************************************************************************)
(* RunAgent (temporalai/agent.go) with the tool approvals of approval.go:  *)
(* one workflow, a main routine that alternates model calls and tool       *)
(* calls, and one coroutine per tool call.  A step of a routine runs from  *)
(* one blocking call to the next; what it blocks on is an activity         *)
(* (record, model or tool), a signal or a timer.                           *)
(*                                                                         *)
(* Data abstraction: a record is its version and status, the message       *)
(* records of a step are one record, and a prompt is the calls and results *)
(* of the steps before it.  The provider gives every call an id of its     *)
(* own, here the step and the position in the model's output.  The signal  *)
(* to the parent that follows a progress record changes nothing here: its  *)
(* failure is ignored.                                                     *)
(***************************************************************************)
EXTENDS Naturals, Sequences, FiniteSets

CONSTANTS
    Inputs,        \* the inputs of RunAgent and the options of its activities
    Tools,         \* tool names
    Gated,         \* the tools that require approval
    Local,         \* the tools that run as local activities
    Outputs,       \* by step, the lists of tool calls the model's output may hold
    MaxCalls,      \* bound: the length of such a list
    ToolOutcomes,  \* the statuses of the results tools return
    MaxSteps,      \* input.MaxSteps
    MaxResponses,  \* bound: approval responses sent by people
    MaxFaults      \* bound: activities that fail for good

Input == [execution : {"parallel", "sequential"},  \* ToolExecution
          timeout : BOOLEAN,   \* ToolApproval.Timeout > 0
          shared : BOOLEAN,    \* ToolApproval.SignalName is set
          fallback : BOOLEAN,  \* LocalToolTimeoutFallback is "activity"
          child : BOOLEAN,     \* SubagentExecution is set
          recorded : BOOLEAN,  \* durable records and a stream id
          givesUp : BOOLEAN]   \* the Record retry policy is limited

ToolCall == [tool : Tools, provider : BOOLEAN]

ASSUME AgentAssumption ==
    /\ Inputs \subseteq Input
    /\ Gated \subseteq Tools
    /\ Local \subseteq Tools
    /\ ToolOutcomes \subseteq {"succeeded", "failed", "denied"}
    /\ MaxCalls \in Nat
    /\ MaxSteps \in Nat \ {0}
    /\ DOMAIN Outputs = 0..MaxSteps - 1
    /\ \A n \in DOMAIN Outputs : \A out \in Outputs[n] :
          out \in Seq(ToolCall) /\ Len(out) <= MaxCalls
    /\ MaxResponses \in Nat
    /\ MaxFaults \in Nat

VARIABLES
    input,
    cancelled,  \* the workflow's context is canceled
    pc,         \* what the main routine blocks on
    outcome,    \* what runAgentLoop returned: "none" yet, "ok" or "error"
    steps,      \* result.Steps
    calls,      \* step.ToolCalls
    routine,    \* of each call: its coroutine
    results,    \* results of executeAgentTools, filled as outcomes arrive
    records,    \* the store's rows
    channels,   \* buffered approval signals, by signal name
    sent,       \* history: the responses people sent
    ran,        \* history: the calls whose tool was started
    faults

workflow == <<pc, outcome, steps, calls, routine, results>>
people == <<channels, sent>>
vars == <<input, cancelled, workflow, records, people, ran, faults>>

stepNumber == Len(steps)

\* A call is named by its step and its position; position 0 names the step.
CallId == (0..MaxSteps - 1) \X (0..MaxCalls)
Id(i) == <<stepNumber, i>>

-----------------------------------------------------------------------------
(* Records.                                                                *)

RecordId == {"tool", "interaction", "message", "subagent"} \X CallId
ToolRecord(id) == <<"tool", id>>
InteractionRecord(id) == <<"interaction", id>>
MessageRecord(n) == <<"message", <<n, 0>>>>
SubagentRecord == <<"subagent", <<0, 0>>>>

NoRow == [version |-> 0, status |-> "none"]
Write(r, v, s) == [id |-> r, row |-> [version |-> v, status |-> s]]

\* UpsertRecord of a store (module Connector): a lower version is ignored, the
\* same content succeeds again, other content under one version is refused.
Refused(w) == records[w.id].version = w.row.version /\ records[w.id] # w.row

Stored(ws) ==
    [r \in RecordId |->
        LET newer == {w \in ws : w.id = r /\ w.row.version > records[r].version}
        IN IF newer = {} THEN records[r] ELSE (CHOOSE w \in newer : TRUE).row]

\* WriteRecord returns nil: not asked to write, or the activity succeeded,
\* after retries that change nothing.
Writes(w) ==
    /\ input.recorded => ~cancelled /\ ~Refused(w)
    /\ records' = IF input.recorded THEN Stored({w}) ELSE records
    /\ UNCHANGED faults

\* WriteRecord returns an error: its context is canceled, or a limited retry
\* policy ran out, perhaps after a write whose answer was lost.
WriteFails(w) ==
    /\ input.recorded
    /\ \/ cancelled /\ UNCHANGED <<records, faults>>
       \/ /\ ~cancelled /\ input.givesUp /\ faults < MaxFaults
          /\ faults' = faults + 1
          /\ \/ UNCHANGED records
             \/ ~Refused(w) /\ records' = Stored({w})

\* A model or tool activity returns an error.
ActivityFails ==
    /\ UNCHANGED records
    /\ \/ cancelled /\ UNCHANGED faults
       \/ ~cancelled /\ faults < MaxFaults /\ faults' = faults + 1

-----------------------------------------------------------------------------
(* The main routine.                                                       *)

\* Mutant: the last snapshot never counts the steps.
ProgressUncounted ==
    CASE pc = "started" -> Write(SubagentRecord, 1, "running")
      [] pc = "progress" -> Write(SubagentRecord, stepNumber + 2, "running")
      [] pc = "ending" -> Write(SubagentRecord, 2, IF outcome = "ok" THEN "completed" ELSE "failed")

\* What a parent's snapshot is written with, and when.  RunAgent numbers the
\* last snapshot from the result it has, which is none after an error.
Progress ==
    CASE pc = "started" -> Write(SubagentRecord, 1, "running")
      [] pc = "progress" -> Write(SubagentRecord, stepNumber + 2, "running")
      [] pc = "ending" ->
            IF outcome = "ok" THEN Write(SubagentRecord, Len(steps) + 2, "completed")
                              ELSE Write(SubagentRecord, 2, "failed")

\* publishSubagentProgress, for the main routine at pc.
Publishes == IF input.child THEN Writes(Progress) ELSE UNCHANGED <<records, faults>>
PublishFails == input.child /\ WriteFails(Progress)

Returns(o) == pc' = "ending" /\ outcome' = o

NoRoutine == [at |-> "none", answer |-> "none", result |-> "none"]

Init ==
    /\ input \in Inputs
    /\ cancelled = FALSE
    /\ pc = "started"
    /\ outcome = "none"
    /\ steps = <<>>
    /\ calls = <<>>
    /\ routine = [i \in 1..MaxCalls |-> NoRoutine]
    /\ results = <<>>
    /\ records = [r \in RecordId |-> NoRow]
    /\ channels = [c \in CallId |-> <<>>]
    /\ sent = <<>>
    /\ ran = {}
    /\ faults = 0

Start ==
    /\ pc = "started"
    /\ \/ Publishes /\ pc' = "model" /\ UNCHANGED outcome
       \/ PublishFails /\ pc' = "done" /\ outcome' = "error"
    /\ UNCHANGED <<input, cancelled, steps, calls, routine, results, people, ran>>

ModelReturns ==
    /\ pc = "model"
    /\ ~cancelled
    /\ calls' \in Outputs[stepNumber]
    /\ pc' = "message"
    /\ UNCHANGED <<input, cancelled, outcome, steps, routine, results, records, people, ran, faults>>

ModelFails ==
    /\ pc = "model"
    /\ ActivityFails
    /\ Returns("error")
    /\ UNCHANGED <<input, cancelled, steps, calls, routine, results, people, ran>>

\* writeAgentMessageRecords
WriteMessage ==
    LET w == Write(MessageRecord(stepNumber), 1, "completed") IN
    /\ pc = "message"
    /\ \/ Writes(w) /\ pc' = "progress" /\ UNCHANGED outcome
       \/ WriteFails(w) /\ Returns("error")
    /\ UNCHANGED <<input, cancelled, steps, calls, routine, results, people, ran>>

Executed == {i \in 1..Len(calls) : ~calls[i].provider}

\* The coroutines executeAgentTools starts at once.
Started ==
    IF input.execution = "parallel" THEN Executed
    ELSE {i \in Executed : \A j \in Executed : i <= j}

\* publishSubagentStep and what follows it: the end, or the tools.
PublishStep ==
    /\ pc = "progress"
    /\ \/ /\ Publishes /\ calls = <<>>
          /\ steps' = Append(steps, [calls |-> calls, results |-> <<>>])
          /\ Returns("ok")
          /\ UNCHANGED <<routine, results>>
       \/ /\ Publishes /\ calls # <<>>
          /\ pc' = "tools"
          /\ routine' = [i \in DOMAIN routine |->
                IF i \in Started THEN [NoRoutine EXCEPT !.at = "record1"] ELSE NoRoutine]
          /\ results' = [n \in 1..Cardinality(Executed) |-> <<>>]
          /\ UNCHANGED <<outcome, steps>>
       \/ PublishFails /\ Returns("error") /\ UNCHANGED <<steps, routine, results>>
    /\ UNCHANGED <<input, cancelled, calls, people, ran>>

\* Mutant: the outcomes of provider-executed calls are awaited too.
AwaitsProvider == Len(calls)

\* The outcomes executeAgentToolsParallel receives.
Awaited == Cardinality(Executed)
Ended == {i \in 1..MaxCalls : routine[i].at = "ended"}

\* executeAgentTools returned results; the loop goes on, or stops where there
\* is nothing to tell the model or no step left.
ToolsReturn ==
    /\ pc = "tools"
    /\ Cardinality(Ended) = Awaited
    /\ steps' = Append(steps, [calls |-> calls, results |-> results])
    /\ IF Executed = {} \/ Len(steps) + 1 = MaxSteps
       THEN Returns("ok")
       ELSE pc' = "model" /\ UNCHANGED outcome
    /\ calls' = <<>>
    /\ results' = <<>>
    /\ routine' = [i \in 1..MaxCalls |-> NoRoutine]
    /\ UNCHANGED <<input, cancelled, records, people, ran, faults>>

\* The last snapshot, and RunAgent returns: its error matters to a success only.
Finish ==
    /\ pc = "ending"
    /\ \/ Publishes /\ UNCHANGED outcome
       \/ PublishFails /\ outcome' = "error"
    /\ pc' = "done"
    /\ UNCHANGED <<input, cancelled, steps, calls, routine, results, people, ran>>

-----------------------------------------------------------------------------
(* The coroutine of one tool call.  They all run until RunAgent returns,   *)
(* also when the main routine no longer awaits their outcomes.             *)

At(i, label) == pc # "done" /\ routine[i].at = label
Goto(i, label) == routine' = [routine EXCEPT ![i].at = label]
RequiresApproval(i) == calls[i].tool \in Gated

\* Mutant: an error has a status of its own.
ToolStatusOfError(result) == result

\* writeAgentToolRecord and toolApprovalRecord: what call i has to write.
ToolStatus(result) == IF result = "error" THEN "failed" ELSE result
CallWrite(i) ==
    LET at == routine[i].at IN
    CASE at = "record1" -> Write(ToolRecord(Id(i)), 1, "running")
      [] at = "ask"     -> Write(InteractionRecord(Id(i)), 1, "pending")
      [] at = "answer"  -> Write(InteractionRecord(Id(i)), 2, routine[i].answer)
      [] at = "record2" -> Write(ToolRecord(Id(i)), 2, ToolStatus(routine[i].result))
Writing(i) == routine[i].at \in {"record1", "ask", "answer", "record2"}

\* executeOneAgentTool returns an error, the first of which ends the agent.
CallFails(i) ==
    /\ routine' = [routine EXCEPT ![i].at = "ended", ![i].result = "error"]
    /\ IF pc = "tools" THEN Returns("error") ELSE UNCHANGED <<pc, outcome>>
    /\ UNCHANGED results

\* Mutant: results are appended as their outcomes arrive.
ResultSlotByArrival(i) == 1 + Cardinality(Ended)

\* toolOutcome.index
ResultSlot(i) == Cardinality({j \in Executed : j <= i})

\* executeOneAgentTool returns a result; in sequence, the next call begins.
CallSucceeds(i) ==
    LET later == {j \in Executed : j > i}
        next == IF input.execution = "parallel" THEN {}
                ELSE {j \in later : \A k \in later : j <= k}
    IN /\ routine' = [j \in DOMAIN routine |->
                CASE j = i -> [routine[i] EXCEPT !.at = "ended"]
                  [] j \in next -> [NoRoutine EXCEPT !.at = "record1"]
                  [] OTHER -> routine[j]]
       /\ results' = IF pc # "tools" THEN results
                     ELSE [results EXCEPT ![ResultSlot(i)] =
                              [call |-> i, status |-> routine[i].result]]
       /\ UNCHANGED <<pc, outcome>>

\* Under a canceled context the activity is not scheduled.
StartTool(i) == Goto(i, "run") /\ ran' = IF cancelled THEN ran ELSE ran \cup {Id(i)}

\* Tool record version one, then the approval or the tool.
WriteRunning(i) ==
    /\ At(i, "record1")
    /\ \/ /\ Writes(CallWrite(i))
          /\ IF RequiresApproval(i) THEN Goto(i, "ask") /\ UNCHANGED ran ELSE StartTool(i)
          /\ UNCHANGED <<pc, outcome, results>>
       \/ WriteFails(CallWrite(i)) /\ CallFails(i) /\ UNCHANGED ran
    /\ UNCHANGED <<input, cancelled, steps, calls, people>>

\* requestToolApproval: interaction version one.
AskApproval(i) ==
    /\ At(i, "ask")
    /\ \/ Writes(CallWrite(i)) /\ Goto(i, "wait") /\ UNCHANGED <<pc, outcome, results>>
       \/ WriteFails(CallWrite(i)) /\ CallFails(i)
    /\ UNCHANGED <<input, cancelled, steps, calls, people, ran>>

\* Mutant: the signal name leaves the approval id out.
SignalNameShared(id) == <<0, 0>>

\* ToolApprovalResponseSignalName, or the configured name.
SignalName(id) == IF input.shared THEN <<0, 0>> ELSE id

Answered(i, answer) ==
    routine' = [routine EXCEPT ![i].at = "answer", ![i].answer = answer]

\* Mutant: the first response that arrives is taken for the awaited one.
AnswersAny(response, id) == TRUE

Answers(response, id) == response.approval = id

\* waitForToolApprovalResponse takes a signal; a response to another approval
\* is dropped and the wait starts over.
TakeResponse(i) ==
    LET name == SignalName(Id(i)) IN
    /\ At(i, "wait")
    /\ channels[name] # <<>>
    /\ channels' = [channels EXCEPT ![name] = Tail(@)]
    /\ IF Answers(Head(channels[name]), Id(i))
       THEN Answered(i, IF Head(channels[name]).approved THEN "approved" ELSE "denied")
       ELSE UNCHANGED routine
    /\ UNCHANGED <<input, cancelled, pc, outcome, steps, calls, results, records, sent, ran, faults>>

\* The timer fires or is canceled with the context, no signal being there.
TimeOut(i) ==
    /\ At(i, "wait")
    /\ input.timeout
    /\ channels[SignalName(Id(i))] = <<>>
    /\ Answered(i, "timed-out")
    /\ UNCHANGED <<input, cancelled, pc, outcome, steps, calls, results, records, people, ran, faults>>

\* Mutant: a denied call goes on to its tool like an approved one.
MayRunAnyway(i) == TRUE
MayRun(i) == routine[i].answer = "approved"

\* Interaction version two, then the tool or the denial.
WriteAnswer(i) ==
    /\ At(i, "answer")
    /\ \/ /\ Writes(CallWrite(i))
          /\ IF MayRun(i) THEN StartTool(i)
             ELSE /\ routine' = [routine EXCEPT ![i].at = "record2", ![i].result = "denied"]
                  /\ UNCHANGED ran
          /\ UNCHANGED <<pc, outcome, results>>
       \/ WriteFails(CallWrite(i)) /\ CallFails(i) /\ UNCHANGED ran
    /\ UNCHANGED <<input, cancelled, steps, calls, people>>

\* InvokeTool returns a result; it may itself find the call denied.
ToolReturns(i) ==
    /\ At(i, "run") \/ At(i, "rerun")
    /\ ~cancelled
    /\ \E result \in ToolOutcomes :
          routine' = [routine EXCEPT ![i].at = "record2", ![i].result = result]
    /\ UNCHANGED <<input, cancelled, pc, outcome, steps, calls, results, records, people, ran, faults>>

\* Mutant: the error is returned without a record of it.
ToolFailsUnrecorded(i) ==
    /\ At(i, "run") \/ At(i, "rerun")
    /\ ActivityFails
    /\ CallFails(i)
    /\ UNCHANGED <<input, cancelled, steps, calls, people, ran>>

\* The tool's activity fails for good; a local one that timed out is run again
\* as an ordinary one.
ToolFails(i) ==
    /\ At(i, "run") \/ At(i, "rerun")
    /\ ActivityFails
    /\ \/ routine' = [routine EXCEPT ![i].at = "record2", ![i].result = "error"]
       \/ /\ At(i, "run") /\ calls[i].tool \in Local /\ input.fallback /\ ~cancelled
          /\ Goto(i, "rerun")
    /\ UNCHANGED <<input, cancelled, pc, outcome, steps, calls, results, people, ran>>

\* Tool record version two; after a failed tool its own failure is ignored.
WriteOutcome(i) ==
    /\ At(i, "record2")
    /\ \/ /\ Writes(CallWrite(i))
          /\ IF routine[i].result = "error" THEN CallFails(i) ELSE CallSucceeds(i)
       \/ WriteFails(CallWrite(i)) /\ CallFails(i)
    /\ UNCHANGED <<input, cancelled, steps, calls, people, ran>>

\* A record activity still running when RunAgent returned reaches the store.
WriteLate(i) ==
    /\ pc = "done"
    /\ input.recorded /\ ~cancelled
    /\ Writing(i)
    /\ records' = Stored({CallWrite(i)})
    /\ routine' = [routine EXCEPT ![i].at = "lost"]
    /\ UNCHANGED <<input, cancelled, pc, outcome, steps, calls, results, people, ran, faults>>

-----------------------------------------------------------------------------
(* People and the service.                                                 *)

\* Someone answers an approval of the step, or another one under its name.
Respond ==
    \E i, j \in Executed : \E approved \in BOOLEAN :
        LET name == SignalName(Id(i))
            response == [approval |-> Id(j), approved |-> approved] IN
        /\ pc = "tools"
        /\ Len(sent) < MaxResponses
        /\ RequiresApproval(i) /\ RequiresApproval(j)
        /\ channels' = [channels EXCEPT ![name] = Append(@, response)]
        /\ sent' = Append(sent, [name |-> name, response |-> response])
        /\ UNCHANGED <<input, cancelled, workflow, records, ran, faults>>

\* Cancellation of the workflow resolves every activity with an error; a record
\* activity that was running may have reached the store or may reach it yet.
Cancel ==
    LET main == CASE pc = "message" -> {Write(MessageRecord(stepNumber), 1, "completed")}
                  [] pc \in {"started", "progress", "ending"} -> IF input.child THEN {Progress} ELSE {}
                  [] OTHER -> {}
        inFlight == main \cup {CallWrite(i) : i \in {j \in 1..MaxCalls : Writing(j)}}
    IN /\ pc # "done"
       /\ ~cancelled
       /\ cancelled' = TRUE
       /\ \/ UNCHANGED records
          \/ input.recorded /\ \E ws \in SUBSET inFlight : records' = Stored(ws)
       /\ UNCHANGED <<input, workflow, people, ran, faults>>

CallStep(i) ==
    \/ WriteRunning(i) \/ AskApproval(i) \/ TakeResponse(i) \/ TimeOut(i)
    \/ WriteAnswer(i) \/ ToolReturns(i) \/ ToolFails(i) \/ WriteOutcome(i)

MainStep ==
    \/ Start \/ ModelReturns \/ ModelFails \/ WriteMessage
    \/ PublishStep \/ ToolsReturn \/ Finish

Next ==
    \/ MainStep
    \/ \E i \in 1..MaxCalls : CallStep(i) \/ WriteLate(i)
    \/ Respond
    \/ Cancel

\* The worker runs every routine that can go on, activities and timers end.
\* Nothing makes people answer or a workflow be canceled.
Fairness == WF_vars(MainStep) /\ \A i \in 1..MaxCalls : WF_vars(CallStep(i))

Spec == Init /\ [][Next]_vars /\ Fairness

-----------------------------------------------------------------------------
(* Properties                                                              *)

Labels == {"none", "record1", "ask", "wait", "answer", "run", "rerun", "record2", "ended", "lost"}
Statuses == {"none", "running", "pending", "approved", "denied", "timed-out",
             "succeeded", "failed", "completed"}
Response == [approval : CallId, approved : BOOLEAN]
Result == [call : 1..MaxCalls, status : {"succeeded", "failed", "denied"}]

\* Every variable keeps its type; of the workflow's results only the calls of
\* the step in hand may have none yet.
TypeOK ==
    /\ input \in Inputs
    /\ cancelled \in BOOLEAN
    /\ pc \in {"started", "model", "message", "progress", "tools", "ending", "done"}
    /\ outcome \in {"none", "ok", "error"}
    /\ steps \in Seq([calls : Seq(ToolCall), results : Seq(Result)])
    /\ Len(steps) <= MaxSteps
    /\ \A n \in DOMAIN steps : steps[n].calls \in Outputs[n - 1]
    /\ calls \in {<<>>} \cup UNION {Outputs[n] : n \in DOMAIN Outputs}
    /\ routine \in [1..MaxCalls -> [at : Labels,
                                    answer : {"none", "approved", "denied", "timed-out"},
                                    result : {"none", "succeeded", "failed", "denied", "error"}]]
    /\ results \in Seq(Result \cup {<<>>})
    /\ records \in [RecordId -> [version : 0..MaxSteps + 2, status : Statuses]]
    /\ channels \in [CallId -> Seq(Response)]
    /\ sent \in Seq([name : CallId, response : Response])
    /\ ran \subseteq CallId
    /\ faults \in 0..MaxFaults

CallOf(id) == IF id[1] < Len(steps) THEN steps[id[1] + 1].calls[id[2]] ELSE calls[id[2]]
SentTo(id) == {m \in DOMAIN sent : sent[m].name = SignalName(id) /\ sent[m].response.approval = id}

\* The gate (approval.go:104): a tool that requires approval is started only
\* after someone approved this very call, and, when the call has a signal name
\* of its own, only when that was the first answer it got.
RanOnlyApproved ==
    \A id \in ran : CallOf(id).tool \in Gated =>
        \E m \in DOMAIN sent :
            /\ sent[m].response = [approval |-> id, approved |-> TRUE]
            /\ ~input.shared => m \in SentTo(id) /\ \A n \in SentTo(id) : m <= n

\* docs/streaming.md:106, README.md:104: before a tool starts, its running
\* record is durable, and so is the approval it owes its start to.
RecordedBeforeRun ==
    input.recorded => \A id \in ran :
        /\ records[ToolRecord(id)].version >= 1
        /\ CallOf(id).tool \in Gated =>
              records[InteractionRecord(id)] = [version |-> 2, status |-> "approved"]

\* A step that went into the result answers each call the provider did not
\* execute itself, once and in the order of the calls (agent.go:335), and the
\* store's final record of the call has the status the model is told.
ResultsMatchCalls ==
    \A n \in DOMAIN steps :
        LET step == steps[n]
            executed == {i \in DOMAIN step.calls : ~step.calls[i].provider}
        IN /\ Len(step.results) = Cardinality(executed)
           /\ \A k, l \in DOMAIN step.results : k < l => step.results[k].call < step.results[l].call
           /\ \A k \in DOMAIN step.results :
                /\ step.results[k].call \in executed
                /\ input.recorded =>
                     records[ToolRecord(<<n - 1, step.results[k].call>>)]
                        = [version |-> 2, status |-> step.results[k].status]

\* docs/streaming.md:106: a call that came to its end was recorded in version
\* two, whatever ended it but a cancellation or a store that was given up on.
EndedIsRecorded ==
    input.recorded /\ ~input.givesUp /\ ~cancelled =>
        \A i \in Ended : records[ToolRecord(Id(i))].version = 2

\* docs/streaming.md:138: a child that succeeded left its final snapshot as the
\* newest version of its subagent record.
CompletedChildIsRecorded ==
    pc = "done" /\ outcome = "ok" /\ input.child /\ input.recorded =>
        records[SubagentRecord].status = "completed"

\* A response sent under the approval's own signal name is taken: the wait for
\* it ends, however many calls wait beside it (approval.go:94).
AnsweredApprovalEnds ==
    \A i \in 1..MaxCalls :
        (At(i, "wait") /\ ~input.shared /\ SentTo(Id(i)) # {}) ~> ~At(i, "wait")

\* With an approval timeout and no child record in the way, RunAgent returns.
AgentReturns == (input.timeout /\ ~input.child) ~> pc = "done"

\* docs/streaming.md:139: "recordVersion equal to its monotonic sequence": the
\* last snapshot has a sequence above those already written.
SnapshotsAdvance ==
    pc = "ending" /\ input.child /\ input.recorded /\ ~cancelled =>
        Progress.row.version > records[SubagentRecord].version

\* docs/streaming.md:103: "After a response, timeout, or cancellation, it writes
\* version two": the wait of a canceled agent ends in its interaction record.
CanceledApprovalIsRecorded ==
    \A n \in 0..MaxSteps - 1, i \in 1..MaxCalls :
        (cancelled /\ n = stepNumber /\ At(i, "wait") /\ input.recorded) ~>
            records[InteractionRecord(<<n, i>>)].version = 2
=============================================================================
