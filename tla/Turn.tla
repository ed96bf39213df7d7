-------------------------------- MODULE Turn --------------------------------
(***************************************************************************)
(* One turn of the agent's loop (temporalai/agent.go) over its activities: *)
(* the model answers, the workflow writes what it said into message        *)
(* records, and runs a tool call the answer holds.  Other workflows ask    *)
(* for objects and texts of their own and get the bare result.             *)
(*                                                                         *)
(* Data abstraction: of the calls of an answer one is followed; module     *)
(* Agent has the others beside it, their records and approvals.  A record  *)
(* is the row of a message, told by its id and its field.                  *)
(***************************************************************************)
EXTENDS ModelActivity, ToolActivity

\* What a call of an answer passes is what a tool may get.
ASSUME TurnAssumption ==
    \A a \in Asks : \A i \in DOMAIN a.answer.calls : a.answer.calls[i].input \in Inputs

VARIABLES
    phase,    \* "model", "records", "tools" or "done"
    rows,     \* the message records of the stream
    writes,   \* the writes of message records still to be made
    followed  \* the id of the call that was run

turnOwn == <<phase, rows, writes, followed>>
turnVars == <<modelVars, toolVars, turnOwn>>

\* invokeAgentModel: a visible step streams, and the stream of an agent's step is
\* visible; it never asks for an object as such.
ByAgent == opts.api = IF opts.visible THEN "stream" ELSE "generate"

TurnInit ==
    /\ ModelInit
    /\ ToolInit
    /\ phase = "model"
    /\ rows = {}
    /\ writes = <<>>
    /\ followed = Nothing

\* Temporal runs the model activity, and again from nothing after an error.
Answers ==
    /\ phase = "model"
    /\ ModelNext
    /\ UNCHANGED <<toolVars, turnOwn>>

Forgets ==
    /\ said' = Silent
    /\ acc' = NoAcc
    /\ tracker' = NoTracker
    /\ lanes' = NoLanes

AskAgain ==
    /\ phase = "model"
    /\ at = "failed"
    /\ at' = "calling"
    /\ relay' = "on"
    /\ Forgets
    /\ UNCHANGED <<ask, result, toolVars, turnOwn>>

-----------------------------------------------------------------------------
(* writeAgentMessageRecords.                                               *)

Row(record, field, value) == [record |-> record, field |-> field, value |-> value]

\* ensurePreview and targetRecordID: the lanes of text and of objects are previews
\* of the step's message, that of reasoning has a record beside it.
RecordOf(lane) == IF lane = "reasoning" THEN "message:reasoning" ELSE "message"

FieldOfLane(lane, shown) ==
    IF lane = "object" THEN <<shown.object, shown.elements>> ELSE shown.text

\* The receipt of a lane as a row, if there is one.
LaneRow(lane, told) ==
    IF Lane(lane, Nothing) \notin DOMAIN told.receipts THEN <<>>
    ELSE <<Row(RecordOf(lane), lane, FieldOfLane(lane, told.receipts[Lane(lane, Nothing)]))>>

\* Mutant: the receipts of objects are passed over.
TextRowsOnly(told) == LaneRow("reasoning", told) \o LaneRow("text", told)

\* The lanes that are written, in the order of their receipts.
ReceiptRows(told) ==
    LaneRow("object", told) \o LaneRow("reasoning", told) \o LaneRow("text", told)

\* Without a receipt the step's text is written.
MessageRows(told) ==
    IF ReceiptRows(told) = <<>> THEN <<Row("message", "text", told.text)>> ELSE ReceiptRows(told)

\* What reaches the workflow of a result: its parts, each converted to its wire form
\* and back; the receipts only if it was streamed, for the results of InvokeModel and
\* GenerateObject lose them on the way back.
Received == [result EXCEPT !.receipts = IF Streams THEN @ ELSE <<>>]

TakeResult ==
    /\ phase = "model"
    /\ at = "returned"
    /\ phase' = IF ByAgent THEN "records" ELSE "done"
    /\ writes' = IF ByAgent THEN MessageRows(Received) ELSE <<>>
    /\ result' = Received
    /\ Forgets
    /\ UNCHANGED <<ask, at, relay, toolVars, rows, followed>>

TakeCancel ==
    /\ phase = "model"
    /\ at = "canceled"
    /\ phase' = "done"
    /\ UNCHANGED <<modelVars, toolVars, rows, writes, followed>>

\* The record's version 1 is stored with other content.
Conflicts(row) == \E r \in rows : r.record = row.record /\ r # row

\* WriteRecord: a conflict fails the activity, which is retried without end.
WriteMessage ==
    /\ phase = "records"
    /\ writes # <<>>
    /\ ~Conflicts(Head(writes))
    /\ rows' = rows \cup {Head(writes)}
    /\ writes' = Tail(writes)
    /\ UNCHANGED <<modelVars, toolVars, phase, followed>>

-----------------------------------------------------------------------------
(* extractToolCalls and the execution of a call.                           *)

\* A call that the result marks as hosted is not run.
LocalCalls == {i \in DOMAIN result.content : ~result.content[i].hosted}

\* The step's records are written; one of its calls is scheduled.
CallTool ==
    /\ phase = "records"
    /\ writes = <<>>
    /\ phase' = "tools"
    /\ \E i \in LocalCalls, t \in Tools :
          /\ followed' = result.content[i].id
          /\ Call(t, result.content[i].input)
    /\ result' = [result EXCEPT !.receipts = <<>>]
    /\ UNCHANGED <<ask, at, said, acc, tracker, lanes, relay, rows, writes>>

\* The call's executions take their steps; one that nobody waits for may go on
\* after the turn.
RunTool ==
    /\ phase \in {"tools", "done"}
    /\ attempt # 0
    /\ ToolNext
    /\ UNCHANGED <<modelVars, turnOwn>>

\* There is no call to run, or the answer of the one that was run came back.
EndTurn ==
    /\ \/ phase = "records" /\ writes = <<>> /\ LocalCalls = {}
       \/ phase = "tools" /\ accepted # 0
    /\ phase' = "done"
    /\ UNCHANGED <<modelVars, toolVars, rows, writes, followed>>

\* The turn is over; or it used up the executions of its bound.
Rest ==
    /\ \/ phase = "done"
       \/ attempt = MaxFaults + 1 /\ At(attempt, "failed")
    /\ UNCHANGED turnVars

TurnNext ==
    \/ Answers \/ AskAgain \/ TakeResult \/ TakeCancel
    \/ WriteMessage \/ CallTool \/ RunTool \/ EndTurn
    \/ Rest

TurnSpec == TurnInit /\ [][TurnNext]_turnVars

\* Workers poll, so that the execution that is waited for goes on, is retried, and
\* an activity that can succeed does; an answer that never comes is not assumed to.
Awaited ==
    /\ phase = "tools"
    /\ attempt # 0
    /\ Step(attempt) \/ Retry
    /\ UNCHANGED <<modelVars, turnOwn>>

TurnFairness ==
    /\ WF_turnVars(TakeResult)
    /\ WF_turnVars(WriteMessage)
    /\ WF_turnVars(CallTool)
    /\ WF_turnVars(Awaited)
    /\ WF_turnVars(EndTurn)

FairTurnSpec == TurnSpec /\ TurnFairness

-----------------------------------------------------------------------------
(* Properties.                                                             *)

\* What a step said reaches its message records whatever the receipts that came
\* with it: the text or the value of the answer, and the reasoning that was shown.
\* Left out is the stream that went missing while the lanes were being ended, after
\* which the receipts of the others keep the text from being written.
RecordTellsStep ==
    phase = "records" /\ writes = <<>> =>
        LET whole == relay = "on" \/ DOMAIN result.receipts = {}
            shown == opts.visible /\ relay = "on"
        IN /\ whole /\ result.text # <<>> /\ (~shown \/ opts.lane = "text") =>
                 Row("message", "text", result.text) \in rows
           /\ shown /\ opts.lane = "object" /\ opts.json /\ IsJSON(result.text) =>
                 Row("message", "object", <<Value(result.text), FinalElements(result.text)>>) \in rows
           /\ shown /\ result.reasoning # <<>> =>
                 Row("message:reasoning", "reasoning", result.reasoning) \in rows

\* A record's version is written with one content ("Reusing a version with a
\* different event ID or payload is a conflict", protocol/v2/README.md:48).
NoRecordConflict ==
    phase = "records" /\ writes # <<>> => ~Conflicts(Head(writes))

\* An execution of a tool runs with the input the provider meant for that call,
\* even of a stream that ended before the provider was done.
ToolRanAsIntended ==
    \A e \in Executions : exec[e].run # None =>
        \E i \in DOMAIN answer.calls :
            answer.calls[i].id = followed /\ answer.calls[i].input = input

\* A turn whose model answered ends, whatever executions of its tool time out or
\* fail, as long as a store is configured for what must be stored and the records
\* of the step do not conflict (NoRecordConflict): a write that does is retried
\* without end, and run turn has no ask that leads to it.
TurnEnds ==
    phase = "records" ~> phase = "done" \/ (attempt # 0 /\ ~tool.store)
=============================================================================
