---------------------------- MODULE AgentProofs ----------------------------
(* Theorems about Agent, for every value of its constants.                 *)
EXTENDS Agent, FiniteSetTheorems, TLAPS

USE AgentAssumption

-----------------------------------------------------------------------------
(* Types, and what the main routine's place says of the rest.              *)

Quiet == \A i \in 1..MaxCalls : routine[i].at = "none"

\* In sequence a call begins when those before it have ended.
InSequence ==
    input.execution # "parallel" =>
        \A i, j \in Executed : i < j /\ routine[j].at # "none" => routine[i].at = "ended"

\* Calls come to their end only in a step that is under way.
Main ==
    /\ pc \in {"started", "model", "message", "progress"} => Quiet
    /\ pc \in {"started", "model", "message", "progress", "tools"} =>
            outcome = "none" /\ Len(steps) < MaxSteps
    /\ pc \in {"ending", "done"} => outcome # "none"
    /\ pc \in {"message", "progress", "tools"} \/ ~Quiet =>
            Len(steps) < MaxSteps /\ calls \in Outputs[Len(steps)]
    /\ outcome = "ok" => Quiet
    /\ \A i \in 1..MaxCalls : routine[i].at # "none" => i \in Executed
    /\ \A i \in 1..MaxCalls : routine[i].at = "record2" => routine[i].result # "none"
    /\ InSequence

Final == {"succeeded", "failed", "denied"}

\* Each outcome received fills the slot of its call.
Filled ==
    pc = "tools" =>
        /\ results \in [1..Cardinality(Executed) -> Result \cup {<<>>}]
        /\ \A i \in Ended : /\ routine[i].result \in Final
                            /\ results[ResultSlot(i)] =
                                  [call |-> i, status |-> routine[i].result]

TypeInv == TypeOK /\ Main /\ Filled

-----------------------------------------------------------------------------
(* The slots of the results.                                               *)

LEMMA CallsType == ASSUME TypeOK
                   PROVE  calls \in Seq(ToolCall) /\ Len(calls) \in 0..MaxCalls
<1>1. CASE calls = <<>>
    BY <1>1
<1>2. ASSUME NEW n \in DOMAIN Outputs, calls \in Outputs[n] PROVE calls \in Seq(ToolCall) /\ Len(calls) <= MaxCalls
    BY <1>2
<1>3. \/ calls = <<>>
      \/ \E n \in DOMAIN Outputs : calls \in Outputs[n]
    BY DEF TypeOK
<1> QED  BY <1>1, <1>2, <1>3

\* The calls a step executes are numbered without a gap, in their order.
LEMMA Slots ==
    ASSUME calls \in Seq(ToolCall)
    PROVE  /\ IsFiniteSet(Executed)
           /\ Cardinality(Executed) \in Nat
           /\ \A i \in Executed : ResultSlot(i) \in 1..Cardinality(Executed)
           /\ \A i, j \in Executed : i < j => ResultSlot(i) < ResultSlot(j)
           /\ \A k \in 1..Cardinality(Executed) : \E i \in Executed : ResultSlot(i) = k
<1> DEFINE Upto(i) == {j \in Executed : j <= i}
<1>1. IsFiniteSet(Executed) /\ Executed \subseteq Nat
    <2>1. IsFiniteSet(1..Len(calls))
        BY FS_Interval
    <2>2. Executed \subseteq 1..Len(calls)
        BY DEF Executed
    <2> QED  BY <2>1, <2>2, FS_Subset
<1>2. Cardinality(Executed) \in Nat
    BY <1>1, FS_CardinalityType
<1>3. \A i \in Executed : /\ IsFiniteSet(Upto(i))
                          /\ Cardinality(Upto(i)) \in 1..Cardinality(Executed)
    <2> TAKE i \in Executed
    <2>1. Upto(i) \subseteq Executed /\ i \in Upto(i)
        BY <1>1
    <2>2. IsFiniteSet(Upto(i)) /\ Cardinality(Upto(i)) <= Cardinality(Executed)
        BY <1>1, <2>1, FS_Subset
    <2>3. Cardinality(Upto(i)) \in Nat /\ Cardinality(Upto(i)) # 0
        BY <2>1, <2>2, FS_EmptySet, FS_CardinalityType
    <2> HIDE DEF Upto
    <2> QED  BY <1>2, <2>2, <2>3
<1>4. \A i, j \in Executed : i < j => Cardinality(Upto(i)) < Cardinality(Upto(j))
    <2> SUFFICES ASSUME NEW i \in Executed, NEW j \in Executed, i < j
                 PROVE  Cardinality(Upto(i)) < Cardinality(Upto(j))
        OBVIOUS
    <2>1. Upto(i) \subseteq Upto(j) /\ j \in Upto(j) /\ j \notin Upto(i)
        <3>1. i \in Nat /\ j \in Nat /\ \A k \in Executed : k \in Nat
            BY <1>1
        <3>2. ASSUME NEW k \in Executed, k <= i PROVE k <= j
            BY <3>1, <3>2
        <3>3. ~(j <= i) /\ j <= j
            BY <3>1
        <3> QED  BY <3>2, <3>3, Zenon
    <2>2. Cardinality(Upto(i)) <= Cardinality(Upto(j)) /\ Cardinality(Upto(i)) # Cardinality(Upto(j))
        BY <1>3, <2>1, FS_Subset
    <2>3. Cardinality(Upto(i)) \in Nat /\ Cardinality(Upto(j)) \in Nat
        BY <1>2, <1>3
    <2> HIDE DEF Upto
    <2> QED  BY <2>2, <2>3
<1>5. \A k \in 1..Cardinality(Executed) : \E i \in Executed : Cardinality(Upto(i)) = k
    <2> DEFINE f == [i \in Executed |-> Cardinality(Upto(i))]
               T == 1..Cardinality(Executed)
    <2>1. IsFiniteSet(T) /\ Cardinality(T) = Cardinality(Executed)
        BY <1>2, FS_Interval
    <2>2. f \in [Executed -> T]
        BY <1>3
    <2>3. \A i, j \in Executed : i # j => Cardinality(Upto(i)) # Cardinality(Upto(j))
        <3> SUFFICES ASSUME NEW i \in Executed, NEW j \in Executed, i # j
                     PROVE  Cardinality(Upto(i)) # Cardinality(Upto(j))
            OBVIOUS
        <3>1. i < j \/ j < i
            BY <1>1
        <3>2. Cardinality(Upto(i)) \in Nat /\ Cardinality(Upto(j)) \in Nat
            BY <1>2, <1>3
        <3> HIDE DEF Upto
        <3> QED  BY <1>4, <3>1, <3>2
    <2>4. f \in Injection(Executed, T)
        BY <2>2, <2>3, Zenon DEF Injection, IsInjective
    <2>5. f \in Surjection(Executed, T)
        BY <2>1, <2>4, FS_Injection
    <2> QED  BY <2>5 DEF Surjection
<1> QED  BY <1>1, <1>2, <1>3, <1>4, <1>5 DEF ResultSlot

\* All outcomes were received when the main routine has counted that many.
LEMMA AllEnded ==
    ASSUME TypeInv, Cardinality(Ended) = Awaited
    PROVE  Ended = Executed
<1>1. calls \in Seq(ToolCall)
    BY CallsType DEF TypeInv
<1>2. Ended \subseteq Executed
    BY DEF TypeInv, Main, Ended
<1> QED  BY <1>1, <1>2, Slots, FS_Subset DEF Awaited

-----------------------------------------------------------------------------
(* What a step does to the rows.                                           *)

RowType == [version : 0..MaxSteps + 2, status : Statuses]
RoutineType == [at : Labels,
                answer : {"none", "approved", "denied", "timed-out"},
                result : {"none", "succeeded", "failed", "denied", "error"}]

\* The record activities that may be in flight.
MainOffer ==
    CASE pc = "message" -> {Write(MessageRecord(stepNumber), 1, "completed")}
      [] pc \in {"started", "progress", "ending"} -> IF input.child THEN {Progress} ELSE {}
      [] OTHER -> {}
Offered == MainOffer \cup {CallWrite(i) : i \in {j \in 1..MaxCalls : Writing(j)}}

LEMMA IdType ==
    ASSUME TypeOK, Len(steps) < MaxSteps, NEW i \in 0..MaxCalls
    PROVE  Id(i) \in CallId
<1>1. Len(steps) \in Nat
    BY DEF TypeOK
<1> QED  BY <1>1 DEF Id, stepNumber, CallId

LEMMA OfferedCall ==
    ASSUME TypeInv, NEW i \in 1..MaxCalls, Writing(i)
    PROVE  /\ CallWrite(i).id \in {ToolRecord(Id(i)), InteractionRecord(Id(i))}
           /\ CallWrite(i).id \in RecordId
           /\ CallWrite(i).row \in RowType
           /\ CallWrite(i).row.version \in {1, 2}
           /\ CallWrite(i) \in [id : RecordId, row : RowType]
<1>1. routine[i] \in RoutineType /\ routine[i].at # "none"
    BY DEF TypeInv, TypeOK, RoutineType, Writing
<1>2. Len(steps) < MaxSteps
    BY <1>1 DEF TypeInv, Main, Quiet
<1>3. Id(i) \in CallId
    BY <1>2, IdType DEF TypeInv
<1>4. /\ ToolRecord(Id(i)) \in RecordId
      /\ InteractionRecord(Id(i)) \in RecordId
    BY <1>3 DEF RecordId, ToolRecord, InteractionRecord
<1>5. 1 \in 0..MaxSteps + 2 /\ 2 \in 0..MaxSteps + 2
    OBVIOUS
<1>6. {"running", "pending"} \subseteq Statuses /\ routine[i].answer \in Statuses
    BY <1>1 DEF Statuses, RoutineType
<1>7. ToolStatus(routine[i].result) \in Statuses
    BY <1>1 DEF Statuses, RoutineType, ToolStatus
<1>8. CASE routine[i].at = "record1"
    BY <1>8, <1>4, <1>5, <1>6 DEF CallWrite, Write, RowType
<1>9. CASE routine[i].at = "ask"
    BY <1>9, <1>4, <1>5, <1>6 DEF CallWrite, Write, RowType
<1>10. CASE routine[i].at = "answer"
    BY <1>10, <1>4, <1>5, <1>6 DEF CallWrite, Write, RowType
<1>11. CASE routine[i].at = "record2"
    BY <1>11, <1>4, <1>5, <1>7 DEF CallWrite, Write, RowType
<1> QED  BY <1>8, <1>9, <1>10, <1>11 DEF Writing

LEMMA OfferedMain ==
    ASSUME TypeInv, NEW w \in MainOffer
    PROVE  /\ w \in [id : RecordId, row : RowType]
           /\ w.id = SubagentRecord \/ w.id = MessageRecord(stepNumber)
<1>0. Len(steps) \in Nat
    BY DEF TypeInv, TypeOK
<1>1. SubagentRecord \in RecordId
    BY DEF SubagentRecord, RecordId, CallId
<1>2. {"completed", "running", "failed"} \subseteq Statuses
    BY DEF Statuses
<1>3. CASE pc = "message"
    <2>1. Id(0) \in CallId
        BY <1>3, IdType DEF TypeInv, Main
    <2>2. MessageRecord(stepNumber) \in RecordId
        BY <2>1 DEF MessageRecord, RecordId, Id
    <2> QED  BY <1>2, <1>3, <2>2 DEF MainOffer, Write, RowType
<1>4. CASE pc = "started"
    BY <1>1, <1>2, <1>4 DEF MainOffer, Progress, Write, RowType
<1>5. CASE pc = "progress"
    <2>1. stepNumber + 2 \in 0..MaxSteps + 2
        BY <1>0, <1>5 DEF stepNumber, TypeInv, Main
    <2> QED  BY <1>1, <1>2, <1>5, <2>1 DEF MainOffer, Progress, Write, RowType
<1>6. CASE pc = "ending"
    <2>1. Len(steps) + 2 \in 0..MaxSteps + 2
        BY <1>0 DEF TypeInv, TypeOK
    <2> QED  BY <1>1, <1>2, <1>6, <2>1 DEF MainOffer, Progress, Write, RowType
<1>7. CASE pc \notin {"message", "started", "progress", "ending"}
    BY <1>7 DEF MainOffer
<1> QED  BY <1>3, <1>4, <1>5, <1>6, <1>7

\* A row is replaced by one of a higher version only.
Written(r, ws) ==
    \/ records'[r] = records[r]
    \/ \E w \in ws : w.id = r /\ records[r].version < w.row.version /\ records'[r] = w.row

LEMMA StoredRows ==
    ASSUME NEW ws, records' = Stored(ws)
    PROVE  /\ DOMAIN records' = RecordId
           /\ \A r \in RecordId : Written(r, ws)
<1>1. DOMAIN records' = RecordId
    BY DEF Stored
<1>2. ASSUME NEW r \in RecordId PROVE Written(r, ws)
    <2> DEFINE newer == {w \in ws : w.id = r /\ w.row.version > records[r].version}
    <2>1. records'[r] = IF newer = {} THEN records[r] ELSE (CHOOSE w \in newer : TRUE).row
        BY DEF Stored
    <2>2. CASE newer = {}
        BY <2>1, <2>2 DEF Written
    <2>3. CASE newer # {}
        <3>1. (CHOOSE w \in newer : TRUE) \in newer
            BY <2>3
        <3>2. PICK w \in newer : records'[r] = w.row
            BY <2>1, <2>3, <3>1
        <3> QED  BY <3>2 DEF Written
    <2> QED  BY <2>2, <2>3
<1> QED  BY <1>1, <1>2

\* Every step stores a set of the records in flight, mostly none or one.
LEMMA RowsStep ==
    ASSUME TypeInv, [Next]_vars
    PROVE  /\ records' \in [RecordId -> RowType]
           /\ \A r \in RecordId : Written(r, Offered)
<1>1. ASSUME records' = records
      PROVE  /\ records' \in [RecordId -> RowType]
             /\ \A r \in RecordId : Written(r, Offered)
    BY <1>1 DEF TypeInv, TypeOK, RowType, Written
<1>2. ASSUME NEW ws \in SUBSET Offered, records' = Stored(ws)
      PROVE  /\ records' \in [RecordId -> RowType]
             /\ \A r \in RecordId : Written(r, Offered)
    <2>1. DOMAIN records' = RecordId /\ \A r \in RecordId : Written(r, ws)
        BY <1>2, StoredRows
    <2>2. \A w \in Offered : w.row \in RowType
        BY OfferedCall, OfferedMain DEF Offered
    <2>3. \A r \in RecordId : records[r] \in RowType
        BY DEF TypeInv, TypeOK, RowType
    <2>4. \A r \in RecordId : records'[r] \in RowType
        BY <1>2, <2>1, <2>2, <2>3 DEF Written
    <2>5. records' = [r \in RecordId |-> records'[r]]
        BY <1>2 DEF Stored
    <2> QED  BY <1>2, <2>1, <2>4, <2>5 DEF Written
<1>3. ASSUME NEW w \in Offered, Writes(w) \/ WriteFails(w)
      PROVE  /\ records' \in [RecordId -> RowType]
             /\ \A r \in RecordId : Written(r, Offered)
    <2>1. records' = records \/ records' = Stored({w})
        BY <1>3 DEF Writes, WriteFails
    <2>2. {w} \in SUBSET Offered
        BY <1>3
    <2> QED  BY <1>1, <1>2, <2>1, <2>2
<1>4. ASSUME pc \in {"started", "progress", "ending"}, Publishes \/ PublishFails
      PROVE  /\ records' \in [RecordId -> RowType]
             /\ \A r \in RecordId : Written(r, Offered)
    <2>1. input.child => Progress \in Offered
        BY <1>4 DEF Offered, MainOffer
    <2> QED  BY <1>1, <1>3, <1>4, <2>1 DEF Publishes, PublishFails
<1>5. ASSUME NEW i \in 1..MaxCalls, Writing(i)
      PROVE  CallWrite(i) \in Offered
    BY <1>5 DEF Offered
<1>6. CASE MainStep
    <2>1. CASE Start \/ PublishStep \/ Finish
        BY <1>4, <2>1 DEF Start, PublishStep, Finish
    <2>2. CASE WriteMessage
        BY <1>3, <2>2 DEF WriteMessage, Offered, MainOffer
    <2>3. CASE ModelReturns \/ ModelFails \/ ToolsReturn
        BY <1>1, <2>3 DEF ModelReturns, ModelFails, ToolsReturn, ActivityFails
    <2> QED  BY <1>6, <2>1, <2>2, <2>3 DEF MainStep
<1>7. ASSUME NEW i \in 1..MaxCalls, CallStep(i)
      PROVE  /\ records' \in [RecordId -> RowType]
             /\ \A r \in RecordId : Written(r, Offered)
    <2>1. CASE WriteRunning(i) \/ AskApproval(i) \/ WriteAnswer(i) \/ WriteOutcome(i)
        BY <1>3, <1>5, <2>1 DEF WriteRunning, AskApproval, WriteAnswer, WriteOutcome, At, Writing
    <2>2. CASE TakeResponse(i) \/ TimeOut(i) \/ ToolReturns(i) \/ ToolFails(i)
        BY <1>1, <2>2 DEF TakeResponse, TimeOut, ToolReturns, ToolFails, ActivityFails
    <2> QED  BY <1>7, <2>1, <2>2 DEF CallStep
<1>8. ASSUME NEW i \in 1..MaxCalls, WriteLate(i)
      PROVE  /\ records' \in [RecordId -> RowType]
             /\ \A r \in RecordId : Written(r, Offered)
    <2>1. {CallWrite(i)} \in SUBSET Offered /\ records' = Stored({CallWrite(i)})
        BY <1>5, <1>8 DEF WriteLate
    <2> QED  BY <1>2, <2>1
<1>9. CASE Cancel
    <2>1. records' = records \/ \E ws \in SUBSET Offered : records' = Stored(ws)
        BY <1>9 DEF Cancel, Offered, MainOffer
    <2> QED  BY <1>1, <1>2, <2>1
<1>10. CASE Respond \/ UNCHANGED vars
    BY <1>1, <1>10 DEF Respond, vars
<1> QED  BY <1>6, <1>7, <1>8, <1>9, <1>10 DEF Next

-----------------------------------------------------------------------------
(* The type invariant holds at first and is preserved.                     *)

LEMMA TypeInvInit == ASSUME Init PROVE TypeInv
<1>1. records \in [RecordId -> RowType]
    BY DEF Init, NoRow, RowType, Statuses
<1>2. routine \in [1..MaxCalls -> RoutineType]
    BY DEF Init, NoRoutine, RoutineType, Labels
<1>3. TypeOK
    <2>1. steps \in Seq([calls : Seq(ToolCall), results : Seq(Result)]) /\ Len(steps) = 0
        BY DEF Init
    <2>2. channels \in [CallId -> Seq(Response)]
        BY DEF Init
    <2>3. calls \in {<<>>} /\ results \in Seq(Result \cup {<<>>})
        BY DEF Init
    <2>4. sent \in Seq([name : CallId, response : Response]) /\ ran \subseteq CallId /\ faults \in 0..MaxFaults
        BY DEF Init
    <2>5. \A n \in DOMAIN steps : steps[n].calls \in Outputs[n - 1]
        BY DEF Init
    <2>6. /\ input \in Inputs /\ cancelled \in BOOLEAN /\ pc = "started" /\ outcome = "none"
        BY Zenon DEF Init
    <2>7. Len(steps) <= MaxSteps
        BY <2>1
    <2> QED  BY <1>1, <1>2, <2>1, <2>7, <2>2, <2>3, <2>4, <2>5, <2>6 DEF TypeOK, RowType, RoutineType
<1>4. Main /\ Filled
    BY DEF Init, Main, Filled, Quiet, NoRoutine, InSequence, Executed
<1> QED  BY <1>3, <1>4 DEF TypeInv

LEMMA ExecutedType == ASSUME TypeOK PROVE Executed \subseteq 1..MaxCalls
BY CallsType DEF Executed

\* A coroutine that stays short of its end disturbs nobody else.
LEMMA CallMoves ==
    ASSUME TypeInv, NEW i \in 1..MaxCalls, NEW x \in RoutineType,
           routine[i].at \notin {"none", "ended"}, x.at \notin {"none", "ended"},
           x.at = "record2" => x.result # "none",
           routine' = [routine EXCEPT ![i] = x],
           UNCHANGED <<input, pc, outcome, steps, calls, results>>
    PROVE  routine' \in [1..MaxCalls -> RoutineType] /\ Main' /\ Filled'
<1>1. routine \in [1..MaxCalls -> RoutineType]
    BY DEF TypeInv, TypeOK, RoutineType
<1>2. routine' \in [1..MaxCalls -> RoutineType]
    BY <1>1
<1>3. \A j \in 1..MaxCalls : (routine'[j].at = "none") <=> (routine[j].at = "none")
    BY <1>1
<1>4. \A j \in 1..MaxCalls : (routine'[j].at = "ended") <=> (routine[j].at = "ended")
    BY <1>1
<1>5. \A j \in Ended : routine'[j] = routine[j]
    BY <1>1 DEF Ended
<1>6. Executed' = Executed /\ Ended' = Ended
    BY <1>4 DEF Executed, Ended
<1>7. Main'
    <2>1. Executed \subseteq 1..MaxCalls
        BY ExecutedType DEF TypeInv
    <2>2. InSequence'
        BY <1>3, <1>4, <1>6, <2>1 DEF TypeInv, Main, InSequence
    <2>3. \A j \in 1..MaxCalls : routine'[j].at = "record2" => routine'[j].result # "none"
        BY <1>1 DEF TypeInv, Main
    <2> QED  BY <1>3, <1>6, <2>2, <2>3 DEF TypeInv, Main, Quiet
<1>8. \A j \in 1..MaxCalls : ResultSlot(j)' = ResultSlot(j)
    BY <1>6 DEF ResultSlot
<1>9. Filled'
    BY <1>5, <1>6, <1>8 DEF TypeInv, Filled, Ended
<1> QED  BY <1>2, <1>7, <1>9

\* A call that fails ends the agent, unless it has ended.
LEMMA CallFailsOK ==
    ASSUME TypeInv, NEW i \in 1..MaxCalls, routine[i].at # "none", CallFails(i),
           UNCHANGED <<input, steps, calls>>
    PROVE  /\ routine' \in [1..MaxCalls -> RoutineType] /\ Main' /\ Filled'
           /\ results' = results
           /\ pc' \in {pc, "ending"} /\ outcome' \in {outcome, "error"}
<1>1. routine \in [1..MaxCalls -> RoutineType]
    BY DEF TypeInv, TypeOK, RoutineType
<1>2. routine' = [routine EXCEPT ![i] = [routine[i] EXCEPT !.at = "ended", !.result = "error"]]
    BY <1>1 DEF CallFails
<1>3. [routine[i] EXCEPT !.at = "ended", !.result = "error"] \in RoutineType
    BY <1>1 DEF RoutineType, Labels
<1>4. routine' \in [1..MaxCalls -> RoutineType]
    BY <1>1, <1>2, <1>3
<1>5. \A j \in 1..MaxCalls : (routine'[j].at = "none") <=> (routine[j].at = "none")
    BY <1>1, <1>2, <1>3
<1>6. ~Quiet
    BY DEF Quiet
<1>7. outcome # "ok" /\ pc \notin {"started", "model", "message", "progress"}
    BY <1>6 DEF TypeInv, Main
<1>8. /\ pc' = "tools" => FALSE
      /\ pc = "tools" => pc' = "ending" /\ outcome' = "error"
      /\ pc # "tools" => pc' = pc /\ outcome' = outcome
    BY DEF CallFails, Returns
<1>9. Executed' = Executed /\ (Quiet' <=> Quiet)
    BY <1>5 DEF Executed, Quiet
<1>10. Main'
    <2>1. Executed \subseteq 1..MaxCalls
        BY ExecutedType DEF TypeInv
    <2>2. \A j \in 1..MaxCalls : routine[j].at = "ended" => routine'[j].at = "ended"
        BY <1>1, <1>2, <1>3
    <2>3. InSequence'
        BY <1>5, <1>9, <2>1, <2>2 DEF TypeInv, Main, InSequence
    <2>4. \A j \in 1..MaxCalls : routine'[j].at = "record2" => routine'[j].result # "none"
        BY <1>1, <1>2 DEF TypeInv, Main, RoutineType
    <2> QED  BY <2>3, <2>4, <1>5, <1>7, <1>8, <1>9 DEF TypeInv, TypeOK, Main
<1>11. Filled'
    BY <1>8 DEF Filled
<1> QED  BY <1>4, <1>8, <1>10, <1>11 DEF CallFails

\* A call that succeeds fills its slot and no other.
LEMMA CallSucceedsOK ==
    ASSUME TypeInv, NEW i \in 1..MaxCalls, routine[i].at \notin {"none", "ended"},
           routine[i].result \in Final, CallSucceeds(i), UNCHANGED <<input, steps, calls>>
    PROVE  /\ routine' \in [1..MaxCalls -> RoutineType] /\ Main' /\ Filled'
           /\ results' \in Seq(Result \cup {<<>>})
<1>1. routine \in [1..MaxCalls -> RoutineType]
    BY DEF TypeInv, TypeOK, RoutineType
<1>2. /\ calls \in Seq(ToolCall) /\ Executed \subseteq 1..MaxCalls /\ i \in Executed
      /\ Len(calls) \in 0..MaxCalls
    BY ExecutedType, CallsType DEF TypeInv, Main
<1>3. PICK next \in SUBSET Executed :
            /\ routine' = [j \in DOMAIN routine |->
                    CASE j = i -> [routine[i] EXCEPT !.at = "ended"]
                      [] j \in next -> [NoRoutine EXCEPT !.at = "record1"]
                      [] OTHER -> routine[j]]
            /\ next = IF input.execution = "parallel" THEN {}
                      ELSE {j \in Executed : j > i /\ \A k \in Executed : k > i => j <= k}
    <2> DEFINE later == {j \in Executed : j > i}
               next == IF input.execution = "parallel" THEN {}
                       ELSE {j \in later : \A k \in later : j <= k}
    <2>1. next = IF input.execution = "parallel" THEN {}
                 ELSE {j \in Executed : j > i /\ \A k \in Executed : k > i => j <= k}
        BY Zenon
    <2>2. routine' = [j \in DOMAIN routine |->
                    CASE j = i -> [routine[i] EXCEPT !.at = "ended"]
                      [] j \in next -> [NoRoutine EXCEPT !.at = "record1"]
                      [] OTHER -> routine[j]]
        BY Zenon DEF CallSucceeds
    <2> HIDE DEF next
    <2>3. next \in SUBSET Executed
        BY <2>1
    <2> QED  BY <2>1, <2>2, <2>3
<1>4. i \notin next /\ \A j \in next : input.execution # "parallel" /\ j > i
    BY <1>2, <1>3
<1>5. \A j \in next : routine[j].at = "none"
    BY <1>2, <1>3, <1>4 DEF TypeInv, Main, InSequence
<1>6. /\ [routine[i] EXCEPT !.at = "ended"] \in RoutineType
      /\ [NoRoutine EXCEPT !.at = "record1"] \in RoutineType
    BY <1>1 DEF RoutineType, Labels, NoRoutine
<1>7. /\ routine' \in [1..MaxCalls -> RoutineType]
      /\ routine'[i] = [routine[i] EXCEPT !.at = "ended"]
      /\ \A j \in next : routine'[j] = [NoRoutine EXCEPT !.at = "record1"]
      /\ \A j \in 1..MaxCalls : j # i /\ j \notin next => routine'[j] = routine[j]
    BY <1>1, <1>2, <1>3, <1>4, <1>6
<1>8. /\ routine'[i].at = "ended" /\ routine'[i].result = routine[i].result
      /\ \A j \in next : routine'[j].at = "record1"
    BY <1>1, <1>7 DEF NoRoutine, RoutineType
<1>9. UNCHANGED <<pc, outcome>> /\ Executed' = Executed
    BY DEF CallSucceeds, Executed
<1>10. ~Quiet /\ ~Quiet'
    BY <1>8 DEF Quiet
<1>11. InSequence'
    <2> SUFFICES ASSUME input.execution # "parallel", NEW k \in Executed, NEW j \in Executed,
                        k < j, routine'[j].at # "none"
                 PROVE  routine'[k].at = "ended"
        BY <1>9 DEF InSequence
    <2>1. k \in 1..MaxCalls /\ j \in 1..MaxCalls /\ k \in Nat /\ j \in Nat
        <3>1. k \in 1..MaxCalls /\ j \in 1..MaxCalls
            BY <1>2, Zenon
        <3> QED  BY <3>1
    <2>2. CASE j \in next
        <3>1. k <= i
            BY <1>2, <1>3, <2>1, <2>2
        <3>2. k # i => routine[k].at = "ended" /\ k \notin next
            BY <1>2, <1>4, <2>1, <3>1 DEF TypeInv, Main, InSequence
        <3> QED  BY <1>7, <1>8, <2>1, <3>2
    <2>3. CASE j \notin next
        <3>1. routine[j].at # "none"
            BY <1>7, <2>1, <2>3
        <3>2. routine[k].at = "ended"
            BY <3>1 DEF TypeInv, Main, InSequence
        <3>3. k # i /\ k \notin next
            BY <1>5, <3>2
        <3> QED  BY <1>7, <2>1, <3>2, <3>3
    <2> QED  BY <2>2, <2>3
<1>12. Main'
    <2>1. \A j \in 1..MaxCalls : routine'[j].at = "record2" => routine'[j].result # "none"
        BY <1>7, <1>8 DEF TypeInv, Main
    <2> QED  BY <1>2, <1>7, <1>9, <1>10, <1>11, <2>1 DEF TypeInv, Main
<1>13. /\ IsFiniteSet(Executed) /\ Cardinality(Executed) \in Nat
       /\ \A j \in Executed : ResultSlot(j) \in 1..Cardinality(Executed)
       /\ \A j, k \in Executed : j < k => ResultSlot(j) < ResultSlot(k)
    BY <1>2, Slots
<1>14. \A j \in Executed : j # i => ResultSlot(j) # ResultSlot(i)
    <2> TAKE j \in Executed
    <2>1. j \in Nat /\ i \in Nat /\ ResultSlot(j) \in Int /\ ResultSlot(i) \in Int
        BY <1>2, <1>13
    <2>2. j # i => j < i \/ i < j
        BY <2>1
    <2> QED  BY <1>2, <1>13, <2>1, <2>2
<1>15. [call |-> i, status |-> routine[i].result] \in Result
    BY DEF Result, Final
<1>16. Filled'
    <2> SUFFICES ASSUME pc = "tools"
                 PROVE  Filled'
        BY <1>9 DEF Filled
    <2>1. results' = [results EXCEPT ![ResultSlot(i)] = [call |-> i, status |-> routine[i].result]]
        BY DEF CallSucceeds
    <2>2. results \in [1..Cardinality(Executed) -> Result \cup {<<>>}]
        BY DEF TypeInv, Filled
    <2>3. results' \in [1..Cardinality(Executed) -> Result \cup {<<>>}]
        BY <1>15, <2>1, <2>2
    <2>4. ASSUME NEW j \in 1..MaxCalls, routine'[j].at = "ended"
          PROVE  /\ routine'[j].result \in Final
                 /\ results'[ResultSlot(j)] = [call |-> j, status |-> routine'[j].result]
        <3>1. CASE j = i
            BY <1>2, <1>8, <1>13, <2>1, <2>2, <3>1
        <3>2. CASE j # i
            <4>1. j \notin next /\ routine'[j] = routine[j]
                BY <1>7, <1>8, <2>4, <3>2
            <4>2. j \in Ended /\ j \in Executed
                BY <2>4, <4>1 DEF Ended, TypeInv, Main
            <4>3. results'[ResultSlot(j)] = results[ResultSlot(j)]
                BY <1>13, <1>14, <2>1, <2>2, <3>2, <4>2
            <4> QED  BY <4>1, <4>2, <4>3 DEF TypeInv, Filled
        <3> QED  BY <3>1, <3>2
    <2>5. \A j \in 1..MaxCalls : ResultSlot(j)' = ResultSlot(j)
        BY <1>9 DEF ResultSlot
    <2>6. \A j \in Ended' : j \in 1..MaxCalls /\ routine'[j].at = "ended"
        BY DEF Ended
    <2> QED  BY <1>9, <2>3, <2>4, <2>5, <2>6 DEF Filled
<1>17. results' \in Seq(Result \cup {<<>>})
    <2>1. CASE pc = "tools"
        BY <1>9, <1>13, <1>16, <2>1 DEF Filled
    <2>2. CASE pc # "tools"
        BY <2>2 DEF CallSucceeds, TypeInv, TypeOK
    <2> QED  BY <2>1, <2>2
<1> QED  BY <1>7, <1>12, <1>16, <1>17

\* The step of a coroutine that keeps its variables within their types.
LEMMA CallTypes ==
    ASSUME TypeInv, UNCHANGED <<input, cancelled, steps, calls>>,
           records' \in [RecordId -> RowType], routine' \in [1..MaxCalls -> RoutineType],
           Main', Filled', pc' \in {pc, "ending"}, outcome' \in {outcome, "error"},
           results' \in Seq(Result \cup {<<>>}),
           channels' \in [CallId -> Seq(Response)], sent' = sent,
           ran' \subseteq CallId, faults' \in 0..MaxFaults
    PROVE  TypeInv'
<1>1. /\ pc' \in {"started", "model", "message", "progress", "tools", "ending", "done"}
      /\ outcome' \in {"none", "ok", "error"}
    BY DEF TypeInv, TypeOK
<1>2. /\ input' \in Inputs /\ cancelled' \in BOOLEAN
      /\ calls' \in {<<>>} \cup UNION {Outputs[n] : n \in DOMAIN Outputs}
    BY Zenon DEF TypeInv, TypeOK
<1>3. /\ steps' \in Seq([calls : Seq(ToolCall), results : Seq(Result)])
      /\ Len(steps') <= MaxSteps
      /\ \A n \in DOMAIN steps' : steps'[n].calls \in Outputs[n - 1]
    BY Zenon DEF TypeInv, TypeOK
<1>4. sent' \in Seq([name : CallId, response : Response])
    BY DEF TypeInv, TypeOK
<1>5. TypeOK'
    BY <1>1, <1>2, <1>3, <1>4, Zenon DEF TypeOK, RowType, RoutineType
<1> QED  BY <1>5 DEF TypeInv

LEMMA FaultsStep ==
    ASSUME TypeOK, \/ UNCHANGED faults \/ ActivityFails
                   \/ \E w \in Offered : Writes(w) \/ WriteFails(w)
    PROVE  faults' \in 0..MaxFaults
<1>1. faults' = faults \/ (faults < MaxFaults /\ faults' = faults + 1)
    BY DEF ActivityFails, Writes, WriteFails
<1> QED  BY <1>1 DEF TypeOK

LEMMA StartToolOK ==
    ASSUME TypeInv, NEW i \in 1..MaxCalls, routine[i].at \notin {"none", "ended"},
           StartTool(i), UNCHANGED <<input, pc, outcome, steps, calls, results>>
    PROVE  /\ routine' \in [1..MaxCalls -> RoutineType] /\ Main' /\ Filled'
           /\ ran' \subseteq CallId
<1>1. routine \in [1..MaxCalls -> RoutineType]
    BY DEF TypeInv, TypeOK, RoutineType
<1>2. routine' = [routine EXCEPT ![i] = [routine[i] EXCEPT !.at = "run"]]
    BY <1>1 DEF StartTool, Goto
<1>3. [routine[i] EXCEPT !.at = "run"] \in RoutineType /\ [routine[i] EXCEPT !.at = "run"].at = "run"
    BY <1>1 DEF RoutineType, Labels
<1>4. routine' \in [1..MaxCalls -> RoutineType] /\ Main' /\ Filled'
    BY <1>2, <1>3, CallMoves
<1>5. Id(i) \in CallId
    BY IdType DEF TypeInv, Main, Quiet
<1> QED  BY <1>4, <1>5 DEF StartTool, TypeInv, TypeOK

\* A coroutine that goes from one place to another.
LEMMA GotoOK ==
    ASSUME TypeInv, NEW i \in 1..MaxCalls, routine[i].at \notin {"none", "ended"},
           NEW label \in Labels \ {"none", "ended", "record2"}, Goto(i, label),
           UNCHANGED <<input, pc, outcome, steps, calls, results>>
    PROVE  routine' \in [1..MaxCalls -> RoutineType] /\ Main' /\ Filled'
<1>1. routine \in [1..MaxCalls -> RoutineType]
    BY DEF TypeInv, TypeOK, RoutineType
<1>2. routine' = [routine EXCEPT ![i] = [routine[i] EXCEPT !.at = label]]
    BY <1>1 DEF Goto
<1>3. [routine[i] EXCEPT !.at = label] \in RoutineType /\ [routine[i] EXCEPT !.at = label].at = label
    BY <1>1 DEF RoutineType
<1> QED  BY <1>2, <1>3, CallMoves

LEMMA ResultOK ==
    ASSUME TypeInv, NEW i \in 1..MaxCalls, routine[i].at \notin {"none", "ended"},
           NEW result \in Final \cup {"error"},
           routine' = [routine EXCEPT ![i].at = "record2", ![i].result = result],
           UNCHANGED <<input, pc, outcome, steps, calls, results>>
    PROVE  routine' \in [1..MaxCalls -> RoutineType] /\ Main' /\ Filled'
<1> DEFINE x == [routine[i] EXCEPT !.at = "record2", !.result = result]
<1>1. routine \in [1..MaxCalls -> RoutineType]
    BY DEF TypeInv, TypeOK, RoutineType
<1>2. routine' = [routine EXCEPT ![i] = x]
    BY <1>1
<1>3. x \in RoutineType /\ x.at = "record2" /\ x.result # "none"
    BY <1>1 DEF RoutineType, Labels, Final
<1> HIDE DEF x
<1> QED  BY <1>2, <1>3, CallMoves

LEMMA AnsweredOK ==
    ASSUME TypeInv, NEW i \in 1..MaxCalls, routine[i].at \notin {"none", "ended"},
           NEW answer \in {"approved", "denied", "timed-out"}, Answered(i, answer),
           UNCHANGED <<input, pc, outcome, steps, calls, results>>
    PROVE  routine' \in [1..MaxCalls -> RoutineType] /\ Main' /\ Filled'
<1> DEFINE x == [routine[i] EXCEPT !.at = "answer", !.answer = answer]
<1>1. routine \in [1..MaxCalls -> RoutineType]
    BY DEF TypeInv, TypeOK, RoutineType
<1>2. routine' = [routine EXCEPT ![i] = x]
    BY <1>1 DEF Answered
<1>3. x \in RoutineType /\ x.at = "answer"
    BY <1>1 DEF RoutineType, Labels
<1> HIDE DEF x
<1> QED  BY <1>2, <1>3, CallMoves

LEMMA NoMoveOK ==
    ASSUME TypeInv, UNCHANGED <<input, workflow>>
    PROVE  routine' \in [1..MaxCalls -> RoutineType] /\ Main' /\ Filled'
BY DEF TypeInv, TypeOK, RoutineType, workflow, Main, Filled, InSequence, Quiet, Executed, Ended, ResultSlot

LEMMA CallStepTypes ==
    ASSUME TypeInv, [Next]_vars, NEW i \in 1..MaxCalls, CallStep(i)
    PROVE  TypeInv'
<1> DEFINE Moved == routine' \in [1..MaxCalls -> RoutineType] /\ Main' /\ Filled'
           PcOK == pc' \in {pc, "ending"} /\ outcome' \in {outcome, "error"}
           ResultsOK == results' \in Seq(Result \cup {<<>>})
           PeopleOK == channels' \in [CallId -> Seq(Response)] /\ sent' = sent
<1>0. TypeOK /\ records' \in [RecordId -> RowType]
    BY RowsStep DEF TypeInv
<1>1. UNCHANGED <<input, cancelled, steps, calls>>
    BY DEF CallStep, WriteRunning, AskApproval, TakeResponse, TimeOut,
           WriteAnswer, ToolReturns, ToolFails, WriteOutcome
<1>2. UNCHANGED <<pc, outcome>> => PcOK
    OBVIOUS
<1>3. UNCHANGED results => ResultsOK
    BY <1>0 DEF TypeOK
<1>4. UNCHANGED people => PeopleOK
    BY <1>0 DEF people, TypeOK
<1>5. ran \subseteq CallId
    BY <1>0 DEF TypeOK
<1>6. Writing(i) => CallWrite(i) \in Offered
    BY DEF Offered
<1>7. CallFails(i) /\ routine[i].at # "none" => Moved /\ PcOK /\ ResultsOK
    BY <1>1, <1>3, CallFailsOK
<1> HIDE DEF ResultsOK, PeopleOK, PcOK
<1>8. CASE WriteRunning(i)
    <2>1. routine[i].at = "record1" /\ Writing(i)
        BY <1>8 DEF WriteRunning, At, Writing
    <2>2. faults' \in 0..MaxFaults
        BY <1>0, <1>6, <1>8, <2>1, FaultsStep DEF WriteRunning
    <2>3. Goto(i, "ask") /\ UNCHANGED <<pc, outcome, results>> => Moved
        BY <1>1, <2>1, GotoOK DEF Labels
    <2>4. StartTool(i) /\ UNCHANGED <<pc, outcome, results>> => Moved /\ ran' \subseteq CallId
        BY <1>1, <2>1, StartToolOK
    <2>5. Moved /\ ran' \subseteq CallId /\ PcOK /\ ResultsOK
        BY <1>2, <1>3, <1>5, <1>7, <1>8, <2>1, <2>3, <2>4 DEF WriteRunning
    <2>6. PeopleOK
        BY <1>4, <1>8 DEF WriteRunning
    <2> QED  BY <1>0, <1>1, <2>2, <2>5, <2>6, CallTypes DEF ResultsOK, PeopleOK, PcOK
<1>9. CASE AskApproval(i)
    <2>1. routine[i].at = "ask" /\ Writing(i)
        BY <1>9 DEF AskApproval, At, Writing
    <2>2. faults' \in 0..MaxFaults
        BY <1>0, <1>6, <1>9, <2>1, FaultsStep DEF AskApproval
    <2>3. Goto(i, "wait") /\ UNCHANGED <<pc, outcome, results>> => Moved
        BY <1>1, <2>1, GotoOK DEF Labels
    <2>4. Moved /\ ran' \subseteq CallId /\ PcOK /\ ResultsOK /\ PeopleOK
        BY <1>2, <1>3, <1>4, <1>5, <1>7, <1>9, <2>1, <2>3 DEF AskApproval
    <2> QED  BY <1>0, <1>1, <2>2, <2>4, CallTypes DEF ResultsOK, PeopleOK, PcOK
<1>10. CASE TakeResponse(i)
    <2> DEFINE name == SignalName(Id(i))
    <2>1. routine[i].at = "wait" /\ UNCHANGED <<pc, outcome, results, sent, ran, faults>>
        BY <1>10 DEF TakeResponse, At
    <2>2. name \in CallId
        <3>1. Id(i) \in CallId
            BY <1>0, <2>1, IdType DEF TypeInv, Main, Quiet
        <3>2. <<0, 0>> \in CallId
            BY DEF CallId
        <3> QED  BY <3>1, <3>2 DEF SignalName
    <2>3. channels[name] # <<>> /\ channels' = [channels EXCEPT ![name] = Tail(@)]
        BY <1>10 DEF TakeResponse
    <2> HIDE DEF name
    <2>4. channels \in [CallId -> Seq(Response)] /\ channels[name] \in Seq(Response)
        BY <1>0, <2>2 DEF TypeOK
    <2>5. Tail(channels[name]) \in Seq(Response)
        BY <2>3, <2>4
    <2>6. channels' \in [CallId -> Seq(Response)]
        BY <2>3, <2>4, <2>5
    <2>7. \/ UNCHANGED routine
          \/ \E answer \in {"approved", "denied", "timed-out"} : Answered(i, answer)
        BY <1>10, Zenon DEF TakeResponse
    <2>8. Moved
        <3>1. CASE UNCHANGED routine
            BY <1>1, <2>1, <3>1, NoMoveOK DEF workflow
        <3>2. CASE \E answer \in {"approved", "denied", "timed-out"} : Answered(i, answer)
            BY <1>1, <2>1, <3>2, AnsweredOK
        <3> QED  BY <2>7, <3>1, <3>2
    <2>9. faults' \in 0..MaxFaults
        BY <1>0, <2>1 DEF TypeOK
    <2>10. PcOK /\ ResultsOK /\ PeopleOK /\ ran' \subseteq CallId
        BY <1>2, <1>3, <1>5, <2>1, <2>6 DEF PeopleOK
    <2> QED  BY <1>0, <1>1, <2>8, <2>9, <2>10, CallTypes DEF ResultsOK, PeopleOK, PcOK
<1>11. CASE TimeOut(i)
    <2>1. routine[i].at = "wait" /\ UNCHANGED <<pc, outcome, results, people, ran, faults>>
        BY <1>11 DEF TimeOut, At
    <2>2. Answered(i, "timed-out")
        BY <1>11 DEF TimeOut
    <2>3. Moved
        BY <1>1, <2>1, <2>2, AnsweredOK
    <2>4. faults' \in 0..MaxFaults
        BY <1>0, <2>1 DEF TypeOK
    <2>5. PcOK /\ ResultsOK /\ PeopleOK /\ ran' \subseteq CallId
        BY <1>2, <1>3, <1>4, <1>5, <2>1
    <2> QED  BY <1>0, <1>1, <2>3, <2>4, <2>5, CallTypes DEF ResultsOK, PeopleOK, PcOK
<1>12. CASE WriteAnswer(i)
    <2>1. routine[i].at = "answer" /\ Writing(i)
        BY <1>12 DEF WriteAnswer, At, Writing
    <2>2. faults' \in 0..MaxFaults
        BY <1>0, <1>6, <1>12, <2>1, FaultsStep DEF WriteAnswer
    <2>3. UNCHANGED <<pc, outcome, results>>
          /\ routine' = [routine EXCEPT ![i].at = "record2", ![i].result = "denied"] => Moved
        BY <1>1, <2>1, ResultOK DEF Final
    <2>4. StartTool(i) /\ UNCHANGED <<pc, outcome, results>> => Moved /\ ran' \subseteq CallId
        BY <1>1, <2>1, StartToolOK
    <2>5. Moved /\ ran' \subseteq CallId /\ PcOK /\ ResultsOK
        BY <1>2, <1>3, <1>5, <1>7, <1>12, <2>1, <2>3, <2>4 DEF WriteAnswer
    <2>6. PeopleOK
        BY <1>4, <1>12 DEF WriteAnswer
    <2> QED  BY <1>0, <1>1, <2>2, <2>5, <2>6, CallTypes DEF ResultsOK, PeopleOK, PcOK
<1>13. CASE ToolReturns(i)
    <2>1. routine[i].at \in {"run", "rerun"} /\ UNCHANGED <<pc, outcome, results, people, ran, faults>>
        BY <1>13 DEF ToolReturns, At
    <2>2. \E result \in Final : routine' = [routine EXCEPT ![i].at = "record2", ![i].result = result]
        BY <1>13 DEF ToolReturns, Final
    <2>3. Moved
        BY <1>1, <2>1, <2>2, ResultOK
    <2>4. faults' \in 0..MaxFaults
        BY <1>0, <2>1 DEF TypeOK
    <2>5. PcOK /\ ResultsOK /\ PeopleOK /\ ran' \subseteq CallId
        BY <1>2, <1>3, <1>4, <1>5, <2>1
    <2> QED  BY <1>0, <1>1, <2>3, <2>4, <2>5, CallTypes DEF ResultsOK, PeopleOK, PcOK
<1>14. CASE ToolFails(i)
    <2>1. routine[i].at \in {"run", "rerun"} /\ UNCHANGED <<pc, outcome, results, people, ran>>
        BY <1>14 DEF ToolFails, At
    <2>2. \/ routine' = [routine EXCEPT ![i].at = "record2", ![i].result = "error"]
          \/ Goto(i, "rerun")
        BY <1>14 DEF ToolFails
    <2>3. Moved
        <3>1. CASE Goto(i, "rerun")
            BY <1>1, <2>1, <3>1, GotoOK DEF Labels
        <3>2. CASE routine' = [routine EXCEPT ![i].at = "record2", ![i].result = "error"]
            BY <1>1, <2>1, <3>2, ResultOK
        <3> QED  BY <2>2, <3>1, <3>2
    <2>4. faults' \in 0..MaxFaults
        BY <1>0, <1>14, FaultsStep DEF ToolFails
    <2>5. PcOK /\ ResultsOK /\ PeopleOK /\ ran' \subseteq CallId
        BY <1>2, <1>3, <1>4, <1>5, <2>1
    <2> QED  BY <1>0, <1>1, <2>3, <2>4, <2>5, CallTypes DEF ResultsOK, PeopleOK, PcOK
<1>15. CASE WriteOutcome(i)
    <2>1. routine[i].at = "record2" /\ Writing(i)
        BY <1>15 DEF WriteOutcome, At, Writing
    <2>2. faults' \in 0..MaxFaults
        BY <1>0, <1>6, <1>15, <2>1, FaultsStep DEF WriteOutcome
    <2>3. routine[i].result # "error" /\ CallSucceeds(i) => Moved /\ PcOK /\ ResultsOK
        BY <1>1, <1>2, <2>1, CallSucceedsOK DEF ResultsOK, CallSucceeds, TypeInv, TypeOK, Main, Final
    <2>4. Moved /\ ran' \subseteq CallId /\ PcOK /\ ResultsOK /\ PeopleOK
        BY <1>4, <1>5, <1>7, <1>15, <2>1, <2>3 DEF WriteOutcome
    <2> QED  BY <1>0, <1>1, <2>2, <2>4, CallTypes DEF ResultsOK, PeopleOK, PcOK
<1> QED  BY <1>8, <1>9, <1>10, <1>11, <1>12, <1>13, <1>14, <1>15 DEF CallStep

\* The step of the main routine to a new place, the coroutines at rest.
LEMMA AtRest ==
    ASSUME TypeInv, [Next]_vars, UNCHANGED <<input, cancelled, people, ran>>,
           faults' \in 0..MaxFaults,
           routine' = [i \in 1..MaxCalls |-> NoRoutine] \/ (UNCHANGED routine /\ Quiet),
           pc' \in {"model", "message", "progress", "ending", "done"},
           outcome' \in {"none", "ok", "error"},
           pc' \in {"ending", "done"} <=> outcome' # "none",
           steps' \in Seq([calls : Seq(ToolCall), results : Seq(Result)]),
           Len(steps') <= MaxSteps,
           pc' \in {"model", "message", "progress"} => Len(steps') < MaxSteps,
           \A n \in DOMAIN steps' : steps'[n].calls \in Outputs[n - 1],
           calls' \in {<<>>} \cup UNION {Outputs[n] : n \in DOMAIN Outputs},
           pc' \in {"message", "progress"} => calls' \in Outputs[Len(steps')],
           results' \in Seq(Result \cup {<<>>})
    PROVE  TypeInv'
<1>1. records' \in [RecordId -> RowType]
    BY RowsStep
<1>2. routine' \in [1..MaxCalls -> RoutineType] /\ Quiet'
    BY DEF NoRoutine, RoutineType, Labels, Quiet, TypeInv, TypeOK
<1>3. channels' \in [CallId -> Seq(Response)] /\ sent' \in Seq([name : CallId, response : Response])
    BY DEF people, TypeInv, TypeOK
<1>4. input' \in Inputs /\ cancelled' \in BOOLEAN /\ ran' \subseteq CallId
    BY DEF TypeInv, TypeOK
<1>5. pc' \in {"started", "model", "message", "progress", "tools", "ending", "done"}
    OBVIOUS
<1>6. TypeOK'
    BY <1>1, <1>2, <1>3, <1>4, <1>5, Zenon DEF TypeOK, RowType, RoutineType
<1>7. Executed' \subseteq 1..MaxCalls
    <2>1. CASE calls' = <<>>
        BY <2>1 DEF Executed
    <2>2. ASSUME NEW n \in DOMAIN Outputs, calls' \in Outputs[n] PROVE Len(calls') \in 0..MaxCalls
        BY <2>2
    <2>3. CASE Len(calls') \in 0..MaxCalls
        BY <2>3 DEF Executed
    <2> QED  BY <2>1, <2>2, <2>3
<1>8. InSequence'
    BY <1>2, <1>7 DEF InSequence, Quiet
<1>9. Main'
    BY <1>2, <1>8 DEF Main, Quiet
<1>10. Filled'
    BY DEF Filled
<1> QED  BY <1>6, <1>9, <1>10 DEF TypeInv

\* With every call ended there is a result in every slot, in the calls' order.
LEMMA ResultsFull ==
    ASSUME TypeInv, pc = "tools", Ended = Executed
    PROVE  /\ results \in Seq(Result)
           /\ Len(results) = Cardinality(Executed)
           /\ \A k \in 1..Len(results) : \E i \in Executed :
                 k = ResultSlot(i) /\ results[k] = [call |-> i, status |-> routine[i].result]
<1>1. calls \in Seq(ToolCall) /\ Executed \subseteq 1..MaxCalls
    BY CallsType, ExecutedType DEF TypeInv
<1>2. /\ Cardinality(Executed) \in Nat
      /\ \A k \in 1..Cardinality(Executed) : \E i \in Executed : ResultSlot(i) = k
    BY <1>1, Slots
<1>3. /\ results \in [1..Cardinality(Executed) -> Result \cup {<<>>}]
      /\ \A i \in Executed : /\ routine[i].result \in Final
                             /\ results[ResultSlot(i)] = [call |-> i, status |-> routine[i].result]
    BY DEF TypeInv, Filled
<1>4. \A k \in 1..Cardinality(Executed) : \E i \in Executed :
         k = ResultSlot(i) /\ results[k] = [call |-> i, status |-> routine[i].result]
    BY <1>2, <1>3
<1>5. \A k \in 1..Cardinality(Executed) : results[k] \in Result
    <2>1. \A i \in Executed : [call |-> i, status |-> routine[i].result] \in Result
        BY <1>1, <1>3 DEF Result, Final
    <2> QED  BY <1>4, <2>1
<1>6. results \in [1..Cardinality(Executed) -> Result]
    BY <1>3, <1>5
<1>7. results \in Seq(Result) /\ Len(results) = Cardinality(Executed)
    BY <1>2, <1>6
<1> QED  BY <1>4, <1>7

LEMMA MainStepTypes ==
    ASSUME TypeInv, [Next]_vars, MainStep
    PROVE  TypeInv'
<1>0. TypeOK /\ Main /\ Filled /\ records' \in [RecordId -> RowType]
    BY RowsStep DEF TypeInv
<1>1. Len(steps) \in Nat
    BY <1>0 DEF TypeOK
<1>2. /\ steps \in Seq([calls : Seq(ToolCall), results : Seq(Result)]) /\ Len(steps) <= MaxSteps
      /\ \A n \in DOMAIN steps : steps[n].calls \in Outputs[n - 1]
      /\ calls \in {<<>>} \cup UNION {Outputs[n] : n \in DOMAIN Outputs}
      /\ results \in Seq(Result \cup {<<>>})
    BY <1>0 DEF TypeOK
<1>3. pc \in {"started", "progress", "ending"} /\ (Publishes \/ PublishFails) => faults' \in 0..MaxFaults
    <2>1. input.child /\ pc \in {"started", "progress", "ending"} => Progress \in Offered
        BY DEF Offered, MainOffer
    <2> QED  BY <1>0, <2>1, FaultsStep DEF Publishes, PublishFails
\* What the steps are once the step in hand has been added.
<1>4. ASSUME Len(steps) < MaxSteps, calls \in Outputs[Len(steps)], NEW rs \in Seq(Result)
      PROVE  LET new == Append(steps, [calls |-> calls, results |-> rs])
             IN /\ new \in Seq([calls : Seq(ToolCall), results : Seq(Result)])
                /\ Len(new) = Len(steps) + 1
                /\ \A n \in DOMAIN new : new[n].calls \in Outputs[n - 1]
    <2> DEFINE new == Append(steps, [calls |-> calls, results |-> rs])
    <2>1. calls \in Seq(ToolCall)
        BY <1>0, CallsType
    <2>2. [calls |-> calls, results |-> rs] \in [calls : Seq(ToolCall), results : Seq(Result)]
        BY <1>4, <2>1
    <2>3. /\ new \in Seq([calls : Seq(ToolCall), results : Seq(Result)])
          /\ Len(new) = Len(steps) + 1
        BY <1>2, <2>2
    <2>4. /\ new[Len(steps) + 1] = [calls |-> calls, results |-> rs]
          /\ \A n \in 1..Len(steps) : new[n] = steps[n]
        BY <1>2, <2>2
    <2>5. DOMAIN new = 1..Len(steps) + 1 /\ DOMAIN steps = 1..Len(steps)
        BY <1>2, <2>3
    <2> HIDE DEF new
    <2>6. ASSUME NEW n \in DOMAIN new PROVE new[n].calls \in Outputs[n - 1]
        <3>1. CASE n = Len(steps) + 1
            BY <1>1, <1>4, <2>4, <3>1
        <3>2. CASE n \in 1..Len(steps)
            BY <1>2, <2>4, <2>5, <3>2
        <3> QED  BY <1>1, <2>5, <2>6, <3>1, <3>2
    <2> QED  BY <2>3, <2>6 DEF new
<1>5. CASE Start
    <2>1. /\ pc = "started" /\ Quiet /\ Len(steps) < MaxSteps /\ outcome = "none"
          /\ UNCHANGED <<input, cancelled, steps, calls, routine, results, people, ran>>
          /\ \/ pc' = "model" /\ UNCHANGED outcome
             \/ pc' = "done" /\ outcome' = "error"
        BY <1>0, <1>5 DEF Start, Main
    <2>2. faults' \in 0..MaxFaults
        BY <1>3, <1>5 DEF Start
    <2> QED  BY <1>2, <2>1, <2>2, AtRest
<1>6. CASE ModelReturns
    <2>1. /\ pc = "model" /\ pc' = "message" /\ Quiet /\ Len(steps) < MaxSteps /\ outcome = "none"
          /\ UNCHANGED <<input, cancelled, outcome, steps, routine, results, people, ran, faults>>
          /\ calls' \in Outputs[Len(steps)]
        BY <1>0, <1>6 DEF ModelReturns, Main, stepNumber
    <2>2. faults' \in 0..MaxFaults
        BY <1>0, <2>1 DEF TypeOK
    <2>3. calls' \in {<<>>} \cup UNION {Outputs[n] : n \in DOMAIN Outputs}
        BY <1>1, <2>1
    <2> QED  BY <1>2, <2>1, <2>2, <2>3, AtRest
<1>7. CASE ModelFails
    <2>1. /\ pc = "model" /\ pc' = "ending" /\ outcome' = "error" /\ Quiet
          /\ UNCHANGED <<input, cancelled, steps, calls, routine, results, people, ran>>
        BY <1>0, <1>7 DEF ModelFails, Main, Returns
    <2>2. faults' \in 0..MaxFaults
        BY <1>0, <1>7, FaultsStep DEF ModelFails
    <2> QED  BY <1>2, <2>1, <2>2, AtRest
<1>8. CASE WriteMessage
    <2>1. /\ pc = "message" /\ Quiet /\ Len(steps) < MaxSteps /\ outcome = "none"
          /\ calls \in Outputs[Len(steps)]
          /\ UNCHANGED <<input, cancelled, steps, calls, routine, results, people, ran>>
          /\ \/ pc' = "progress" /\ UNCHANGED outcome
             \/ pc' = "ending" /\ outcome' = "error"
        BY <1>0, <1>8 DEF WriteMessage, Main, Returns
    <2>2. Write(MessageRecord(stepNumber), 1, "completed") \in Offered
        BY <2>1 DEF Offered, MainOffer
    <2>3. faults' \in 0..MaxFaults
        BY <1>0, <1>8, <2>2, FaultsStep DEF WriteMessage
    <2> QED  BY <1>2, <2>1, <2>3, AtRest
<1>9. CASE PublishStep
    <2>1. /\ pc = "progress" /\ Quiet /\ Len(steps) < MaxSteps /\ outcome = "none"
          /\ calls \in Outputs[Len(steps)]
          /\ UNCHANGED <<input, cancelled, calls, people, ran>>
        BY <1>0, <1>9 DEF PublishStep, Main
    <2>2. faults' \in 0..MaxFaults
        BY <1>3, <1>9, <2>1 DEF PublishStep
    <2>3. CASE /\ calls = <<>> /\ Returns("ok") /\ UNCHANGED <<routine, results>>
               /\ steps' = Append(steps, [calls |-> calls, results |-> <<>>])
        <3>1. <<>> \in Seq(Result)
            OBVIOUS
        <3>2. /\ steps' \in Seq([calls : Seq(ToolCall), results : Seq(Result)])
              /\ Len(steps') = Len(steps) + 1
              /\ \A n \in DOMAIN steps' : steps'[n].calls \in Outputs[n - 1]
            BY <1>4, <2>1, <2>3, <3>1
        <3>3. Len(steps') <= MaxSteps
            BY <1>1, <2>1, <3>2
        <3>4. pc' = "ending" /\ outcome' = "ok"
            BY <2>3 DEF Returns
        <3> QED  BY <1>2, <2>1, <2>2, <2>3, <3>2, <3>3, <3>4, AtRest
    <2>4. CASE Returns("error") /\ UNCHANGED <<steps, routine, results>>
        <3>1. pc' = "ending" /\ outcome' = "error"
            BY <2>4 DEF Returns
        <3> QED  BY <1>2, <2>1, <2>2, <2>4, <3>1, AtRest
    <2>5. CASE /\ pc' = "tools" /\ UNCHANGED <<outcome, steps>>
               /\ routine' = [i \in DOMAIN routine |->
                     IF i \in Started THEN [NoRoutine EXCEPT !.at = "record1"] ELSE NoRoutine]
               /\ results' = [n \in 1..Cardinality(Executed) |-> <<>>]
        <3>1. DOMAIN routine = 1..MaxCalls
            BY <1>0 DEF TypeOK
        <3>2. NoRoutine \in RoutineType /\ [NoRoutine EXCEPT !.at = "record1"] \in RoutineType
            BY DEF NoRoutine, RoutineType, Labels
        <3>3. routine' \in [1..MaxCalls -> RoutineType]
            BY <2>5, <3>1, <3>2
        <3>4. \A i \in 1..MaxCalls : /\ routine'[i].at \in {"none", "record1"}
                                     /\ routine'[i].at # "none" <=> i \in Started
            BY <2>5, <3>1 DEF NoRoutine
        <3>5. Started \subseteq Executed /\ Executed' = Executed /\ Executed \subseteq 1..MaxCalls
            BY <1>0, <2>1, ExecutedType DEF Started, Executed
        <3>6. Cardinality(Executed) \in Nat
            BY <1>0, CallsType, Slots
        <3>7. results' \in Seq(Result \cup {<<>>})
              /\ results' \in [1..Cardinality(Executed) -> Result \cup {<<>>}]
            <4>1. results' \in [1..Cardinality(Executed) -> Result \cup {<<>>}]
                BY <2>5
            <4> QED  BY <3>6, <4>1
        <3>8. InSequence'
            <4> SUFFICES ASSUME input.execution # "parallel", NEW i \in Executed, NEW j \in Executed,
                                i < j, routine'[j].at # "none"
                         PROVE  FALSE
                BY <2>1, <3>5 DEF InSequence
            <4>1. i \in 1..MaxCalls /\ j \in 1..MaxCalls
                BY <3>5, Zenon
            <4>2. j \in Started
                BY <3>4, <4>1
            <4>3. j <= i
                BY <4>2 DEF Started
            <4> QED  BY <4>1, <4>3
        <3>9. Main'
            BY <2>1, <2>5, <3>4, <3>5, <3>8 DEF Main, Quiet
        <3>10. Ended' = {}
            BY <3>4 DEF Ended
        <3>11. Filled'
            BY <3>5, <3>7, <3>10 DEF Filled
        <3>12. channels' \in [CallId -> Seq(Response)] /\ sent' \in Seq([name : CallId, response : Response])
            BY <1>0, <2>1 DEF people, TypeOK
        <3>13. /\ input' \in Inputs /\ cancelled' \in BOOLEAN /\ ran' \subseteq CallId
               /\ outcome' \in {"none", "ok", "error"}
               /\ pc' \in {"started", "model", "message", "progress", "tools", "ending", "done"}
            BY <1>0, <2>1, <2>5 DEF TypeOK
        <3>14. TypeOK'
            BY <1>0, <1>2, <2>1, <2>2, <2>5, <3>3, <3>7, <3>12, <3>13, Zenon DEF TypeOK, RowType, RoutineType
        <3> QED  BY <3>9, <3>11, <3>14 DEF TypeInv
    <2> QED  BY <1>9, <2>3, <2>4, <2>5 DEF PublishStep
<1>10. CASE ToolsReturn
    <2>1. /\ pc = "tools" /\ Len(steps) < MaxSteps /\ outcome = "none" /\ calls \in Outputs[Len(steps)]
          /\ UNCHANGED <<input, cancelled, people, ran, faults>>
          /\ calls' = <<>> /\ results' = <<>> /\ routine' = [i \in 1..MaxCalls |-> NoRoutine]
          /\ steps' = Append(steps, [calls |-> calls, results |-> results])
        BY <1>0, <1>10 DEF ToolsReturn, Main
    <2>2. Ended = Executed
        BY <1>10, AllEnded DEF ToolsReturn
    <2>3. results \in Seq(Result)
        BY <2>1, <2>2, ResultsFull
    <2>4. /\ steps' \in Seq([calls : Seq(ToolCall), results : Seq(Result)])
          /\ Len(steps') = Len(steps) + 1
          /\ \A n \in DOMAIN steps' : steps'[n].calls \in Outputs[n - 1]
        BY <1>4, <2>1, <2>3
    <2>5. \/ pc' = "ending" /\ outcome' = "ok"
          \/ pc' = "model" /\ outcome' = outcome /\ Len(steps) + 1 # MaxSteps
        BY <1>10 DEF ToolsReturn, Returns
    <2>6. Len(steps') <= MaxSteps /\ (pc' = "model" => Len(steps') < MaxSteps)
        BY <1>1, <2>1, <2>4, <2>5
    <2>7. faults' \in 0..MaxFaults
        BY <1>0, <2>1 DEF TypeOK
    <2>8. results' \in Seq(Result \cup {<<>>}) /\ calls' \in {<<>>}
        BY <2>1
    <2> QED  BY <2>1, <2>4, <2>5, <2>6, <2>7, <2>8, AtRest
<1>11. CASE Finish
    <2>1. /\ pc = "ending" /\ pc' = "done" /\ (UNCHANGED outcome \/ outcome' = "error")
          /\ UNCHANGED <<input, cancelled, steps, calls, routine, results, people, ran>>
        BY <1>11 DEF Finish
    <2>2. faults' \in 0..MaxFaults
        BY <1>3, <1>11 DEF Finish
    <2>3. Main' /\ Filled'
        BY <1>0, <2>1 DEF Main, Filled, Quiet, InSequence, Executed
    <2>4. channels' \in [CallId -> Seq(Response)] /\ sent' \in Seq([name : CallId, response : Response])
        BY <1>0, <2>1 DEF people, TypeOK
    <2>5. /\ input' \in Inputs /\ cancelled' \in BOOLEAN /\ ran' \subseteq CallId
          /\ outcome' \in {"none", "ok", "error"} /\ routine' \in [1..MaxCalls -> RoutineType]
          /\ pc' \in {"started", "model", "message", "progress", "tools", "ending", "done"}
        BY <1>0, <2>1 DEF TypeOK, RoutineType
    <2>6. TypeOK'
        BY <1>0, <1>2, <2>1, <2>2, <2>4, <2>5, Zenon DEF TypeOK, RowType, RoutineType
    <2> QED  BY <2>3, <2>6 DEF TypeInv
<1> QED  BY <1>5, <1>6, <1>7, <1>8, <1>9, <1>10, <1>11 DEF MainStep

LEMMA TypeInvNext == ASSUME TypeInv, [Next]_vars PROVE TypeInv'
<1>0. TypeOK /\ records' \in [RecordId -> RowType]
    BY RowsStep DEF TypeInv
<1>1. ASSUME NEW i \in 1..MaxCalls, WriteLate(i) PROVE TypeInv'
    <2>1. routine[i].at \notin {"none", "ended"} /\ Goto(i, "lost")
          /\ UNCHANGED <<input, cancelled, pc, outcome, steps, calls, results, people, ran, faults>>
        BY <1>1 DEF WriteLate, Writing, Goto
    <2>2. routine' \in [1..MaxCalls -> RoutineType] /\ Main' /\ Filled'
        BY <2>1, GotoOK DEF Labels
    <2>3. /\ channels' \in [CallId -> Seq(Response)] /\ sent' = sent /\ ran' \subseteq CallId
          /\ faults' \in 0..MaxFaults /\ results' \in Seq(Result \cup {<<>>})
        BY <1>0, <2>1 DEF TypeOK, people
    <2> QED  BY <1>0, <2>1, <2>2, <2>3, CallTypes
<1>2. CASE Respond
    <2>1. PICK i \in Executed, j \in Executed, approved \in BOOLEAN :
            /\ pc = "tools"
            /\ channels' = [channels EXCEPT ![SignalName(Id(i))] =
                    Append(@, [approval |-> Id(j), approved |-> approved])]
            /\ sent' = Append(sent, [name |-> SignalName(Id(i)),
                    response |-> [approval |-> Id(j), approved |-> approved]])
            /\ UNCHANGED <<input, cancelled, workflow, records, ran, faults>>
        BY <1>2, Zenon DEF Respond
    <2>2. i \in 1..MaxCalls /\ j \in 1..MaxCalls
        BY <1>0, ExecutedType
    <2>3. SignalName(Id(i)) \in CallId /\ Id(j) \in CallId
        <3>1. Id(i) \in CallId /\ Id(j) \in CallId
            BY <1>0, <2>1, <2>2, IdType DEF TypeInv, Main
        <3>2. <<0, 0>> \in CallId
            BY DEF CallId
        <3> QED  BY <3>1, <3>2 DEF SignalName
    <2>4. [approval |-> Id(j), approved |-> approved] \in Response
        BY <2>3 DEF Response
    <2>5. channels' \in [CallId -> Seq(Response)]
        BY <1>0, <2>1, <2>3, <2>4 DEF TypeOK
    <2>6. sent' \in Seq([name : CallId, response : Response])
        BY <1>0, <2>1, <2>3, <2>4 DEF TypeOK
    <2>7. routine' \in [1..MaxCalls -> RoutineType] /\ Main' /\ Filled'
        BY <2>1, NoMoveOK
    <2>8. TypeOK'
        BY <1>0, <2>1, <2>5, <2>6, <2>7 DEF TypeOK, workflow, RowType, RoutineType
    <2> QED  BY <2>7, <2>8 DEF TypeInv
<1>3. CASE Cancel
    <2>1. UNCHANGED <<input, workflow, people, ran, faults>> /\ cancelled' \in BOOLEAN
        BY <1>3 DEF Cancel
    <2>2. routine' \in [1..MaxCalls -> RoutineType] /\ Main' /\ Filled'
        BY <2>1, NoMoveOK
    <2>3. TypeOK'
        BY <1>0, <2>1 DEF TypeOK, workflow, people, RowType
    <2> QED  BY <2>2, <2>3 DEF TypeInv
<1>4. CASE UNCHANGED vars
    <2>1. Main' /\ Filled'
        BY <1>4, NoMoveOK DEF vars
    <2>2. TypeOK'
        BY <1>0, <1>4 DEF TypeOK, vars, workflow, people
    <2> QED  BY <2>1, <2>2 DEF TypeInv
<1> QED  BY <1>1, <1>2, <1>3, <1>4, CallStepTypes, MainStepTypes DEF Next

\* Types, with where the main routine and the coroutines of the calls may stand
\* together and what the results hold while outcomes arrive.
THEOREM AgentTypeInvariant == Spec => []TypeInv
BY TypeInvInit, TypeInvNext, PTL DEF Spec

\* Every variable of the agent keeps its type; a step that went into the result
\* has a result in every slot.
THEOREM AgentTypeCorrect == Spec => []TypeOK
<1>1. TypeInv => TypeOK
    BY DEF TypeInv
<1> QED  BY <1>1, AgentTypeInvariant, PTL

-----------------------------------------------------------------------------
(* How calls and steps move.                                               *)

\* A step changes one coroutine, begins others, or starts all of them anew.
LEMMA Moves ==
    ASSUME TypeInv, [Next]_vars, NEW i \in 1..MaxCalls
    PROVE  \/ UNCHANGED <<steps, calls>> /\ routine'[i] = routine[i]
           \/ CallStep(i) \/ WriteLate(i)
           \/ /\ routine'[i].at \in {"none", "record1"}
              /\ routine'[i].at = "record1" => routine'[i].answer = "none"
              /\ routine[i].at = "none" \/ Len(steps') = Len(steps) + 1
<1>1. routine \in [1..MaxCalls -> RoutineType] /\ Main
    BY DEF TypeInv, TypeOK, RoutineType
<1>2. /\ NoRoutine.at = "none" /\ [NoRoutine EXCEPT !.at = "record1"].at = "record1"
      /\ [NoRoutine EXCEPT !.at = "record1"].answer = "none"
    BY DEF NoRoutine
<1>3. CASE MainStep
    <2>1. CASE Start \/ ModelFails \/ WriteMessage \/ Finish
        BY <2>1 DEF Start, ModelFails, WriteMessage, Finish
    <2>2. CASE ModelReturns
        BY <1>1, <2>2 DEF ModelReturns, Main, Quiet
    <2>3. CASE PublishStep
        <3>1. routine[i].at = "none"
            BY <1>1, <2>3 DEF PublishStep, Main, Quiet
        <3>2. routine' = routine \/ routine'[i] \in {NoRoutine, [NoRoutine EXCEPT !.at = "record1"]}
            BY <1>1, <2>3 DEF PublishStep
        <3> QED  BY <1>2, <3>1, <3>2
    <2>4. CASE ToolsReturn
        <3>1. routine'[i] = NoRoutine /\ steps' = Append(steps, [calls |-> calls, results |-> results])
            BY <2>4 DEF ToolsReturn
        <3>2. Len(steps') = Len(steps) + 1
            BY <3>1 DEF TypeInv, TypeOK
        <3> QED  BY <1>2, <3>1, <3>2
    <2> QED  BY <1>3, <2>1, <2>2, <2>3, <2>4 DEF MainStep
<1>4. ASSUME NEW j \in 1..MaxCalls, CallStep(j), j # i
      PROVE  \/ UNCHANGED <<steps, calls>> /\ routine'[i] = routine[i]
             \/ routine'[i].at = "record1" /\ routine'[i].answer = "none" /\ routine[i].at = "none"
    <2>1. UNCHANGED <<steps, calls>>
        BY <1>4 DEF CallStep, WriteRunning, AskApproval, TakeResponse, TimeOut,
           WriteAnswer, ToolReturns, ToolFails, WriteOutcome
    <2>2. routine'[i] = routine[i] \/ (CallSucceeds(j) /\ WriteOutcome(j))
        <3>1. \A label \in Labels : Goto(j, label) => routine'[i] = routine[i]
            BY <1>1, <1>4 DEF Goto
        <3>2. StartTool(j) \/ CallFails(j) => routine'[i] = routine[i]
            BY <1>1, <1>4 DEF StartTool, Goto, CallFails
        <3>3. WriteRunning(j) \/ AskApproval(j) => routine'[i] = routine[i]
            BY <3>1, <3>2 DEF WriteRunning, AskApproval, Labels
        <3>4. TakeResponse(j) \/ TimeOut(j) => routine'[i] = routine[i]
            BY <1>1, <1>4 DEF TakeResponse, TimeOut, Answered
        <3>5. WriteAnswer(j) => routine'[i] = routine[i]
            BY <1>1, <1>4, <3>2 DEF WriteAnswer
        <3>6. ToolReturns(j) \/ ToolFails(j) => routine'[i] = routine[i]
            BY <1>1, <1>4, <3>1 DEF ToolReturns, ToolFails, Labels
        <3>7. WriteOutcome(j) => routine'[i] = routine[i] \/ CallSucceeds(j)
            BY <3>2 DEF WriteOutcome
        <3>8. \/ WriteRunning(j) \/ AskApproval(j) \/ TakeResponse(j) \/ TimeOut(j)
              \/ WriteAnswer(j) \/ ToolReturns(j) \/ ToolFails(j) \/ WriteOutcome(j)
            BY <1>4 DEF CallStep
        <3> QED  BY <3>3, <3>4, <3>5, <3>6, <3>7, <3>8
    <2>3. CASE CallSucceeds(j) /\ WriteOutcome(j)
        <3>1. routine[j].at = "record2" /\ j \in Executed
            BY <1>1, <2>3 DEF WriteOutcome, At, Main
        <3>2. \/ routine'[i] = routine[i]
              \/ /\ routine'[i] = [NoRoutine EXCEPT !.at = "record1"]
                 /\ input.execution # "parallel" /\ i \in Executed /\ i > j
            BY <1>1, <1>4, <2>3 DEF CallSucceeds
        <3>3. input.execution # "parallel" /\ i \in Executed /\ i > j => routine[i].at = "none"
            BY <1>1, <3>1 DEF Main, InSequence
        <3> QED  BY <1>2, <2>1, <3>2, <3>3
    <2> QED  BY <2>1, <2>2, <2>3
<1>5. ASSUME NEW j \in 1..MaxCalls, WriteLate(j), j # i
      PROVE  UNCHANGED <<steps, calls>> /\ routine'[i] = routine[i]
    BY <1>1, <1>5 DEF WriteLate
<1>6. CASE Respond \/ Cancel \/ UNCHANGED vars
    BY <1>6 DEF Respond, Cancel, vars, workflow
<1> QED  BY <1>3, <1>4, <1>5, <1>6 DEF Next

\* A step that ends is appended with its calls; new calls come when all rest.
LEMMA StepsMove ==
    ASSUME TypeInv, [Next]_vars
    PROVE  /\ input' = input
           /\ \/ steps' = steps /\ (calls' = calls \/ Quiet)
              \/ /\ pc = "progress" /\ Quiet /\ calls = <<>>
                 /\ steps' = Append(steps, [calls |-> calls, results |-> <<>>])
              \/ /\ pc = "tools" /\ Ended = Executed
                 /\ steps' = Append(steps, [calls |-> calls, results |-> results])
<1>1. CASE MainStep
    <2>1. CASE Start \/ ModelReturns \/ ModelFails \/ WriteMessage \/ Finish
        BY <2>1 DEF Start, ModelReturns, ModelFails, WriteMessage, Finish, TypeInv, Main
    <2>2. CASE PublishStep
        BY <2>2 DEF PublishStep, TypeInv, Main
    <2>3. CASE ToolsReturn
        BY <2>3, AllEnded DEF ToolsReturn
    <2> QED  BY <1>1, <2>1, <2>2, <2>3 DEF MainStep
<1>2. ASSUME NEW i \in 1..MaxCalls, CallStep(i) \/ WriteLate(i)
      PROVE  UNCHANGED <<input, steps, calls>>
    BY <1>2 DEF CallStep, WriteRunning, AskApproval, TakeResponse, TimeOut,
           WriteAnswer, ToolReturns, ToolFails, WriteOutcome, WriteLate
<1>3. CASE Respond \/ Cancel \/ UNCHANGED vars
    BY <1>3 DEF Respond, Cancel, vars, workflow
<1> QED  BY <1>1, <1>2, <1>3 DEF Next

-----------------------------------------------------------------------------
(* The rows of the calls.                                                  *)

\* No record of a call goes past version two.
Bounded ==
    \A id \in CallId : /\ records[ToolRecord(id)].version <= 2
                       /\ records[InteractionRecord(id)].version <= 2

\* What a call has written by the time it is where it is.
Begun ==
    input.recorded => \A i \in 1..MaxCalls :
        /\ routine[i].at \in {"ask", "wait", "answer", "run", "rerun", "record2"} =>
                records[ToolRecord(Id(i))].version >= 1
        /\ routine[i].at \in {"wait", "answer"} =>
                records[InteractionRecord(Id(i))].version >= 1
        /\ routine[i].at = "ended" /\ pc = "tools" =>
                records[ToolRecord(Id(i))] = [version |-> 2, status |-> routine[i].result]

\* A call that was started is of an earlier step, or past its gate.
Gate == {"none", "record1", "ask", "wait", "answer"}
PastGate ==
    \A id \in ran :
        /\ id[1] <= Len(steps)
        /\ id[1] = Len(steps) => id[2] \in 1..MaxCalls /\ routine[id[2]].at \notin Gate

RowInv == TypeInv /\ Bounded /\ Begun /\ PastGate
          /\ EndedIsRecorded /\ RecordedBeforeRun /\ ResultsMatchCalls

\* After a successful write the row is as new as what was written.
LEMMA WriteRow ==
    ASSUME TypeInv, NEW w \in [id : RecordId, row : RowType], Writes(w), input.recorded
    PROVE  /\ records'[w.id].version >= w.row.version
           /\ records'[w.id].version = w.row.version => records'[w.id] = w.row
<1>1. w.id \in RecordId /\ w.row.version \in Nat
    BY DEF RowType
<1>2. records[w.id] \in RowType /\ records[w.id].version \in Nat
    BY <1>1 DEF TypeInv, TypeOK, RowType
<1>3. records' = Stored({w}) /\ ~Refused(w)
    BY DEF Writes
<1>4. \/ records'[w.id] = records[w.id]
      \/ records'[w.id] = w.row
    <2>1. Written(w.id, {w})
        BY <1>1, <1>3, StoredRows
    <2> QED  BY <2>1 DEF Written
<1>5. CASE w.row.version > records[w.id].version
    <2> DEFINE newer == {v \in {w} : v.id = w.id /\ v.row.version > records[w.id].version}
    <2>1. newer = {w}
        BY <1>5
    <2>2. records'[w.id] = IF newer = {} THEN records[w.id] ELSE (CHOOSE v \in newer : TRUE).row
        BY <1>1, <1>3 DEF Stored
    <2>3. records'[w.id] = w.row
        BY <2>1, <2>2
    <2> QED  BY <1>1, <2>3
<1>6. CASE w.row.version <= records[w.id].version
    <2>1. records'[w.id] = records[w.id]
        <3> DEFINE newer == {v \in {w} : v.id = w.id /\ v.row.version > records[w.id].version}
        <3>1. newer = {}
            BY <1>1, <1>2, <1>6
        <3>2. records'[w.id] = IF newer = {} THEN records[w.id] ELSE (CHOOSE v \in newer : TRUE).row
            BY <1>1, <1>3 DEF Stored
        <3> QED  BY <3>1, <3>2
    <2>2. records[w.id].version = w.row.version => records[w.id] = w.row
        BY <1>3 DEF Refused
    <2> QED  BY <1>1, <1>2, <1>6, <2>1, <2>2
<1> QED  BY <1>1, <1>2, <1>5, <1>6

LEMMA WritesRow ==
    ASSUME TypeInv, NEW i \in 1..MaxCalls, Writing(i), Writes(CallWrite(i)), input.recorded
    PROVE  LET w == CallWrite(i) IN
           /\ records'[w.id].version >= w.row.version
           /\ records'[w.id].version = w.row.version => records'[w.id] = w.row
<1>1. PICK w : w = CallWrite(i)
    OBVIOUS
<1>2. w \in [id : RecordId, row : RowType]
    BY <1>1, OfferedCall
<1> QED  BY <1>1, <1>2, WriteRow

\* Rows of calls only grow, and stay once they are at version two.
LEMMA CallRows ==
    ASSUME TypeInv, Bounded, [Next]_vars
    PROVE  /\ Bounded'
           /\ \A id \in CallId : \A r \in {ToolRecord(id), InteractionRecord(id)} :
                /\ r \in RecordId
                /\ records[r].version \in Nat /\ records'[r].version \in Nat
                /\ records[r].version <= records'[r].version
                /\ records[r].version = 2 => records'[r] = records[r]
<1>1. ASSUME NEW id \in CallId, NEW r \in {ToolRecord(id), InteractionRecord(id)}
      PROVE  /\ r \in RecordId
             /\ records'[r].version <= 2
             /\ records[r].version \in Nat /\ records'[r].version \in Nat
             /\ records[r].version <= records'[r].version
             /\ records[r].version = 2 => records'[r] = records[r]
    <2>1. r \in RecordId /\ r # SubagentRecord /\ r # MessageRecord(stepNumber)
        BY <1>1 DEF ToolRecord, InteractionRecord, RecordId, SubagentRecord, MessageRecord
    <2>2. Written(r, Offered) /\ records'[r] \in RowType
        BY <2>1, RowsStep
    <2>3. records[r] \in RowType
        BY <2>1 DEF TypeInv, TypeOK, RowType
    <2>4. records[r].version \in Nat /\ records'[r].version \in Nat
        BY <2>2, <2>3 DEF RowType
    <2>5. records[r].version <= 2
        BY <1>1 DEF Bounded
    <2>6. \A w \in Offered : w.id = r => w.row.version \in {1, 2}
        BY <2>1, OfferedMain, OfferedCall DEF Offered
    <2>7. CASE records'[r] = records[r]
        BY <2>1, <2>4, <2>5, <2>7
    <2>8. ASSUME NEW w \in Offered, w.id = r, records[r].version < w.row.version, records'[r] = w.row
          PROVE  records'[r].version \in {1, 2} /\ records[r].version < records'[r].version
        BY <2>6, <2>8
    <2> QED  BY <2>1, <2>2, <2>4, <2>7, <2>8 DEF Written
<1>2. Bounded'
    BY <1>1 DEF Bounded, ToolRecord, InteractionRecord
<1> QED  BY <1>1, <1>2

LEMMA RowInvInit == ASSUME Init PROVE RowInv
<1>1. TypeInv
    BY TypeInvInit
<1>2. \A id \in CallId : ToolRecord(id) \in RecordId /\ InteractionRecord(id) \in RecordId
    BY DEF ToolRecord, InteractionRecord, RecordId
<1>3. Bounded
    BY <1>2 DEF Init, Bounded, NoRow
<1>4. Begun /\ PastGate /\ EndedIsRecorded /\ RecordedBeforeRun
    BY DEF Init, Begun, PastGate, EndedIsRecorded, RecordedBeforeRun, NoRoutine, Ended
<1>5. ResultsMatchCalls
    BY DEF Init, ResultsMatchCalls
<1> QED  BY <1>1, <1>3, <1>4, <1>5 DEF RowInv

\* The tools of a step begin together, with no call at its end.
LEMMA ToolsBegin ==
    ASSUME TypeInv, [Next]_vars, pc' = "tools"
    PROVE  pc = "tools" \/ Quiet
<1>1. CASE MainStep
    BY <1>1 DEF MainStep, Start, ModelReturns, ModelFails, WriteMessage, PublishStep,
                ToolsReturn, Finish, Returns, TypeInv, Main
<1>2. ASSUME NEW i \in 1..MaxCalls, CallStep(i) PROVE pc = "tools"
    <2>1. CallFails(i) \/ CallSucceeds(i) => pc = "tools"
        BY DEF CallFails, CallSucceeds, Returns
    <2> QED  BY <1>2, <2>1 DEF CallStep, WriteRunning, AskApproval, TakeResponse, TimeOut,
                WriteAnswer, ToolReturns, ToolFails, WriteOutcome
<1>3. ASSUME NEW i \in 1..MaxCalls, WriteLate(i) PROVE pc = "tools"
    BY <1>3 DEF WriteLate
<1>4. CASE Respond \/ Cancel \/ UNCHANGED vars
    BY <1>4 DEF Respond, Cancel, vars, workflow
<1> QED  BY <1>1, <1>2, <1>3, <1>4 DEF Next

LEMMA CallStepKeeps ==
    ASSUME NEW i \in 1..MaxCalls, CallStep(i) \/ WriteLate(i)
    PROVE  UNCHANGED <<input, cancelled, steps, calls>>
BY DEF CallStep, WriteRunning, AskApproval, TakeResponse, TimeOut, WriteAnswer,
       ToolReturns, ToolFails, WriteOutcome, WriteLate

\* What the coroutine that moves has written when it gets where it goes.
LEMMA BegunStep ==
    ASSUME RowInv, [Next]_vars, input.recorded, NEW i \in 1..MaxCalls, CallStep(i)
    PROVE  /\ routine'[i].at \in {"ask", "wait", "answer", "run", "rerun", "record2"} =>
                    records'[ToolRecord(Id(i))].version >= 1
           /\ routine'[i].at \in {"wait", "answer"} =>
                    records'[InteractionRecord(Id(i))].version >= 1
           /\ routine'[i].at = "ended" =>
                    \/ pc' # "tools" /\ (cancelled \/ input.givesUp)
                    \/ /\ records'[ToolRecord(Id(i))].version = 2
                       /\ pc' = "tools" => records'[ToolRecord(Id(i))]
                                              = [version |-> 2, status |-> routine'[i].result]
<1> DEFINE T == ToolRecord(Id(i))
           A == InteractionRecord(Id(i))
<1>0. TypeInv /\ routine \in [1..MaxCalls -> RoutineType]
    BY DEF RowInv, TypeInv, TypeOK, RoutineType
<1>1. routine[i].at # "none"
    BY DEF CallStep, WriteRunning, AskApproval, TakeResponse, TimeOut, WriteAnswer,
           ToolReturns, ToolFails, WriteOutcome, At
<1>2. Id(i) \in CallId
    BY <1>0, <1>1, IdType DEF TypeInv, Main, Quiet
<1>3. /\ records[T].version \in Nat /\ records'[T].version \in Nat
      /\ records[T].version <= records'[T].version /\ records'[T].version <= 2
      /\ records[A].version \in Nat /\ records'[A].version \in Nat
      /\ records[A].version <= records'[A].version
    BY <1>0, <1>2, CallRows DEF RowInv, Bounded
<1>4. /\ routine[i].at \in {"ask", "wait", "answer", "run", "rerun", "record2"} => records[T].version >= 1
      /\ routine[i].at \in {"wait", "answer"} => records[A].version >= 1
    BY DEF RowInv, Begun
<1> HIDE DEF T, A
<1>5. /\ routine[i].at \in {"ask", "wait", "answer", "run", "rerun", "record2"} => records'[T].version >= 1
      /\ routine[i].at \in {"wait", "answer"} => records'[A].version >= 1
    BY <1>3, <1>4
<1>6. CallFails(i) => routine'[i].at = "ended" /\ pc' # "tools"
    BY <1>0 DEF CallFails, Returns
<1>7. \A w : WriteFails(w) => cancelled \/ input.givesUp
    BY DEF WriteFails
<1>8. \A label \in Labels : Goto(i, label) => routine'[i].at = label
    BY <1>0 DEF Goto, RoutineType
<1>9. StartTool(i) => routine'[i].at = "run"
    BY <1>8 DEF StartTool, Labels
<1>10. CASE WriteRunning(i)
    <2>1. routine[i].at = "record1" /\ Writing(i)
        BY <1>10 DEF WriteRunning, At, Writing
    <2>2. CallWrite(i).id = T /\ CallWrite(i).row.version = 1
        BY <2>1 DEF CallWrite, Write, T
    <2>3. Writes(CallWrite(i)) => records'[T].version >= 1
        BY <1>0, <2>1, <2>2, WritesRow
    <2>4. \/ Writes(CallWrite(i)) /\ routine'[i].at \in {"ask", "run"}
          \/ WriteFails(CallWrite(i)) /\ CallFails(i)
        BY <1>8, <1>9, <1>10 DEF WriteRunning, Labels
    <2> QED  BY <1>6, <1>7, <2>3, <2>4 DEF T, A
<1>11. CASE AskApproval(i)
    <2>1. routine[i].at = "ask" /\ Writing(i)
        BY <1>11 DEF AskApproval, At, Writing
    <2>2. CallWrite(i).id = A /\ CallWrite(i).row.version = 1
        BY <2>1 DEF CallWrite, Write, A
    <2>3. Writes(CallWrite(i)) => records'[A].version >= 1
        BY <1>0, <2>1, <2>2, WritesRow
    <2>4. \/ Writes(CallWrite(i)) /\ routine'[i].at = "wait"
          \/ WriteFails(CallWrite(i)) /\ CallFails(i)
        BY <1>8, <1>11 DEF AskApproval, Labels
    <2> QED  BY <1>5, <1>6, <1>7, <2>1, <2>3, <2>4 DEF T, A
<1>12. CASE TakeResponse(i) \/ TimeOut(i)
    <2>1. routine[i].at = "wait"
        BY <1>12 DEF TakeResponse, TimeOut, At
    <2>2. routine'[i].at \in {"wait", "answer"}
        BY <1>0, <1>12, <2>1 DEF TakeResponse, TimeOut, Answered, RoutineType
    <2> QED  BY <1>5, <2>1, <2>2 DEF T, A
<1>13. CASE WriteAnswer(i)
    <2>1. routine[i].at = "answer"
        BY <1>13 DEF WriteAnswer, At
    <2>2. \/ routine'[i].at \in {"run", "record2"}
          \/ WriteFails(CallWrite(i)) /\ CallFails(i)
        BY <1>0, <1>9, <1>13 DEF WriteAnswer, RoutineType
    <2> QED  BY <1>5, <1>6, <1>7, <2>1, <2>2 DEF T, A
<1>14. CASE ToolReturns(i) \/ ToolFails(i)
    <2>1. routine[i].at \in {"run", "rerun"}
        BY <1>14 DEF ToolReturns, ToolFails, At
    <2>2. routine'[i].at \in {"rerun", "record2"}
        BY <1>0, <1>8, <1>14 DEF ToolReturns, ToolFails, RoutineType, Labels
    <2> QED  BY <1>5, <2>1, <2>2 DEF T, A
<1>15. CASE WriteOutcome(i)
    <2>1. routine[i].at = "record2" /\ Writing(i)
        BY <1>15 DEF WriteOutcome, At, Writing
    <2>2. /\ CallWrite(i).id = T
          /\ CallWrite(i).row = [version |-> 2, status |-> ToolStatus(routine[i].result)]
        BY <2>1 DEF CallWrite, Write, T
    <2>3. Writes(CallWrite(i)) => records'[T] = CallWrite(i).row
        <3>1. CallWrite(i).row.version = 2
            BY <2>2
        <3>2. Writes(CallWrite(i)) => records'[T].version >= 2
                                      /\ (records'[T].version = 2 => records'[T] = CallWrite(i).row)
            BY <1>0, <2>1, <2>2, <3>1, WritesRow
        <3> QED  BY <1>3, <3>2
    <2>4. \/ /\ Writes(CallWrite(i))
             /\ CallFails(i) \/ (CallSucceeds(i) /\ routine[i].result # "error")
          \/ WriteFails(CallWrite(i)) /\ CallFails(i)
        BY <1>15 DEF WriteOutcome
    <2>5. CallSucceeds(i) => routine'[i] = [routine[i] EXCEPT !.at = "ended"]
        BY <1>0 DEF CallSucceeds
    <2>6. CallSucceeds(i) => routine'[i].at = "ended" /\ routine'[i].result = routine[i].result
        BY <1>0, <2>5 DEF RoutineType
    <2>7. records'[T] = CallWrite(i).row => records'[T].version = 2
        BY <2>2
    <2>8. routine[i].result # "error" => ToolStatus(routine[i].result) = routine[i].result
        BY DEF ToolStatus
    <2> QED  BY <1>6, <1>7, <2>2, <2>3, <2>4, <2>6, <2>7, <2>8 DEF T, A
<1> QED  BY <1>10, <1>11, <1>12, <1>13, <1>14, <1>15 DEF CallStep

LEMMA BegunNext ==
    ASSUME RowInv, [Next]_vars
    PROVE  Begun' /\ EndedIsRecorded'
<1>0. TypeInv /\ TypeInv' /\ input' = input
    BY TypeInvNext, StepsMove DEF RowInv
<1>1. cancelled => cancelled'
    <2>1. ASSUME NEW i \in 1..MaxCalls, CallStep(i) \/ WriteLate(i) PROVE UNCHANGED cancelled
        BY <2>1, CallStepKeeps
    <2>2. MainStep \/ Respond \/ UNCHANGED vars => UNCHANGED cancelled
        BY DEF MainStep, Start, ModelReturns, ModelFails, WriteMessage, PublishStep,
               ToolsReturn, Finish, Respond, vars
    <2> QED  BY <2>1, <2>2 DEF Next, Cancel
<1>2. SUFFICES ASSUME input.recorded, NEW i \in 1..MaxCalls
      PROVE  /\ routine'[i].at \in {"ask", "wait", "answer", "run", "rerun", "record2"} =>
                    records'[ToolRecord(Id(i)')].version >= 1
             /\ routine'[i].at \in {"wait", "answer"} =>
                    records'[InteractionRecord(Id(i)')].version >= 1
             /\ routine'[i].at = "ended" =>
                    \/ pc' # "tools" /\ (cancelled' \/ input.givesUp)
                    \/ /\ records'[ToolRecord(Id(i)')].version = 2
                       /\ pc' = "tools" => records'[ToolRecord(Id(i)')]
                                              = [version |-> 2, status |-> routine'[i].result]
    <2> HIDE DEF Id
    <2>1. \A i \in 1..MaxCalls : i \in Ended' => routine'[i].at = "ended"
        BY DEF Ended
    <2>2. \A i \in Ended' : i \in 1..MaxCalls
        BY DEF Ended
    <2> QED  BY <1>0, <1>2, <2>1, <2>2 DEF Begun, EndedIsRecorded, ToolRecord, InteractionRecord
<1>3. CASE UNCHANGED <<steps, calls>> /\ routine'[i] = routine[i]
    <2>1. Id(i)' = Id(i)
        BY <1>3 DEF Id, stepNumber
    <2>2. routine[i].at # "none" => Id(i) \in CallId
        BY <1>0, IdType DEF TypeInv, Main, Quiet
    <2> DEFINE T == ToolRecord(Id(i))
               A == InteractionRecord(Id(i))
    <2>3. routine[i].at # "none" =>
            /\ records[T].version \in Nat /\ records'[T].version \in Nat
            /\ records[T].version <= records'[T].version
            /\ records[T].version = 2 => records'[T] = records[T]
            /\ records[A].version \in Nat /\ records'[A].version \in Nat
            /\ records[A].version <= records'[A].version
        BY <1>0, <2>2, CallRows DEF RowInv
    <2>4. /\ routine[i].at \in {"ask", "wait", "answer", "run", "rerun", "record2"} => records[T].version >= 1
          /\ routine[i].at \in {"wait", "answer"} => records[A].version >= 1
          /\ routine[i].at = "ended" /\ pc = "tools" =>
                records[T] = [version |-> 2, status |-> routine[i].result]
          /\ routine[i].at = "ended" /\ ~input.givesUp /\ ~cancelled => records[T].version = 2
        BY <1>2 DEF RowInv, Begun, EndedIsRecorded, Ended
    <2>5. routine[i].at = "ended" /\ pc' = "tools" => pc = "tools"
        BY <1>0, ToolsBegin DEF TypeInv, Main, Quiet
    <2> HIDE DEF T, A
    <2>6. /\ routine[i].at \in {"ask", "wait", "answer", "run", "rerun", "record2"} => records'[T].version >= 1
          /\ routine[i].at \in {"wait", "answer"} => records'[A].version >= 1
        BY <2>3, <2>4
    <2>7. routine[i].at = "ended" /\ pc = "tools" =>
             records'[T] = [version |-> 2, status |-> routine[i].result] /\ records'[T].version = 2
        <3>1. [version |-> 2, status |-> routine[i].result].version = 2
            OBVIOUS
        <3> QED  BY <2>3, <2>4, <3>1
    <2>8. routine[i].at = "ended" /\ ~input.givesUp /\ ~cancelled' => records'[T].version = 2
        BY <1>1, <2>3, <2>4
    <2>9. routine[i].at = "ended" =>
             \/ pc' # "tools" /\ (cancelled' \/ input.givesUp)
             \/ /\ records'[T].version = 2
                /\ pc' = "tools" => records'[T] = [version |-> 2, status |-> routine[i].result]
        BY <2>5, <2>7, <2>8
    <2> QED  BY <1>3, <2>1, <2>6, <2>9 DEF T, A
<1>4. CASE CallStep(i)
    <2>1. Id(i)' = Id(i) /\ cancelled' = cancelled
        BY <1>4, CallStepKeeps DEF Id, stepNumber
    <2> QED  BY <1>2, <1>4, <2>1, BegunStep
<1>5. CASE WriteLate(i)
    <2>1. routine'[i].at = "lost"
        BY <1>0, <1>5 DEF WriteLate, TypeInv, TypeOK
    <2> QED  BY <2>1
<1>6. CASE routine'[i].at \in {"none", "record1"}
    BY <1>6
<1> QED  BY <1>0, <1>3, <1>4, <1>5, <1>6, Moves

-----------------------------------------------------------------------------
(* The calls that were started.                                            *)

\* What started a tool, and that its call was past its gate.
Starts(i) ==
    /\ StartTool(i)
    /\ \/ WriteRunning(i) /\ Writes(CallWrite(i)) /\ ~RequiresApproval(i)
       \/ WriteAnswer(i) /\ Writes(CallWrite(i)) /\ MayRun(i)

LEMMA RanStep ==
    ASSUME TypeInv, [Next]_vars
    PROVE  \/ ran' = ran
           \/ \E i \in 1..MaxCalls : ran' = ran \cup {Id(i)} /\ Starts(i)
<1>1. CASE MainStep
    BY <1>1 DEF MainStep, Start, ModelReturns, ModelFails, WriteMessage, PublishStep,
                ToolsReturn, Finish
<1>2. ASSUME NEW i \in 1..MaxCalls, CallStep(i)
      PROVE  ran' = ran \/ (ran' = ran \cup {Id(i)} /\ Starts(i))
    <2>1. CASE AskApproval(i) \/ TakeResponse(i) \/ TimeOut(i) \/ ToolReturns(i) \/ ToolFails(i) \/ WriteOutcome(i)
        BY <2>1 DEF AskApproval, TakeResponse, TimeOut, ToolReturns, ToolFails, WriteOutcome
    <2>2. CASE WriteRunning(i)
        BY <2>2 DEF WriteRunning, Starts, StartTool
    <2>3. CASE WriteAnswer(i)
        BY <2>3 DEF WriteAnswer, Starts, StartTool
    <2> QED  BY <1>2, <2>1, <2>2, <2>3 DEF CallStep
<1>3. ASSUME NEW i \in 1..MaxCalls, WriteLate(i) PROVE ran' = ran
    BY <1>3 DEF WriteLate
<1>4. CASE Respond \/ Cancel \/ UNCHANGED vars
    BY <1>4 DEF Respond, Cancel, vars
<1> QED  BY <1>1, <1>2, <1>3, <1>4 DEF Next

LEMMA StartsWhere ==
    ASSUME TypeInv, [Next]_vars, NEW i \in 1..MaxCalls, Starts(i)
    PROVE  /\ routine[i].at \in {"record1", "answer"} /\ Writing(i)
           /\ routine'[i].at = "run"
           /\ Id(i) \in CallId /\ Id(i)[1] = Len(steps) /\ Id(i)[2] = i
           /\ UNCHANGED <<input, cancelled, steps, calls>>
<1>1. routine[i].at \in {"record1", "answer"} /\ Writing(i)
    BY DEF Starts, WriteRunning, WriteAnswer, At, Writing
<1>2. routine'[i].at = "run"
    BY DEF Starts, StartTool, Goto, TypeInv, TypeOK
<1>3. Id(i) \in CallId
    BY <1>1, IdType DEF TypeInv, Main, Quiet
<1>4. CallStep(i)
    BY DEF Starts, CallStep
<1>5. UNCHANGED <<input, cancelled, steps, calls>>
    BY <1>4, CallStepKeeps
<1> QED  BY <1>1, <1>2, <1>3, <1>5 DEF Id, stepNumber

LEMMA StepsGrow ==
    ASSUME TypeInv, [Next]_vars
    PROVE  /\ Len(steps) \in Nat
           /\ \/ steps' = steps
              \/ /\ Len(steps') = Len(steps) + 1
                 /\ steps'[Len(steps) + 1].calls = calls
                 /\ \A n \in 1..Len(steps) : steps'[n] = steps[n]
<1>1. steps \in Seq([calls : Seq(ToolCall), results : Seq(Result)])
    BY DEF TypeInv, TypeOK
<1>2. ASSUME NEW rs, steps' = Append(steps, [calls |-> calls, results |-> rs])
      PROVE  /\ Len(steps') = Len(steps) + 1
             /\ steps'[Len(steps) + 1].calls = calls
             /\ \A n \in 1..Len(steps) : steps'[n] = steps[n]
    BY <1>1, <1>2
<1> QED  BY <1>1, <1>2, StepsMove

LEMMA PastGateNext ==
    ASSUME TypeInv, PastGate, [Next]_vars
    PROVE  PastGate'
<1>0. Len(steps) \in Nat /\ (steps' = steps \/ Len(steps') = Len(steps) + 1) /\ ran \subseteq CallId
    BY StepsGrow DEF TypeInv, TypeOK
<1>1. ASSUME NEW id \in CallId, id[1] <= Len(steps),
             id[1] = Len(steps) => id[2] \in 1..MaxCalls /\ routine[id[2]].at \notin Gate
      PROVE  /\ id[1] <= Len(steps')
             /\ id[1] = Len(steps') => id[2] \in 1..MaxCalls /\ routine'[id[2]].at \notin Gate
    <2>1. id[1] \in Nat
        BY DEF CallId
    <2>2. CASE steps' # steps
        BY <1>0, <1>1, <2>1, <2>2
    <2>3. CASE steps' = steps /\ id[1] = Len(steps)
        <3> DEFINE i == id[2]
        <3>1. i \in 1..MaxCalls /\ routine[i].at \notin Gate
            BY <1>1, <2>3
        <3> HIDE DEF i
        <3>2. CASE routine'[i] = routine[i]
            BY <1>1, <2>3, <3>1, <3>2 DEF i
        <3>3. CASE CallStep(i)
            <4>1. routine[i].at \in {"run", "rerun", "record2"}
                BY <3>1, <3>3 DEF CallStep, WriteRunning, AskApproval, TakeResponse, TimeOut,
                        WriteAnswer, ToolReturns, ToolFails, WriteOutcome, At, Gate
            <4>2. ToolReturns(i) \/ ToolFails(i) \/ WriteOutcome(i)
                BY <3>3, <4>1 DEF CallStep, WriteRunning, AskApproval, TakeResponse, TimeOut, WriteAnswer, At
            <4>3. routine'[i].at \in {"rerun", "record2", "ended"}
                BY <3>1, <4>2 DEF ToolReturns, ToolFails, WriteOutcome, Goto, CallFails, CallSucceeds, TypeInv, TypeOK
            <4> QED  BY <1>1, <2>3, <3>1, <4>3 DEF Gate, i
        <3>4. CASE WriteLate(i)
            <4>1. routine'[i].at = "lost"
                BY <3>1, <3>4 DEF WriteLate, TypeInv, TypeOK
            <4> QED  BY <1>1, <2>3, <3>1, <4>1 DEF Gate, i
        <3>5. ~(routine[i].at = "none" \/ Len(steps') = Len(steps) + 1)
            BY <1>0, <2>3, <3>1 DEF Gate
        <3> QED  BY <3>1, <3>2, <3>3, <3>4, <3>5, Moves
    <2>4. CASE steps' = steps /\ id[1] # Len(steps)
        BY <1>1, <2>4
    <2> QED  BY <2>2, <2>3, <2>4
<1>2. \A id \in ran : /\ id[1] <= Len(steps')
                      /\ id[1] = Len(steps') => id[2] \in 1..MaxCalls /\ routine'[id[2]].at \notin Gate
    BY <1>0, <1>1 DEF PastGate
<1>3. CASE ran' = ran
    BY <1>2, <1>3 DEF PastGate
<1>4. ASSUME NEW i \in 1..MaxCalls, ran' = ran \cup {Id(i)}, Starts(i)
      PROVE  PastGate'
    <2>1. Id(i)[1] = Len(steps) /\ Id(i)[2] = i /\ steps' = steps /\ routine'[i].at = "run"
        BY <1>4, StartsWhere
    <2>2. /\ Id(i)[1] <= Len(steps')
          /\ Id(i)[1] = Len(steps') => Id(i)[2] \in 1..MaxCalls /\ routine'[Id(i)[2]].at \notin Gate
        BY <1>0, <2>1 DEF Gate
    <2> QED  BY <1>2, <1>4, <2>2 DEF PastGate
<1> QED  BY <1>3, <1>4, RanStep

\* The call an id names is the same ever after.
LEMMA CallStays ==
    ASSUME TypeInv, PastGate, [Next]_vars, NEW id \in ran
    PROVE  CallOf(id)' = CallOf(id)
<1>0. id \in CallId /\ id[1] \in Nat
    BY DEF TypeInv, TypeOK, CallId
<1>1. id[1] <= Len(steps) /\ (id[1] = Len(steps) => ~Quiet)
    BY DEF PastGate, Quiet, Gate
<1>2. CASE steps' = steps /\ (calls' = calls \/ Quiet)
    BY <1>0, <1>1, <1>2, StepsGrow DEF CallOf
<1>3. CASE /\ Len(steps') = Len(steps) + 1
           /\ steps'[Len(steps) + 1].calls = calls
           /\ \A n \in 1..Len(steps) : steps'[n] = steps[n]
    <2>1. CASE id[1] = Len(steps)
        BY <1>0, <1>3, <2>1, StepsGrow DEF CallOf
    <2>2. CASE id[1] < Len(steps)
        <3>1. id[1] + 1 \in 1..Len(steps) /\ id[1] < Len(steps')
            BY <1>0, <1>3, <2>2, StepsGrow
        <3> QED  BY <1>3, <2>2, <3>1 DEF CallOf
    <2> QED  BY <1>0, <1>1, <2>1, <2>2, StepsGrow
<1>4. steps' = steps => calls' = calls \/ Quiet
    <2>1. Len(steps) \in Nat
        BY StepsGrow
    <2>2. ASSUME NEW rs, steps' = Append(steps, [calls |-> calls, results |-> rs])
          PROVE  Len(steps') = Len(steps) + 1
        BY <2>2 DEF TypeInv, TypeOK
    <2> QED  BY <2>1, <2>2, StepsMove
<1> QED  BY <1>2, <1>3, <1>4, StepsGrow

LEMMA RecordedNext ==
    ASSUME RowInv, [Next]_vars
    PROVE  RecordedBeforeRun'
<1>0. TypeInv /\ PastGate /\ Bounded /\ Begun /\ RecordedBeforeRun /\ ran \subseteq CallId
    BY DEF RowInv, TypeInv, TypeOK
<1>1. SUFFICES ASSUME input.recorded, NEW id \in ran'
      PROVE  /\ records'[ToolRecord(id)].version >= 1
             /\ CallOf(id)'.tool \in Gated =>
                    records'[InteractionRecord(id)] = [version |-> 2, status |-> "approved"]
    <2> QED  BY <1>1, StepsMove, <1>0 DEF RecordedBeforeRun, ToolRecord, InteractionRecord
<1> DEFINE T == ToolRecord(id)
           A == InteractionRecord(id)
<1>2. CASE id \in ran
    <2>1. CallOf(id)' = CallOf(id)
        BY <1>0, <1>2, CallStays
    <2>2. /\ records[T].version >= 1
          /\ CallOf(id).tool \in Gated => records[A] = [version |-> 2, status |-> "approved"]
        BY <1>0, <1>1, <1>2 DEF RecordedBeforeRun
    <2>3. /\ records[T].version \in Nat /\ records'[T].version \in Nat
          /\ records[T].version <= records'[T].version
          /\ records[A].version = 2 => records'[A] = records[A]
        BY <1>0, <1>2, CallRows
    <2> HIDE DEF T, A
    <2>4. records'[T].version >= 1
        BY <2>2, <2>3
    <2>5. CallOf(id).tool \in Gated => records'[A] = [version |-> 2, status |-> "approved"]
        BY <2>2, <2>3
    <2> QED  BY <2>1, <2>4, <2>5 DEF T, A
<1>3. ASSUME NEW i \in 1..MaxCalls, id = Id(i), Starts(i)
      PROVE  /\ records'[T].version >= 1
             /\ CallOf(id)'.tool \in Gated => records'[A] = [version |-> 2, status |-> "approved"]
    <2>1. /\ routine[i].at \in {"record1", "answer"} /\ Writing(i)
          /\ id \in CallId /\ id[1] = Len(steps) /\ id[2] = i
          /\ UNCHANGED <<steps, calls>>
        BY <1>0, <1>3, StartsWhere
    <2>2. CallOf(id)' = calls[i]
        BY <1>0, <2>1, StepsGrow DEF CallOf
    <2>3. /\ records[T].version \in Nat /\ records'[T].version \in Nat
          /\ records[T].version <= records'[T].version
          /\ records'[A].version \in Nat /\ records'[A].version <= 2
        BY <1>0, <2>1, CallRows DEF Bounded
    <2>4. CASE WriteRunning(i) /\ Writes(CallWrite(i)) /\ ~RequiresApproval(i)
        <3>1. routine[i].at = "record1"
            BY <2>4 DEF WriteRunning, At
        <3>2. CallWrite(i).id = T /\ CallWrite(i).row.version = 1
            BY <1>3, <3>1 DEF CallWrite, Write
        <3>3. records'[T].version >= 1
            BY <1>0, <1>1, <2>1, <2>4, <3>2, WritesRow
        <3> QED  BY <2>2, <2>4, <3>3 DEF RequiresApproval
    <2>5. CASE WriteAnswer(i) /\ Writes(CallWrite(i)) /\ MayRun(i)
        <3>1. routine[i].at = "answer" /\ routine[i].answer = "approved"
            BY <2>5 DEF WriteAnswer, At, MayRun
        <3>2. CallWrite(i).id = A /\ CallWrite(i).row = [version |-> 2, status |-> "approved"]
            BY <1>3, <3>1 DEF CallWrite, Write
        <3>3. CallWrite(i).row.version = 2
            BY <3>2
        <3>4. records'[A].version >= 2 /\ (records'[A].version = 2 => records'[A] = CallWrite(i).row)
            BY <1>0, <1>1, <2>1, <2>5, <3>2, <3>3, WritesRow
        <3>5. records[T].version >= 1
            BY <1>0, <1>1, <1>3, <3>1 DEF Begun
        <3> HIDE DEF T, A
        <3> QED  BY <2>3, <3>2, <3>4, <3>5
    <2> QED  BY <1>3, <2>4, <2>5 DEF Starts
<1> QED  BY <1>0, <1>1, <1>2, <1>3, RanStep

-----------------------------------------------------------------------------
(* The steps that went into the result.                                    *)

\* One step of the result: what ResultsMatchCalls says of it.
Matches(step, n) ==
    LET executed == {i \in DOMAIN step.calls : ~step.calls[i].provider}
    IN /\ Len(step.results) = Cardinality(executed)
       /\ \A k, l \in DOMAIN step.results : k < l => step.results[k].call < step.results[l].call
       /\ \A k \in DOMAIN step.results :
            /\ step.results[k].call \in executed
            /\ input.recorded =>
                 records[ToolRecord(<<n - 1, step.results[k].call>>)]
                    = [version |-> 2, status |-> step.results[k].status]

LEMMA MatchesAll == ResultsMatchCalls <=> \A n \in DOMAIN steps : Matches(steps[n], n)
BY DEF ResultsMatchCalls, Matches

\* A step in the result keeps matching: its rows are at version two.
LEMMA MatchStays ==
    ASSUME TypeInv, Bounded, [Next]_vars,
           NEW step \in [calls : Seq(ToolCall), results : Seq(Result)],
           NEW n \in 1..MaxSteps, Matches(step, n)
    PROVE  Matches(step, n)'
<1>1. input' = input
    BY StepsMove
<1>2. ASSUME NEW k \in DOMAIN step.results, input.recorded,
             records[ToolRecord(<<n - 1, step.results[k].call>>)]
                = [version |-> 2, status |-> step.results[k].status]
      PROVE  records'[ToolRecord(<<n - 1, step.results[k].call>>)]
                = [version |-> 2, status |-> step.results[k].status]
    <2> DEFINE id == <<n - 1, step.results[k].call>>
    <2>1. step.results \in Seq(Result)
        OBVIOUS
    <2>2. step.results[k] \in Result
        BY <1>2, <2>1
    <2>3. step.results[k].call \in 0..MaxCalls
        BY <2>2 DEF Result
    <2>4. n - 1 \in 0..MaxSteps - 1
        OBVIOUS
    <2>5. id \in CallId
        BY <2>3, <2>4 DEF CallId
    <2>6. records[ToolRecord(id)].version = 2
        BY <1>2
    <2> HIDE DEF id
    <2>7. records'[ToolRecord(id)] = records[ToolRecord(id)]
        BY <2>5, <2>6, CallRows
    <2> QED  BY <1>2, <2>7 DEF id
<1> QED  BY <1>1, <1>2 DEF Matches, ToolRecord

LEMMA MatchNew ==
    ASSUME RowInv, [Next]_vars, pc = "tools", Ended = Executed
    PROVE  Matches([calls |-> calls, results |-> results], Len(steps) + 1)
<1> DEFINE step == [calls |-> calls, results |-> results]
<1>0. TypeInv /\ Begun /\ calls \in Seq(ToolCall) /\ Len(steps) \in Nat
    BY CallsType, StepsGrow DEF RowInv, TypeInv
<1>1. {i \in DOMAIN step.calls : ~step.calls[i].provider} = Executed
    BY <1>0 DEF Executed
<1>2. /\ results \in Seq(Result)
      /\ Len(results) = Cardinality(Executed)
      /\ \A k \in 1..Len(results) : \E i \in Executed :
            k = ResultSlot(i) /\ results[k] = [call |-> i, status |-> routine[i].result]
    BY <1>0, ResultsFull
<1>3. /\ \A i \in Executed : ResultSlot(i) \in 1..Cardinality(Executed)
      /\ \A i, j \in Executed : i < j => ResultSlot(i) < ResultSlot(j)
      /\ Cardinality(Executed) \in Nat
    BY <1>0, Slots
<1>4. ASSUME NEW k \in 1..Len(results), NEW l \in 1..Len(results), k < l
      PROVE  results[k].call < results[l].call
    <2>1. PICK i \in Executed : k = ResultSlot(i) /\ results[k].call = i
        BY <1>2
    <2>2. PICK j \in Executed : l = ResultSlot(j) /\ results[l].call = j
        BY <1>2
    <2>3. i \in Nat /\ j \in Nat
        BY <1>0 DEF Executed
    <2>4. ~(j < i)
        BY <1>3, <1>4, <2>1, <2>2
    <2>5. i # j
        BY <1>3, <1>4, <2>1, <2>2
    <2> QED  BY <2>1, <2>2, <2>3, <2>4, <2>5
<1>5. ASSUME NEW k \in 1..Len(results)
      PROVE  /\ results[k].call \in Executed
             /\ input.recorded =>
                  records[ToolRecord(<<Len(steps), results[k].call>>)]
                     = [version |-> 2, status |-> results[k].status]
    <2>1. PICK i \in Executed : results[k] = [call |-> i, status |-> routine[i].result]
        BY <1>2
    <2>2. results[k].call = i /\ results[k].status = routine[i].result
        BY <2>1
    <2>3. i \in 1..MaxCalls /\ routine[i].at = "ended"
        BY DEF Ended
    <2>4. input.recorded => records[ToolRecord(Id(i))] = [version |-> 2, status |-> routine[i].result]
        BY <1>0, <2>3 DEF Begun
    <2>5. Id(i) = <<Len(steps), i>>
        BY DEF Id, stepNumber
    <2> QED  BY <2>2, <2>4, <2>5
<1>6. DOMAIN results = 1..Len(results) /\ (Len(steps) + 1) - 1 = Len(steps)
    BY <1>0, <1>2
<1>7. step.calls = calls /\ step.results = results
    OBVIOUS
<1> HIDE DEF step
<1> QED  BY <1>1, <1>2, <1>4, <1>5, <1>6, <1>7 DEF Matches, step

LEMMA ResultsNext ==
    ASSUME RowInv, [Next]_vars
    PROVE  ResultsMatchCalls'
<1> DEFINE Step == [calls : Seq(ToolCall), results : Seq(Result)]
<1>0. /\ TypeInv /\ Bounded /\ ResultsMatchCalls /\ Len(steps) \in Nat
      /\ steps \in Seq(Step) /\ Len(steps) <= MaxSteps
    BY StepsGrow DEF RowInv, TypeInv, TypeOK
<1>1. \A n \in 1..Len(steps) : steps[n] \in Step /\ Matches(steps[n], n)
    <2> HIDE DEF Step
    <2>1. DOMAIN steps = 1..Len(steps)
        BY <1>0
    <2> QED  BY <1>0, <2>1, MatchesAll
<1>2. /\ steps' \in Seq(Step) /\ Len(steps') <= MaxSteps
    BY TypeInvNext, <1>0 DEF TypeInv, TypeOK
<1> HIDE DEF Step
<1>3. ASSUME NEW n \in 1..Len(steps')
      PROVE  steps'[n] \in Step /\ Matches(steps'[n], n)
    <2>1. CASE n \in 1..Len(steps) /\ steps'[n] = steps[n]
        BY <1>1, <2>1
    <2>2. ASSUME NEW rs, steps' = Append(steps, [calls |-> calls, results |-> rs])
          PROVE  /\ n \in 1..Len(steps) => steps'[n] = steps[n]
                 /\ n \notin 1..Len(steps) =>
                        n = Len(steps) + 1 /\ steps'[n] = [calls |-> calls, results |-> rs]
        BY <1>0, <2>2
    <2>3. steps'[n] \in Step
        BY <1>2, <1>3
    <2>4. CASE pc = "tools" /\ Ended = Executed
               /\ steps' = Append(steps, [calls |-> calls, results |-> results])
        BY <2>1, <2>2, <2>3, <2>4, MatchNew
    <2>5. CASE calls = <<>> /\ steps' = Append(steps, [calls |-> calls, results |-> <<>>])
        <3>1. Matches([calls |-> <<>>, results |-> <<>>], Len(steps) + 1)
            BY FS_EmptySet DEF Matches
        <3> QED  BY <2>1, <2>2, <2>3, <2>5, <3>1
    <2>6. CASE steps' = steps
        BY <2>1, <2>6
    <2> QED  BY <1>0, <2>4, <2>5, <2>6, StepsMove
<1>4. ASSUME NEW n \in 1..Len(steps'), NEW step, step = steps'[n]
      PROVE  Matches(step, n)'
    <2>1. step \in Step /\ Matches(step, n) /\ n \in 1..MaxSteps
        BY <1>2, <1>3, <1>4
    <2> QED  BY <1>0, <2>1, MatchStays DEF Step
<1>5. ASSUME NEW n \in DOMAIN steps'
      PROVE  LET step == steps'[n]
                 executed == {i \in DOMAIN step.calls : ~step.calls[i].provider}
             IN /\ Len(step.results) = Cardinality(executed)
                /\ \A k, l \in DOMAIN step.results : k < l => step.results[k].call < step.results[l].call
                /\ \A k \in DOMAIN step.results :
                     /\ step.results[k].call \in executed
                     /\ input'.recorded =>
                          records'[ToolRecord(<<n - 1, step.results[k].call>>)]
                             = [version |-> 2, status |-> step.results[k].status]
    <2>1. n \in 1..Len(steps')
        BY <1>2, <1>5
    <2>2. PICK step : step = steps'[n]
        OBVIOUS
    <2>3. Matches(step, n)'
        BY <1>4, <2>1, <2>2
    <2> QED  BY <2>2, <2>3 DEF Matches, ToolRecord
<1> QED  BY <1>5 DEF ResultsMatchCalls, ToolRecord

LEMMA RowInvNext == ASSUME RowInv, [Next]_vars PROVE RowInv'
<1>1. TypeInv' /\ Bounded'
    BY TypeInvNext, CallRows DEF RowInv
<1>2. PastGate'
    BY PastGateNext DEF RowInv
<1> QED  BY <1>1, <1>2, BegunNext, RecordedNext, ResultsNext DEF RowInv

\* What the calls have written by the time they are where they are, and that the
\* tools that were started were past their gate.
THEOREM AgentRowInvariant == Spec => []RowInv
BY RowInvInit, RowInvNext, PTL DEF Spec

\* A tool starts behind the durable record that says it runs, and behind the
\* approval it owes its start to, for any number of calls beside it.
THEOREM RecordsPrecedeRuns == Spec => []RecordedBeforeRun
<1>1. RowInv => RecordedBeforeRun
    BY DEF RowInv
<1> QED  BY <1>1, AgentRowInvariant, PTL

\* Each executed call of a step has one result, in the order of the calls, and
\* the store's last record of the call says what the model is told.
THEOREM ResultsMatch == Spec => []ResultsMatchCalls
<1>1. RowInv => ResultsMatchCalls
    BY DEF RowInv
<1> QED  BY <1>1, AgentRowInvariant, PTL

\* Unless it is canceled or gives its store up, no call ends without version two.
THEOREM EndsAreRecorded == Spec => []EndedIsRecorded
<1>1. RowInv => EndedIsRecorded
    BY DEF RowInv
<1> QED  BY <1>1, AgentRowInvariant, PTL

-----------------------------------------------------------------------------
(* The record of a child.                                                  *)

\* The newest version a child's record may have, by the step the child is at.
Child ==
    LET row == records[SubagentRecord] IN
    /\ pc \in {"started", "model", "message"} => row.version <= Len(steps) + 1
    /\ pc \in {"progress", "tools"} => row.version <= Len(steps) + 2
    /\ pc = "ending" /\ outcome = "ok" =>
            \/ row.version <= Len(steps) + 1
            \/ row = [version |-> Len(steps) + 2, status |-> "completed"]
    /\ CompletedChildIsRecorded

LEMMA ChildInit == ASSUME Init PROVE Child
<1>1. SubagentRecord \in RecordId
    BY DEF SubagentRecord, RecordId, CallId
<1> QED  BY <1>1 DEF Init, Child, NoRow, CompletedChildIsRecorded

LEMMA ReportRow ==
    ASSUME TypeInv, [Next]_vars
    PROVE  /\ records'[SubagentRecord].version \in Nat
           /\ \/ records'[SubagentRecord] = records[SubagentRecord]
              \/ /\ pc \in {"started", "progress", "ending"}
                 /\ records'[SubagentRecord] = Progress.row
<1>1. SubagentRecord \in RecordId
    BY DEF SubagentRecord, RecordId, CallId
<1>2. Written(SubagentRecord, Offered) /\ records'[SubagentRecord] \in RowType
    BY <1>1, RowsStep
<1>3. ASSUME NEW w \in Offered, w.id = SubagentRecord
      PROVE  pc \in {"started", "progress", "ending"} /\ w = Progress
    <2>1. CASE w \in MainOffer
        <3>1. w.id # MessageRecord(stepNumber)
            BY <1>3 DEF SubagentRecord, MessageRecord
        <3>2. pc # "message"
            BY <2>1, <3>1 DEF MainOffer, Write
        <3> QED  BY <2>1, <3>2 DEF MainOffer
    <2>2. ASSUME NEW i \in 1..MaxCalls, Writing(i), w = CallWrite(i) PROVE FALSE
        <3>1. w.id \in {ToolRecord(Id(i)), InteractionRecord(Id(i))}
            BY <2>2, OfferedCall
        <3> QED  BY <1>3, <3>1 DEF ToolRecord, InteractionRecord, SubagentRecord
    <2> QED  BY <1>3, <2>1, <2>2 DEF Offered
<1> QED  BY <1>2, <1>3 DEF Written, RowType

\* Where the main routine goes, as far as the child's record goes.
LEMMA MainMoves ==
    ASSUME TypeInv, [Next]_vars
    PROVE  \/ UNCHANGED <<pc, outcome>> /\ Len(steps') = Len(steps)
           \/ pc' \in {"ending", "done"} /\ outcome' # "ok"
           \/ pc = "started" /\ pc' = "model" /\ Len(steps') = Len(steps)
           \/ pc = "model" /\ pc' = "message" /\ Len(steps') = Len(steps)
           \/ pc = "message" /\ pc' = "progress" /\ Len(steps') = Len(steps)
           \/ pc = "progress" /\ pc' = "tools" /\ Len(steps') = Len(steps)
           \/ pc \in {"progress", "tools"} /\ pc' \in {"model", "ending"} /\ Len(steps') = Len(steps) + 1
           \/ pc = "ending" /\ pc' = "done" /\ UNCHANGED outcome /\ Len(steps') = Len(steps) /\ Publishes
<1>0. \A rs : steps' = Append(steps, [calls |-> calls, results |-> rs]) => Len(steps') = Len(steps) + 1
    BY DEF TypeInv, TypeOK
<1>1. CASE MainStep
    <2>1. CASE Start \/ ModelReturns \/ ModelFails \/ WriteMessage
        BY <2>1 DEF Start, ModelReturns, ModelFails, WriteMessage, Returns
    <2>2. CASE PublishStep \/ ToolsReturn
        BY <1>0, <2>2 DEF PublishStep, ToolsReturn, Returns
    <2>3. CASE Finish
        BY <2>3 DEF Finish
    <2> QED  BY <1>1, <2>1, <2>2, <2>3 DEF MainStep
<1>2. ASSUME NEW i \in 1..MaxCalls, CallStep(i)
      PROVE  UNCHANGED <<pc, outcome, steps>> \/ (pc' = "ending" /\ outcome' = "error")
    <2>1. UNCHANGED steps
        BY <1>2, CallStepKeeps
    <2>2. CallFails(i) \/ CallSucceeds(i) => UNCHANGED <<pc, outcome>> \/ (pc' = "ending" /\ outcome' = "error")
        BY DEF CallFails, CallSucceeds, Returns
    <2> QED  BY <1>2, <2>1, <2>2 DEF CallStep, WriteRunning, AskApproval, TakeResponse, TimeOut,
                WriteAnswer, ToolReturns, ToolFails, WriteOutcome
<1>3. ASSUME NEW i \in 1..MaxCalls, WriteLate(i) PROVE UNCHANGED <<pc, outcome, steps>>
    BY <1>3 DEF WriteLate
<1>4. CASE Respond \/ Cancel \/ UNCHANGED vars
    BY <1>4 DEF Respond, Cancel, vars, workflow
<1> QED  BY <1>1, <1>2, <1>3, <1>4 DEF Next

LEMMA ChildNext ==
    ASSUME TypeInv, Child, [Next]_vars
    PROVE  Child'
<1> DEFINE row == records[SubagentRecord]
<1>0. /\ Len(steps) \in Nat /\ SubagentRecord \in RecordId
      /\ row.version \in Nat /\ records'[SubagentRecord].version \in Nat
      /\ input' = input /\ SubagentRecord' = SubagentRecord
    <2>1. SubagentRecord \in RecordId
        BY DEF SubagentRecord, RecordId, CallId
    <2>2. row.version \in Nat
        BY <2>1 DEF TypeInv, TypeOK
    <2> QED  BY <2>1, <2>2, ReportRow, StepsGrow, StepsMove DEF SubagentRecord
<1>1. /\ pc = "started" => Progress.row.version = 1
      /\ pc = "progress" => Progress.row.version = Len(steps) + 2
      /\ pc = "ending" /\ outcome = "ok" =>
            Progress.row = [version |-> Len(steps) + 2, status |-> "completed"]
    BY DEF Progress, Write, stepNumber
<1>2. \/ records'[SubagentRecord] = row
      \/ pc \in {"started", "progress", "ending"} /\ records'[SubagentRecord] = Progress.row
    BY ReportRow
<1> DEFINE new == records'[SubagentRecord]
<1>3. /\ pc \in {"started", "model", "message"} => new.version <= Len(steps) + 1
      /\ pc \in {"progress", "tools"} => new.version <= Len(steps) + 2
      /\ pc = "ending" /\ outcome = "ok" =>
            \/ new.version <= Len(steps) + 1
            \/ new = [version |-> Len(steps) + 2, status |-> "completed"]
      /\ pc = "done" => new = row
    BY <1>0, <1>1, <1>2 DEF Child
<1>4. CASE UNCHANGED <<pc, outcome>> /\ Len(steps') = Len(steps)
    BY <1>0, <1>3, <1>4 DEF Child, CompletedChildIsRecorded
<1>5. CASE pc' \in {"ending", "done"} /\ outcome' # "ok"
    BY <1>5 DEF Child, CompletedChildIsRecorded
<1>6. CASE pc = "ending" /\ pc' = "done" /\ UNCHANGED outcome /\ Len(steps') = Len(steps) /\ Publishes
    <2> SUFFICES ASSUME outcome = "ok", input.child, input.recorded
                 PROVE  new.status = "completed"
        BY <1>0, <1>6 DEF Child, CompletedChildIsRecorded
    <2>1. Writes(Progress)
        BY <1>6 DEF Publishes
    <2>2. /\ Progress \in [id : RecordId, row : RowType] /\ Progress.id = SubagentRecord
          /\ Progress.row = [version |-> Len(steps) + 2, status |-> "completed"]
        <3>1. Progress \in MainOffer
            BY <1>6 DEF MainOffer
        <3> QED  BY <1>1, <1>6, <3>1, OfferedMain DEF Progress, Write
    <2>3. PICK w : w = Progress
        OBVIOUS
    <2>4. /\ new.version >= w.row.version
          /\ new.version = w.row.version => new = w.row
        BY <2>1, <2>2, <2>3, WriteRow
    <2>5. \/ new.version <= Len(steps) + 1
          \/ new = [version |-> Len(steps) + 2, status |-> "completed"]
        BY <1>3, <1>6
    <2>6. w.row.version = Len(steps) + 2
        BY <2>2, <2>3
    <2> HIDE DEF new
    <2> QED  BY <1>0, <2>4, <2>5, <2>6 DEF new
<1>7. CASE pc \in {"progress", "tools"} /\ pc' \in {"model", "ending"} /\ Len(steps') = Len(steps) + 1
    BY <1>0, <1>3, <1>7 DEF Child, CompletedChildIsRecorded
<1>8. CASE /\ Len(steps') = Len(steps)
           /\ \/ pc = "started" /\ pc' = "model"
              \/ pc = "model" /\ pc' = "message"
              \/ pc = "message" /\ pc' = "progress"
              \/ pc = "progress" /\ pc' = "tools"
    BY <1>0, <1>3, <1>8 DEF Child, CompletedChildIsRecorded
<1> QED  BY <1>4, <1>5, <1>6, <1>7, <1>8, MainMoves

\* A child that succeeded leaves completed as its record's newest version: the
\* snapshots before its last have lower versions, written or still in flight.
THEOREM ChildrenCompleted == Spec => []CompletedChildIsRecorded
<1>1. Init => TypeInv /\ Child
    BY TypeInvInit, ChildInit
<1>2. TypeInv /\ Child /\ [Next]_vars => (TypeInv /\ Child)'
    BY TypeInvNext, ChildNext
<1>3. TypeInv /\ Child => CompletedChildIsRecorded
    BY DEF Child
<1> QED  BY <1>1, <1>2, <1>3, PTL DEF Spec

-----------------------------------------------------------------------------
(* The approvals.                                                          *)

\* Someone approved the call id, and first of all if it has its own name.
HasSay(id) ==
    \E m \in DOMAIN sent :
        /\ sent[m].response = [approval |-> id, approved |-> TRUE]
        /\ ~input.shared => m \in SentTo(id) /\ \A n \in SentTo(id) : m <= n

\* Responses name calls of this step or an earlier one.
SentSoFar == \A m \in DOMAIN sent : sent[m].response.approval[1] <= Len(steps)

\* What waits in a channel was sent.
Queued ==
    \A c \in CallId : \A k \in DOMAIN channels[c] :
        \E m \in DOMAIN sent : sent[m].response = channels[c][k]

\* The response at k is the first for its approval in a channel.
Foremost(q, k, id) ==
    k \in DOMAIN q /\ q[k].approval = id /\ \A l \in DOMAIN q : l < k => q[l].approval # id

\* While a call has its own signal name and has taken no response, the first
\* response sent to it is the first for it in its channel.
Kept(id) ==
    /\ SentTo(id) # {} => \E k \in DOMAIN channels[id] : channels[id][k].approval = id
    /\ \A k \in DOMAIN channels[id] : Foremost(channels[id], k, id) =>
          \E m \in SentTo(id) : /\ sent[m].response = channels[id][k]
                                /\ \A n \in SentTo(id) : m <= n

Untaken == {"none", "record1", "ask", "wait"}
FirstKept ==
    ~input.shared /\ Len(steps) < MaxSteps =>
        \A i \in 1..MaxCalls : routine[i].at \in Untaken => Kept(Id(i))

\* An approved call was approved by someone.
Approved ==
    \A i \in 1..MaxCalls :
        routine[i].at # "none" /\ routine[i].answer = "approved" => HasSay(Id(i))

ApprovalInv == TypeInv /\ PastGate /\ SentSoFar /\ Queued /\ FirstKept /\ Approved /\ RanOnlyApproved

LEMMA ApprovalInit == ASSUME Init PROVE ApprovalInv
<1>1. TypeInv
    BY TypeInvInit
<1>2. PastGate /\ RanOnlyApproved
    BY DEF Init, PastGate, RanOnlyApproved
<1>3. DOMAIN sent = {} /\ \A c \in CallId : DOMAIN channels[c] = {}
    BY DEF Init
<1>4. SentSoFar /\ Queued
    BY <1>3 DEF SentSoFar, Queued
<1>5. \A id \in CallId : Kept(id)
    BY <1>3 DEF Kept, SentTo
<1>6. FirstKept
    BY <1>1, <1>5, IdType DEF FirstKept, TypeInv
<1>7. Approved
    BY DEF Init, Approved, NoRoutine
<1> QED  BY <1>1, <1>2, <1>4, <1>6, <1>7 DEF ApprovalInv

\* What happens to responses: nothing, one is taken, or one is sent.
Sends(i, response) ==
    /\ pc = "tools" /\ i \in Executed /\ response \in Response /\ response.approval[1] = Len(steps)
    /\ channels' = [channels EXCEPT ![SignalName(Id(i))] = Append(@, response)]
    /\ sent' = Append(sent, [name |-> SignalName(Id(i)), response |-> response])
    /\ UNCHANGED <<input, workflow, ran>>

LEMMA PeopleStep ==
    ASSUME TypeInv, [Next]_vars
    PROVE  \/ UNCHANGED people
           \/ \E i \in 1..MaxCalls : TakeResponse(i)
           \/ \E i \in 1..MaxCalls : \E response \in Response : Sends(i, response)
<1>1. CASE MainStep
    BY <1>1 DEF MainStep, Start, ModelReturns, ModelFails, WriteMessage, PublishStep,
                ToolsReturn, Finish
<1>2. ASSUME NEW i \in 1..MaxCalls, CallStep(i) PROVE UNCHANGED people \/ TakeResponse(i)
    BY <1>2 DEF CallStep, WriteRunning, AskApproval, TimeOut, WriteAnswer,
                ToolReturns, ToolFails, WriteOutcome
<1>3. ASSUME NEW i \in 1..MaxCalls, WriteLate(i) PROVE UNCHANGED people
    BY <1>3 DEF WriteLate
<1>4. CASE Cancel \/ UNCHANGED vars
    BY <1>4 DEF Cancel, vars, people
<1>5. CASE Respond
    <2>1. PICK i \in Executed, j \in Executed, approved \in BOOLEAN :
            /\ pc = "tools"
            /\ channels' = [channels EXCEPT ![SignalName(Id(i))] =
                    Append(@, [approval |-> Id(j), approved |-> approved])]
            /\ sent' = Append(sent, [name |-> SignalName(Id(i)),
                    response |-> [approval |-> Id(j), approved |-> approved]])
            /\ UNCHANGED <<input, cancelled, workflow, records, ran, faults>>
        BY <1>5, Zenon DEF Respond
    <2>2. i \in 1..MaxCalls /\ j \in 1..MaxCalls
        BY ExecutedType DEF TypeInv
    <2>3. Id(j) \in CallId /\ Id(j)[1] = Len(steps)
        BY <2>1, <2>2, IdType DEF TypeInv, Main, Id, stepNumber
    <2>4. /\ [approval |-> Id(j), approved |-> approved] \in Response
          /\ [approval |-> Id(j), approved |-> approved].approval[1] = Len(steps)
        BY <2>3 DEF Response
    <2> QED  BY <2>1, <2>2, <2>4 DEF Sends
<1> QED  BY <1>1, <1>2, <1>3, <1>4, <1>5 DEF Next

LEMMA SentGrows ==
    ASSUME TypeInv, [Next]_vars
    PROVE  \/ sent' = sent
           \/ \E x : sent' = Append(sent, x)
BY PeopleStep DEF people, TakeResponse, Sends

\* What was sent first stays what was sent first.
LEMMA SaysStay ==
    ASSUME TypeInv, [Next]_vars, NEW id, HasSay(id)
    PROVE  HasSay(id)'
<1>1. sent \in Seq([name : CallId, response : Response]) /\ Len(sent) \in Nat /\ input' = input
    BY StepsMove DEF TypeInv, TypeOK
<1>2. CASE sent' = sent
    BY <1>1, <1>2 DEF HasSay, SentTo, SignalName
<1>3. ASSUME NEW x, sent' = Append(sent, x) PROVE HasSay(id)'
    <2>1. /\ DOMAIN sent = 1..Len(sent) /\ DOMAIN sent' = 1..(Len(sent) + 1)
          /\ \A m \in 1..Len(sent) : sent'[m] = sent[m]
        BY <1>1, <1>3
    <2>2. PICK m \in DOMAIN sent :
            /\ sent[m].response = [approval |-> id, approved |-> TRUE]
            /\ ~input.shared => m \in SentTo(id) /\ \A n \in SentTo(id) : m <= n
        BY DEF HasSay
    <2>3. m \in DOMAIN sent' /\ sent'[m] = sent[m] /\ m <= Len(sent) + 1
        BY <1>1, <2>1
    <2>4. \A n \in 1..Len(sent) : n \in SentTo(id)' <=> n \in SentTo(id)
        BY <1>1, <2>1 DEF SentTo, SignalName
    <2>5. \A n \in SentTo(id)' : n \in 1..(Len(sent) + 1)
        BY <2>1 DEF SentTo
    <2>6. ~input.shared => m \in SentTo(id)' /\ \A n \in SentTo(id)' : m <= n
        BY <1>1, <2>1, <2>2, <2>3, <2>4, <2>5
    <2> QED  BY <1>1, <2>2, <2>3, <2>6 DEF HasSay
<1> QED  BY <1>2, <1>3, SentGrows

LEMMA SentSoFarNext ==
    ASSUME TypeInv, SentSoFar, [Next]_vars
    PROVE  SentSoFar'
<1>1. sent \in Seq([name : CallId, response : Response]) /\ Len(steps) \in Nat
      /\ (steps' = steps \/ Len(steps') = Len(steps) + 1)
    BY StepsGrow DEF TypeInv, TypeOK
<1>2. \A m \in DOMAIN sent : sent[m].response.approval[1] <= Len(steps')
    <2>1. \A m \in DOMAIN sent : sent[m].response.approval[1] \in Nat
        <3>1. ASSUME NEW m \in DOMAIN sent PROVE sent[m].response.approval \in CallId
            <4> DEFINE Message == [name : CallId, response : Response]
            <4>1. sent[m] \in Message
                <5>1. sent \in Seq(Message)
                    BY <1>1
                <5> HIDE DEF Message
                <5> QED  BY <3>1, <5>1
            <4>2. sent[m].response \in Response
                BY <4>1
            <4> QED  BY <4>2 DEF Response
        <3> QED  BY <3>1 DEF CallId
    <2> QED  BY <1>1, <2>1 DEF SentSoFar
<1>3. CASE sent' = sent
    BY <1>2, <1>3 DEF SentSoFar
<1>4. ASSUME NEW i, NEW response, Sends(i, response) PROVE SentSoFar'
    <2> DEFINE x == [name |-> SignalName(Id(i)), response |-> response]
    <2>1. sent' = Append(sent, x) /\ x.response = response
          /\ response.approval[1] = Len(steps) /\ steps' = steps
        BY <1>4 DEF Sends, workflow
    <2> HIDE DEF x
    <2>2. \A m \in DOMAIN sent' : (m \in DOMAIN sent /\ sent'[m] = sent[m]) \/ sent'[m] = x
        BY <1>1, <2>1
    <2> QED  BY <1>1, <1>2, <2>1, <2>2 DEF SentSoFar
<1> QED  BY <1>3, <1>4, PeopleStep DEF people, TakeResponse

LEMMA QueuedNext ==
    ASSUME TypeInv, Queued, [Next]_vars
    PROVE  Queued'
<1>1. /\ sent \in Seq([name : CallId, response : Response])
      /\ channels \in [CallId -> Seq(Response)]
    BY DEF TypeInv, TypeOK
<1>2. CASE UNCHANGED people
    BY <1>2 DEF people, Queued
<1>3. ASSUME NEW i \in 1..MaxCalls, TakeResponse(i) PROVE Queued'
    <2> DEFINE name == SignalName(Id(i))
    <2>1. channels[name] # <<>> /\ channels' = [channels EXCEPT ![name] = Tail(@)] /\ sent' = sent
        BY <1>3 DEF TakeResponse
    <2> HIDE DEF name
    <2>2. SUFFICES ASSUME NEW c \in CallId, NEW k \in DOMAIN channels'[c]
                   PROVE  \E m \in DOMAIN sent : sent[m].response = channels'[c][k]
        BY <2>1 DEF Queued
    <2>3. CASE c = name
        <3>1. channels'[c] = Tail(channels[c]) /\ channels[c] \in Seq(Response) /\ channels[c] # <<>>
            BY <1>1, <2>1, <2>3
        <3>2. k + 1 \in DOMAIN channels[c] /\ channels'[c][k] = channels[c][k + 1]
            BY <2>2, <3>1
        <3> QED  BY <3>2 DEF Queued
    <2>4. CASE c # name
        BY <1>1, <2>1, <2>2, <2>4 DEF Queued
    <2> QED  BY <2>3, <2>4
<1>4. ASSUME NEW i \in 1..MaxCalls, NEW response \in Response, Sends(i, response) PROVE Queued'
    <2> DEFINE name == SignalName(Id(i))
               x == [name |-> name, response |-> response]
    <2>1. channels' = [channels EXCEPT ![name] = Append(@, response)] /\ sent' = Append(sent, x)
          /\ x.response = response
        BY <1>4 DEF Sends
    <2> HIDE DEF name, x
    <2>2. /\ \A m \in DOMAIN sent : m \in DOMAIN sent' /\ sent'[m] = sent[m]
          /\ Len(sent) + 1 \in DOMAIN sent' /\ sent'[Len(sent) + 1] = x
        BY <1>1, <2>1
    <2>3. SUFFICES ASSUME NEW c \in CallId, NEW k \in DOMAIN channels'[c]
                   PROVE  \E m \in DOMAIN sent' : sent'[m].response = channels'[c][k]
        BY DEF Queued
    <2>4. CASE k \in DOMAIN channels[c] /\ channels'[c][k] = channels[c][k]
        BY <2>2, <2>4 DEF Queued
    <2>5. CASE channels'[c][k] = response
        BY <2>1, <2>2, <2>5
    <2>6. CASE c = name
        <3>1. channels'[c] = Append(channels[c], response) /\ channels[c] \in Seq(Response)
            BY <1>1, <2>1, <2>6
        <3>2. \/ k \in DOMAIN channels[c] /\ channels'[c][k] = channels[c][k]
              \/ channels'[c][k] = response
            BY <2>3, <3>1
        <3> QED  BY <2>4, <2>5, <3>2
    <2>7. CASE c # name
        BY <1>1, <2>1, <2>3, <2>4, <2>7
    <2> QED  BY <2>6, <2>7
<1> QED  BY <1>2, <1>3, <1>4, PeopleStep

LEMMA Untouched ==
    ASSUME NEW id, UNCHANGED <<input, sent>>, channels'[id] = channels[id], Kept(id)
    PROVE  Kept(id)'
BY DEF Kept, Foremost, SentTo, SignalName

\* A response for another approval is dropped from the front of the channel.
LEMMA KeptTaken ==
    ASSUME TypeInv, NEW id \in CallId, Kept(id), UNCHANGED <<input, sent>>,
           channels[id] # <<>>, channels' = [channels EXCEPT ![id] = Tail(@)],
           Head(channels[id]).approval # id
    PROVE  Kept(id)'
<1> DEFINE q == channels[id]
           new == channels'[id]
<1>1. q \in Seq(Response) /\ new = Tail(q) /\ q # <<>> /\ q[1].approval # id
    BY DEF TypeInv, TypeOK
<1>2. SentTo(id)' = SentTo(id)
    BY DEF SentTo, SignalName
<1>3. /\ Len(q) \in Nat /\ DOMAIN q = 1..Len(q) /\ DOMAIN new = 1..(Len(q) - 1)
      /\ \A k \in DOMAIN new : new[k] = q[k + 1]
    <2> HIDE DEF q, new
    <2> QED  BY <1>1
<1>4. /\ SentTo(id) # {} => \E k \in DOMAIN q : q[k].approval = id
      /\ \A k \in DOMAIN q : Foremost(q, k, id) =>
            \E m \in SentTo(id) : sent[m].response = q[k] /\ \A n \in SentTo(id) : m <= n
    BY DEF Kept
<1> HIDE DEF q, new
<1>5. ASSUME SentTo(id) # {} PROVE \E k \in DOMAIN new : new[k].approval = id
    <2>1. PICK k \in DOMAIN q : q[k].approval = id
        BY <1>4, <1>5
    <2>2. k - 1 \in DOMAIN new /\ new[k - 1] = q[k]
        <3>1. k # 1 /\ k \in 1..Len(q)
            BY <1>1, <1>3, <2>1
        <3>2. k - 1 \in 1..(Len(q) - 1) /\ (k - 1) + 1 = k
            BY <1>3, <3>1
        <3> QED  BY <1>3, <3>2
    <2> QED  BY <2>1, <2>2
<1>6. ASSUME NEW k \in DOMAIN new, Foremost(new, k, id)
      PROVE  \E m \in SentTo(id) : sent[m].response = new[k] /\ \A n \in SentTo(id) : m <= n
    <2>1. k + 1 \in DOMAIN q /\ new[k] = q[k + 1] /\ q[k + 1].approval = id
        BY <1>3, <1>6 DEF Foremost
    <2>2. ASSUME NEW l \in DOMAIN q, l < k + 1 PROVE q[l].approval # id
        <3>1. CASE l = 1
            BY <1>1, <3>1
        <3>2. CASE l # 1
            <4>1. l - 1 \in DOMAIN new /\ l - 1 < k /\ new[l - 1] = q[l]
                <5>1. l - 1 \in 1..(Len(q) - 1) /\ (l - 1) + 1 = l
                    BY <1>3, <2>2, <3>2
                <5>2. k \in Nat
                    BY <1>3, <1>6
                <5> QED  BY <1>3, <2>2, <5>1, <5>2
            <4> QED  BY <1>6, <4>1 DEF Foremost
        <3> QED  BY <3>1, <3>2
    <2>3. Foremost(q, k + 1, id)
        BY <2>1, <2>2 DEF Foremost
    <2> QED  BY <1>4, <2>1, <2>3
<1>7. \A k : Foremost(channels[id], k, id)' <=> Foremost(new, k, id)
    BY DEF Foremost, new
<1>8. sent' = sent
    OBVIOUS
<1> QED  BY <1>2, <1>5, <1>6, <1>7, <1>8 DEF Kept, new

\* One more response at the end of the channel, whomever it is for.
LEMMA KeptSent ==
    ASSUME TypeInv, NEW id \in CallId, Kept(id), UNCHANGED input, ~input.shared,
           NEW name \in CallId, NEW response \in Response,
           channels' = [channels EXCEPT ![name] = Append(@, response)],
           sent' = Append(sent, [name |-> name, response |-> response])
    PROVE  Kept(id)'
<1> DEFINE q == channels[id]
           new == channels'[id]
           x == [name |-> name, response |-> response]
           old == SentTo(id)
           later == SentTo(id)'
<1>1. /\ sent \in Seq([name : CallId, response : Response]) /\ q \in Seq(Response)
      /\ Len(sent) \in Nat
    BY DEF TypeInv, TypeOK
<1>2. /\ DOMAIN sent = 1..Len(sent) /\ DOMAIN sent' = 1..(Len(sent) + 1)
      /\ \A m \in 1..Len(sent) : sent'[m] = sent[m]
      /\ sent'[Len(sent) + 1] = x /\ x.name = name /\ x.response = response
    BY <1>1
<1>3. old = {m \in 1..Len(sent) : sent[m].name = id /\ sent[m].response.approval = id}
    BY <1>2 DEF SentTo, SignalName
<1>4. later = {m \in 1..(Len(sent) + 1) : sent'[m].name = id /\ sent'[m].response.approval = id}
    BY <1>2 DEF SentTo, SignalName
<1> HIDE DEF x, old, later
<1>5. later = IF name = id /\ response.approval = id THEN old \cup {Len(sent) + 1} ELSE old
    <2>1. \A m \in 1..Len(sent) : m \in later <=> m \in old
        BY <1>1, <1>2, <1>3, <1>4
    <2>2. Len(sent) + 1 \in later <=> (name = id /\ response.approval = id)
        BY <1>1, <1>2, <1>4
    <2>3. \A m \in later : m \in 1..Len(sent) \/ m = Len(sent) + 1
        BY <1>1, <1>4
    <2>4. \A m \in old : m \in 1..Len(sent)
        BY <1>3
    <2>5. CASE name = id /\ response.approval = id
        BY <2>1, <2>2, <2>3, <2>4, <2>5, Zenon
    <2>6. CASE ~(name = id /\ response.approval = id)
        <3>1. \A m : m \in later <=> m \in old
            BY <2>1, <2>2, <2>3, <2>4, <2>6
        <3>2. later = old
            BY <3>1
        <3> QED  BY <2>6, <3>2
    <2> QED  BY <2>5, <2>6
<1>6. /\ old # {} => \E k \in DOMAIN q : q[k].approval = id
      /\ \A k \in DOMAIN q : Foremost(q, k, id) =>
            \E m \in old : sent[m].response = q[k] /\ \A n \in old : m <= n
    BY DEF Kept, old
<1>7. new = IF name = id THEN Append(q, response) ELSE q
    BY DEF TypeInv, TypeOK
<1> HIDE DEF q, new
<1>8. /\ \A k \in DOMAIN q : k \in DOMAIN new /\ new[k] = q[k]
      /\ \A k \in DOMAIN q : k \in Nat
    BY <1>1, <1>7
<1>9. ASSUME NEW k \in DOMAIN new
      PROVE  \/ k \in DOMAIN q
             \/ /\ name = id /\ new[k] = response
                /\ \A l \in DOMAIN q : l < k
    BY <1>1, <1>7, <1>9
<1>10. ASSUME later # {} PROVE \E k \in DOMAIN new : new[k].approval = id
    <2>1. CASE old # {}
        BY <1>6, <1>8, <2>1
    <2>2. CASE name = id /\ response.approval = id
        <3>1. Len(q) + 1 \in DOMAIN new /\ new[Len(q) + 1] = response
            BY <1>1, <1>7, <2>2
        <3> QED  BY <2>2, <3>1
    <2> QED  BY <1>5, <1>10, <2>1, <2>2
<1>11. ASSUME NEW k \in DOMAIN new, Foremost(new, k, id)
       PROVE  \E m \in later : sent'[m].response = new[k] /\ \A n \in later : m <= n
    <2>1. CASE k \in DOMAIN q
        <3>1. Foremost(q, k, id)
            BY <1>8, <1>11, <2>1 DEF Foremost
        <3>2. PICK m \in old : sent[m].response = q[k] /\ \A n \in old : m <= n
            BY <1>6, <2>1, <3>1
        <3>3. m \in 1..Len(sent) /\ sent'[m] = sent[m] /\ m <= Len(sent) + 1
            BY <1>1, <1>2, <1>3, <3>2
        <3>4. m \in later /\ \A n \in later : m <= n
            BY <1>5, <3>2, <3>3
        <3> QED  BY <1>8, <2>1, <3>2, <3>3, <3>4
    <2>2. CASE k \notin DOMAIN q
        <3>1. name = id /\ new[k] = response /\ \A l \in DOMAIN q : l < k
            BY <1>9, <2>2
        <3>2. response.approval = id
            BY <1>11, <3>1 DEF Foremost
        <3>3. \A l \in DOMAIN q : q[l].approval # id
            BY <1>8, <1>11, <3>1 DEF Foremost
        <3>4. old = {}
            BY <1>6, <3>3
        <3>5. later = {Len(sent) + 1}
            BY <1>5, <3>1, <3>2, <3>4
        <3> QED  BY <1>1, <1>2, <3>1, <3>5
    <2> QED  BY <2>1, <2>2
<1>12. \A k : Foremost(channels[id], k, id)' <=> Foremost(new, k, id)
    BY DEF Foremost, new
<1> QED  BY <1>10, <1>11, <1>12 DEF Kept, new, later

\* A call that has taken no response yet had taken none before.
LEMMA StillUntaken ==
    ASSUME TypeInv, [Next]_vars, NEW i \in 1..MaxCalls,
           steps' = steps, routine'[i].at \in Untaken
    PROVE  routine[i].at \in Untaken
<1>1. routine \in [1..MaxCalls -> RoutineType]
    BY DEF TypeInv, TypeOK, RoutineType
<1>2. CASE routine'[i] = routine[i]
    BY <1>2
<1>3. CASE CallStep(i)
    <2>1. CASE routine[i].at \in {"record1", "ask", "wait"}
        BY <2>1 DEF Untaken
    <2>2. ASSUME WriteAnswer(i) PROVE routine'[i].at \notin Untaken
        <3>1. CASE StartTool(i)
            BY <1>1, <3>1 DEF StartTool, Goto, Untaken
        <3>2. CASE CallFails(i)
            BY <1>1, <3>2 DEF CallFails, Untaken
        <3>3. CASE routine' = [routine EXCEPT ![i].at = "record2", ![i].result = "denied"]
            BY <1>1, <3>3 DEF Untaken
        <3> QED  BY <2>2, <3>1, <3>2, <3>3 DEF WriteAnswer
    <2>3. CASE ToolReturns(i) \/ ToolFails(i)
        BY <1>1, <2>3 DEF ToolReturns, ToolFails, Goto, Untaken
    <2>4. ASSUME WriteOutcome(i) PROVE routine'[i].at \notin Untaken
        <3>1. CASE CallFails(i)
            BY <1>1, <3>1 DEF CallFails, Untaken
        <3>2. CASE CallSucceeds(i)
            BY <1>1, <3>2 DEF CallSucceeds, Untaken
        <3> QED  BY <2>4, <3>1, <3>2 DEF WriteOutcome
    <2>5. CASE WriteRunning(i) \/ AskApproval(i) \/ TakeResponse(i) \/ TimeOut(i)
        BY <2>1, <2>5 DEF WriteRunning, AskApproval, TakeResponse, TimeOut, At
    <2> QED  BY <1>3, <2>2, <2>3, <2>4, <2>5 DEF CallStep
<1>4. CASE WriteLate(i)
    BY <1>1, <1>4 DEF WriteLate, Untaken
<1>5. CASE routine[i].at = "none" \/ Len(steps') = Len(steps) + 1
    <2>1. Len(steps) \in Nat
        BY StepsGrow
    <2> QED  BY <1>5, <2>1 DEF Untaken
<1> QED  BY <1>2, <1>3, <1>4, <1>5, Moves

\* Nothing was sent yet for the calls of a step that is to come.
LEMMA KeptAtFirst ==
    ASSUME TypeInv, SentSoFar, Queued, NEW id \in CallId, id[1] > Len(steps)
    PROVE  SentTo(id) = {} /\ \A k \in DOMAIN channels[id] : channels[id][k].approval # id
<1>1. \A m \in DOMAIN sent : sent[m].response.approval # id
    <2> SUFFICES ASSUME NEW m \in DOMAIN sent, sent[m].response.approval = id PROVE FALSE
        OBVIOUS
    <2>1. id[1] <= Len(steps) /\ id[1] \in Nat /\ Len(steps) \in Nat
        BY DEF SentSoFar, CallId, TypeInv, TypeOK
    <2> QED  BY <2>1
<1>2. SentTo(id) = {}
    BY <1>1 DEF SentTo
<1>3. \A k \in DOMAIN channels[id] : channels[id][k].approval # id
    BY <1>1 DEF Queued
<1> QED  BY <1>2, <1>3

LEMMA FirstKeptNext ==
    ASSUME TypeInv, SentSoFar, Queued, FirstKept, [Next]_vars
    PROVE  FirstKept'
<1>0. /\ input' = input /\ Len(steps) \in Nat /\ (steps' = steps \/ Len(steps') = Len(steps) + 1)
    BY StepsMove, StepsGrow
<1>1. ASSUME NEW i \in 1..MaxCalls, NEW id, id = <<Len(steps'), i>>,
             ~input.shared, Len(steps') < MaxSteps, routine'[i].at \in Untaken
      PROVE  Kept(id)'
    <2>1. id \in CallId /\ id[1] = Len(steps')
        BY <1>0, <1>1 DEF CallId
    <2>2. CASE Len(steps') = Len(steps) + 1
        <3>1. UNCHANGED people
            <4>1. ASSUME steps' = steps PROVE FALSE
                BY <1>0, <2>2, <4>1
            <4> QED  BY <4>1, PeopleStep DEF TakeResponse, Sends, workflow
        <3>2. SentTo(id) = {} /\ \A k \in DOMAIN channels[id] : channels[id][k].approval # id
            BY <1>0, <2>1, <2>2, KeptAtFirst
        <3>3. Kept(id)
            BY <3>2 DEF Kept, Foremost
        <3> QED  BY <1>0, <3>1, <3>3, Untouched DEF people
    <2>3. CASE steps' = steps
        <3>1. routine[i].at \in Untaken /\ id = Id(i) /\ Len(steps) < MaxSteps
            BY <1>1, <2>3, StillUntaken DEF Id, stepNumber
        <3>2. Kept(id)
            BY <1>1, <3>1 DEF FirstKept
        <3>3. CASE UNCHANGED people
            BY <1>0, <3>2, <3>3, Untouched DEF people
        <3>4. ASSUME NEW j \in 1..MaxCalls, TakeResponse(j) PROVE Kept(id)'
            <4> DEFINE name == Id(j)
            <4>1. /\ SignalName(Id(j)) = name /\ name \in CallId
                BY <1>1, <3>1, IdType DEF SignalName, TypeInv
            <4>2. /\ channels[name] # <<>> /\ UNCHANGED <<input, sent>>
                  /\ channels' = [channels EXCEPT ![name] = Tail(@)]
                BY <3>4, <4>1 DEF TakeResponse
            <4>3. CASE j = i
                <5>1. ASSUME Answers(Head(channels[name]), id) PROVE FALSE
                    <6>1. \E answer : Answered(i, answer)
                        BY <3>1, <3>4, <4>1, <4>3, <5>1 DEF TakeResponse
                    <6>2. routine'[i].at = "answer"
                        BY <6>1 DEF Answered, TypeInv, TypeOK
                    <6> QED  BY <1>1, <6>2 DEF Untaken
                <5>2. Head(channels[id]).approval # id
                    BY <3>1, <4>3, <5>1 DEF Answers
                <5> QED  BY <2>1, <3>1, <3>2, <4>2, <4>3, <5>2, KeptTaken
            <4>4. CASE j # i
                <5>1. name # id
                    BY <1>1, <4>4 DEF Id
                <5>2. channels'[id] = channels[id]
                    BY <2>1, <4>2, <5>1 DEF TypeInv, TypeOK
                <5> QED  BY <3>2, <4>2, <5>2, Untouched
            <4> QED  BY <4>3, <4>4
        <3>5. ASSUME NEW j \in 1..MaxCalls, NEW response \in Response, Sends(j, response)
              PROVE  Kept(id)'
            <4>1. SignalName(Id(j)) \in CallId
                BY <1>1, <3>1, IdType DEF SignalName, TypeInv
            <4> DEFINE name == SignalName(Id(j))
            <4>2. /\ channels' = [channels EXCEPT ![name] = Append(@, response)]
                  /\ sent' = Append(sent, [name |-> name, response |-> response])
                BY <3>5 DEF Sends
            <4> HIDE DEF name
            <4> QED  BY <1>0, <1>1, <2>1, <3>2, <4>1, <4>2, KeptSent DEF name
        <3> QED  BY <3>3, <3>4, <3>5, PeopleStep
    <2> QED  BY <1>0, <2>2, <2>3
<1> QED  BY <1>0, <1>1 DEF FirstKept, Id, stepNumber

\* A call turns approved by the response it takes.
LEMMA TurnsApproved ==
    ASSUME TypeInv, [Next]_vars, NEW i \in 1..MaxCalls, CallStep(i),
           routine'[i].answer = "approved", routine[i].answer # "approved"
    PROVE  /\ TakeResponse(i)
           /\ Answers(Head(channels[SignalName(Id(i))]), Id(i))
           /\ Head(channels[SignalName(Id(i))]).approved
<1>1. routine \in [1..MaxCalls -> RoutineType]
    BY DEF TypeInv, TypeOK, RoutineType
<1>2. ASSUME NEW label \in Labels, Goto(i, label) PROVE routine'[i].answer = routine[i].answer
    BY <1>1, <1>2 DEF Goto
<1>3. StartTool(i) \/ CallFails(i) \/ CallSucceeds(i) => routine'[i].answer = routine[i].answer
    <2>1. CASE StartTool(i)
        BY <1>1, <2>1 DEF StartTool, Goto
    <2>2. CASE CallFails(i)
        BY <1>1, <2>2 DEF CallFails
    <2>3. CASE CallSucceeds(i)
        BY <1>1, <2>3 DEF CallSucceeds
    <2> QED  BY <2>1, <2>2, <2>3
<1>4. ASSUME NEW result, routine' = [routine EXCEPT ![i].at = "record2", ![i].result = result]
       PROVE  routine'[i].answer = routine[i].answer
    BY <1>1, <1>4
<1>5. WriteRunning(i) \/ AskApproval(i) \/ WriteOutcome(i) => routine'[i].answer = routine[i].answer
    BY <1>2, <1>3 DEF WriteRunning, AskApproval, WriteOutcome, Labels
<1>6. WriteAnswer(i) => routine'[i].answer = routine[i].answer
    BY <1>3, <1>4 DEF WriteAnswer
<1>7. ToolReturns(i) \/ ToolFails(i) => routine'[i].answer = routine[i].answer
    BY <1>2, <1>4 DEF ToolReturns, ToolFails, Labels
<1>8. TimeOut(i) => routine'[i].answer = "timed-out"
    BY <1>1 DEF TimeOut, Answered
<1>9. TakeResponse(i)
    BY <1>5, <1>6, <1>7, <1>8 DEF CallStep
<1>10. Answers(Head(channels[SignalName(Id(i))]), Id(i))
    BY <1>9 DEF TakeResponse
<1>11. Answered(i, IF Head(channels[SignalName(Id(i))]).approved THEN "approved" ELSE "denied")
    BY <1>9, <1>10 DEF TakeResponse
<1>12. Head(channels[SignalName(Id(i))]).approved
    BY <1>1, <1>11 DEF Answered
<1> QED  BY <1>9, <1>10, <1>12

LEMMA ApprovedNext ==
    ASSUME TypeInv, Queued, FirstKept, Approved, [Next]_vars
    PROVE  Approved'
<1>0. Len(steps) \in Nat
    BY StepsGrow
<1>1. ASSUME NEW i \in 1..MaxCalls, NEW id, id = Id(i), steps' = steps,
             routine[i].at # "none", routine[i].answer = "approved"
      PROVE  HasSay(id)'
    BY <1>1, SaysStay DEF Approved
<1>2. ASSUME NEW i \in 1..MaxCalls, NEW id, id = Id(i), TakeResponse(i),
             Answers(Head(channels[SignalName(id)]), id), Head(channels[SignalName(id)]).approved
      PROVE  HasSay(id)'
    <2> DEFINE q == channels[SignalName(id)]
    <2>1. id \in CallId /\ SignalName(id) \in CallId /\ Len(steps) < MaxSteps
        <3>1. routine[i].at # "none"
            BY <1>2 DEF TakeResponse, At
        <3>2. Len(steps) < MaxSteps
            BY <3>1 DEF TypeInv, Main, Quiet
        <3>3. id \in CallId
            BY <1>2, <3>2, IdType DEF TypeInv
        <3> QED  BY <3>2, <3>3 DEF SignalName, CallId
    <2>2. q \in Seq(Response) /\ q # <<>>
        BY <1>2, <2>1 DEF TakeResponse, TypeInv, TypeOK
    <2>3. 1 \in DOMAIN q /\ q[1] \in Response /\ q[1].approval = id /\ q[1].approved
        <3>1. Head(q).approval = id /\ Head(q).approved
            BY <1>2 DEF Answers
        <3> HIDE DEF q
        <3> QED  BY <2>2, <3>1
    <2>4. q[1] = [approval |-> id, approved |-> TRUE]
        <3> HIDE DEF q
        <3> QED  BY <2>3 DEF Response
    <2>5. CASE input.shared
        <3>1. \E m \in DOMAIN sent : sent[m].response = q[1]
            BY <2>1, <2>3 DEF Queued
        <3> QED  BY <1>2, <2>4, <2>5, <3>1, SaysStay DEF HasSay
    <2>6. CASE ~input.shared
        <3>1. SignalName(id) = id
            BY <2>6 DEF SignalName
        <3>2. Kept(id)
            BY <1>2, <2>1, <2>6 DEF FirstKept, TakeResponse, At, Untaken
        <3>3. Foremost(channels[id], 1, id)
            <4>1. \A l \in DOMAIN q : ~(l < 1)
                <5> HIDE DEF q
                <5> QED  BY <2>2
            <4> QED  BY <2>3, <3>1, <4>1 DEF Foremost
        <3>4. \E m \in SentTo(id) : sent[m].response = q[1] /\ \A n \in SentTo(id) : m <= n
            BY <2>3, <3>1, <3>2, <3>3 DEF Kept
        <3>5. \A m \in SentTo(id) : m \in DOMAIN sent
            BY DEF SentTo
        <3> QED  BY <2>4, <2>6, <3>4, <3>5, SaysStay DEF HasSay
    <2> QED  BY <2>5, <2>6
<1>3. ASSUME NEW i \in 1..MaxCalls, NEW id, id = <<Len(steps'), i>>,
             routine'[i].at # "none", routine'[i].answer = "approved"
      PROVE  HasSay(id)'
    <2>1. CASE UNCHANGED <<steps, calls>> /\ routine'[i] = routine[i]
        BY <1>1, <1>3, <2>1 DEF Id, stepNumber
    <2>2. CASE CallStep(i)
        <3>1. steps' = steps
            BY <2>2, CallStepKeeps
        <3>2. id = Id(i)
            BY <1>3, <3>1 DEF Id, stepNumber
        <3>3. routine[i].at # "none"
            BY <2>2 DEF CallStep, WriteRunning, AskApproval, TakeResponse, TimeOut,
                        WriteAnswer, ToolReturns, ToolFails, WriteOutcome, At
        <3>4. CASE routine[i].answer = "approved"
            BY <1>1, <3>1, <3>2, <3>3, <3>4
        <3>5. CASE routine[i].answer # "approved"
            BY <1>2, <1>3, <2>2, <3>2, <3>5, TurnsApproved
        <3> QED  BY <3>4, <3>5
    <2>3. CASE WriteLate(i)
        <3>1. steps' = steps /\ routine[i].at # "none" /\ routine' = [routine EXCEPT ![i].at = "lost"]
            BY <2>3 DEF WriteLate, Writing
        <3>2. routine[i].answer = "approved" /\ id = Id(i)
            BY <1>3, <3>1 DEF TypeInv, TypeOK, Id, stepNumber
        <3> QED  BY <1>1, <3>1, <3>2
    <2>4. CASE /\ routine'[i].at \in {"none", "record1"}
               /\ routine'[i].at = "record1" => routine'[i].answer = "none"
        BY <1>3, <2>4
    <2> QED  BY <2>1, <2>2, <2>3, <2>4, Moves
<1> QED  BY <1>3 DEF Approved, Id, stepNumber

LEMMA RanOnlyApprovedNext ==
    ASSUME TypeInv, PastGate, Approved, RanOnlyApproved, [Next]_vars
    PROVE  RanOnlyApproved'
<1>0. Len(steps) \in Nat /\ \A id \in ran : CallOf(id).tool \in Gated => HasSay(id)
    BY StepsGrow DEF RanOnlyApproved, HasSay
<1>1. ASSUME NEW id \in ran, CallOf(id)'.tool \in Gated PROVE HasSay(id)'
    BY <1>0, <1>1, CallStays, SaysStay
<1>2. ASSUME NEW i \in 1..MaxCalls, NEW id, id = Id(i), Starts(i), CallOf(id)'.tool \in Gated
      PROVE  HasSay(id)'
    <2>1. /\ id[1] = Len(steps) /\ id[2] = i /\ UNCHANGED <<steps, calls>>
        BY <1>2, StartsWhere
    <2>2. CallOf(id)' = calls[i]
        BY <1>0, <2>1 DEF CallOf
    <2>3. RequiresApproval(i)
        BY <1>2, <2>2 DEF RequiresApproval
    <2>4. routine[i].at = "answer" /\ routine[i].answer = "approved"
        BY <1>2, <2>3 DEF Starts, WriteAnswer, At, MayRun
    <2>5. HasSay(id)
        BY <1>2, <2>4 DEF Approved
    <2> QED  BY <2>5, SaysStay
<1>3. \A id \in ran' : CallOf(id)'.tool \in Gated => HasSay(id)'
    <2>1. CASE ran' = ran
        BY <1>1, <2>1
    <2>2. ASSUME NEW i \in 1..MaxCalls, ran' = ran \cup {Id(i)}, Starts(i)
          PROVE  \A id \in ran' : CallOf(id)'.tool \in Gated => HasSay(id)'
        BY <1>1, <1>2, <2>2
    <2> QED  BY <2>1, <2>2, RanStep
<1> QED  BY <1>3 DEF RanOnlyApproved, HasSay

LEMMA ApprovalNext == ASSUME ApprovalInv, [Next]_vars PROVE ApprovalInv'
<1> USE DEF ApprovalInv
<1>1. TypeInv' /\ PastGate'
    BY TypeInvNext, PastGateNext
<1>2. SentSoFar' /\ Queued'
    BY SentSoFarNext, QueuedNext
<1>3. FirstKept' /\ Approved'
    BY FirstKeptNext, ApprovedNext
<1>4. RanOnlyApproved'
    BY RanOnlyApprovedNext
<1> QED  BY <1>1, <1>2, <1>3, <1>4

\* The invariant of the approvals: responses wait in their channels in the order
\* they were sent, and a call that is approved was approved by someone.
THEOREM AgentApprovalInvariant == Spec => []ApprovalInv
<1>1. ApprovalInv /\ [Next]_vars => ApprovalInv'
    BY ApprovalNext
<1> QED  BY <1>1, ApprovalInit, PTL DEF Spec

\* A tool that requires approval is started only after someone approved this
\* very call (approval.go:104), with the first answer it got where the call has
\* a signal name of its own.
THEOREM RunsAreApproved == Spec => []RanOnlyApproved
<1>1. ApprovalInv => RanOnlyApproved
    BY DEF ApprovalInv
<1> QED  BY <1>1, AgentApprovalInvariant, PTL

-----------------------------------------------------------------------------
(* The writes of one record follow each other.                             *)

\* The next version of a call's record comes on top of the one before it.
VersionsInOrder ==
    [][\A id \in CallId : \A r \in {ToolRecord(id), InteractionRecord(id)} :
          records'[r] # records[r] => records'[r].version = records[r].version + 1]_vars

LEMMA Unrecorded ==
    ASSUME [Next]_vars, ~input.recorded
    PROVE  records' = records
<1>1. \A w : (Writes(w) => records' = records) /\ ~WriteFails(w)
    BY DEF Writes, WriteFails
<1>2. Publishes \/ PublishFails => records' = records
    BY <1>1 DEF Publishes, PublishFails
<1>3. CASE MainStep
    BY <1>1, <1>2, <1>3 DEF MainStep, Start, ModelReturns, ModelFails, WriteMessage, PublishStep,
            ToolsReturn, Finish, ActivityFails
<1>4. ASSUME NEW i \in 1..MaxCalls, CallStep(i) PROVE records' = records
    <2>1. CASE WriteRunning(i) \/ AskApproval(i) \/ WriteAnswer(i) \/ WriteOutcome(i)
        BY <1>1, <2>1 DEF WriteRunning, AskApproval, WriteAnswer, WriteOutcome
    <2>2. CASE TakeResponse(i) \/ TimeOut(i) \/ ToolReturns(i) \/ ToolFails(i)
        BY <2>2 DEF TakeResponse, TimeOut, ToolReturns, ToolFails, ActivityFails
    <2> QED  BY <1>4, <2>1, <2>2 DEF CallStep
<1>5. ASSUME NEW i \in 1..MaxCalls, WriteLate(i) PROVE FALSE
    BY <1>5 DEF WriteLate
<1>6. CASE Respond \/ Cancel \/ UNCHANGED vars
    BY <1>6 DEF Respond, Cancel, vars
<1> QED  BY <1>3, <1>4, <1>5, <1>6 DEF Next

LEMMA NextVersion ==
    ASSUME RowInv, [Next]_vars, NEW id \in CallId,
           NEW r \in {ToolRecord(id), InteractionRecord(id)}, records'[r] # records[r]
    PROVE  records'[r].version = records[r].version + 1
<1>1. TypeInv /\ Bounded /\ Begun
    BY DEF RowInv
<1>2. r \in RecordId /\ records[r].version \in Nat /\ records'[r].version \in Nat
      /\ r # SubagentRecord /\ r # MessageRecord(stepNumber)
    <2>1. r # SubagentRecord /\ r # MessageRecord(stepNumber)
        BY DEF ToolRecord, InteractionRecord, SubagentRecord, MessageRecord
    <2>2. r \in RecordId /\ records[r].version \in Nat /\ records'[r].version \in Nat
        BY <1>1, CallRows
    <2> QED  BY <2>1, <2>2
<1>3. input.recorded
    BY Unrecorded
<1>4. PICK w \in Offered : w.id = r /\ records[r].version < w.row.version /\ records'[r] = w.row
    <2>1. Written(r, Offered)
        BY <1>1, <1>2, RowsStep
    <2> QED  BY <2>1 DEF Written
<1>5. PICK i \in 1..MaxCalls : Writing(i) /\ w = CallWrite(i)
    BY <1>1, <1>2, <1>4, OfferedMain DEF Offered
<1>6. w.row.version \in {1, 2} /\ (w.row.version = 2 => records[r].version >= 1)
    <2>1. CASE routine[i].at \in {"record1", "ask"}
        <3>1. w.row.version = 1
            BY <1>5, <2>1 DEF CallWrite, Write
        <3> QED  BY <3>1
    <2>2. CASE routine[i].at = "answer"
        <3>1. w.id = InteractionRecord(Id(i)) /\ w.row.version = 2
            BY <1>5, <2>2 DEF CallWrite, Write
        <3> QED  BY <1>1, <1>3, <1>4, <2>2, <3>1 DEF Begun
    <2>3. CASE routine[i].at = "record2"
        <3>1. w.id = ToolRecord(Id(i)) /\ w.row.version = 2
            BY <1>5, <2>3 DEF CallWrite, Write
        <3> QED  BY <1>1, <1>3, <1>4, <2>3, <3>1 DEF Begun
    <2> QED  BY <1>5, <2>1, <2>2, <2>3 DEF Writing
<1> QED  BY <1>2, <1>4, <1>6

\* What module Connector assumes of the writers of tool and interaction records:
\* a call's version two is written on top of its version one and never in its
\* place, even when the workflow is canceled and late activities reach the store.
THEOREM VersionsFollow == Spec => VersionsInOrder
<1>1. RowInv /\ [Next]_vars =>
        [\A id \in CallId : \A r \in {ToolRecord(id), InteractionRecord(id)} :
            records'[r] # records[r] => records'[r].version = records[r].version + 1]_vars
    BY NextVersion
<1> QED  BY <1>1, AgentRowInvariant, PTL DEF Spec, VersionsInOrder
=============================================================================
