--------------------------- MODULE ConnectorProofs ---------------------------
(* Theorems about Connector, for every value of its constants.             *)
EXTENDS Connector, TLAPS

USE ConstantsAssumption

\* Every request is of exactly one kind, with the fields of that kind.
LEMMA Kinds ==
    /\ Requests = Durables \cup Previews
    /\ \A e \in Upserts : e \in Requests /\ e \in UpsertEvent /\ e \notin Ends /\ e \notin Previews
    /\ \A e \in Ends : e \in Requests /\ e \in EndEvent /\ e \notin Upserts /\ e \notin Previews
    /\ \A e \in Previews : e \in Requests /\ e \in PreviewEvent /\ e \notin Durables
BY DEF Durables, Upserts, Ends, Previews, UpsertEvent, EndEvent, PreviewEvent

\* The labels a call starts with and continues with after its event is logged.
LEMMA StepLabels ==
    /\ \A e \in Upserts : FirstStep(e) = IF e.accepts = None THEN "recordGet" ELSE "validate"
    /\ \A e \in Ends : FirstStep(e) = "eventGet"
    /\ \A e \in Previews : FirstStep(e) = "previewGet"
    /\ \A e \in Upserts : AfterEvent(e) = IF e.accepts = None THEN "publish" ELSE "accept"
    /\ \A e \in Ends : AfterEvent(e) = "terminalPut"
BY Kinds DEF FirstStep, AfterEvent, Durables

\* Which events a call at each step can carry, and its cursor once it has one.
UpsertLabels == {"validate", "recordGet", "recordPut", "recordCheck", "accept"}
EventLabels == {"eventGet", "eventPut", "eventCheck"}
PreviewLabels == {"previewGet", "previewPut"}
LoggedLabels == {"accept", "terminalPut"}

CallOK ==
    \A c \in Calls :
        /\ pc[c] # "idle" => req[c] \in issued
        /\ pc[c] \in UpsertLabels => req[c] \in Upserts
        /\ pc[c] \in {"validate", "accept"} => req[c].accepts \in Attempts
        /\ pc[c] \in EventLabels => req[c] \in Durables
        /\ pc[c] = "terminalPut" => req[c] \in Ends
        /\ pc[c] \in PreviewLabels => req[c] \in Previews
        /\ pc[c] \in {"eventPut", "eventCheck", "accept", "terminalPut"} => cur[c] \in Cursors
        /\ pc[c] = "publish" /\ req[c] \in Durables => cur[c] \in Cursors

TypeInv == TypeOK /\ CallOK

LEMMA TypeInit == Init => TypeInv
BY Kinds DEF Init, TypeInv, TypeOK, CallOK, Labels, NoRow, NoPreview, NoRecord, UpsertLabels,
      EventLabels, PreviewLabels

LEMMA EventIdsOf == \A e \in Durables : EventId(e) \in EventIds
BY DEF EventIds

LEMMA TypeStep == TypeInv /\ [Next]_vars => TypeInv'
<1> SUFFICES ASSUME TypeInv, [Next]_vars PROVE TypeInv'
    OBVIOUS
<1> USE DEF TypeInv, TypeOK, CallOK, Labels, UpsertLabels, EventLabels, PreviewLabels, At, Goto
<1>1. ASSUME NEW c \in Calls, NEW e \in Requests, Submit(c, e) PROVE TypeInv'
    BY <1>1, Kinds, StepLabels DEF Submit, store, clock, Durables, UpsertEvent
<1>2. ASSUME NEW c \in Calls, ValidateTarget(c) PROVE TypeInv'
    BY <1>2 DEF ValidateTarget, ReturnError, Leave, store, clock, flow
<1>3. ASSUME NEW c \in Calls, RecordGet(c) PROVE TypeInv'
    BY <1>3, Kinds DEF RecordGet, ReturnNil, ReturnError, Leave, store, clock, flow, Durables
<1>4. ASSUME NEW c \in Calls, RecordPut(c) PROVE TypeInv'
    BY <1>4, Kinds DEF RecordPut, WriteRecordRow, RecordRow, RecordRows, UpsertEvent, store, clock, flow, Durables
<1>5. ASSUME NEW c \in Calls, RecordCheck(c) PROVE TypeInv'
    BY <1>5, Kinds DEF RecordCheck, ReturnNil, ReturnError, Leave, store, clock, flow, Durables
<1>6. ASSUME NEW c \in Calls, EventGet(c) PROVE TypeInv'
    BY <1>6, Kinds, StepLabels, EventIdsOf DEF EventGet, AdoptCursor, AllocateCursor, NewCursors, ReturnError, Leave, store, clock, flow, Durables, EventRow, NoRow, UpsertEvent
<1>7. ASSUME NEW c \in Calls, EventPut(c) PROVE TypeInv'
    BY <1>7, Kinds, StepLabels, EventIdsOf DEF EventPut, WriteEventRow, store, clock, flow, Durables, EventRow, UpsertEvent
<1>8. ASSUME NEW c \in Calls, EventCheck(c) PROVE TypeInv'
    BY <1>8, Kinds, StepLabels, EventIdsOf DEF EventCheck, AdoptCursor, ReturnError, Leave, store, clock, flow, Durables, EventRow, NoRow, UpsertEvent
<1>9. ASSUME NEW c \in Calls, MarkAccepted(c) PROVE TypeInv'
    BY <1>9, Kinds DEF MarkAccepted, Accepted, Manifest, NoPreview, store, clock, flow, Durables
<1>10. ASSUME NEW c \in Calls, PutTerminal(c) PROVE TypeInv'
    BY <1>10, Kinds DEF PutTerminal, TerminalRow, EventRow, clock, flow, Durables
<1>11. ASSUME NEW c \in Calls, PreviewGet(c) PROVE TypeInv'
    BY <1>11, Kinds DEF PreviewGet, ReturnError, Leave, store, clock, flow
<1>12. ASSUME NEW c \in Calls, PreviewPut(c) PROVE TypeInv'
    BY <1>12, Kinds DEF PreviewPut, WritePreviewRow, Manifest, PreviewEvent, PreviewStatus, store, clock, flow
<1>13. ASSUME NEW c \in Calls, Publish(c) PROVE TypeInv'
    BY <1>13, Kinds DEF Publish, Deliver, ReturnNil, Leave, Message, store, clock, flow
<1>14. ASSUME NEW c \in Calls, Fault(c) PROVE TypeInv'
    BY <1>14, Kinds DEF Fault, Deliver, ReturnError, Leave, Message, store, clock, flow
<1>15. ASSUME NEW c \in Calls, Resend(c) PROVE TypeInv'
    BY <1>15, Kinds, EventIdsOf DEF Resend, WriteRecordRow, RecordRow, RecordRows, WriteEventRow, WritePreviewRow,
       Manifest, EventRow, UpsertEvent, PreviewEvent, PreviewStatus, clock, flow, frame, Durables
<1>16. ASSUME Expire PROVE TypeInv'
    BY <1>16 DEF Expire, clock, flow, frame
<1>17. CASE UNCHANGED vars
    BY <1>17 DEF vars, store, clock, flow, frame
<1> QED
    BY <1>1, <1>2, <1>3, <1>4, <1>5, <1>6, <1>7, <1>8, <1>9, <1>10, <1>11, <1>12, <1>13,
       <1>14, <1>15, <1>16, <1>17 DEF Next, Step, Quiescent

\* TypeOK holds in every behaviour of the connector.
THEOREM TypeCorrect == Spec => []TypeOK
<1>1. Spec => []TypeInv
    BY TypeInit, TypeStep, PTL DEF Spec
<1> QED
    BY <1>1, PTL DEF TypeInv

-----------------------------------------------------------------------------
(* A call's local state changes only by a step of that call.               *)

Rests(c) == pc'[c] = pc[c] /\ req'[c] = req[c] /\ cur'[c] = cur[c]

LEMMA OtherCallsRest ==
    ASSUME TypeInv, [Next]_vars, NEW c \in Calls
    PROVE  Rests(c) \/ Step(c) \/ Fault(c) \/ \E e \in Requests : Submit(c, e)
<1> USE DEF Rests, Goto, Leave, ReturnNil, ReturnError, TypeInv, TypeOK
<1>1. ASSUME NEW d \in Calls, d # c, NEW e \in Requests, Submit(d, e) PROVE Rests(c)
    BY <1>1 DEF Submit
<1>2. ASSUME NEW d \in Calls, d # c, Step(d) PROVE Rests(c)
  <2>1. CASE ValidateTarget(d) \/ RecordGet(d) \/ RecordPut(d) \/ RecordCheck(d)
      BY <1>2, <2>1 DEF ValidateTarget, RecordGet, RecordPut, RecordCheck
  <2>2. CASE EventGet(d) \/ EventPut(d) \/ EventCheck(d)
      BY <1>2, <2>2 DEF EventGet, EventPut, EventCheck, AdoptCursor, AllocateCursor
  <2>3. CASE MarkAccepted(d) \/ PutTerminal(d) \/ PreviewGet(d) \/ PreviewPut(d) \/ Publish(d)
      BY <1>2, <2>3 DEF MarkAccepted, PutTerminal, PreviewGet, PreviewPut, Publish
  <2> QED
      BY <1>2, <2>1, <2>2, <2>3 DEF Step
<1>3. ASSUME NEW d \in Calls, d # c, Fault(d) PROVE Rests(c)
    BY <1>3 DEF Fault
<1>4. ASSUME NEW d \in Calls, Resend(d) PROVE Rests(c)
    BY <1>4 DEF Resend, frame
<1>5. CASE Expire \/ Quiescent \/ UNCHANGED vars
    BY <1>5 DEF Expire, Quiescent, vars, frame
<1> QED
    BY <1>1, <1>2, <1>3, <1>4, <1>5 DEF Next

-----------------------------------------------------------------------------
(* Records.                                                                *)

Reached(e) == records[e.rec].ver > e.ver \/ SameRecord(records[e.rec], e)

\* Only the two conditional writes touch a record row, and both advance it.
LEMMA RecordsStep == TypeInv /\ [Next]_vars => RecordsAdvance
<1> SUFFICES ASSUME TypeInv, [Next]_vars, NEW r \in RecordIds PROVE RecordAdvances(r)
    BY DEF RecordsAdvance
<1> USE DEF RecordAdvances
<1>1. ASSUME NEW e \in Upserts, WriteRecordRow(e) PROVE RecordAdvances(r)
    BY <1>1, Kinds DEF WriteRecordRow, RecordCondition, SameRecord, RecordRow, UpsertEvent,
       TypeInv, TypeOK, RecordRows, NoRecord
<1>2. ASSUME NEW c \in Calls, RecordPut(c) PROVE RecordAdvances(r)
    BY <1>1, <1>2 DEF RecordPut, At, TypeInv, CallOK, UpsertLabels, store
<1>3. ASSUME NEW c \in Calls, Resend(c) PROVE RecordAdvances(r)
    BY <1>1, <1>3 DEF Resend, At, TypeInv, CallOK, UpsertLabels, WriteEventRow, WritePreviewRow
<1>4. CASE UNCHANGED records
    BY <1>4
<1> QED
    BY <1>2, <1>3, <1>4 DEF Next, Step, Quiescent, vars, store, Submit, ValidateTarget, RecordGet, RecordCheck,
       EventGet, EventPut, WriteEventRow, EventCheck, MarkAccepted, PutTerminal, PreviewGet,
       PreviewPut, WritePreviewRow, Publish, Fault, Expire

\* The current snapshot of a record never goes back and never changes under one
\* version.
THEOREM RecordsNeverRegress == Spec => RecordNeverRegresses
<1>1. Spec => []TypeInv
    BY TypeInit, TypeStep, PTL DEF Spec
<1>2. TypeInv /\ [Next]_vars => [RecordsAdvance]_vars
    BY RecordsStep
<1> QED
    BY <1>1, <1>2, PTL DEF Spec, RecordNeverRegresses

\* A call past putCurrentRecord found its version stored, and that stays so.
PastRecord ==
    \A c \in Calls : pc[c] \in EventLabels \cup {"accept", "publish"} /\ req[c] \in Upserts
                      => Reached(req[c])

ReadableInv == TypeInv /\ PastRecord /\ AckedIsReadable /\ LoggedIsReadable

LEMMA ReachedStays ==
    ASSUME TypeInv, [Next]_vars, NEW e \in Upserts, Reached(e)
    PROVE  Reached(e)'
<1>1. RecordAdvances(e.rec)
    BY RecordsStep, Kinds DEF UpsertEvent, RecordsAdvance
<1> QED
    BY <1>1, TypeStep, Kinds DEF RecordAdvances, Reached, SameRecord, UpsertEvent, TypeInv, TypeOK, RecordRows, NoRecord

LEMMA ReadableInit == Init => ReadableInv
<1> SUFFICES ASSUME Init PROVE ReadableInv
    OBVIOUS
<1>1. \A e \in Upserts : events[EventId(e)].event # e
    BY EventIdsOf, Kinds DEF Init, NoRow, Durables
<1> QED
    BY <1>1, TypeInit DEF Init, ReadableInv, PastRecord, AckedIsReadable, LoggedIsReadable, EventLabels

LEMMA ReadableStep == ReadableInv /\ [Next]_vars => ReadableInv'
<1> SUFFICES ASSUME ReadableInv, [Next]_vars PROVE ReadableInv'
    OBVIOUS
<1>1. TypeInv /\ TypeInv'
    BY TypeStep DEF ReadableInv
<1>2. \A e \in Upserts : Reached(e) => Reached(e)'
    BY <1>1, ReachedStays
<1>3. PastRecord'
  <2> SUFFICES ASSUME NEW c \in Calls, pc'[c] \in EventLabels \cup {"accept", "publish"},
                      req'[c] \in Upserts
               PROVE  Reached(req[c])'
      BY DEF PastRecord, Reached
  <2>1. CASE req'[c] = req[c] /\ pc[c] \in EventLabels \cup {"accept", "publish"}
      BY <1>2, <2>1 DEF ReadableInv, PastRecord, Reached, SameRecord
  <2>2. CASE RecordGet(c) \/ RecordCheck(c)
      BY <1>1, <1>2, <2>2, Kinds DEF RecordGet, RecordCheck, At, Goto, ReturnNil, ReturnError, Leave,
         Reached, SameRecord, EventLabels, TypeInv, TypeOK
  <2>3. CASE RecordPut(c)
      BY <1>1, <2>3, Kinds DEF RecordPut, WriteRecordRow, RecordRow, SameRecord, At, Goto, Reached, EventLabels,
         TypeInv, TypeOK, CallOK, UpsertLabels, UpsertEvent
  <2>4. CASE \E e \in Requests : Submit(c, e)
      BY <1>1, <2>4, Kinds, StepLabels DEF Submit, Goto, EventLabels, TypeInv, TypeOK
  <2>5. CASE Rests(c)
      BY <2>1, <2>5 DEF Rests
  <2>6. CASE EventGet(c) \/ EventPut(c) \/ EventCheck(c) \/ MarkAccepted(c)
      BY <2>1, <2>6, <1>1 DEF EventGet, EventPut, EventCheck, AdoptCursor, MarkAccepted, At, Goto,
         ReturnError, Leave, EventLabels, TypeInv, TypeOK
  <2>7. CASE ValidateTarget(c) \/ PutTerminal(c) \/ PreviewGet(c) \/ PreviewPut(c) \/ Publish(c) \/ Fault(c)
      BY <2>7, <1>1, Kinds DEF ValidateTarget, PutTerminal, PreviewGet, PreviewPut, Publish, Fault, At, Goto,
         ReturnNil, ReturnError, Leave, EventLabels, PreviewLabels, TypeInv, TypeOK, CallOK
  <2> QED
      BY <1>1, <2>2, <2>3, <2>4, <2>5, <2>6, <2>7, OtherCallsRest DEF Step
<1>4. AckedIsReadable'
  <2> SUFFICES ASSUME NEW e \in acked' \cap Upserts PROVE Reached(e)'
      BY DEF AckedIsReadable, Reached
  <2>1. CASE e \in acked
      BY <1>2, <2>1 DEF ReadableInv, AckedIsReadable, Reached
  <2>2. ASSUME NEW c \in Calls, RecordGet(c) \/ RecordCheck(c) \/ Publish(c), e \notin acked
        PROVE  Reached(e)'
    <3>1. e = req[c] /\ Reached(e)
        BY <2>2, <1>1 DEF RecordGet, RecordCheck, Publish, Deliver, At, Goto, ReturnNil, ReturnError, Leave, flow,
           Reached, ReadableInv, PastRecord
    <3> QED
        BY <3>1, <1>2
  <2> QED
      BY <2>1, <2>2 DEF Next, Step, Quiescent, Submit, RecordPut, EventGet, EventPut, EventCheck, AdoptCursor,
         MarkAccepted, ValidateTarget, PutTerminal, PreviewGet, PreviewPut, Fault, Resend, Expire,
         ReturnError, vars, flow
<1>5. LoggedIsReadable'
  <2> SUFFICES ASSUME NEW e \in Upserts, events'[EventId(e)].event = e PROVE Reached(e)'
      BY DEF LoggedIsReadable, Reached
  <2>1. CASE events[EventId(e)].event = e
      BY <1>2, <2>1 DEF ReadableInv, LoggedIsReadable, Reached
  <2>2. ASSUME NEW c \in Calls, EventPut(c) \/ Resend(c), events[EventId(e)].event # e
        PROVE  Reached(e)'
    <3>1. e = req[c] /\ pc[c] = "eventPut"
        BY <2>2, <1>1, EventIdsOf, Kinds DEF EventPut, Resend, WriteEventRow, WriteRecordRow, WritePreviewRow, store,
           At, TypeInv, TypeOK, CallOK, EventLabels
    <3> QED
        BY <3>1, <1>2 DEF ReadableInv, PastRecord, EventLabels
  <2>3. CASE Expire /\ events[EventId(e)].event # e
      BY <2>3, <1>1, EventIdsOf, Kinds DEF Expire, TypeInv, TypeOK, NoRow, Durables
  <2> QED
      BY <2>1, <2>2, <2>3 DEF Next, Step, Quiescent, Submit, RecordGet, RecordPut, WriteRecordRow, RecordCheck, EventGet, EventCheck,
         MarkAccepted, ValidateTarget, PutTerminal, PreviewGet, PreviewPut, WritePreviewRow, Publish, Fault,
         vars, store
<1> QED
    BY <1>1, <1>3, <1>4, <1>5 DEF ReadableInv

\* A record write the workflow saw succeed is readable, or superseded.
THEOREM AckedReadable == Spec => []AckedIsReadable
<1>1. Spec => []ReadableInv
    BY ReadableInit, ReadableStep, PTL DEF Spec
<1> QED
    BY <1>1, PTL DEF ReadableInv

\* The event log never runs ahead of the record rows, with or without expiry.
THEOREM LoggedReadable == Spec => []LoggedIsReadable
<1>1. Spec => []ReadableInv
    BY ReadableInit, ReadableStep, PTL DEF Spec
<1> QED
    BY <1>1, PTL DEF ReadableInv
=============================================================================
