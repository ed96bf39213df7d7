------------------------- MODULE ConnectorLogProofs -------------------------
(* Theorems about the event log of Connector while no row expires.         *)
EXTENDS ConnectorProofs

USE ConstantsAssumption

\* A call past persistDurableEvent carries the logged row of its event.
PastLog(c) == pc[c] \in {"accept", "terminalPut"} \/ (pc[c] = "publish" /\ req[c] \in Durables)

CarriesRow == \A c \in Calls : PastLog(c) =>
                events[EventId(req[c])] = [event |-> req[c], cursor |-> cur[c]]

LogInv == TypeInv /\ CarriesRow /\ PublishedIsLogged

\* Put-if-absent: a row of the log stays as it is.
LEMMA RowsStay ==
    ASSUME ~Expiry, TypeInv, [Next]_vars, NEW i \in EventIds, events[i] # NoRow
    PROVE  events'[i] = events[i]
<1>1. ASSUME NEW e \in Durables, NEW k, WriteEventRow(e, k) PROVE events'[i] = events[i]
    BY <1>1, EventIdsOf DEF WriteEventRow, EventAbsent, TypeInv, TypeOK, EventRow
<1>2. ASSUME NEW c \in Calls, EventPut(c) \/ Resend(c) PROVE events'[i] = events[i]
    BY <1>1, <1>2 DEF EventPut, Resend, At, TypeInv, CallOK, EventLabels, store, WriteRecordRow, WritePreviewRow
<1>3. CASE UNCHANGED events
    BY <1>3
<1> QED
    BY <1>2, <1>3 DEF Next, Step, Quiescent, vars, store, Submit, ValidateTarget, RecordGet, RecordPut,
       WriteRecordRow, RecordCheck, EventGet, EventCheck, MarkAccepted, PutTerminal, PreviewGet,
       PreviewPut, WritePreviewRow, Publish, Fault, Expire

LEMMA LogInit == Init => LogInv
BY TypeInit DEF Init, LogInv, CarriesRow, PastLog, PublishedIsLogged

LEMMA LogStep == ~Expiry /\ LogInv /\ [Next]_vars => LogInv'
<1> SUFFICES ASSUME ~Expiry, LogInv, [Next]_vars PROVE LogInv'
    OBVIOUS
<1>1. TypeInv /\ TypeInv'
    BY TypeStep DEF LogInv
<1>2. CarriesRow'
  <2> SUFFICES ASSUME NEW c \in Calls, PastLog(c)'
               PROVE  (events[EventId(req[c])] = [event |-> req[c], cursor |-> cur[c]])'
      BY DEF CarriesRow
  <2>1. CASE PastLog(c) /\ req'[c] = req[c] /\ cur'[c] = cur[c]
    <3>1. req[c] \in Durables /\ cur[c] \in Cursors
        BY <1>1, <2>1, Kinds DEF PastLog, TypeInv, CallOK, UpsertLabels, Durables
    <3>2. events[EventId(req[c])] = [event |-> req[c], cursor |-> cur[c]]
        BY <2>1 DEF LogInv, CarriesRow
    <3>3. events[EventId(req[c])] # NoRow
        BY <3>1, <3>2, Kinds DEF NoRow, Durables
    <3> QED
        BY <1>1, <2>1, <3>1, <3>2, <3>3, RowsStay, EventIdsOf DEF EventId
  <2>2. CASE Rests(c)
      BY <2>1, <2>2 DEF Rests, PastLog
  <2>3. CASE EventGet(c) \/ EventCheck(c)
    <3>1. AdoptCursor(c)
        BY <1>1, <2>3 DEF EventGet, EventCheck, PastLog, Goto, ReturnError, Leave, TypeInv, TypeOK
    <3>2. /\ events[EventId(req[c])].event = req[c]
          /\ cur'[c] = events[EventId(req[c])].cursor
          /\ req'[c] = req[c]
        BY <1>1, <3>1 DEF AdoptCursor, PastLog, ReturnError, Leave, TypeInv, TypeOK
    <3>3. req[c] \in Durables /\ UNCHANGED events
        BY <1>1, <2>3 DEF EventGet, EventCheck, At, TypeInv, CallOK, EventLabels, store
    <3>4. events[EventId(req[c])] \in EventRow
        BY <1>1, <3>1, <3>3, EventIdsOf DEF AdoptCursor, TypeInv, TypeOK, NoRow
    <3> QED
        BY <3>2, <3>3, <3>4 DEF EventRow, EventId
  <2>4. CASE EventPut(c)
    <3>1. WriteEventRow(req[c], cur[c]) /\ req[c] \in Durables /\ req'[c] = req[c] /\ cur'[c] = cur[c]
        BY <1>1, <2>4 DEF EventPut, Goto, At, PastLog, TypeInv, TypeOK, CallOK, EventLabels
    <3> QED
        BY <1>1, <3>1, EventIdsOf DEF WriteEventRow, EventId, TypeInv, TypeOK
  <2>5. CASE MarkAccepted(c) \/ PutTerminal(c)
      BY <2>1, <2>5 DEF MarkAccepted, PutTerminal, PastLog, At
  <2>6. CASE ValidateTarget(c) \/ RecordGet(c) \/ RecordPut(c) \/ RecordCheck(c) \/ Publish(c) \/ Fault(c)
      BY <1>1, <2>6 DEF ValidateTarget, RecordGet, RecordPut, RecordCheck, Publish, Fault, PastLog, Goto,
         ReturnNil, ReturnError, Leave, TypeInv, TypeOK
  <2>7. CASE PreviewGet(c) \/ PreviewPut(c)
      BY <1>1, <2>7, Kinds DEF PreviewGet, PreviewPut, PastLog, Goto, At, ReturnError, Leave, TypeInv, TypeOK,
         CallOK, PreviewLabels
  <2>8. ASSUME NEW e \in Requests, Submit(c, e) PROVE ~PastLog(c)'
      BY <1>1, <2>8, Kinds, StepLabels DEF Submit, Durables, PastLog, Goto, TypeInv, TypeOK
  <2>9. Rests(c) \/ Step(c) \/ Fault(c)
      BY <1>1, <2>8, OtherCallsRest
  <2> QED
      BY <2>2, <2>3, <2>4, <2>5, <2>6, <2>7, <2>9 DEF Step
<1>3. PublishedIsLogged'
  <2> SUFFICES ASSUME NEW m \in live', m.event \in Durables
               PROVE  events'[EventId(m.event)] = m
      BY DEF PublishedIsLogged, EventId
  <2>1. events[EventId(m.event)] = m
    <3>1. CASE m \in live
        BY <3>1 DEF LogInv, PublishedIsLogged
    <3>2. ASSUME NEW c \in Calls, Deliver(c), m \notin live PROVE events[EventId(m.event)] = m
        BY <3>2 DEF Deliver, At, PastLog, LogInv, CarriesRow
    <3> QED
        BY <3>1, <3>2 DEF Next, Step, Quiescent, vars, Submit, ValidateTarget, RecordGet, RecordPut,
           RecordCheck, EventGet, EventPut, EventCheck, MarkAccepted, PutTerminal, PreviewGet,
           PreviewPut, Publish, Fault, Resend, Expire
  <2>2. m # NoRow
      BY Kinds DEF NoRow, Durables
  <2> QED
      BY <1>1, <2>1, <2>2, RowsStay, EventIdsOf
<1> QED
    BY <1>1, <1>2, <1>3 DEF LogInv

\* While no row expires, every published copy of a durable event is its logged
\* row: persisted before it was published, always with the same cursor.
THEOREM PublishedLogged == Spec => []PublishedIsLogged
<1>1. CASE ~Expiry
  <2>1. Spec => []LogInv
      BY <1>1, LogInit, LogStep, PTL DEF Spec
  <2> QED
      BY <2>1, PTL DEF LogInv
<1>2. CASE Expiry
  <2>1. PublishedIsLogged
      BY <1>2 DEF PublishedIsLogged
  <2> QED
      BY <2>1, PTL
<1> QED
    BY <1>1, <1>2

\* Only expiry gives a durable event a second cursor: while no row expires, all its
\* messages carry the same one.
THEOREM SecondCursorIsOfExpiry == Spec => [](~Expiry => OneCursorPerEvent)
<1>1. PublishedIsLogged => (~Expiry => OneCursorPerEvent)
    BY DEF PublishedIsLogged, OneCursorPerEvent
<1> QED  BY <1>1, PublishedLogged, PTL

-----------------------------------------------------------------------------
(* What success means to the submitter.                                    *)

\* A stored version was issued, and below an issued version every version of the
\* record has been acknowledged: the early return for a stale version can only
\* acknowledge a write that another execution finished, unless its version has
\* another writer.
VersionIssued == \A r \in RecordIds : records[r].ver > 0 =>
                   \E f \in issued \cap Upserts : f.rec = r /\ f.ver = records[r].ver

Chain == \A g \in issued \cap Upserts : \A v \in Nat : 0 < v /\ v < g.ver =>
           \E h \in acked \cap Upserts : h.rec = g.rec /\ h.ver = v

EndAfterRecords ==
    \A f \in issued \cap Ends : \A e \in issued \cap Upserts : e \in acked

AckedInv == LogInv /\ VersionIssued /\ Chain /\ EndAfterRecords /\ AckedIsLogged

LEMMA FlowGrows == TypeInv /\ [Next]_vars => issued \subseteq issued' /\ acked \subseteq acked' /\ live \subseteq live'
BY DEF Next, Step, Quiescent, vars, flow, Submit, ValidateTarget, RecordGet, RecordPut, RecordCheck,
   EventGet, EventPut, EventCheck, AdoptCursor, MarkAccepted, PutTerminal, PreviewGet, PreviewPut,
   Publish, Deliver, Fault, Resend, Expire, ReturnNil, ReturnError

\* Only Submit issues; only a write of its own call raises a version.
LEMMA IssuedBy == TypeInv /\ [Next]_vars =>
    issued' = issued \/ \E c \in Calls, e \in Requests : Submit(c, e)
BY DEF Next, Step, Quiescent, vars, flow, ValidateTarget, RecordGet, RecordPut, RecordCheck,
   EventGet, EventPut, EventCheck, AdoptCursor, MarkAccepted, PutTerminal, PreviewGet, PreviewPut,
   Publish, Fault, Resend, Expire, ReturnNil, ReturnError

LEMMA WrittenBy == TypeInv /\ [Next]_vars =>
    records' = records \/ \E c \in Calls : pc[c] = "recordPut" /\ WriteRecordRow(req[c])
BY DEF Next, Step, Quiescent, vars, store, Submit, ValidateTarget, RecordGet, RecordPut, RecordCheck,
   EventGet, EventPut, WriteEventRow, EventCheck, MarkAccepted, PutTerminal, PreviewGet, PreviewPut,
   WritePreviewRow, Publish, Fault, Resend, Expire, At

LEMMA AckedBy == TypeInv /\ [Next]_vars =>
    acked' = acked \/ \E c \in Calls : RecordGet(c) \/ RecordCheck(c) \/ Publish(c)
BY DEF Next, Step, Quiescent, vars, flow, Submit, ValidateTarget, RecordPut,
   EventGet, EventPut, EventCheck, AdoptCursor, MarkAccepted, PutTerminal, PreviewGet, PreviewPut,
   Fault, Resend, Expire, ReturnError

LEMMA AckedInit == Init => AckedInv
BY LogInit DEF Init, AckedInv, VersionIssued, Chain, EndAfterRecords, AckedIsLogged, NoRecord

LEMMA AckedStep == ~Expiry /\ AckedInv /\ [Next]_vars => AckedInv'
<1> SUFFICES ASSUME ~Expiry, AckedInv, [Next]_vars PROVE AckedInv'
    OBVIOUS
<1>1. LogInv /\ LogInv' /\ TypeInv /\ TypeInv'
    BY LogStep DEF AckedInv, LogInv
<1>2. issued \subseteq issued' /\ acked \subseteq acked' /\ live \subseteq live'
    BY <1>1, FlowGrows
<1>3. VersionIssued'
  <2> SUFFICES ASSUME NEW r \in RecordIds, records'[r].ver > 0
               PROVE  \E f \in issued' \cap Upserts : f.rec = r /\ f.ver = records'[r].ver
      BY DEF VersionIssued
  <2>1. CASE records'[r] = records[r]
      BY <1>2, <2>1 DEF AckedInv, VersionIssued
  <2>2. ASSUME NEW c \in Calls, pc[c] = "recordPut", WriteRecordRow(req[c]), records'[r] # records[r]
        PROVE  req[c] \in issued' \cap Upserts /\ req[c].rec = r /\ req[c].ver = records'[r].ver
      BY <1>1, <1>2, <2>2, Kinds DEF WriteRecordRow, RecordRow, TypeInv, TypeOK, CallOK, UpsertLabels, UpsertEvent
  <2> QED
      BY <1>1, <2>1, <2>2, WrittenBy
<1>4. Chain'
  <2> SUFFICES ASSUME NEW g \in issued' \cap Upserts, NEW v \in Nat, 0 < v, v < g.ver
               PROVE  \E h \in acked' \cap Upserts : h.rec = g.rec /\ h.ver = v
      BY DEF Chain
  <2>1. CASE g \in issued
      BY <1>2, <2>1 DEF AckedInv, Chain
  <2>2. ASSUME NEW c \in Calls, Submit(c, g), g \notin issued
        PROVE  \E h \in acked' \cap Upserts : h.rec = g.rec /\ h.ver = v
    <3>1. MayUpsert(g) /\ g.ver \in Nat
        BY <2>2, Kinds DEF Submit, MayIssue, UpsertEvent
    <3>2. PICK f \in acked \cap Upserts : f.rec = g.rec /\ f.ver = g.ver - 1
        BY <3>1 DEF MayUpsert
    <3>3. CASE v = f.ver
        BY <1>2, <3>2, <3>3
    <3>4. CASE v < f.ver
      <4>1. f \in issued
          BY <1>1, <3>2 DEF TypeInv, TypeOK
      <4> QED
          BY <1>2, <3>2, <3>4, <4>1 DEF AckedInv, Chain
    <3> QED
        BY <3>1, <3>2, <3>3, <3>4
  <2> QED
      BY <1>1, <2>1, <2>2, IssuedBy DEF Submit
<1>5. EndAfterRecords'
  <2> SUFFICES ASSUME NEW f \in issued' \cap Ends, NEW e \in issued' \cap Upserts PROVE e \in acked'
      BY DEF EndAfterRecords
  <2>1. CASE f \in issued /\ e \in issued
      BY <1>2, <2>1 DEF AckedInv, EndAfterRecords
  <2>2. ASSUME NEW c \in Calls, NEW d \in Requests, Submit(c, d), ~(f \in issued /\ e \in issued)
        PROVE  e \in acked'
    <3>1. MayIssue(d) /\ issued' = issued \cup {d} /\ (d = f \/ d = e) /\ d \notin issued
        BY <2>2 DEF Submit
    <3>2. CASE d = f
        BY <1>2, <3>1, <3>2, Kinds DEF MayIssue, MayEnd, Durables
    <3>3. CASE d = e
        BY <3>1, <3>3, Kinds DEF MayIssue, MayUpsert
    <3> QED
        BY <3>1, <3>2, <3>3
  <2> QED
      BY <1>1, <2>1, <2>2, IssuedBy
<1>6. AckedIsLogged'
  <2> SUFFICES ASSUME NEW e \in acked' \cap Durables, Uncontested(e)
               PROVE  events'[EventId(e)].event = e /\ events'[EventId(e)] \in live'
      BY DEF AckedIsLogged, EventId, Uncontested
  <2>1. CASE e \in acked
    <3>1. events[EventId(e)].event = e /\ events[EventId(e)] \in live
        BY <2>1 DEF AckedInv, AckedIsLogged
    <3>2. events[EventId(e)] # NoRow
        BY <3>1, Kinds DEF NoRow, Durables
    <3> QED
        BY <1>1, <1>2, <3>1, <3>2, RowsStay, EventIdsOf
  <2>2. ASSUME NEW c \in Calls, RecordGet(c) \/ RecordCheck(c), e \notin acked PROVE FALSE
    <3>1. e = req[c] /\ e \in Upserts /\ e \in issued /\ records[e.rec].ver > e.ver
        BY <1>1, <2>2 DEF RecordGet, RecordCheck, At, ReturnNil, ReturnError, flow, TypeInv, CallOK, UpsertLabels
    <3>2. e.rec \in RecordIds /\ e.ver \in Nat /\ e.ver > 0 /\ records[e.rec].ver \in Nat
        BY <1>1, <3>1, Kinds DEF UpsertEvent, TypeInv, TypeOK, RecordRows, NoRecord
    <3>3. PICK f \in issued \cap Upserts : f.rec = e.rec /\ f.ver = records[e.rec].ver
        BY <3>1, <3>2 DEF AckedInv, VersionIssued
    <3>4. PICK h \in acked \cap Upserts : h.rec = e.rec /\ h.ver = e.ver
        BY <3>1, <3>2, <3>3 DEF AckedInv, Chain
    <3>5. EventId(h) = EventId(e)
        BY <3>1, <3>4, Kinds DEF EventId, UpsertEvent
    <3> QED
        BY <2>2, <3>4, <3>5 DEF Uncontested, Durables
  <2>3. ASSUME NEW c \in Calls, Publish(c), e \notin acked
        PROVE  events'[EventId(e)].event = e /\ events'[EventId(e)] \in live'
    <3>1. e = req[c] /\ UNCHANGED events /\ pc[c] = "publish"
          /\ [event |-> req[c], cursor |-> cur[c]] \in live'
        BY <2>3 DEF Publish, Deliver, ReturnNil, At, store
    <3>2. events[EventId(e)] = [event |-> req[c], cursor |-> cur[c]]
        BY <1>1, <3>1 DEF LogInv, CarriesRow, PastLog
    <3> QED
        BY <3>1, <3>2
  <2> QED
      BY <1>1, <2>1, <2>2, <2>3, AckedBy
<1> QED
    BY <1>1, <1>3, <1>4, <1>5, <1>6 DEF AckedInv

\* While no row expires, an uncontested event whose submitter saw success is logged
\* and was published with the cursor of the log.
THEOREM AckedLogged == Spec => []AckedIsLogged
<1>1. CASE ~Expiry
  <2>1. Spec => []AckedInv
      BY <1>1, AckedInit, AckedStep, PTL DEF Spec
  <2> QED
      BY <2>1, PTL DEF AckedInv
<1>2. CASE Expiry
  <2>1. AckedIsLogged
      BY <1>2 DEF AckedIsLogged
  <2> QED
      BY <2>1, PTL
<1> QED
    BY <1>1, <1>2

-----------------------------------------------------------------------------
(* The cursor of stream-end bounds the log, when cursors follow the order  *)
(* of allocation.                                                          *)

CursorOrder == \A j \in used : \A k \in Cursors \ used : j < k

RowsUsed ==
    /\ \A i \in EventIds : events[i] # NoRow => events[i].cursor \in used
    /\ \A c \in Calls : pc[c] = "eventPut" => cur[c] \in used

Below(k) == \A e \in issued \cap Upserts : Uncontested(e) => events[EventId(e)].cursor < k

EndCursorAbove == \A c \in Calls : pc[c] = "eventPut" /\ req[c] \in Ends => Below(cur[c])

EndRowAbove == \A f \in Ends : events[EventId(f)].event = f =>
                 f \in issued /\ Below(events[EventId(f)].cursor)

TerminalLogged == terminal # NoRow =>
                    terminal.event \in Ends /\ events[EventId(terminal.event)] = terminal

FinalInv == AckedInv /\ CursorOrder /\ RowsUsed /\ EndCursorAbove /\ EndRowAbove /\ TerminalLogged

LEMMA FinalInit == Init => FinalInv
<1> SUFFICES ASSUME Init PROVE FinalInv
    OBVIOUS
<1>1. \A f \in Ends : events[EventId(f)].event # f
    BY EventIdsOf, Kinds DEF Init, NoRow, Durables
<1> QED
    BY <1>1, AckedInit DEF Init, FinalInv, CursorOrder, RowsUsed, EndCursorAbove, EndRowAbove, TerminalLogged

\* Once an end is issued, the set of record events and their rows are fixed.
LEMMA BelowStays ==
    ASSUME ~Expiry, AckedInv, [Next]_vars, NEW f \in issued \cap Ends, NEW k, Below(k)
    PROVE  Below(k)'
<1> SUFFICES ASSUME NEW e \in issued' \cap Upserts, Uncontested(e) PROVE events'[EventId(e)].cursor < k
    BY DEF Below, EventId, Uncontested
<1>1. e \in issued
    BY IssuedBy, Kinds DEF AckedInv, LogInv, Submit, MayIssue, MayUpsert
<1>2. events[EventId(e)].event = e
    BY <1>1 DEF AckedInv, EndAfterRecords, AckedIsLogged, Durables
<1>3. events'[EventId(e)] = events[EventId(e)]
    BY <1>2, RowsStay, EventIdsOf, Kinds DEF AckedInv, LogInv, NoRow, Durables
<1> QED
    BY <1>1, <1>3 DEF Below

\* Only newEventID hands out a cursor; only a put writes an event row.
LEMMA UsedBy == TypeInv /\ [Next]_vars =>
    used' = used \/ \E c \in Calls, k \in Cursors : AllocateCursor(c, k)
BY DEF Next, Step, Quiescent, vars, clock, Submit, ValidateTarget, RecordGet, RecordPut, RecordCheck,
   EventGet, EventPut, EventCheck, MarkAccepted, PutTerminal, PreviewGet, PreviewPut,
   Publish, Fault, Resend, Expire

LEMMA LoggedBy == ~Expiry /\ TypeInv /\ [Next]_vars =>
    events' = events \/ \E c \in Calls : pc[c] = "eventPut" /\ WriteEventRow(req[c], cur[c])
BY DEF Next, Step, Quiescent, vars, store, Submit, ValidateTarget, RecordGet, RecordPut, RecordCheck,
   WriteRecordRow, EventGet, EventPut, EventCheck, MarkAccepted, PutTerminal, PreviewGet, PreviewPut,
   WritePreviewRow, Publish, Fault, Resend, Expire, At

LEMMA TerminalBy == TypeInv /\ [Next]_vars =>
    terminal' = terminal \/ \E c \in Calls : PutTerminal(c)
BY DEF Next, Step, Quiescent, vars, store, Submit, ValidateTarget, RecordGet, RecordPut, RecordCheck,
   WriteRecordRow, EventGet, EventPut, WriteEventRow, EventCheck, MarkAccepted, PreviewGet, PreviewPut,
   WritePreviewRow, Publish, Fault, Resend, Expire

LEMMA FinalStep == ~Expiry /\ SyncedClocks /\ FinalInv /\ [Next]_vars => FinalInv'
<1> SUFFICES ASSUME ~Expiry, SyncedClocks, FinalInv, [Next]_vars PROVE FinalInv'
    OBVIOUS
<1>1. AckedInv /\ AckedInv' /\ LogInv /\ LogInv' /\ TypeInv /\ TypeInv'
    BY AckedStep DEF FinalInv, AckedInv, LogInv
<1>2. CursorOrder'
    BY <1>1, UsedBy DEF FinalInv, CursorOrder, AllocateCursor, NewCursors, TypeInv, TypeOK
<1>3. used \subseteq used'
    BY <1>1, UsedBy DEF AllocateCursor
<1>4. RowsUsed'
  <2>1. ASSUME NEW i \in EventIds, events'[i] # NoRow PROVE events'[i].cursor \in used'
    <3>1. CASE events'[i] = events[i]
        BY <1>3, <2>1, <3>1 DEF FinalInv, RowsUsed
    <3>2. ASSUME NEW c \in Calls, pc[c] = "eventPut", WriteEventRow(req[c], cur[c]), events'[i] # events[i]
          PROVE  events'[i].cursor \in used'
      <4>1. events'[i] = [event |-> req[c], cursor |-> cur[c]]
          BY <1>1, <3>2 DEF WriteEventRow, TypeInv, TypeOK
      <4> QED
          BY <1>3, <3>2, <4>1 DEF FinalInv, RowsUsed
    <3> QED
        BY <1>1, <3>1, <3>2, LoggedBy
  <2>2. ASSUME NEW c \in Calls, pc'[c] = "eventPut" PROVE cur'[c] \in used'
    <3>1. CASE pc[c] = "eventPut" /\ cur'[c] = cur[c]
        BY <1>3, <3>1 DEF FinalInv, RowsUsed
    <3>2. CASE EventGet(c)
        BY <1>1, <2>2, <3>2, Kinds DEF EventGet, AdoptCursor, AfterEvent, AllocateCursor, Goto, ReturnError, Leave, TypeInv, TypeOK,
           CallOK, EventLabels, At, Durables
    <3>3. CASE Rests(c)
        BY <2>2, <3>1, <3>3 DEF Rests
    <3>4. CASE (Step(c) /\ ~EventGet(c)) \/ Fault(c) \/ \E e \in Requests : Submit(c, e)
      <4>1. pc'[c] # "eventPut"
        <5>1. CASE \E e \in Requests : Submit(c, e)
            BY <1>1, <5>1, Kinds, StepLabels DEF Submit, Goto, TypeInv, TypeOK, Durables
        <5>2. CASE EventPut(c) \/ EventCheck(c)
            BY <1>1, <5>2, StepLabels DEF EventPut, EventCheck, AdoptCursor, Goto, ReturnError, Leave, At, TypeInv, TypeOK,
               CallOK, EventLabels, Durables
        <5> QED
            BY <1>1, <3>4, <5>1, <5>2 DEF Step, ValidateTarget, RecordGet, RecordPut, RecordCheck,
               MarkAccepted, PutTerminal, PreviewGet, PreviewPut, Publish, Fault, Goto, ReturnNil,
               ReturnError, Leave, TypeInv, TypeOK
      <4> QED
          BY <2>2, <4>1
    <3> QED
        BY <1>1, <3>2, <3>3, <3>4, OtherCallsRest
  <2> QED
      BY <2>1, <2>2 DEF RowsUsed
<1>5. ASSUME NEW f \in issued \cap Ends, NEW e \in issued \cap Upserts, Uncontested(e)
      PROVE  events[EventId(e)] # NoRow /\ events[EventId(e)].cursor \in used
  <2>1. e \in acked /\ e \in Durables
      BY DEF FinalInv, AckedInv, EndAfterRecords, Durables
  <2>2. events[EventId(e)].event = e
      BY <1>1, <2>1, <1>5 DEF AckedInv, AckedIsLogged
  <2>3. events[EventId(e)] # NoRow
      BY <2>1, <2>2, Kinds DEF NoRow
  <2> QED
      BY <2>1, <2>3, EventIdsOf DEF FinalInv, RowsUsed
<1>6. EndCursorAbove'
  <2> SUFFICES ASSUME NEW c \in Calls, pc'[c] = "eventPut", req'[c] \in Ends PROVE Below(cur[c])'
      BY DEF EndCursorAbove
  <2>1. CASE pc[c] = "eventPut" /\ cur'[c] = cur[c] /\ req'[c] = req[c]
    <3>1. req[c] \in issued \cap Ends /\ Below(cur[c])
        BY <1>1, <2>1 DEF FinalInv, EndCursorAbove, TypeInv, CallOK
    <3> QED
        BY <1>1, <2>1, <3>1, BelowStays DEF Below
  <2>2. CASE EventGet(c)
    <3>1. req[c] \in issued \cap Ends /\ UNCHANGED <<events, issued>>
          /\ cur'[c] \in NewCursors(Host[c])
        BY <1>1, <2>2, StepLabels DEF EventGet, AdoptCursor, AllocateCursor, Goto, ReturnError, Leave, At, TypeInv, TypeOK,
           CallOK, EventLabels, Durables, store, flow
    <3>2. \A j \in used : j < cur'[c]
        BY <3>1, <1>1 DEF NewCursors, FinalInv, CursorOrder
    <3> QED
        BY <1>5, <3>1, <3>2 DEF Below, EventId, Uncontested
  <2>3. CASE Rests(c)
      BY <2>1, <2>3 DEF Rests
  <2>4. CASE (Step(c) /\ ~EventGet(c)) \/ Fault(c) \/ \E e \in Requests : Submit(c, e)
    <3>1. CASE \E e \in Requests : Submit(c, e)
        BY <1>1, <3>1, Kinds, StepLabels DEF Submit, Goto, TypeInv, TypeOK, Durables
    <3>2. CASE EventPut(c) \/ EventCheck(c)
        BY <1>1, <3>2, StepLabels DEF EventPut, EventCheck, AdoptCursor, Goto, ReturnError, Leave, At, TypeInv, TypeOK,
           CallOK, EventLabels, Durables
    <3> QED
        BY <1>1, <2>4, <3>1, <3>2 DEF Step, ValidateTarget, RecordGet, RecordPut, RecordCheck,
           MarkAccepted, PutTerminal, PreviewGet, PreviewPut, Publish, Fault, Goto, ReturnNil,
           ReturnError, Leave, TypeInv, TypeOK
  <2> QED
      BY <1>1, <2>2, <2>3, <2>4, OtherCallsRest
<1>7. EndRowAbove'
  <2> SUFFICES ASSUME NEW f \in Ends, events'[EventId(f)].event = f
               PROVE  f \in issued' /\ Below(events[EventId(f)].cursor)'
      BY DEF EndRowAbove, EventId
  <2>1. f \in Durables /\ EventId(f) \in EventIds /\ f # None
      BY EventIdsOf, Kinds DEF Durables
  <2>2. CASE events[EventId(f)].event = f
    <3>1. events'[EventId(f)] = events[EventId(f)]
        BY <1>1, <2>1, <2>2, RowsStay DEF NoRow
    <3>2. f \in issued /\ Below(events[EventId(f)].cursor)
        BY <2>2 DEF FinalInv, EndRowAbove
    <3> QED
        BY <1>1, <3>1, <3>2, BelowStays, FlowGrows DEF Below, EventId, Uncontested
  <2>3. CASE events[EventId(f)].event # f
    <3>1. PICK c \in Calls : pc[c] = "eventPut" /\ WriteEventRow(req[c], cur[c])
        BY <1>1, <2>3, LoggedBy
    <3>2. req[c] = f /\ events'[EventId(f)].cursor = cur[c]
        BY <1>1, <2>1, <2>3, <3>1 DEF WriteEventRow, TypeInv, TypeOK
    <3>3. f \in issued /\ Below(cur[c])
        BY <1>1, <3>1, <3>2 DEF FinalInv, EndCursorAbove, TypeInv, CallOK
    <3> QED
        BY <1>1, <3>2, <3>3, BelowStays, FlowGrows DEF Below, EventId, Uncontested
  <2> QED
      BY <2>2, <2>3
<1>8. TerminalLogged'
  <2> SUFFICES ASSUME terminal' # NoRow
               PROVE  terminal'.event \in Ends /\ events'[EventId(terminal'.event)] = terminal'
      BY DEF TerminalLogged, EventId
  <2>1. terminal'.event \in Ends /\ events[EventId(terminal'.event)] = terminal'
    <3>1. CASE terminal' = terminal
        BY <3>1 DEF FinalInv, TerminalLogged
    <3>2. ASSUME NEW c \in Calls, PutTerminal(c)
          PROVE  terminal'.event \in Ends /\ events[EventId(terminal'.event)] = terminal'
        BY <1>1, <3>2 DEF PutTerminal, TerminalRow, At, LogInv, CarriesRow, PastLog, TypeInv, CallOK
    <3> QED
        BY <1>1, <3>1, <3>2, TerminalBy
  <2> QED
      BY <1>1, <2>1, RowsStay, EventIdsOf DEF Durables
<1> QED
    BY <1>1, <1>2, <1>4, <1>6, <1>7, <1>8 DEF FinalInv

\* With cursors that follow the order of allocation and no expiry, a final replay
\* through the cursor of the stored stream-end returns every record event
\* that has its version to itself.
THEOREM FinalReplay == SyncedClocks => (Spec => []FinalReplayComplete)
<1> SUFFICES ASSUME SyncedClocks PROVE Spec => []FinalReplayComplete
    OBVIOUS
<1>1. CASE ~Expiry
  <2>1. FinalInv => FinalReplayComplete
    <3> SUFFICES ASSUME FinalInv, terminal # NoRow, NEW e \in issued \cap Upserts, Uncontested(e)
                 PROVE  /\ events[EventId(terminal.event)] = terminal
                        /\ events[EventId(e)].event = e
                        /\ events[EventId(e)].cursor < terminal.cursor
        BY DEF FinalReplayComplete, FinalInv, TerminalLogged
    <3>1. terminal.event \in issued \cap Ends /\ Below(terminal.cursor)
        BY DEF FinalInv, TerminalLogged, EndRowAbove
    <3> QED
        BY <1>1, <3>1 DEF FinalInv, TerminalLogged, Below, AckedInv, EndAfterRecords, AckedIsLogged, Durables
  <2> QED
      BY <1>1, <2>1, FinalInit, FinalStep, PTL DEF Spec
<1>2. CASE Expiry
  <2>1. FinalReplayComplete
      BY <1>2 DEF FinalReplayComplete
  <2> QED
      BY <2>1, PTL
<1> QED
    BY <1>1, <1>2

-----------------------------------------------------------------------------
(* Previews and the records that supersede them.                           *)

\* A relay gives an attempt one target for good (updates/relay.go ensurePreview).
OneTarget == \A p, q \in Previews : p.attempt = q.attempt => p.target = q.target

Present(a) == previews[a].status # "absent"

\* A manifest has the target of its attempt, and an ended one was ended by an
\* event that was issued.
RowsIssued ==
    \A a \in Attempts :
        /\ Present(a) => \A p \in Previews : p.attempt = a => p.target = previews[a].target
        /\ previews[a].status \in {"succeeded", "failed", "canceled"} =>
              \E p \in issued \cap Previews : p.attempt = a /\ p.status = previews[a].status

\* At most one end of an attempt is ever issued.
OneEnd ==
    \A p, q \in issued \cap Previews :
        p.attempt = q.attempt /\ p.status # "active" /\ q.status # "active" => p = q

\* A preview call that publishes found or made the manifest, and so did one that
\* returned nil.
PastPreview ==
    /\ \A c \in Calls : pc[c] = "publish" /\ req[c] \in Previews => Present(req[c].attempt)
    /\ \A p \in acked \cap Previews : Present(p.attempt)

\* An attempt is accepted only after its success was acknowledged.
AcceptsSucceeded ==
    \A e \in issued \cap Upserts : e.accepts # None =>
        \E p \in acked \cap Previews : p.attempt = e.accepts /\ p.status = "succeeded"

\* A call past validateAcceptedPreviewTarget writes about the attempt's target.
ValidatedLabels == {"recordGet", "recordPut", "recordCheck"} \cup EventLabels \cup {"accept"}
PastValidate ==
    \A c \in Calls : pc[c] \in ValidatedLabels /\ req[c] \in Upserts /\ req[c].accepts # None =>
        Present(req[c].accepts) /\ previews[req[c].accepts].target = req[c].rec

PreviewInv ==
    /\ LogInv
    /\ RowsIssued /\ OneEnd /\ PastPreview /\ AcceptsSucceeded /\ PastValidate
    /\ SupersededByTarget

LEMMA PreviewInit == Init => PreviewInv
<1> SUFFICES ASSUME Init PROVE PreviewInv
    OBVIOUS
<1>1. \A a \in Attempts : previews[a].status = "absent"
    BY DEF Init, NoPreview
<1>2. issued = {} /\ acked = {} /\ \A c \in Calls : pc[c] = "idle"
    BY DEF Init
<1> QED
    BY <1>1, <1>2, LogInit DEF PreviewInv, RowsIssued, Present, OneEnd, PastPreview, AcceptsSucceeded,
       PastValidate, ValidatedLabels, EventLabels, SupersededByTarget

LEMMA UpsertFields ==
    \A e \in Upserts : e.rec \in RecordIds /\ (e.accepts = None \/ e.accepts \in Attempts)
BY Kinds DEF UpsertEvent

LEMMA PreviewFields ==
    \A p \in Previews : /\ p.attempt \in Attempts /\ p.target \in RecordIds /\ p.seq \in Nat
                        /\ p.status \in PreviewStatus
BY Kinds DEF PreviewEvent

\* A manifest is written by a preview call, or marked by an accepting one.
LEMMA PreviewBy == ~Expiry /\ TypeInv /\ [Next]_vars =>
    \/ previews' = previews
    \/ \E c \in Calls : /\ pc[c] = "previewPut" /\ req[c] \in Previews \cap issued
                        /\ WritePreviewRow(req[c])
    \/ \E c \in Calls : pc[c] = "accept" /\ MarkAccepted(c)
<1> SUFFICES ASSUME ~Expiry, TypeInv, [Next]_vars
             PROVE  \/ previews' = previews
                    \/ \E c \in Calls : /\ pc[c] = "previewPut" /\ req[c] \in Previews \cap issued
                                        /\ WritePreviewRow(req[c])
                    \/ \E c \in Calls : pc[c] = "accept" /\ MarkAccepted(c)
    OBVIOUS
<1>1. \A c \in Calls : pc[c] = "previewPut" => req[c] \in Previews \cap issued
    BY DEF TypeInv, CallOK, PreviewLabels
<1>2. ASSUME NEW c \in Calls, PreviewPut(c) \/ Resend(c) \/ MarkAccepted(c)
      PROVE  \/ previews' = previews
             \/ pc[c] = "previewPut" /\ WritePreviewRow(req[c])
             \/ pc[c] = "accept" /\ MarkAccepted(c)
    BY <1>2 DEF PreviewPut, Resend, MarkAccepted, At, store, WriteRecordRow, WriteEventRow
<1> QED
    BY <1>1, <1>2 DEF Next, Step, Quiescent, vars, store, Submit, ValidateTarget, RecordGet, RecordPut,
       WriteRecordRow, RecordCheck, EventGet, EventPut, WriteEventRow, EventCheck, PutTerminal,
       PreviewGet, Publish, Fault, Expire

\* Every change of a manifest advances it.
LEMMA ManifestsStep ==
    ASSUME ~Expiry, OneTarget, PreviewInv, [Next]_vars, NEW a \in Attempts
    PROVE  ManifestAdvances(previews[a], previews'[a])
<1>1. TypeInv /\ previews[a] \in Manifest \cup {NoPreview}
    BY DEF PreviewInv, LogInv, TypeInv, TypeOK
<1>2. CASE previews'[a] = previews[a]
  <2>1. previews[a].seq \in Nat
      BY <1>1 DEF Manifest, NoPreview
  <2> QED
      BY <1>2, <2>1 DEF ManifestAdvances
<1>3. ASSUME NEW c \in Calls, req[c] \in Previews \cap issued, WritePreviewRow(req[c]), req[c].attempt = a
      PROVE  ManifestAdvances(previews[a], previews'[a])
  <2>1. previews'[a] = [seq |-> req[c].seq, status |-> req[c].status, target |-> req[c].target]
      BY <1>1, <1>3 DEF WritePreviewRow, TypeInv, TypeOK
  <2>2. PreviewCondition(req[c])
      BY <1>3 DEF WritePreviewRow
  <2>3. Present(a) => req[c].target = previews[a].target
      BY <1>3 DEF PreviewInv, RowsIssued
  <2>4. req[c].seq \in Nat /\ req[c].status \in PreviewStatus
      BY <1>3, PreviewFields
  <2>5. CASE previews[a].status = "absent"
      BY <2>5 DEF ManifestAdvances
  <2>6. CASE Present(a)
    <3>1. previews[a] \in Manifest
        BY <1>1, <2>6 DEF Present, NoPreview
    <3>2. CASE previews[a].seq < req[c].seq /\ previews[a].status = "active"
        BY <2>1, <2>3, <2>4, <2>6, <3>1, <3>2 DEF ManifestAdvances, Manifest, Final
    <3>3. CASE previews[a].seq = req[c].seq /\ previews[a].status = req[c].status
      <4>1. previews'[a] = previews[a]
          BY <2>1, <2>3, <2>6, <3>1, <3>3 DEF Manifest
      <4> QED
          BY <1>2, <4>1
    <3> QED
        BY <1>3, <2>2, <2>6, <3>2, <3>3 DEF PreviewCondition, Present
  <2> QED
      BY <2>5, <2>6 DEF Present
<1>4. ASSUME NEW c \in Calls, pc[c] = "accept", MarkAccepted(c), req[c].accepts = a, Present(a)
      PROVE  ManifestAdvances(previews[a], previews'[a])
  <2>1. req[c] \in issued \cap Upserts /\ req[c].accepts # None
      BY <1>1, <1>4 DEF TypeInv, CallOK, UpsertLabels
  <2>2. PICK p \in acked \cap Previews : p.attempt = a /\ p.status = "succeeded"
      BY <1>4, <2>1 DEF PreviewInv, AcceptsSucceeded
  <2>3. p \in issued
      BY <1>1, <2>2 DEF TypeInv, TypeOK
  <2>4. previews[a].status \notin {"failed", "canceled"}
      BY <2>2, <2>3 DEF PreviewInv, RowsIssued, OneEnd
  <2>5. previews' = [previews EXCEPT ![a].status = "accepted"]
      BY <1>4 DEF MarkAccepted, Accepted, Present
  <2>6. previews[a] \in Manifest
      BY <1>1, <1>4 DEF Present, NoPreview
  <2>7. previews'[a] = [previews[a] EXCEPT !.status = "accepted"]
      BY <1>1, <2>5 DEF TypeInv, TypeOK
  <2>8. previews[a].status = "accepted" => previews'[a] = previews[a]
      BY <2>6, <2>7 DEF Manifest
  <2> QED
      BY <2>4, <2>6, <2>7, <2>8 DEF ManifestAdvances, Manifest, Final
<1>5. ASSUME NEW c \in Calls, req[c] \in Previews, WritePreviewRow(req[c]), req[c].attempt # a
      PROVE  previews'[a] = previews[a]
    BY <1>1, <1>5 DEF WritePreviewRow, TypeInv, TypeOK
<1>6. ASSUME NEW c \in Calls, MarkAccepted(c), req[c].accepts # a \/ ~Present(a)
      PROVE  previews'[a] = previews[a]
    BY <1>1, <1>6 DEF MarkAccepted, Accepted, Present, TypeInv, TypeOK
<1> QED
    BY <1>1, <1>2, <1>3, <1>4, <1>5, <1>6, PreviewBy

LEMMA PreviewStep == ~Expiry /\ OneTarget /\ PreviewInv /\ [Next]_vars => PreviewInv'
<1> SUFFICES ASSUME ~Expiry, OneTarget, PreviewInv, [Next]_vars PROVE PreviewInv'
    OBVIOUS
<1>1. LogInv /\ LogInv' /\ TypeInv /\ TypeInv'
    BY LogStep DEF PreviewInv, LogInv
<1>2. issued \subseteq issued' /\ acked \subseteq acked' /\ acked \subseteq issued
    BY <1>1, FlowGrows DEF TypeInv, TypeOK
<1>3. \A a \in Attempts : ManifestAdvances(previews[a], previews'[a])
    BY ManifestsStep
<1>4. ASSUME NEW a \in Attempts, Present(a)
      PROVE  Present(a)' /\ previews'[a].target = previews[a].target
  <2>1. previews[a] \in Manifest
      BY <1>1, <1>4 DEF Present, TypeInv, TypeOK, NoPreview
  <2>2. previews'[a].target = previews[a].target
      BY <1>3, <1>4 DEF Present, ManifestAdvances
  <2>3. previews[a].target \in RecordIds
      BY <2>1 DEF Manifest
  <2>4. ASSUME previews'[a].status = "absent" PROVE FALSE
    <3>1. Final(previews[a].status) => previews'[a] = previews[a]
        BY <1>3, <1>4 DEF Present, ManifestAdvances
    <3>2. ASSUME NEW c \in Calls, req[c] \in Previews, WritePreviewRow(req[c]) PROVE FALSE
        BY <1>1, <1>4, <2>1, <2>4, <3>2, PreviewFields DEF WritePreviewRow, TypeInv, TypeOK, PreviewStatus,
           Present
    <3>3. ASSUME NEW c \in Calls, MarkAccepted(c) PROVE FALSE
        BY <1>1, <1>4, <2>1, <2>4, <3>3 DEF MarkAccepted, Accepted, TypeInv, TypeOK, Present
    <3> QED
        BY <1>1, <1>4, <2>4, <3>2, <3>3, PreviewBy DEF Present
  <2> QED
      BY <2>2, <2>4 DEF Present
<1>5. RowsIssued'
  <2> SUFFICES ASSUME NEW a \in Attempts
               PROVE  /\ Present(a)' => \A p \in Previews : p.attempt = a => p.target = previews'[a].target
                      /\ previews'[a].status \in {"succeeded", "failed", "canceled"} =>
                            \E p \in issued' \cap Previews : p.attempt = a /\ p.status = previews'[a].status
      BY DEF RowsIssued, Present
  <2>1. CASE previews'[a] = previews[a]
      BY <1>2, <2>1 DEF PreviewInv, RowsIssued, Present
  <2>2. ASSUME NEW c \in Calls, req[c] \in Previews \cap issued, WritePreviewRow(req[c]),
               previews'[a] # previews[a]
        PROVE  /\ \A p \in Previews : p.attempt = a => p.target = previews'[a].target
               /\ \E p \in issued' \cap Previews : p.attempt = a /\ p.status = previews'[a].status
    <3>1. /\ req[c].attempt = a /\ previews'[a].target = req[c].target
          /\ previews'[a].status = req[c].status
        BY <1>1, <2>2 DEF WritePreviewRow, TypeInv, TypeOK
    <3> QED
        BY <1>2, <2>2, <3>1 DEF OneTarget
  <2>3. ASSUME NEW c \in Calls, MarkAccepted(c), previews'[a] # previews[a]
        PROVE  /\ \A p \in Previews : p.attempt = a => p.target = previews'[a].target
               /\ previews'[a].status = "accepted"
    <3>1. Present(a) /\ previews'[a] = [previews[a] EXCEPT !.status = "accepted"]
        BY <1>1, <2>3 DEF MarkAccepted, Accepted, Present, TypeInv, TypeOK
    <3>2. previews[a] \in Manifest
        BY <1>1, <3>1 DEF Present, TypeInv, TypeOK, NoPreview
    <3> QED
        BY <3>1, <3>2 DEF PreviewInv, RowsIssued, Manifest
  <2> QED
      BY <1>1, <2>1, <2>2, <2>3, PreviewBy
<1>6. OneEnd'
  <2> SUFFICES ASSUME NEW p \in issued' \cap Previews, NEW q \in issued' \cap Previews,
                      p.attempt = q.attempt, p.status # "active", q.status # "active"
               PROVE  p = q
      BY DEF OneEnd
  <2>1. CASE p \in issued /\ q \in issued
      BY <2>1 DEF PreviewInv, OneEnd
  <2>2. ASSUME NEW c \in Calls, NEW e \in Requests, Submit(c, e), ~(p \in issued /\ q \in issued)
        PROVE  p = q
    <3>1. issued' = issued \cup {e} /\ MayIssue(e)
        BY <2>2 DEF Submit
    <3>2. e \in Previews /\ (e = p \/ e = q)
        BY <2>2, <3>1
    <3>3. MayPreview(e)
        BY <3>1, <3>2, Kinds DEF MayIssue, Durables
    <3> QED
        BY <3>1, <3>2, <3>3 DEF MayPreview
  <2> QED
      BY <1>1, <2>1, <2>2, IssuedBy
<1>7. PastPreview'
  <2>1. ASSUME NEW c \in Calls, pc'[c] = "publish", req'[c] \in Previews PROVE previews'[req'[c].attempt].status # "absent"
    <3>1. CASE req'[c] = req[c] /\ pc[c] = "publish"
      <4>1. Present(req[c].attempt) /\ req[c].attempt \in Attempts
          BY <2>1, <3>1, PreviewFields DEF PreviewInv, PastPreview
      <4> QED
          BY <1>4, <3>1, <4>1 DEF Present
    <3>2. CASE PreviewGet(c)
      <4>1. /\ pc[c] = "previewGet" /\ req'[c] = req[c] /\ UNCHANGED previews
            /\ \/ previews[req[c].attempt].seq > req[c].seq
               \/ previews[req[c].attempt].status \in {"accepted", "failed", "canceled"}
          BY <1>1, <2>1, <3>2 DEF PreviewGet, At, Goto, ReturnError, Leave, store, TypeInv, TypeOK
      <4>2. req[c].attempt \in Attempts /\ req[c].seq \in Nat
          BY <2>1, <4>1, PreviewFields
      <4>3. previews[req[c].attempt] \in Manifest \cup {NoPreview}
          BY <1>1, <4>2 DEF TypeInv, TypeOK
      <4>4. previews[req[c].attempt].status # "absent"
        <5>1. previews[req[c].attempt] # NoPreview
            BY <4>1, <4>2 DEF NoPreview
        <5> QED
            BY <4>3, <5>1 DEF Manifest, PreviewStatus
      <4> QED
          BY <4>1, <4>4
    <3>3. CASE PreviewPut(c)
      <4>1. req'[c] = req[c] /\ req[c] \in Previews /\ req[c].attempt \in Attempts
          BY <2>1, <3>3, PreviewFields DEF PreviewPut
      <4>2. CASE WritePreviewRow(req[c])
        <5>1. previews'[req[c].attempt].status = req[c].status
            BY <1>1, <4>1, <4>2 DEF WritePreviewRow, TypeInv, TypeOK
        <5> QED
            BY <2>1, <4>1, <5>1, PreviewFields DEF PreviewStatus
      <4>3. CASE ~PreviewCondition(req[c]) /\ UNCHANGED store
          BY <4>1, <4>3 DEF PreviewCondition, store
      <4> QED
          BY <3>3, <4>2, <4>3 DEF PreviewPut
    <3>4. CASE Rests(c)
        BY <2>1, <3>1, <3>4 DEF Rests
    <3>5. CASE MarkAccepted(c) \/ PutTerminal(c) \/ EventGet(c) \/ EventPut(c) \/ EventCheck(c)
      <4>1. req[c] \in Durables /\ (req'[c] = req[c] \/ pc'[c] = "idle")
          BY <1>1, <3>5, Kinds DEF MarkAccepted, PutTerminal, EventGet, EventPut, EventCheck, AdoptCursor, At, Goto,
             ReturnError, Leave, TypeInv, TypeOK, CallOK, EventLabels, UpsertLabels, Durables
      <4> QED
          BY <2>1, <4>1, Kinds
    <3>6. CASE ValidateTarget(c) \/ RecordGet(c) \/ RecordPut(c) \/ RecordCheck(c) \/ Publish(c) \/ Fault(c)
        BY <1>1, <2>1, <3>6 DEF ValidateTarget, RecordGet, RecordPut, RecordCheck, Publish, Fault, Goto,
           ReturnNil, ReturnError, Leave, TypeInv, TypeOK
    <3>7. ASSUME NEW e \in Requests, Submit(c, e) PROVE pc'[c] # "publish"
        BY <1>1, <3>7, Kinds, StepLabels DEF Submit, Goto, TypeInv, TypeOK, Durables
    <3> QED
        BY <1>1, <2>1, <3>2, <3>3, <3>4, <3>5, <3>6, <3>7, OtherCallsRest DEF Step
  <2>2. ASSUME NEW p \in acked' \cap Previews PROVE Present(p.attempt)'
    <3>1. CASE p \in acked
        BY <1>4, <2>2, <3>1, PreviewFields DEF PreviewInv, PastPreview
    <3>2. ASSUME NEW c \in Calls, RecordGet(c) \/ RecordCheck(c), p \notin acked PROVE FALSE
      <4>1. p = req[c] /\ req[c] \in Upserts
          BY <1>1, <2>2, <3>2 DEF RecordGet, RecordCheck, At, ReturnNil, ReturnError, flow, TypeInv, CallOK, UpsertLabels
      <4> QED
          BY <2>2, <4>1, Kinds
    <3>3. ASSUME NEW c \in Calls, Publish(c), p \notin acked PROVE Present(p.attempt)'
      <4>1. p = req[c] /\ pc[c] = "publish" /\ UNCHANGED previews
          BY <2>2, <3>3 DEF Publish, Deliver, At, ReturnNil, store
      <4> QED
          BY <2>2, <4>1 DEF PreviewInv, PastPreview, Present
    <3> QED
        BY <1>1, <2>2, <3>1, <3>2, <3>3, AckedBy
  <2> QED
      BY <2>1, <2>2 DEF PastPreview, Present
<1>8. AcceptsSucceeded'
  <2> SUFFICES ASSUME NEW e \in issued' \cap Upserts, e.accepts # None
               PROVE  \E p \in acked' \cap Previews : p.attempt = e.accepts /\ p.status = "succeeded"
      BY DEF AcceptsSucceeded
  <2>1. CASE e \in issued
      BY <1>2, <2>1 DEF PreviewInv, AcceptsSucceeded
  <2>2. ASSUME NEW c \in Calls, Submit(c, e), e \notin issued
        PROVE  \E p \in acked' \cap Previews : p.attempt = e.accepts /\ p.status = "succeeded"
    <3>1. MayUpsert(e)
        BY <2>2, Kinds DEF Submit, MayIssue
    <3> QED
        BY <1>2, <3>1 DEF MayUpsert
  <2> QED
      BY <1>1, <2>1, <2>2, IssuedBy DEF Submit
<1>9. PastValidate'
  <2> SUFFICES ASSUME NEW c \in Calls, pc'[c] \in ValidatedLabels, req'[c] \in Upserts, req'[c].accepts # None
               PROVE  /\ previews'[req'[c].accepts].status # "absent"
                      /\ previews'[req'[c].accepts].target = req'[c].rec
      BY DEF PastValidate, Present
  <2>1. req'[c].accepts \in Attempts
      BY UpsertFields
  <2>2. CASE req'[c] = req[c] /\ pc[c] \in ValidatedLabels
    <3>1. Present(req[c].accepts) /\ previews[req[c].accepts].target = req[c].rec
        BY <2>2 DEF PreviewInv, PastValidate
    <3> QED
        BY <1>4, <2>1, <2>2, <3>1 DEF Present
  <2>3. CASE ValidateTarget(c)
    <3>1. /\ req'[c] = req[c] /\ UNCHANGED previews
          /\ ~(Present(req[c].accepts) /\ previews[req[c].accepts].target # req[c].rec)
          /\ req[c] \in issued
        BY <1>1, <2>3 DEF ValidateTarget, At, Goto, ReturnError, Leave, store, Present, ValidatedLabels,
           EventLabels, TypeInv, TypeOK, CallOK
    <3>2. PICK p \in acked \cap Previews : p.attempt = req[c].accepts
        BY <3>1 DEF PreviewInv, AcceptsSucceeded
    <3>3. Present(req[c].accepts)
        BY <3>2 DEF PreviewInv, PastPreview
    <3> QED
        BY <3>1, <3>3 DEF Present
  <2>4. CASE Rests(c)
      BY <2>2, <2>4 DEF Rests
  <2>5. CASE RecordGet(c) \/ RecordPut(c) \/ RecordCheck(c) \/ EventGet(c) \/ EventPut(c) \/ EventCheck(c)
    <3>1. pc[c] \in ValidatedLabels /\ (req'[c] = req[c] \/ pc'[c] = "idle")
        BY <1>1, <2>5 DEF RecordGet, RecordPut, RecordCheck, EventGet, EventPut, EventCheck, AdoptCursor, At, Goto,
           ReturnNil, ReturnError, Leave, ValidatedLabels, EventLabels, TypeInv, TypeOK
    <3> QED
        BY <2>2, <3>1 DEF ValidatedLabels, EventLabels
  <2>6. CASE MarkAccepted(c) \/ PutTerminal(c) \/ PreviewGet(c) \/ PreviewPut(c) \/ Publish(c) \/ Fault(c)
      BY <1>1, <2>6 DEF MarkAccepted, PutTerminal, PreviewGet, PreviewPut, Publish, Fault, Goto,
         ReturnNil, ReturnError, Leave, ValidatedLabels, EventLabels, TypeInv, TypeOK
  <2>7. ASSUME NEW e \in Requests, Submit(c, e) PROVE FALSE
    <3>1. req'[c] = e /\ pc'[c] = FirstStep(e)
        BY <1>1, <2>7 DEF Submit, Goto, TypeInv, TypeOK
    <3> QED
        BY <3>1, StepLabels DEF ValidatedLabels, EventLabels
  <2> QED
      BY <1>1, <2>3, <2>4, <2>5, <2>6, <2>7, OtherCallsRest DEF Step
<1>10. SupersededByTarget'
  <2> SUFFICES ASSUME NEW a \in Attempts, previews'[a].status = "accepted"
               PROVE  \E e \in Upserts : e.accepts = a /\ e.rec = previews'[a].target /\ events'[EventId(e)].event = e
      BY DEF SupersededByTarget, EventId
  <2>1. ASSUME NEW e \in Upserts, events[EventId(e)].event = e PROVE events'[EventId(e)].event = e
    <3>1. events[EventId(e)] # NoRow /\ EventId(e) \in EventIds
        BY <2>1, Kinds, EventIdsOf DEF NoRow, Durables
    <3> QED
        BY <1>1, <2>1, <3>1, RowsStay
  <2>2. CASE previews[a].status = "accepted"
    <3>1. PICK e \in Upserts : e.accepts = a /\ e.rec = previews[a].target /\ events[EventId(e)].event = e
        BY <2>2 DEF PreviewInv, SupersededByTarget
    <3> QED
        BY <1>4, <2>1, <2>2, <3>1 DEF Present
  <2>3. ASSUME NEW c \in Calls, req[c] \in Previews, WritePreviewRow(req[c]), previews[a].status # "accepted"
        PROVE  FALSE
      BY <1>1, <2>3, PreviewFields DEF WritePreviewRow, TypeInv, TypeOK, PreviewStatus
  <2>4. ASSUME NEW c \in Calls, pc[c] = "accept", MarkAccepted(c), previews[a].status # "accepted"
        PROVE  \E e \in Upserts : e.accepts = a /\ e.rec = previews'[a].target /\ events'[EventId(e)].event = e
    <3>1. req[c] \in Upserts /\ req[c].accepts = a /\ Present(a)
        BY <1>1, <2>4 DEF MarkAccepted, Accepted, Present, TypeInv, TypeOK, CallOK, UpsertLabels
    <3>2. previews[a].target = req[c].rec
        BY <2>4, <3>1 DEF PreviewInv, PastValidate, ValidatedLabels
    <3>3. events[EventId(req[c])].event = req[c]
      <4>1. events[EventId(req[c])] = [event |-> req[c], cursor |-> cur[c]]
          BY <2>4 DEF PreviewInv, LogInv, CarriesRow, PastLog
      <4> QED
          BY <4>1
    <3> QED
        BY <1>4, <2>1, <3>1, <3>2, <3>3
  <2> QED
      BY <1>1, <2>2, <2>3, <2>4, PreviewBy
<1> QED
    BY <1>1, <1>5, <1>6, <1>7, <1>8, <1>9, <1>10 DEF PreviewInv

\* A superseded preview was superseded by a logged record event that names it and
\* that it targets, if an attempt has one target.
THEOREM SupersededRightly == OneTarget => (Spec => []SupersededByTarget)
<1> SUFFICES ASSUME OneTarget PROVE Spec => []SupersededByTarget
    OBVIOUS
<1>1. CASE ~Expiry
  <2>1. Spec => []PreviewInv
      BY <1>1, PreviewInit, PreviewStep, PTL DEF Spec
  <2> QED
      BY <2>1, PTL DEF PreviewInv
<1>2. CASE Expiry
  <2>1. SupersededByTarget
      BY <1>2 DEF SupersededByTarget
  <2> QED
      BY <2>1, PTL
<1> QED
    BY <1>1, <1>2

\* Late checkpoints and ends never undo a manifest, if an attempt has one target.
THEOREM ManifestsNeverRegress == OneTarget => (Spec => ManifestsAdvance)
<1> SUFFICES ASSUME OneTarget PROVE Spec => ManifestsAdvance
    OBVIOUS
<1> DEFINE Advance == ~Expiry => \A a \in Attempts : ManifestAdvances(previews[a], previews'[a])
<1>1. CASE ~Expiry
  <2>1. Spec => []PreviewInv
      BY <1>1, PreviewInit, PreviewStep, PTL DEF Spec
  <2>2. PreviewInv /\ [Next]_vars => [Advance]_vars
      BY <1>1, ManifestsStep
  <2> QED
      BY <2>1, <2>2, PTL DEF Spec, ManifestsAdvance
<1>2. CASE Expiry
  <2>1. [Next]_vars => [Advance]_vars
      BY <1>2
  <2> QED
      BY <2>1, PTL DEF Spec, ManifestsAdvance
<1> QED
    BY <1>1, <1>2
=============================================================================
