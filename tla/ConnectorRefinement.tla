------------------------- MODULE ConnectorRefinement -------------------------
(* While no row expires, Connector implements RecordLog: every step maps   *)
(* to one step of the abstract log or to a stutter.                        *)
EXTENDS ConnectorLogProofs

USE ConstantsAssumption

\* An event row stands under the key of its event.
RowsKeyed == \A i \in EventIds : events[i] # NoRow => EventId(events[i].event) = i

LogMapInv == LogInv /\ ReadableInv /\ RowsKeyed

\* The three concrete steps that the abstract log can see.
LEMMA VisibleSteps ==
    ASSUME ~Expiry, TypeInv, [Next]_vars
    PROVE  \/ UNCHANGED <<records, events, live>>
           \/ \E c \in Calls : pc[c] = "recordPut" /\ WriteRecordRow(req[c]) /\ UNCHANGED live
           \/ \E c \in Calls : pc[c] = "eventPut" /\ WriteEventRow(req[c], cur[c]) /\ UNCHANGED live
           \/ \E c \in Calls : Deliver(c) /\ UNCHANGED store
<1>1. ASSUME NEW c \in Calls, RecordPut(c) \/ EventPut(c) \/ Resend(c)
      PROVE  \/ UNCHANGED <<records, events, live>>
             \/ pc[c] = "recordPut" /\ WriteRecordRow(req[c]) /\ UNCHANGED live
             \/ pc[c] = "eventPut" /\ WriteEventRow(req[c], cur[c]) /\ UNCHANGED live
    BY <1>1 DEF RecordPut, EventPut, Resend, At, store, WritePreviewRow
<1>2. ASSUME NEW c \in Calls, Fault(c) \/ (Step(c) /\ ~RecordPut(c) /\ ~EventPut(c) /\ ~Publish(c))
      PROVE  UNCHANGED <<records, events, live>> \/ (Deliver(c) /\ UNCHANGED store)
    BY <1>2 DEF Step, store, ValidateTarget, RecordGet, RecordCheck, EventGet, EventCheck, MarkAccepted,
       PutTerminal, PreviewGet, PreviewPut, WritePreviewRow, Fault
<1>3. CASE UNCHANGED vars \/ Expire \/ Quiescent \/ \E c \in Calls, e \in Requests : Submit(c, e)
    BY <1>3 DEF Expire, Quiescent, Submit, vars, store
<1> QED
    BY <1>1, <1>2, <1>3 DEF Next, Step, Publish

LEMMA LogMapInit == Init => LogMapInv
BY LogInit, ReadableInit DEF LogMapInv, RowsKeyed, Init

LEMMA LogMapStep == ~Expiry /\ LogMapInv /\ [Next]_vars => LogMapInv'
<1> SUFFICES ASSUME ~Expiry, LogMapInv, [Next]_vars PROVE LogMapInv'
    OBVIOUS
<1>1. LogInv' /\ ReadableInv' /\ TypeInv
    BY LogStep, ReadableStep DEF LogMapInv, LogInv
<1>2. RowsKeyed'
  <2> SUFFICES ASSUME NEW i \in EventIds, events'[i] # NoRow PROVE EventId(events'[i].event) = i
      BY DEF RowsKeyed, EventId
  <2>1. CASE events'[i] = events[i]
      BY <2>1 DEF LogMapInv, RowsKeyed
  <2>2. ASSUME NEW c \in Calls, WriteEventRow(req[c], cur[c]), events'[i] # events[i]
        PROVE  i = EventId(req[c]) /\ events'[i].event = req[c]
      BY <1>1, <2>2 DEF WriteEventRow, TypeInv, TypeOK
  <2> QED
      BY <1>1, <2>1, <2>2, LoggedBy
<1> QED
    BY <1>1, <1>2 DEF LogMapInv

\* A stored record row is an accepted snapshot.
LEMMA RecordWriteMaps ==
    ASSUME TypeInv, NEW c \in Calls, pc[c] = "recordPut", WriteRecordRow(req[c]), UNCHANGED live
    PROVE  Log!Accept(req[c]) \/ UNCHANGED Log!lvars
<1> DEFINE e == req[c]
<1>1. e \in Upserts /\ e.rec \in RecordIds /\ UNCHANGED <<LogRows, Delivered>>
    BY Kinds DEF TypeInv, CallOK, UpsertLabels, UpsertEvent, WriteRecordRow, LogRows, Delivered
<1>2. CASE records[e.rec].ver < e.ver
    BY <1>1, <1>2 DEF WriteRecordRow, Log!Accept
<1>3. CASE SameRecord(records[e.rec], e) /\ ~(records[e.rec].ver < e.ver)
  <2>1. records[e.rec] = RecordRow(e)
      BY <1>1, <1>3, Kinds DEF SameRecord, RecordRow, TypeInv, TypeOK, RecordRows, NoRecord, UpsertEvent
  <2>2. UNCHANGED records
      BY <1>1, <2>1 DEF WriteRecordRow, TypeInv, TypeOK
  <2> QED
      BY <1>1, <2>2 DEF Log!lvars
<1> QED
    BY <1>2, <1>3 DEF WriteRecordRow, RecordCondition

\* A stored event row is a new entry under a key not used before.
LEMMA EventWriteMaps ==
    ASSUME LogMapInv, NEW c \in Calls, pc[c] = "eventPut", WriteEventRow(req[c], cur[c]), UNCHANGED live
    PROVE  req[c] \in Durables /\ cur[c] \in Cursors /\ Log!Append(req[c], cur[c])
<1> DEFINE e == req[c]
           i == EventId(e)
           row == [event |-> e, cursor |-> cur[c]]
<1>1. e \in Durables /\ cur[c] \in Cursors /\ i \in EventIds /\ TypeInv
    BY EventIdsOf DEF LogMapInv, LogInv, TypeInv, CallOK, EventLabels
<1>2. events[i] = NoRow
    BY <1>1 DEF WriteEventRow, EventAbsent, TypeInv, TypeOK, EventRow
<1>3. events' = [events EXCEPT ![i] = row] /\ UNCHANGED records
    BY DEF WriteEventRow
<1>4. row # NoRow
    BY <1>1 DEF NoRow
<1>5. LogRows' = LogRows \cup {row}
    BY <1>1, <1>2, <1>3, <1>4 DEF LogRows, TypeInv, TypeOK
<1>6. \A m \in LogRows : EventId(m.event) # EventId(e)
    BY <1>1, <1>2 DEF LogRows, LogMapInv, RowsKeyed
<1>7. e \in Upserts => Log!Reached(e)
  <2> SUFFICES ASSUME e \in Upserts PROVE Log!Reached(e)
      OBVIOUS
  <2>1. Reached(e)
      BY DEF LogMapInv, ReadableInv, PastRecord, EventLabels
  <2> QED
      BY <1>1, <2>1, Kinds DEF Reached, Log!Reached, SameRecord, RecordRow, TypeInv, TypeOK, RecordRows, NoRecord, UpsertEvent
<1> QED
    BY <1>1, <1>3, <1>5, <1>6, <1>7 DEF Log!Append, Delivered

\* A published durable event is an entry of the log.
LEMMA PublishMaps ==
    ASSUME LogMapInv, NEW c \in Calls, Deliver(c), UNCHANGED store
    PROVE  (\E m \in LogRows : Log!Deliver(m)) \/ UNCHANGED Log!lvars
<1> DEFINE m == [event |-> req[c], cursor |-> cur[c]]
<1>1. live' = live \cup {m} /\ UNCHANGED <<records, events, LogRows>> /\ pc[c] = "publish"
    BY DEF Deliver, At, store, LogRows
<1>2. CASE req[c] \in Durables
  <2>1. events[EventId(req[c])] = m /\ EventId(req[c]) \in EventIds /\ m # NoRow
      BY <1>1, <1>2, EventIdsOf, Kinds DEF LogMapInv, LogInv, CarriesRow, PastLog, NoRow, Durables
  <2>2. m \in LogRows /\ Delivered' = Delivered \cup {m}
      BY <1>1, <1>2, <2>1 DEF LogRows, Delivered
  <2> QED
      BY <1>1, <2>2 DEF Log!Deliver
<1>3. CASE req[c] \notin Durables
    BY <1>1, <1>3 DEF Delivered, Log!lvars
<1> QED
    BY <1>2, <1>3

\* The protocol of table calls implements the abstract record log.
THEOREM LogRefinement == ~Expiry => (Spec => ImplementsRecordLog)
<1> SUFFICES ASSUME ~Expiry PROVE Spec => ImplementsRecordLog
    OBVIOUS
<1>1. Init => Log!Init
    BY DEF Init, Log!Init, LogRows, Delivered
<1>2. LogMapInv /\ [Next]_vars => [Log!Next]_(Log!lvars)
  <2> SUFFICES ASSUME LogMapInv, [Next]_vars PROVE Log!Next \/ UNCHANGED Log!lvars
      OBVIOUS
  <2>1. CASE UNCHANGED <<records, events, live>>
      BY <2>1 DEF Log!lvars, LogRows, Delivered
  <2>2. ASSUME NEW c \in Calls, pc[c] = "recordPut", WriteRecordRow(req[c]), UNCHANGED live
        PROVE  Log!Next \/ UNCHANGED Log!lvars
      BY <2>2, RecordWriteMaps DEF Log!Next, LogMapInv, LogInv, TypeInv, CallOK, UpsertLabels
  <2>3. ASSUME NEW c \in Calls, pc[c] = "eventPut", WriteEventRow(req[c], cur[c]), UNCHANGED live
        PROVE  Log!Next
      BY <2>3, EventWriteMaps DEF Log!Next, Durables
  <2>4. ASSUME NEW c \in Calls, Deliver(c), UNCHANGED store PROVE Log!Next \/ UNCHANGED Log!lvars
      BY <2>4, PublishMaps DEF Log!Next
  <2> QED
      BY <2>1, <2>2, <2>3, <2>4, VisibleSteps DEF LogMapInv, LogInv
<1> QED
    BY <1>1, <1>2, LogMapInit, LogMapStep, PTL DEF Spec, ImplementsRecordLog, Log!Spec
=============================================================================
