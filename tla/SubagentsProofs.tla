--------------------------- MODULE SubagentsProofs ---------------------------
(* Theorems about Subagents, for any ids, calls and bounds.                *)
EXTENDS Subagents, SequenceTheorems, TLAPS

USE SubagentsAssumption DEF SubagentsAssumption

-----------------------------------------------------------------------------
(* Sequences as functions on 1..n.                                         *)

\* Appending to a sequence adds an element and keeps the others.
LEMMA Appended ==
    ASSUME NEW S, NEW k \in Nat, NEW s \in [1..k -> S], NEW e \in S
    PROVE  /\ Append(s, e) \in [1..k + 1 -> S]
           /\ \A i \in 1..k : Append(s, e)[i] = s[i]
           /\ Append(s, e)[k + 1] = e
<1>1. s \in Seq(S) /\ Len(s) = k
    BY SeqDef, LenProperties
<1>2. /\ Append(s, e) \in Seq(S)
      /\ Len(Append(s, e)) = k + 1
      /\ \A i \in 1..k : Append(s, e)[i] = s[i]
      /\ Append(s, e)[k + 1] = e
    BY <1>1
<1>3. Append(s, e) \in [1..Len(Append(s, e)) -> S]
    BY <1>2, LenProperties
<1> QED
    BY <1>2, <1>3

\* Appending to an empty channel makes it hold one signal; taking it empties it.
LEMMA OneSignal ==
    ASSUME NEW S, NEW e \in S
    PROVE  /\ Append(<<>>, e) \in [{1} -> S]
           /\ Append(<<>>, e)[1] = e
           /\ Append(<<>>, e) # <<>>
           /\ \A f \in [{1} -> S] : Head(f) = f[1] /\ f[1] \in S /\ Tail(f) = <<>> /\ f # <<>>
<1>1. <<>> \in [1..0 -> S]
    OBVIOUS
<1>2. 1..1 = {1}
    OBVIOUS
<1>3. Append(<<>>, e) \in [{1} -> S] /\ Append(<<>>, e)[1] = e
    BY <1>1, <1>2, Appended
<1>4. ASSUME NEW f \in [{1} -> S] PROVE f \in Seq(S) /\ Len(f) = 1 /\ f # <<>>
  <2>1. f \in [1..1 -> S]
      BY <1>2
  <2>2. f \in Seq(S)
      BY <2>1, SeqDef
  <2>3. DOMAIN f = 1..1 /\ DOMAIN f = 1..Len(f) /\ Len(f) \in Nat
      BY <2>1, <2>2, LenProperties
  <2>4. Len(f) = 1
      BY <2>3, SMT
  <2> QED
      BY <2>2, <2>4, EmptySeq
<1>5. ASSUME NEW f \in [{1} -> S] PROVE Head(f) = f[1] /\ f[1] \in S /\ Tail(f) = <<>>
  <2>1. f \in Seq(S) /\ Len(f) = 1
      BY <1>4
  <2>2. Head(f) = f[1] /\ f[1] \in S
      BY <2>1
  <2>3. Tail(f) \in Seq(S) /\ Len(Tail(f)) = 0
      BY <1>4, <2>1, HeadTailProperties, SMT
  <2>4. Tail(f) = <<>>
      BY <2>3, EmptySeq, Zenon
  <2> QED
      BY <2>2, <2>4
<1> QED
    BY <1>3, <1>4, <1>5

-----------------------------------------------------------------------------
(* Types.                                                                  *)

Snap == [status : Statuses, seq : Nat \ {0}]
Channel == {<<>>} \cup [{1} -> Signal]
Child == [at : {"requested", "refused", "running", "ending", "closed"},
          reports : 0..MaxReports, result : {"none", "ok", "error"},
          cancel : BOOLEAN, canceled : BOOLEAN]

Call == [at : {"idle", "spawning", "waiting", "returned"}, runtime : 0..Len(snapshot), since : Nat]

\* A child has a result from its last snapshot on.
HasResult == \A n \in Made : child[n].at \in {"ending", "closed"} => child[n].result \in {"ok", "error"}

\* A call that awaits something of a runtime awaits one that was made.
CallsKnow == \A c \in Calls : call[c].at \in {"spawning", "waiting"} => call[c].runtime \in Made

TypeInv == TypeOK /\ CallsKnow /\ HasResult

\* The same, with names for the sets.
Types ==
    /\ runtimes \in [Ids -> 0..Len(snapshot)]
    /\ snapshot \in Seq(Snap)
    /\ owner \in [Made -> Ids]
    /\ monitor \in [Made -> {"none", "waiting", "done", "gaveUp"}]
    /\ child \in [Made -> Child]
    /\ flight \in [Made -> Channel]
    /\ queue \in Seq(Signal)
    /\ call \in [Calls -> Call]
    /\ \A c \in Calls : call[c].at \in {"spawning", "waiting"} => call[c].runtime \in Made
    /\ \A n \in Made : child[n].at \in {"ending", "closed"} => child[n].result \in {"ok", "error"}

LEMMA TypesOf == TypeInv => Types
BY DEF TypeInv, TypeOK, CallsKnow, HasResult, Types, Snap, Child, Channel, Call

LEMMA TypeInit == Init => TypeInv
<1> SUFFICES ASSUME Init PROVE TypeInv
    OBVIOUS
<1>1. snapshot \in Seq(Snap) /\ queue \in Seq(Signal) /\ Len(snapshot) = 0 /\ Made = {}
    BY EmptySeq DEF Init, Made
<1> QED
    BY <1>1 DEF Init, TypeInv, TypeOK, CallsKnow, HasResult, NoCall, Snap, Made

\* A snapshot written for a runtime changes that runtime's alone.
LEMMA Changed ==
    ASSUME TypeOK, NEW n \in Made, NEW e \in Snap
    PROVE  LET t == [snapshot EXCEPT ![n] = e] IN
           /\ t \in Seq(Snap)
           /\ Len(t) = Len(snapshot)
           /\ \A m \in Made : t[m] = IF m = n THEN e ELSE snapshot[m]
<1>1. snapshot \in Seq(Snap)
    BY DEF TypeOK, Snap
<1> QED
    BY <1>1, ExceptSeq DEF Made

LEMMA Snapshots ==
    ASSUME TypeOK
    PROVE  /\ Len(snapshot) \in Nat
           /\ \A n \in Made : snapshot[n] \in Snap /\ n \in Nat \ {0}
<1>1. snapshot \in Seq(Snap)
    BY DEF TypeOK, Snap
<1>2. Len(snapshot) \in Nat /\ snapshot \in [1..Len(snapshot) -> Snap]
    BY <1>1, LenProperties
<1> QED
    BY <1>2 DEF Made

\* What a step that leaves Made as it is has to show.
LEMMA SameMade ==
    ASSUME TypeInv,
           snapshot' \in Seq(Snap),
           Len(snapshot') = Len(snapshot),
           runtimes' \in [Ids -> 0..Len(snapshot)],
           owner' = owner,
           monitor' \in [Made -> {"none", "waiting", "done", "gaveUp"}],
           child' \in [Made -> Child],
           flight' \in [Made -> Channel],
           queue' \in Seq(Signal),
           call' \in [Calls -> Call],
           \A c \in Calls : call'[c].at \in {"spawning", "waiting"} => call'[c].runtime \in Made,
           \A n \in Made : child'[n].at \in {"ending", "closed"} => child'[n].result \in {"ok", "error"}
    PROVE  TypeInv'
<1>1. Made' = Made
    BY DEF Made
<1> QED
    BY <1>1 DEF TypeInv, TypeOK, CallsKnow, HasResult, Snap, Channel, Child, Call

\* The three ways a child's record changes beside its reports.
LEMMA ChildMoves ==
    ASSUME NEW r \in Child, NEW at \in {"running", "refused", "closed"}
    PROVE  LET q == [r EXCEPT !.at = at] IN q \in Child /\ q.at = at /\ q.result = r.result
BY DEF Child

LEMMA ChildCanceled ==
    ASSUME NEW r \in Child
    PROVE  LET q == [r EXCEPT !.cancel = TRUE] IN q \in Child /\ q.at = r.at /\ q.result = r.result
BY DEF Child

LEMMA ChildConcludes ==
    ASSUME NEW r \in Child, NEW o \in {"ok", "error"}, NEW b \in BOOLEAN
    PROVE  LET q == [r EXCEPT !.at = "ending", !.result = o, !.canceled = b] IN
           q \in Child /\ q.at = "ending" /\ q.result = o
BY DEF Child

\* What Bumped writes.
LEMMA Bumps ==
    ASSUME TypeOK, NEW n \in Made, NEW status \in Statuses
    PROVE  /\ Bumped(n, status) \in Seq(Snap)
           /\ Len(Bumped(n, status)) = Len(snapshot)
           /\ Bumped(n, status)[n] = [status |-> status, seq |-> snapshot[n].seq + 1]
           /\ \A m \in Made : m # n => Bumped(n, status)[m] = snapshot[m]
<1> DEFINE e == [status |-> status, seq |-> snapshot[n].seq + 1]
<1>1. e \in Snap
    BY Snapshots DEF Snap
<1>2. Bumped(n, status) = [snapshot EXCEPT ![n] = e]
    BY Snapshots DEF Bumped
<1> QED
    BY <1>1, <1>2, Changed

\* What Listen writes, when it knows the sender.
Heard(signal, n) ==
    [snapshot EXCEPT ![n] = [status |-> signal.status, seq |-> NextSequence(signal.seq, @.seq)]]

LEMMA Hears ==
    ASSUME TypeOK, NEW n \in Made, NEW signal \in Signal
    PROVE  /\ Heard(signal, n) \in Seq(Snap)
           /\ Len(Heard(signal, n)) = Len(snapshot)
           /\ Heard(signal, n)[n].seq > snapshot[n].seq
           /\ \A m \in Made : m # n => Heard(signal, n)[m] = snapshot[m]
<1> DEFINE e == [status |-> signal.status, seq |-> NextSequence(signal.seq, snapshot[n].seq)]
<1>1. e \in Snap /\ e.seq > snapshot[n].seq
    BY Snapshots DEF Snap, Signal, NextSequence
<1>2. Heard(signal, n) = [snapshot EXCEPT ![n] = e]
    BY Snapshots DEF Heard
<1> QED
    BY <1>1, <1>2, Changed

\* The channel of a child holds one signal of its own runtime at most.
LEMMA Sent ==
    ASSUME TypeOK, NEW n \in Made, NEW status \in Statuses, NEW seq \in Nat,
           Delivered(n), Sends(n, status, seq)
    PROVE  /\ flight' \in [Made -> Channel]
           /\ flight'[n][1].id = owner[n]
           /\ \A m \in Made : m # n => flight'[m] = flight[m]
<1> DEFINE signal == [id |-> owner[n], status |-> status, seq |-> seq]
<1>1. signal \in Signal
    BY DEF TypeOK, Signal
<1>2. flight' = [flight EXCEPT ![n] = Append(<<>>, signal)]
    BY DEF Sends, Delivered, TypeOK
<1>3. Append(<<>>, signal) \in [{1} -> Signal] /\ Append(<<>>, signal)[1] = signal
    BY <1>1, OneSignal
<1> HIDE DEF signal
<1>4. flight' \in [Made -> Channel] /\ flight'[n][1] = signal /\ \A m \in Made : m # n => flight'[m] = flight[m]
    BY <1>2, <1>3 DEF TypeOK, Channel
<1> QED
    BY <1>4 DEF signal

LEMMA TypeStep == TypeInv /\ [Next]_vars => TypeInv'
<1> SUFFICES ASSUME TypeInv, [Next]_vars PROVE TypeInv'
    OBVIOUS
<1>t. Types
    BY TypesOf
<1>o. TypeOK
    BY DEF TypeInv
<1>s. Len(snapshot) \in Nat /\ \A n \in Made : n \in 0..Len(snapshot) /\ n # 0
    BY <1>o, Snapshots DEF Made
<1> USE DEF Types
<1>1. ASSUME NEW c \in Calls, NEW id \in Ids, SpawnAgain(c, id) PROVE TypeInv'
    BY <1>1, <1>t, SameMade DEF SpawnAgain, Returns, manager, Call
<1>2. ASSUME NEW c \in Calls, NEW id \in Ids, Spawn(c, id) PROVE TypeInv'
  <2> DEFINE n == Len(snapshot) + 1
  <2>1. snapshot' \in Seq(Snap) /\ Len(snapshot') = n /\ Made' = 1..n
      BY <1>2, <1>t, <1>s, AppendProperties DEF Spawn, Snap, Statuses, Made
  <2>2. owner' \in [1..n -> Ids] /\ monitor' \in [1..n -> {"none", "waiting", "done", "gaveUp"}]
      BY <1>2, <1>t, <1>s, Appended DEF Spawn, Made
  <2>3. /\ child' \in [1..n -> Child]
        /\ \A m \in 1..n : child'[m].at \in {"ending", "closed"} => child'[m].result \in {"ok", "error"}
    <3>1. NewChild \in Child /\ NewChild.at = "requested"
        BY DEF NewChild, Child
    <3>2. /\ child' \in [1..n -> Child]
          /\ child'[n] = NewChild
          /\ \A m \in Made : child'[m] = child[m]
      <4>1. child' = Append(child, NewChild) /\ child \in [1..Len(snapshot) -> Child]
          BY <1>2, <1>t DEF Spawn, Made
      <4> QED
        <5>1. ASSUME NEW e \in Child
              PROVE  /\ Append(child, e) \in [1..n -> Child]
                     /\ Append(child, e)[n] = e
                     /\ \A i \in Made : Append(child, e)[i] = child[i]
          <6>1. child \in [1..Len(snapshot) -> Child] /\ Len(snapshot) \in Nat
              BY <1>s, <4>1
          <6>2. Append(child, e) \in [1..Len(snapshot) + 1 -> Child]
              BY <6>1, Appended
          <6>3. \A i \in 1..Len(snapshot) : Append(child, e)[i] = child[i]
              BY <6>1, Appended
          <6>4. Append(child, e)[Len(snapshot) + 1] = e
              BY <6>1, Appended
          <6> QED
              BY <6>2, <6>3, <6>4 DEF Made
        <5> QED
            BY <3>1, <4>1, <5>1
    <3>3. \A m \in 1..n : m = n \/ m \in Made
        BY <1>s DEF Made
    <3> QED
        BY <1>t, <3>1, <3>2, <3>3
  <2>4. flight' \in [1..n -> Channel]
      BY <1>2, <1>t, <1>s, Appended DEF Spawn, Made, Channel
  <2>5. runtimes' \in [Ids -> 0..n] /\ 0..Len(snapshot) \subseteq 0..n /\ n \in 0..n /\ Made \subseteq 1..n
      BY <1>2, <1>t, <1>s DEF Spawn, Made
  <2>6. call' \in [Calls -> [at : {"idle", "spawning", "waiting", "returned"},
                             runtime : 0..n, since : Nat]]
      BY <1>2, <1>t, <1>s, <2>5 DEF Spawn, Call
  <2>7. \A d \in Calls : call'[d].at \in {"spawning", "waiting"} => call'[d].runtime \in 1..n
      BY <1>2, <1>t, <1>s, <2>5 DEF Spawn, Call
  <2>8. queue' \in Seq(Signal)
      BY <1>2, <1>t DEF Spawn
  <2> QED
      BY <2>1, <2>2, <2>3, <2>4, <2>5, <2>6, <2>7, <2>8 DEF TypeInv, TypeOK, CallsKnow, HasResult, Snap, Child, Channel
<1>3. ASSUME NEW c \in Calls, SpawnStarted(c) PROVE TypeInv'
  <2>1. call[c].runtime \in Made
      BY <1>3, <1>t DEF SpawnStarted
  <2>2. snapshot' \in Seq(Snap) /\ Len(snapshot') = Len(snapshot)
      BY <1>3, <1>t, <2>1, <1>o, Bumps DEF SpawnStarted, Statuses, Running
  <2> QED
      BY <1>3, <1>t, <2>1, <2>2, SameMade DEF SpawnStarted, Returns, Call
<1>4. ASSUME NEW c \in Calls, SpawnFailed(c) PROVE TypeInv'
  <2>1. runtimes' \in [Ids -> 0..Len(snapshot)]
      BY <1>4, <1>t, <1>s DEF SpawnFailed
  <2>2. call' \in [Calls -> Call] /\ \A d \in Calls : call'[d].at \in {"spawning", "waiting"} => call'[d] = call[d]
      BY <1>4, <1>t DEF SpawnFailed, Returns, Call
  <2> QED
      BY <1>4, <1>t, <2>1, <2>2, SameMade DEF SpawnFailed
<1>5. ASSUME NEW c \in Calls, NEW id \in Ids, NEW since \in Sinces \cup {0}, WaitBegins(c, id, since)
      PROVE TypeInv'
  <2>1. since \in Nat /\ runtimes[id] \in 0..Len(snapshot) /\ (runtimes[id] # 0 => runtimes[id] \in Made)
      BY <1>t, <1>s DEF SubagentsAssumption, Made
  <2>2. runtimes[id] # 0 => snapshot[runtimes[id]].seq \in Nat
      BY <1>t, <2>1, <1>o, Snapshots DEF Snap
  <2>3. \A m \in Made : m \in 0..Len(snapshot)
      BY <1>s
  <2>4. /\ call' \in [Calls -> Call]
        /\ \A d \in Calls : call'[d].at \in {"spawning", "waiting"} => call'[d].runtime \in Made
    <3>1. CASE runtimes[id] = 0 \/ snapshot[runtimes[id]].status \in Terminal
      <4>1. call' = [call EXCEPT ![c].at = "returned"]
          BY <1>5, <3>1 DEF WaitBegins, Returns
      <4> QED
          BY <1>t, <4>1 DEF Call
    <3>2. CASE ~(runtimes[id] = 0 \/ snapshot[runtimes[id]].status \in Terminal)
      <4>1. PICK k \in Nat : call' = [call EXCEPT ![c] = [at |-> "waiting", runtime |-> runtimes[id], since |-> k]]
          BY <1>5, <2>1, <2>2, <3>2 DEF WaitBegins
      <4> QED
          BY <1>t, <2>1, <3>2, <4>1 DEF Call
    <3> QED
        BY <3>1, <3>2
  <2> QED
      BY <1>5, <1>t, <2>4, SameMade DEF WaitBegins, manager
<1>6. ASSUME NEW c \in Calls, WaitEnds(c) \/ WaitTimesOut(c) PROVE TypeInv'
    BY <1>6, <1>t, SameMade DEF WaitEnds, WaitTimesOut, Returns, manager, Call
<1>7. ASSUME NEW c \in Calls, NEW id \in Ids, CancelSubagent(c, id) PROVE TypeInv'
  <2>1. runtimes[id] # 0 => runtimes[id] \in Made
      BY <1>t, <1>s DEF Made
  <2>2. call' \in [Calls -> Call] /\ \A d \in Calls : call'[d].at \in {"spawning", "waiting"} => call'[d] = call[d]
      BY <1>7, <1>t DEF CancelSubagent, Returns, Call
  <2>3. CASE runtimes[id] = 0 \/ snapshot[runtimes[id]].status \in Terminal
      BY <1>7, <1>t, <2>2, <2>3, SameMade DEF CancelSubagent
  <2>4. CASE ~(runtimes[id] = 0 \/ snapshot[runtimes[id]].status \in Terminal)
    <3> DEFINE m == runtimes[id]
    <3>1. m \in Made /\ snapshot' = Bumped(m, "cancelling") /\ child' = [child EXCEPT ![m].cancel = TRUE]
        BY <1>7, <2>1, <2>4 DEF CancelSubagent
    <3>2. snapshot' \in Seq(Snap) /\ Len(snapshot') = Len(snapshot)
        BY <1>o, <3>1, Bumps DEF Statuses
    <3>3. /\ child' \in [Made -> Child]
          /\ \A k \in Made : child'[k].at = child[k].at /\ child'[k].result = child[k].result
      <4> DEFINE q == [child[m] EXCEPT !.cancel = TRUE]
      <4>1. q \in Child /\ q.at = child[m].at /\ q.result = child[m].result
          BY <1>t, <3>1, ChildCanceled
      <4>2. child' = [child EXCEPT ![m] = q]
          BY <3>1
      <4> HIDE DEF q
      <4> QED
          BY <1>t, <3>1, <4>1, <4>2
    <3> QED
        BY <1>7, <1>t, <2>2, <3>2, <3>3, SameMade DEF CancelSubagent
  <2> QED
      BY <2>3, <2>4
<1>8. ASSUME Listen PROVE TypeInv'
  <2>1. Head(queue) \in Signal /\ queue' \in Seq(Signal)
      BY <1>8, <1>t, HeadTailProperties DEF Listen
  <2>2. LET n == runtimes[Head(queue).id] IN
          n \in 0..Len(snapshot) /\ (n # 0 => n \in Made)
      BY <1>t, <1>s, <2>1 DEF Signal, Made
  <2>3. snapshot' \in Seq(Snap) /\ Len(snapshot') = Len(snapshot)
    <3>1. CASE runtimes[Head(queue).id] = 0
        BY <1>8, <1>t, <3>1 DEF Listen
    <3>2. CASE runtimes[Head(queue).id] # 0
      <4>1. snapshot' = Heard(Head(queue), runtimes[Head(queue).id])
          BY <1>8, <3>2 DEF Listen, Heard
      <4> QED
          BY <1>o, <2>1, <2>2, <3>2, <4>1, Hears
    <3> QED
        BY <3>1, <3>2
  <2> QED
      BY <1>8, <1>t, <2>1, <2>3, SameMade DEF Listen
<1>9. ASSUME NEW n \in Made, Monitor(n) PROVE TypeInv'
  <2>1. EndStatus(n) \in Statuses
    <3>1. child[n].result \in {"ok", "error"}
        BY <1>9, <1>t DEF Monitor
    <3> QED
        BY <3>1 DEF EndStatus, ErrorStatus, Statuses, Terminal
  <2>2. snapshot' \in Seq(Snap) /\ Len(snapshot') = Len(snapshot)
      BY <1>9, <1>t, <2>1, <1>o, Bumps DEF Monitor
  <2> QED
      BY <1>9, <1>t, <2>2, SameMade DEF Monitor
<1>15. ASSUME NEW n \in Made, MonitorGivesUp(n) PROVE TypeInv'
  <2>1. ErrorStatus(n) \in Statuses
      BY DEF ErrorStatus, Statuses, Terminal
  <2>2. snapshot' \in Seq(Snap) /\ Len(snapshot') = Len(snapshot)
      BY <1>15, <1>t, <2>1, <1>o, Bumps DEF MonitorGivesUp
  <2> QED
      BY <1>15, <1>t, <2>2, SameMade DEF MonitorGivesUp
<1>10. ASSUME NEW n \in Made, ChildStarts(n) \/ ChildRefused(n) \/ ChildCloses(n) PROVE TypeInv'
  <2>1. \E at \in {"running", "refused", "closed"} :
            child' = [child EXCEPT ![n].at = at] /\ (at = "closed" => child[n].at = "ending")
      BY <1>10 DEF ChildStarts, ChildRefused, ChildCloses
  <2>2. /\ child' \in [Made -> Child]
        /\ \A m \in Made : child'[m].at \in {"ending", "closed"} => child'[m].result \in {"ok", "error"}
    <3>1. PICK at \in {"running", "refused", "closed"} :
              child' = [child EXCEPT ![n].at = at] /\ (at = "closed" => child[n].at = "ending")
        BY <2>1
    <3> DEFINE q == [child[n] EXCEPT !.at = at]
    <3>2. q \in Child /\ q.at = at /\ q.result = child[n].result
      <4>1. child[n] \in Child
          BY <1>t
      <4> QED
          BY <3>1, <4>1, ChildMoves
    <3>3. child' = [child EXCEPT ![n] = q]
        BY <3>1
    <3> HIDE DEF q
    <3> QED
        BY <1>t, <3>1, <3>2, <3>3
  <2> QED
      BY <1>10, <1>t, <2>2, SameMade DEF ChildStarts, ChildRefused, ChildCloses, manager
<1>11. ASSUME NEW n \in Made, Report(n) PROVE TypeInv'
  <2>1. child[n].reports \in Nat /\ child[n].reports + 1 \in 0..MaxReports
      BY <1>11, <1>t DEF Report, Child, SubagentsAssumption
  <2>2. /\ child' \in [Made -> Child]
        /\ \A m \in Made : child'[m].at = child[m].at /\ child'[m].result = child[m].result
      BY <1>11, <1>t, <2>1 DEF Report, Child
  <2>3. flight' \in [Made -> Channel]
    <3>1. Running \in Statuses
        BY DEF Statuses, Running
    <3> QED
        BY <1>11, <1>o, <2>1, <3>1, Sent DEF Report
  <2> QED
      BY <1>11, <1>t, <2>2, <2>3, SameMade DEF Report, manager
<1>12. ASSUME NEW n \in Made, NEW result \in {"ok", "error"}, Conclude(n, result) PROVE TypeInv'
  <2>1. child[n].reports + 1 \in Nat /\ child[n].cancel \in BOOLEAN
      BY <1>12, <1>t DEF Child
  <2> DEFINE canceled == child[n].cancel /\ result = "error"
  <2>2. /\ child' \in [Made -> Child]
        /\ \A m \in Made : child'[m].at \in {"ending", "closed"} => child'[m].result \in {"ok", "error"}
    <3>1. canceled \in BOOLEAN
        OBVIOUS
    <3>2. child' = [child EXCEPT ![n].at = "ending", ![n].result = result, ![n].canceled = canceled]
        BY <1>12 DEF Conclude
    <3> HIDE DEF canceled
    <3> QED
      <4> DEFINE q == [child[n] EXCEPT !.at = "ending", !.result = result, !.canceled = canceled]
      <4>1. q \in Child /\ q.at = "ending" /\ q.result = result
        <5>1. PICK r \in Child : r = child[n]
            BY <1>t
        <5>2. PICK b \in BOOLEAN : b = canceled
            BY <3>1
        <5>3. q = [r EXCEPT !.at = "ending", !.result = result, !.canceled = b]
            BY <5>1, <5>2
        <5> HIDE DEF q, canceled
        <5>4. q \in Child
            BY <5>3, ChildConcludes
        <5>5. q.at = "ending" /\ q.result = result
            BY <5>3 DEF Child
        <5> QED
            BY <5>4, <5>5
      <4>2. child' = [child EXCEPT ![n] = q]
          BY <3>2
      <4> HIDE DEF q
      <4> QED
          BY <1>t, <4>1, <4>2
  <2>3. flight' \in [Made -> Channel]
    <3>1. "completed" \in Statuses /\ "failed" \in Statuses
        BY DEF Statuses, Terminal
    <3> QED
        BY <1>12, <1>t, <1>o, <2>1, <3>1, Sent DEF Conclude
  <2> QED
      BY <1>12, <1>t, <2>2, <2>3, SameMade DEF Conclude, manager
<1>13. ASSUME NEW n \in Made, Deliver(n) PROVE TypeInv'
  <2>1. Head(flight[n]) \in Signal /\ Tail(flight[n]) = <<>>
      BY <1>13, <1>t, OneSignal DEF Deliver, Channel
  <2>2. queue' \in Seq(Signal)
      BY <1>13, <1>t, <2>1, AppendProperties DEF Deliver
  <2>3. flight' \in [Made -> Channel]
      BY <1>13, <1>t, <2>1 DEF Deliver, Channel
  <2> QED
      BY <1>13, <1>t, <2>2, <2>3, SameMade DEF Deliver, manager
<1>14. CASE UNCHANGED vars
    BY <1>14, <1>t, SameMade DEF vars, manager
<1> QED
    BY <1>1, <1>2, <1>3, <1>4, <1>5, <1>6, <1>7, <1>8, <1>9, <1>10, <1>11, <1>12, <1>13, <1>14, <1>15
       DEF Next, Asks, Resumes, ChildStep

\* Every variable of the manager and its children keeps its type.
THEOREM SubagentsTypeCorrect == Spec => []TypeOK
<1>1. Spec => []TypeInv
    BY TypeInit, TypeStep, PTL DEF Spec
<1> QED
    BY <1>1, PTL DEF TypeInv

-----------------------------------------------------------------------------
(* Who writes a snapshot.                                                  *)

\* A snapshot changes only by its spawner's resumption, a cancellation, a signal
\* or its monitor, and each of them raises its sequence.
LEMMA WrittenBy ==
    ASSUME TypeInv, [Next]_vars, NEW n \in Made, snapshot'[n] # snapshot[n]
    PROVE  /\ snapshot'[n].seq > snapshot[n].seq
           /\ \/ \E c \in Calls : SpawnStarted(c) /\ n = call[c].runtime
              \/ \E c \in Calls, id \in Ids : CancelSubagent(c, id) /\ snapshot[n].status \notin Terminal
              \/ Listen /\ n = runtimes[Head(queue).id]
              \/ Monitor(n) /\ snapshot'[n].status = EndStatus(n)
              \/ MonitorGivesUp(n)
<1> DEFINE Goal == /\ snapshot'[n].seq > snapshot[n].seq
                   /\ \/ \E c \in Calls : SpawnStarted(c) /\ n = call[c].runtime
                      \/ \E c \in Calls, id \in Ids : CancelSubagent(c, id) /\ snapshot[n].status \notin Terminal
                      \/ Listen /\ n = runtimes[Head(queue).id]
                      \/ Monitor(n) /\ snapshot'[n].status = EndStatus(n)
                      \/ MonitorGivesUp(n)
<1>t. Types /\ TypeOK
    BY TypesOf DEF TypeInv
<1>s. snapshot[n].seq \in Nat /\ snapshot[n].seq + 1 > snapshot[n].seq
    BY <1>t, Snapshots DEF Snap
<1>1. ASSUME NEW c \in Calls, NEW id \in Ids, Spawn(c, id) PROVE Goal
  <2>1. snapshot'[n] = snapshot[n]
    <3>1. [status |-> "starting", seq |-> 1] \in Snap
        BY DEF Snap, Statuses
    <3>2. snapshot \in Seq(Snap) /\ n \in 1..Len(snapshot)
        BY <1>t DEF Types, Made
    <3>3. Append(snapshot, [status |-> "starting", seq |-> 1])[n] = snapshot[n]
        BY <3>1, <3>2, AppendProperties
    <3> QED
        BY <1>1, <3>3 DEF Spawn
  <2> QED
      BY <2>1
<1>2. ASSUME NEW c \in Calls, SpawnStarted(c) PROVE Goal
  <2>1. call[c].runtime \in Made /\ snapshot' = Bumped(call[c].runtime, Running) /\ Running \in Statuses
      BY <1>2, <1>t DEF SpawnStarted, Types, Statuses, Running
  <2>2. n = call[c].runtime
      BY <1>t, <2>1, Bumps
  <2>3. snapshot'[n] = [status |-> Running, seq |-> snapshot[n].seq + 1]
      BY <1>t, <2>1, <2>2, Bumps
  <2> QED
      BY <1>2, <1>s, <2>2, <2>3
<1>3. ASSUME NEW c \in Calls, NEW id \in Ids, CancelSubagent(c, id) PROVE Goal
  <2> DEFINE m == runtimes[id]
  <2>1. m \in Made /\ snapshot[m].status \notin Terminal /\ snapshot' = Bumped(m, "cancelling")
    <3>1. m = 0 \/ m \in Made
        BY <1>t, Snapshots DEF Types, Made
    <3> QED
        BY <1>3, <3>1 DEF CancelSubagent
  <2>2. "cancelling" \in Statuses
      BY DEF Statuses
  <2> HIDE DEF m
  <2>3. n = m
      BY <1>t, <2>1, <2>2, Bumps
  <2>4. snapshot'[n] = [status |-> "cancelling", seq |-> snapshot[n].seq + 1]
      BY <1>t, <2>1, <2>2, <2>3, Bumps
  <2> QED
      BY <1>3, <1>s, <2>1, <2>3, <2>4
<1>4. ASSUME Listen PROVE Goal
  <2> DEFINE signal == Head(queue)
             m == runtimes[signal.id]
  <2>1. signal \in Signal
      BY <1>4, <1>t, HeadTailProperties DEF Listen, Types
  <2>2. m # 0 /\ m \in Made /\ snapshot' = Heard(signal, m)
    <3>1. m = 0 \/ m \in Made
        BY <1>t, <2>1, Snapshots DEF Types, Made, Signal
    <3> QED
        BY <1>4, <3>1 DEF Listen, Heard, Made
  <2> HIDE DEF m, signal
  <2>3. n = m
      BY <1>t, <2>1, <2>2, Hears
  <2>4. snapshot'[n].seq > snapshot[n].seq
      BY <1>t, <2>1, <2>2, <2>3, Hears
  <2> QED
      BY <1>4, <2>3, <2>4 DEF m, signal
<1>5. ASSUME NEW m \in Made, Monitor(m) PROVE Goal
  <2>1. EndStatus(m) \in Statuses
    <3>1. child[m].result \in {"ok", "error"}
        BY <1>5, <1>t DEF Monitor, Types
    <3> QED
        BY <3>1 DEF EndStatus, ErrorStatus, Statuses, Terminal
  <2>2. snapshot' = Bumped(m, EndStatus(m))
      BY <1>5 DEF Monitor
  <2>3. n = m
      BY <1>t, <2>1, <2>2, Bumps
  <2>4. snapshot'[n] = [status |-> EndStatus(n), seq |-> snapshot[n].seq + 1]
      BY <1>t, <2>1, <2>2, <2>3, Bumps
  <2> QED
      BY <1>5, <1>s, <2>3, <2>4
<1>7. ASSUME NEW m \in Made, MonitorGivesUp(m) PROVE Goal
  <2>1. ErrorStatus(m) \in Statuses
      BY DEF ErrorStatus, Statuses, Terminal
  <2>2. snapshot' = Bumped(m, ErrorStatus(m))
      BY <1>7 DEF MonitorGivesUp
  <2>3. n = m
      BY <1>t, <2>1, <2>2, Bumps
  <2>4. snapshot'[n] = [status |-> ErrorStatus(n), seq |-> snapshot[n].seq + 1]
      BY <1>t, <2>1, <2>2, <2>3, Bumps
  <2> QED
      BY <1>7, <1>s, <2>3, <2>4
<1>6. CASE UNCHANGED snapshot
    BY <1>6
<1> QED
    BY <1>1, <1>2, <1>3, <1>4, <1>5, <1>6, <1>7
       DEF Next, Asks, Resumes, ChildStep, SpawnAgain, SpawnFailed, WaitBegins, WaitEnds, WaitTimesOut,
           ChildStarts, ChildRefused, Report, Conclude, ChildCloses, Deliver, manager, vars

\* SnapshotsAdvance for any children, calls and bounds: no writer ever lowers or
\* repeats a sequence.
THEOREM SequencesAdvance == Spec => SnapshotsAdvance
<1>1. TypeInv /\ [Next]_vars =>
        [\A n \in Made : snapshot'[n] # snapshot[n] => snapshot'[n].seq > snapshot[n].seq]_vars
    BY WrittenBy
<1>2. Spec => []TypeInv
    BY TypeInit, TypeStep, PTL DEF Spec
<1> QED
    BY <1>1, <1>2, PTL DEF Spec, SnapshotsAdvance

-----------------------------------------------------------------------------
(* The report of a child's end.                                            *)

\* An id is mapped to a runtime made for it.
Owned == \A id \in Ids : runtimes[id] # 0 => owner[runtimes[id]] = id

\* A child that was not refused is the one its id is mapped to.
StartedKnown == \A n \in Made : child[n].at # "refused" => runtimes[owner[n]] = n

\* A runtime has one spawner, which alone starts its monitor or forgets it.
Spawners ==
    \A c \in Calls : call[c].at = "spawning" =>
        /\ monitor[call[c].runtime] = "none"
        /\ runtimes[owner[call[c].runtime]] = call[c].runtime
        /\ \A d \in Calls : call[d].at = "spawning" /\ call[d].runtime = call[c].runtime => d = c

\* A signal under way is the child's own, and the child has not closed.
OwnSignals ==
    \A n \in Made : flight[n] # <<>> =>
        child[n].at \in {"running", "ending"} /\ flight[n][1].id = owner[n]

Monitored == \A n \in Made : monitor[n] # "none" => child[n].at \in {"running", "ending", "closed"}

\* After the report nothing of the child is left to arrive.
Reported ==
    \A n \in Made : monitor[n] = "done" =>
        /\ child[n].at = "closed"
        /\ snapshot[n].status \in Terminal
        /\ snapshot[n].status = "completed" <=> child[n].result = "ok"
        /\ \A k \in 1..Len(queue) : queue[k].id # owner[n]

ReportInv == TypeInv /\ Owned /\ StartedKnown /\ Spawners /\ OwnSignals /\ Monitored /\ Reported

LEMMA ReportInit == Init => ReportInv
<1> SUFFICES ASSUME Init PROVE ReportInv
    OBVIOUS
<1>1. Made = {}
    BY EmptySeq DEF Init, Made
<1> QED
    BY <1>1, TypeInit DEF Init, NoCall, ReportInv, Owned, StartedKnown, Spawners, OwnSignals, Monitored, Reported

\* The snapshot of a reported child stays as it is.
LEMMA ReportedStays ==
    ASSUME ReportInv, [Next]_vars, NEW n \in Made, monitor[n] = "done"
    PROVE  snapshot'[n] = snapshot[n]
<1> SUFFICES ASSUME snapshot'[n] # snapshot[n] PROVE FALSE
    OBVIOUS
<1>t. TypeInv /\ Types
    BY TypesOf DEF ReportInv
<1>1. ASSUME NEW c \in Calls, SpawnStarted(c), n = call[c].runtime PROVE FALSE
    BY <1>1 DEF SpawnStarted, ReportInv, Spawners
<1>2. snapshot[n].status \in Terminal
    BY DEF ReportInv, Reported
<1>3. ASSUME Listen, n = runtimes[Head(queue).id] PROVE FALSE
  <2>1. queue \in Seq(Signal) /\ queue # <<>>
      BY <1>t, <1>3 DEF Listen, Types
  <2>2. Head(queue) \in Signal /\ Head(queue) = queue[1] /\ 1 \in 1..Len(queue)
      BY <2>1, EmptySeq, HeadTailProperties
  <2>3. queue[1].id # owner[n]
      BY <2>2 DEF ReportInv, Reported
  <2>4. n # 0 /\ Head(queue).id \in Ids
      BY <1>t, <2>2, Snapshots DEF Signal, TypeInv
  <2>5. owner[n] = Head(queue).id
      BY <1>3, <2>4 DEF ReportInv, Owned
  <2> QED
      BY <2>2, <2>3, <2>5
<1>4. ~Monitor(n) /\ ~MonitorGivesUp(n)
    BY DEF Monitor, MonitorGivesUp
<1> QED
    BY <1>t, <1>1, <1>2, <1>3, <1>4, WrittenBy

\* A step of child n, or a cancellation that reaches it.
LEMMA ChildChanges ==
    ASSUME ReportInv, [Next]_vars, TypeInv', NEW n \in Made,
           Len(snapshot') = Len(snapshot),
           UNCHANGED <<runtimes, owner, monitor, queue>>,
           \A d \in Calls : call'[d].at = "spawning" => call'[d] = call[d],
           \A m \in Made : m # n => child'[m] = child[m] /\ flight'[m] = flight[m],
           child'[n].at # "refused" => child[n].at # "refused",
           monitor[n] # "none" => child'[n].at \in {"running", "ending", "closed"},
           child[n].at = "closed" => child'[n].at = "closed" /\ child'[n].result = child[n].result,
           flight'[n] # <<>> => child'[n].at \in {"running", "ending"} /\ flight'[n][1].id = owner[n]
    PROVE  ReportInv'
<1>m. Made' = Made
    BY DEF Made
<1>1. Owned' /\ StartedKnown'
    BY <1>m DEF ReportInv, Owned, StartedKnown
<1>2. Spawners'
    BY DEF ReportInv, Spawners
<1>3. OwnSignals' /\ Monitored'
    BY <1>m DEF ReportInv, OwnSignals, Monitored
<1>4. Reported'
    BY <1>m, ReportedStays DEF ReportInv, Reported
<1> QED
    BY <1>1, <1>2, <1>3, <1>4 DEF ReportInv

\* A step that only moves calls on.
LEMMA CallsChange ==
    ASSUME ReportInv, TypeInv', UNCHANGED <<manager, child, flight, queue>>,
           \A d \in Calls : call'[d].at = "spawning" => call'[d] = call[d]
    PROVE  ReportInv'
<1>m. Made' = Made
    BY DEF manager, Made
<1>1. Owned' /\ StartedKnown' /\ OwnSignals' /\ Monitored' /\ Reported'
    BY <1>m DEF manager, ReportInv, Owned, StartedKnown, OwnSignals, Monitored, Reported
<1>2. Spawners'
    BY DEF manager, ReportInv, Spawners
<1> QED
    BY <1>1, <1>2 DEF ReportInv

LEMMA ReportStep == ReportInv /\ [Next]_vars => ReportInv'
<1> SUFFICES ASSUME ReportInv, [Next]_vars PROVE ReportInv'
    OBVIOUS
<1>t. TypeInv /\ TypeOK /\ Types /\ TypeInv'
    BY TypesOf, TypeStep DEF ReportInv, TypeInv
<1>i. Owned /\ StartedKnown /\ Spawners /\ OwnSignals /\ Monitored /\ Reported
    BY DEF ReportInv
<1>s. Len(snapshot) \in Nat /\ \A n \in Made : n \in Nat /\ n # 0 /\ n # Len(snapshot) + 1
    BY <1>t, Snapshots DEF Made
<1>1. ASSUME NEW c \in Calls, NEW id \in Ids, Spawn(c, id) PROVE ReportInv'
  <2> DEFINE new == Len(snapshot) + 1
  <2>1. Made' = Made \cup {new} /\ new # 0 /\ new \notin Made
    <3>1. snapshot \in Seq(Snap) /\ [status |-> "starting", seq |-> 1] \in Snap
        BY <1>t DEF Types, Snap, Statuses
    <3>2. Len(snapshot') = new
        BY <1>1, <3>1, AppendProperties DEF Spawn
    <3> QED
        BY <1>s, <3>2 DEF Made
  <2>2. /\ owner'[new] = id
        /\ \A m \in Made : owner'[m] = owner[m]
      BY <1>1, <1>t, <1>s, Appended DEF Spawn, Made, Types
  <2>3. /\ monitor'[new] = "none"
        /\ \A m \in Made : monitor'[m] = monitor[m]
      BY <1>1, <1>t, <1>s, Appended DEF Spawn, Made, Types
  <2>4. /\ child'[new].at = "requested"
        /\ \A m \in Made : child'[m] = child[m]
    <3>1. NewChild \in Child /\ NewChild.at = "requested"
        BY DEF NewChild, Child
    <3>2. child' = Append(child, NewChild) /\ child \in [1..Len(snapshot) -> Child]
        BY <1>1, <1>t DEF Spawn, Made, Types
    <3>3. Append(child, NewChild)[Len(snapshot) + 1] = NewChild
        BY <1>s, <3>1, <3>2, Appended
    <3>4. \A m \in 1..Len(snapshot) : Append(child, NewChild)[m] = child[m]
        BY <1>s, <3>1, <3>2, Appended
    <3> QED
        BY <3>1, <3>2, <3>3, <3>4 DEF Made
  <2>5. /\ flight'[new] = <<>>
        /\ \A m \in Made : flight'[m] = flight[m]
      BY <1>1, <1>t, <1>s, Appended DEF Spawn, Made, Types, Channel
  <2>6. /\ runtimes[id] = 0
        /\ runtimes'[id] = new
        /\ \A i \in Ids : i # id => runtimes'[i] = runtimes[i]
        /\ \A i \in Ids : runtimes[i] = 0 \/ runtimes[i] \in Made
      BY <1>1, <1>t, <1>s DEF Spawn, Known, Types, Made
  <2>7. /\ call'[c] = [at |-> "spawning", runtime |-> new, since |-> 0]
        /\ \A d \in Calls : d # c => call'[d] = call[d]
        /\ \A d \in Calls : call[d].at = "spawning" => call[d].runtime \in Made
      BY <1>1, <1>t DEF Spawn, Types
  <2>8. \A m \in Made : owner[m] \in Ids
      BY <1>t DEF Types
  <2> HIDE DEF new
  <2>9. Owned'
      BY <1>i, <2>2, <2>6 DEF Owned
  <2>10. \A m \in Made : runtimes[owner[m]] = m => runtimes'[owner'[m]] = m
      BY <1>s, <2>2, <2>6, <2>8
  <2>11. StartedKnown'
      BY <1>i, <2>1, <2>2, <2>4, <2>6, <2>10 DEF StartedKnown
  <2>12. Spawners'
      BY <1>i, <2>1, <2>2, <2>3, <2>6, <2>7, <2>10 DEF Spawners
  <2>13. OwnSignals' /\ Monitored'
      BY <1>i, <2>1, <2>2, <2>3, <2>4, <2>5 DEF OwnSignals, Monitored
  <2>14. Reported'
    <3>1. queue' = queue
        BY <1>1 DEF Spawn
    <3> QED
        BY <1>i, <2>1, <2>2, <2>3, <2>4, <3>1, ReportedStays DEF Reported
  <2> QED
      BY <1>t, <2>9, <2>11, <2>12, <2>13, <2>14 DEF ReportInv
<1>2. ASSUME NEW c \in Calls, SpawnStarted(c) PROVE ReportInv'
  <2> DEFINE n == call[c].runtime
  <2>1. /\ n \in Made
        /\ Len(snapshot') = Len(snapshot)
        /\ Made' = Made
    <3>1. n \in Made /\ Running \in Statuses
        BY <1>2, <1>t DEF SpawnStarted, Types, Statuses, Running
    <3> QED
        BY <1>2, <1>t, <3>1, Bumps DEF SpawnStarted, Made
  <2>2. /\ monitor'[n] = "waiting"
        /\ \A m \in Made : m # n => monitor'[m] = monitor[m]
      BY <1>2, <1>t, <2>1 DEF SpawnStarted, Types
  <2>3. /\ UNCHANGED <<runtimes, owner, child, flight, queue>>
        /\ child[n].at \in {"running", "ending", "closed"}
        /\ call[c].at = "spawning"
      BY <1>2 DEF SpawnStarted
  <2>4. \A d \in Calls : call'[d].at = "spawning" => d # c /\ call'[d] = call[d] /\ call[d].runtime \in Made
      BY <1>2, <1>t DEF SpawnStarted, Returns, Types, Call
  <2>5. Owned' /\ StartedKnown' /\ OwnSignals'
      BY <1>i, <2>1, <2>3 DEF Owned, StartedKnown, OwnSignals
  <2>6. Spawners'
      BY <1>i, <2>2, <2>3, <2>4 DEF Spawners
  <2>7. Monitored'
      BY <1>i, <2>1, <2>2, <2>3 DEF Monitored
  <2>8. Reported'
      BY <1>i, <2>1, <2>2, <2>3, ReportedStays DEF Reported
  <2> QED
      BY <1>t, <2>5, <2>6, <2>7, <2>8 DEF ReportInv
<1>3. ASSUME NEW c \in Calls, SpawnFailed(c) PROVE ReportInv'
  <2> DEFINE n == call[c].runtime
  <2>1. n \in Made /\ child[n].at = "refused" /\ call[c].at = "spawning" /\ owner[n] \in Ids
      BY <1>3, <1>t DEF SpawnFailed, Types
  <2>2. UNCHANGED <<snapshot, owner, monitor, child, flight, queue>> /\ Made' = Made
      BY <1>3 DEF SpawnFailed, Made
  <2>3. /\ runtimes'[owner[n]] = 0
        /\ \A i \in Ids : i # owner[n] => runtimes'[i] = runtimes[i]
      BY <1>3, <1>t, <2>1 DEF SpawnFailed, Types
  <2>4. \A d \in Calls : call'[d].at = "spawning" => d # c /\ call'[d] = call[d] /\ call[d].runtime \in Made
      BY <1>3, <1>t DEF SpawnFailed, Returns, Types, Call
  <2>5. runtimes[owner[n]] = n /\ \A m \in Made : owner[m] \in Ids
      BY <1>i, <1>t, <2>1 DEF Spawners, Types
  <2>6. \A m \in Made : m # n /\ runtimes[owner[m]] = m => runtimes'[owner[m]] = m
      BY <2>3, <2>5
  <2>7. Owned'
      BY <1>i, <2>2, <2>3 DEF Owned
  <2>8. StartedKnown'
      BY <1>i, <2>1, <2>2, <2>6 DEF StartedKnown
  <2>9. Spawners'
      BY <1>i, <2>1, <2>2, <2>4, <2>6 DEF Spawners
  <2>10. OwnSignals' /\ Monitored' /\ Reported'
      BY <1>i, <2>2 DEF OwnSignals, Monitored, Reported
  <2> QED
      BY <1>t, <2>7, <2>8, <2>9, <2>10 DEF ReportInv
<1>4. ASSUME NEW c \in Calls, \/ WaitEnds(c) \/ WaitTimesOut(c)
                              \/ \E id \in Ids : SpawnAgain(c, id)
                              \/ \E id \in Ids, since \in Sinces \cup {0} : WaitBegins(c, id, since)
      PROVE ReportInv'
  <2>1. UNCHANGED <<manager, child, flight, queue>>
      BY <1>4 DEF WaitEnds, WaitTimesOut, SpawnAgain, WaitBegins
  <2>2. \A d \in Calls : call'[d].at = "spawning" => call'[d] = call[d]
      BY <1>4, <1>t DEF WaitEnds, WaitTimesOut, SpawnAgain, WaitBegins, Returns, Types, Call
  <2> QED
      BY <1>t, <2>1, <2>2, CallsChange
<1>5. ASSUME NEW c \in Calls, NEW id \in Ids, CancelSubagent(c, id) PROVE ReportInv'
  <2>1. \A d \in Calls : call'[d].at = "spawning" => call'[d] = call[d]
      BY <1>5, <1>t DEF CancelSubagent, Returns, Types, Call
  <2>2. CASE UNCHANGED <<snapshot, child>>
      BY <1>5, <1>t, <2>1, <2>2, CallsChange DEF CancelSubagent, manager
  <2>3. CASE ~UNCHANGED <<snapshot, child>>
    <3> DEFINE n == runtimes[id]
    <3>1. n # 0 /\ snapshot' = Bumped(n, "cancelling") /\ child' = [child EXCEPT ![n].cancel = TRUE]
        BY <1>5, <2>3 DEF CancelSubagent
    <3>2. n \in Made
        BY <1>t, <1>s, <3>1 DEF Types, Made
    <3>3. Len(snapshot') = Len(snapshot)
        BY <1>t, <3>1, <3>2, Bumps DEF Statuses
    <3>4. /\ child'[n].at = child[n].at /\ child'[n].result = child[n].result
          /\ \A m \in Made : m # n => child'[m] = child[m]
      <4>1. child[n] \in Child
          BY <1>t, <3>2 DEF Types
      <4>2. LET q == [child[n] EXCEPT !.cancel = TRUE] IN q.at = child[n].at /\ q.result = child[n].result
          BY <4>1, ChildCanceled
      <4> QED
          BY <1>t, <3>1, <3>2, <4>2 DEF Types
    <3>5. UNCHANGED <<runtimes, owner, monitor, flight, queue>>
        BY <1>5 DEF CancelSubagent
    <3> QED
        BY <1>t, <1>i, <2>1, <3>2, <3>3, <3>4, <3>5, ChildChanges DEF Monitored, OwnSignals
  <2> QED
      BY <2>2, <2>3
<1>6. ASSUME Listen PROVE ReportInv'
  <2>1. queue \in Seq(Signal) /\ queue # <<>> /\ queue' = Tail(queue)
      BY <1>6, <1>t DEF Listen, Types
  <2>2. Len(queue') = Len(queue) - 1 /\ \A k \in 1..Len(queue') : queue'[k] = queue[k + 1]
      BY <2>1, HeadTailProperties
  <2>3. \A k \in 1..Len(queue') : k + 1 \in 1..Len(queue)
      BY <2>1, <2>2, LenProperties
  <2>4. Len(snapshot') = Len(snapshot) /\ Made' = Made
    <3>1. Head(queue) \in Signal
        BY <2>1, HeadTailProperties
    <3>2. runtimes[Head(queue).id] = 0 \/ runtimes[Head(queue).id] \in Made
        BY <1>t, <1>s, <3>1 DEF Types, Made, Signal
    <3>3. CASE runtimes[Head(queue).id] = 0
        BY <1>6, <3>3 DEF Listen, Made
    <3>4. CASE runtimes[Head(queue).id] # 0
      <4>1. snapshot' = Heard(Head(queue), runtimes[Head(queue).id])
          BY <1>6, <3>4 DEF Listen, Heard
      <4>2. Len(snapshot') = Len(snapshot)
          BY <1>t, <3>1, <3>2, <3>4, <4>1, Hears
      <4> QED
          BY <4>2 DEF Made
    <3> QED
        BY <3>3, <3>4
  <2>5. UNCHANGED <<runtimes, owner, monitor, child, flight, call>>
      BY <1>6 DEF Listen
  <2>6. Owned' /\ StartedKnown' /\ Spawners' /\ OwnSignals' /\ Monitored'
      BY <1>i, <2>4, <2>5 DEF Owned, StartedKnown, Spawners, OwnSignals, Monitored
  <2>7. Reported'
      BY <1>i, <2>2, <2>3, <2>4, <2>5, ReportedStays DEF Reported
  <2> QED
      BY <1>t, <2>6, <2>7 DEF ReportInv
<1>7. ASSUME NEW n \in Made, Monitor(n) PROVE ReportInv'
  <2>1. /\ monitor[n] = "waiting" /\ child[n].at = "closed" /\ queue = <<>>
        /\ UNCHANGED <<runtimes, owner, child, flight, queue, call>>
      BY <1>7 DEF Monitor
  <2>2. child[n].result \in {"ok", "error"}
      BY <1>t, <2>1 DEF Types
  <2>3. EndStatus(n) \in Terminal /\ (EndStatus(n) = "completed" <=> child[n].result = "ok")
      BY <2>2 DEF EndStatus, ErrorStatus, Terminal
  <2>4. snapshot'[n].status = EndStatus(n) /\ Len(snapshot') = Len(snapshot) /\ Made' = Made
    <3>1. EndStatus(n) \in Statuses
        BY <2>3 DEF Statuses
    <3>2. snapshot' = Bumped(n, EndStatus(n))
        BY <1>7 DEF Monitor
    <3>3. snapshot'[n] = [status |-> EndStatus(n), seq |-> snapshot[n].seq + 1]
        BY <1>t, <3>1, <3>2, Bumps
    <3>4. Len(snapshot') = Len(snapshot)
        BY <1>t, <3>1, <3>2, Bumps
    <3> QED
        BY <3>3, <3>4 DEF Made
  <2>5. monitor'[n] = "done" /\ \A m \in Made : m # n => monitor'[m] = monitor[m]
      BY <1>7, <1>t DEF Monitor, Types
  <2>6. Owned' /\ StartedKnown' /\ OwnSignals'
      BY <1>i, <2>1, <2>4 DEF Owned, StartedKnown, OwnSignals
  <2>7. Spawners'
    <3>1. \A d \in Calls : call[d].at = "spawning" => call[d].runtime \in Made
        BY <1>t DEF Types
    <3> QED
        BY <1>i, <2>1, <2>5, <3>1 DEF Spawners
  <2>8. Monitored'
      BY <1>i, <2>1, <2>4, <2>5 DEF Monitored
  <2>9. Reported'
    <3>1. Len(queue') = 0
        BY <2>1, EmptySeq
    <3> QED
        BY <1>i, <2>1, <2>3, <2>4, <2>5, <3>1, ReportedStays DEF Reported
  <2> QED
      BY <1>t, <2>6, <2>7, <2>8, <2>9 DEF ReportInv
<1>12. ASSUME NEW n \in Made, MonitorGivesUp(n) PROVE ReportInv'
  <2>1. /\ monitor[n] = "waiting" /\ child[n].at \in {"running", "ending"}
        /\ UNCHANGED <<runtimes, owner, child, flight, queue, call>>
      BY <1>12 DEF MonitorGivesUp
  <2>2. Len(snapshot') = Len(snapshot) /\ Made' = Made
    <3>1. ErrorStatus(n) \in Statuses
        BY DEF ErrorStatus, Statuses, Terminal
    <3>2. snapshot' = Bumped(n, ErrorStatus(n))
        BY <1>12 DEF MonitorGivesUp
    <3>3. Len(snapshot') = Len(snapshot)
        BY <1>t, <3>1, <3>2, Bumps
    <3> QED
        BY <3>3 DEF Made
  <2>3. monitor'[n] = "gaveUp" /\ \A m \in Made : m # n => monitor'[m] = monitor[m]
      BY <1>12, <1>t DEF MonitorGivesUp, Types
  <2>4. Owned' /\ StartedKnown' /\ OwnSignals'
      BY <1>i, <2>1, <2>2 DEF Owned, StartedKnown, OwnSignals
  <2>5. Spawners'
    <3>1. \A d \in Calls : call[d].at = "spawning" => call[d].runtime \in Made
        BY <1>t DEF Types
    <3> QED
        BY <1>i, <2>1, <2>3, <3>1 DEF Spawners
  <2>6. Monitored'
      BY <1>i, <2>1, <2>2, <2>3 DEF Monitored
  <2>7. \A m \in Made : monitor'[m] = "done" => monitor[m] = "done" /\ snapshot'[m] = snapshot[m]
      BY <2>3, ReportedStays
  <2>8. Reported'
      BY <1>i, <2>1, <2>2, <2>7 DEF Reported
  <2> QED
      BY <1>t, <2>4, <2>5, <2>6, <2>8 DEF ReportInv
<1>8. ASSUME NEW n \in Made, ChildStarts(n) \/ ChildRefused(n) \/ ChildCloses(n) PROVE ReportInv'
  <2>1. PICK at \in {"running", "refused", "closed"} :
            /\ child' = [child EXCEPT ![n].at = at]
            /\ child[n].at = IF at = "closed" THEN "ending" ELSE "requested"
            /\ at = "closed" => flight[n] = <<>>
      BY <1>8 DEF ChildStarts, ChildRefused, ChildCloses, Delivered
  <2>2. child'[n].at = at /\ \A m \in Made : m # n => child'[m] = child[m]
    <3>1. child[n] \in Child
        BY <1>t DEF Types
    <3>2. [child[n] EXCEPT !.at = at].at = at
        BY <3>1 DEF Child
    <3> QED
        BY <1>t, <2>1, <3>2 DEF Types
  <2>3. UNCHANGED <<runtimes, snapshot, owner, monitor, flight, queue, call>>
      BY <1>8 DEF ChildStarts, ChildRefused, ChildCloses, manager
  <2> QED
      BY <1>t, <1>i, <2>1, <2>2, <2>3, ChildChanges DEF Monitored, OwnSignals
<1>9. ASSUME NEW n \in Made, Report(n) \/ \E result \in {"ok", "error"} : Conclude(n, result)
      PROVE ReportInv'
  <2>1. child[n].at = "running" /\ UNCHANGED <<runtimes, snapshot, owner, monitor, queue, call>>
      BY <1>9 DEF Report, Conclude, manager
  <2>2. child'[n].at \in {"running", "ending"} /\ \A m \in Made : m # n => child'[m] = child[m]
    <3>1. child[n] \in Child
        BY <1>t DEF Types
    <3>2. CASE Report(n)
        BY <1>t, <2>1, <3>1, <3>2 DEF Report, Types, Child
    <3>3. ASSUME NEW result \in {"ok", "error"}, Conclude(n, result)
          PROVE child'[n].at = "ending" /\ \A m \in Made : m # n => child'[m] = child[m]
        BY <1>t, <3>1, <3>3 DEF Conclude, Types, Child
    <3> QED
        BY <1>9, <3>2, <3>3
  <2>3. (flight'[n] # <<>> => flight'[n][1].id = owner[n]) /\ \A m \in Made : m # n => flight'[m] = flight[m]
    <3>1. child[n].reports + 1 \in Nat /\ {Running, "completed", "failed"} \subseteq Statuses
        BY <1>t DEF Types, Child, Running, Statuses, Terminal
    <3>2. CASE UNCHANGED flight
        BY <1>9, <3>2 DEF Report, Conclude, Delivered
    <3>3. CASE \E status \in Statuses, seq \in Nat : Delivered(n) /\ Sends(n, status, seq)
        BY <1>t, <3>3, Sent
    <3> QED
        BY <1>9, <3>1, <3>2, <3>3 DEF Report, Conclude
  <2> QED
      BY <1>t, <2>1, <2>2, <2>3, ChildChanges
<1>10. ASSUME NEW n \in Made, Deliver(n) PROVE ReportInv'
  <2>1. /\ flight[n] # <<>>
        /\ UNCHANGED <<runtimes, snapshot, owner, monitor, child, call>>
        /\ Made' = Made
      BY <1>10 DEF Deliver, manager, Made
  <2>2. Head(flight[n]) \in Signal /\ Head(flight[n]).id = owner[n] /\ Tail(flight[n]) = <<>>
    <3>1. flight[n] \in [{1} -> Signal]
        BY <1>t, <2>1 DEF Types, Channel
    <3>2. Head(flight[n]) = flight[n][1] /\ flight[n][1] \in Signal /\ Tail(flight[n]) = <<>>
        BY <3>1, OneSignal
    <3> QED
        BY <1>i, <2>1, <3>2 DEF OwnSignals
  <2>3. flight'[n] = <<>> /\ \A m \in Made : m # n => flight'[m] = flight[m]
      BY <1>10, <1>t, <2>2 DEF Deliver, Types
  <2>4. \A k \in 1..Len(queue') : queue'[k] = Head(flight[n]) \/ (k \in 1..Len(queue) /\ queue'[k] = queue[k])
    <3>1. queue \in Seq(Signal) /\ queue' = Append(queue, Head(flight[n]))
        BY <1>10, <1>t DEF Deliver, Types
    <3>2. /\ Len(queue') = Len(queue) + 1 /\ Len(queue) \in Nat
          /\ queue'[Len(queue) + 1] = Head(flight[n])
          /\ \A k \in 1..Len(queue) : queue'[k] = queue[k]
        BY <2>2, <3>1, AppendProperties, LenProperties
    <3> QED
        BY <3>2
  <2>5. \A m \in Made : child[m].at = "closed" => owner[m] # owner[n]
      BY <1>i, <2>1 DEF OwnSignals, StartedKnown
  <2>6. Owned' /\ StartedKnown' /\ Spawners' /\ Monitored'
      BY <1>i, <2>1 DEF Owned, StartedKnown, Spawners, Monitored
  <2>7. OwnSignals'
      BY <1>i, <2>1, <2>3 DEF OwnSignals
  <2>8. Reported'
      BY <1>i, <2>1, <2>2, <2>4, <2>5 DEF Reported
  <2> QED
      BY <1>t, <2>6, <2>7, <2>8 DEF ReportInv
<1>11. CASE UNCHANGED vars
    BY <1>11, <1>t, CallsChange DEF vars
<1> QED
    BY <1>1, <1>2, <1>3, <1>4, <1>5, <1>6, <1>7, <1>8, <1>9, <1>10, <1>11, <1>12
       DEF Next, Asks, Resumes, ChildStep

LEMMA ReportAlways == Spec => []ReportInv
BY ReportInit, ReportStep, PTL DEF Spec

\* ReportIsTrue: whatever the order of signals, cancellation and the spawner's
\* resumption, the report says completed exactly of a child that succeeded.
THEOREM ReportTrue == Spec => []ReportIsTrue
<1>1. ReportInv => ReportIsTrue
    BY DEF ReportInv, Reported, ReportIsTrue
<1> QED
    BY <1>1, ReportAlways, PTL

\* ReportIsFinal for any children, calls and bounds: when the monitor reports the
\* end of a child, no signal of it is left that could be applied after the report.
THEOREM ReportFinal == Spec => ReportIsFinal
<1>1. ReportInv /\ [Next]_vars =>
        [\A n \in Made : monitor[n] = "done" => snapshot'[n] = snapshot[n]]_vars
    BY ReportedStays
<1> QED
    BY <1>1, ReportAlways, PTL DEF Spec, ReportIsFinal

\* OneChildPerId: a child that is not over is the one its id names.
THEOREM OneChild == Spec => []OneChildPerId
<1>1. ReportInv => OneChildPerId
    BY DEF ReportInv, StartedKnown, OneChildPerId
<1> QED
    BY <1>1, ReportAlways, PTL
=============================================================================
