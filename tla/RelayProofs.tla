---------------------------- MODULE RelayProofs ----------------------------
(* Theorems about Relay, for every value of its constants.                 *)
EXTENDS Relay, FiniteSetTheorems, TLAPS

USE RelayAssumption

-----------------------------------------------------------------------------
(* The inductive invariant, of every execution and every key.              *)

Accepting == {"scheduled", "select", "begin", "chunk", "checkpoint"}
Row(x, k) == manifests[AttemptId(x, k)]

\* The step an execution is at tells what it relays, and how it ends.
Phase(x) ==
    /\ pc[x] \in {"begin", "chunk", "checkpoint"} => part[x] \in StreamPart /\ ~disabled[x]
    /\ pc[x] \in {"chunk", "checkpoint"} => attempts[x][part[x].key].begun
    /\ pc[x] = "begin" => ~attempts[x][part[x].key].begun
    /\ pc[x] \in Accepting => ending[x] = "none"
    /\ pc[x] \in {"closing", "return", "done"} => ending[x] # "none"
    /\ pc[x] = "return" => disabled[x]
    /\ pc[x] = "done" /\ ~disabled[x] => Open(x) = {}

\* The manifest of an attempt is never ahead of the relay.
Kept(x, k) ==
    LET s == attempts[x][k] IN
    /\ IsFiniteSet(s.text)
    /\ Row(x, k).status = "active" => Row(x, k).seq <= s.seq
    /\ s.begun => Row(x, k).status # "absent"
    /\ ~s.begun => /\ s = NoState
                   /\ Row(x, k).status \in {"absent", "active"}
                   /\ Row(x, k).seq = 0 /\ Row(x, k).text = {}
                   /\ \A m \in live : m.attempt # AttemptId(x, k)

\* An ended attempt has its manifest ended alike; another one has not, until
\* its execution is over or gives up.
Closed(x, k) ==
    LET s == attempts[x][k] IN
    /\ s.ended => /\ s.begun
                  /\ ending[x] # "none"
                  /\ Row(x, k) = [status |-> ending[x], seq |-> s.seq, text |-> s.text]
    /\ ~s.ended /\ Row(x, k).status \notin {"absent", "active"} =>
            pc[x] \notin Accepting \cup {"closing"}

\* While parts are accepted, manifest and chunks make up the text.
Level(x, k) ==
    LET s == attempts[x][k]
        a == AttemptId(x, k)
    IN
    /\ \A m \in live : m.attempt = a => m.seq <= s.seq
    /\ s.begun => /\ Row(x, k).seq = s.snapSeq
                  /\ s.snapLen = Cardinality(Row(x, k).text)
                  /\ Row(x, k).text \cup Later(a) = s.text
                  /\ Row(x, k).text \cap Later(a) = {}
                  /\ IsFiniteSet(After(a))
                  /\ Cardinality(After(a)) <= s.seq - s.snapSeq
    /\ \A n \in Nat : <<x, n>> \in s.text => n <= taken[x]
    /\ pc[x] \in {"begin", "chunk"} => <<x, taken[x]>> \notin s.text
    /\ ~(pc[x] = "checkpoint" /\ part[x].key = k) => ~SnapshotDue(s)

Current(x, k) == pc[x] \in Accepting /\ ~disabled[x] => Level(x, k)

\* A receipt is of an ended attempt of an execution that is over.
Receipted(x) ==
    \A r \in receipts[x] :
        /\ pc[x] = "done" /\ ending[x] = "succeeded"
        /\ \E k \in Keys : attempts[x][k].ended /\ r = Receipt(x, k)

Own(x) ==
    /\ Phase(x)
    /\ Receipted(x)
    /\ \A k \in Keys : Kept(x, k) /\ Closed(x, k) /\ Current(x, k)

IInv == TypeOK /\ \A x \in Executions : Own(x)

-----------------------------------------------------------------------------
(* Helpers.                                                                *)

LEMMA Ids ==
    /\ \A x \in Executions : x \in Nat
    /\ \A x \in Executions, k \in Keys : AttemptId(x, k) \in AttemptIds
    /\ \A x, y \in Executions, k, j \in Keys : AttemptId(x, k) = AttemptId(y, j) => x = y /\ k = j
    /\ \A x \in Executions, n \in Nat : <<x, n>> \in Deltas
<1>1. \A x \in Executions : x \in Nat
    BY DEF Executions
<1>2. \A x \in Executions, k \in Keys : AttemptId(x, k) \in AttemptIds
    BY DEF AttemptId, AttemptIds
<1>3. \A x, y \in Executions, k, j \in Keys : AttemptId(x, k) = AttemptId(y, j) => x = y /\ k = j
    BY DEF AttemptId
<1>4. \A x \in Executions, n \in Nat : <<x, n>> \in Deltas
    BY DEF Deltas
<1> QED  BY <1>1, <1>2, <1>3, <1>4

\* What Stored changes: the one row, or nothing.
LEMMA StoredOK ==
    ASSUME TypeOK, NEW a \in AttemptIds, NEW row \in Manifest
    PROVE  /\ Stored(a, row) \in [AttemptIds -> Manifest \cup {NoManifest}]
           /\ \A b \in AttemptIds \ {a} : Stored(a, row)[b] = manifests[b]
           /\ Stored(a, row)[a] \in {manifests[a], row}
           /\ \/ manifests[a].status = "absent"
              \/ manifests[a].status = "active" /\ manifests[a].seq < row.seq
              \/ manifests[a].status = row.status /\ manifests[a].seq = row.seq
              => Stored(a, row)[a] = row
BY DEF TypeOK, Stored

LEMMA AttemptsExcept ==
    ASSUME TypeOK, NEW x \in Executions, NEW k \in Keys, NEW s \in PreviewState,
           attempts' = [attempts EXCEPT ![x][k] = s]
    PROVE  /\ attempts' \in [Executions -> [Keys -> PreviewState]]
           /\ attempts'[x][k] = s
           /\ \A j \in Keys \ {k} : attempts'[x][j] = attempts[x][j]
           /\ \A y \in Executions \ {x} : attempts'[y] = attempts[y]
BY DEF TypeOK

\* A record is the value of its fields.
LEMMA StateFields ==
    ASSUME NEW s \in PreviewState
    PROVE  /\ s.begun \in BOOLEAN /\ s.ended \in BOOLEAN
           /\ s.seq \in Nat /\ s.snapSeq \in Nat /\ s.snapLen \in Nat
           /\ s.text \in SUBSET Deltas
BY DEF PreviewState

LEMMA Content1 ==
    ASSUME TypeOK, NEW x \in Executions
    PROVE  Content(x) \subseteq {<<x, taken[x]>>} /\ Content(x) \subseteq Deltas /\ IsFiniteSet(Content(x))
<1>1. Content(x) = {} \/ Content(x) = {<<x, taken[x]>>}
    BY DEF Content
<1>2. taken[x] \in Nat
    BY DEF TypeOK
<1>3. <<x, taken[x]>> \in Deltas
    BY <1>2, Ids
<1>4. IsFiniteSet(Content(x))
    <2>1. IsFiniteSet({}) /\ IsFiniteSet({<<x, taken[x]>>})
        BY FS_EmptySet, FS_Singleton, Zenon
    <2> QED  BY <1>1, <2>1, Zenon
<1>5. Content(x) \subseteq {<<x, taken[x]>>}
    BY <1>1
<1>6. Content(x) \subseteq Deltas
    BY <1>3, <1>5
<1> QED  BY <1>4, <1>5, <1>6

-----------------------------------------------------------------------------
(* What a step leaves alone.                                               *)

SameKey(x, k) ==
    /\ attempts'[x][k] = attempts[x][k]
    /\ manifests'[AttemptId(x, k)] = manifests[AttemptId(x, k)]
    /\ \A m : m.attempt = AttemptId(x, k) => (m \in live' <=> m \in live)

SameExecution(x) ==
    /\ pc'[x] = pc[x] /\ part'[x] = part[x] /\ taken'[x] = taken[x]
    /\ disabled'[x] = disabled[x] /\ ending'[x] = ending[x] /\ receipts'[x] = receipts[x]
    /\ attempts'[x] = attempts[x]
    /\ \A k \in Keys : SameKey(x, k)

LEMMA SameAfter ==
    ASSUME NEW x \in Executions, NEW k \in Keys, SameKey(x, k)
    PROVE  After(AttemptId(x, k))' = After(AttemptId(x, k)) /\ Later(AttemptId(x, k))' = Later(AttemptId(x, k))
<1>1. After(AttemptId(x, k))' = After(AttemptId(x, k))
    BY DEF After, SameKey, AttemptId
<1> QED  BY <1>1 DEF Later

LEMMA KeptSame ==
    ASSUME NEW x \in Executions, NEW k \in Keys, SameKey(x, k), Kept(x, k)
    PROVE  Kept(x, k)'
BY DEF Kept, SameKey, Row, AttemptId

LEMMA ClosedSame ==
    ASSUME NEW x \in Executions, NEW k \in Keys, SameKey(x, k), Closed(x, k),
           ending'[x] = ending[x] \/ ending[x] = "none",
           pc'[x] \in Accepting \cup {"closing"} => pc[x] \in Accepting \cup {"closing"}
    PROVE  Closed(x, k)'
BY DEF Closed, SameKey, Row, AttemptId

LEMMA OwnSame ==
    ASSUME NEW x \in Executions, SameExecution(x), Own(x)
    PROVE  Own(x)'
<1>1. Phase(x)'
    BY DEF SameExecution, Own, Phase, Open, Begun
<1>2. Receipted(x)'
    BY DEF SameExecution, Own, Receipted, Receipt
<1>3. ASSUME NEW k \in Keys PROVE Kept(x, k)' /\ Closed(x, k)' /\ Current(x, k)'
    <2>1. SameKey(x, k) /\ Kept(x, k) /\ Closed(x, k) /\ Current(x, k)
        BY <1>3 DEF SameExecution, Own
    <2>2. Kept(x, k)' /\ Closed(x, k)'
        BY <1>3, <2>1, KeptSame, ClosedSame DEF SameExecution
    <2>3. Current(x, k)'
        BY <1>3, <2>1, SameAfter DEF Current, Level, SameExecution, SameKey, Row, SnapshotDue, AttemptId
    <2> QED  BY <2>2, <2>3
<1> QED  BY <1>1, <1>2, <1>3 DEF Own

\* A step of x that writes about key k at most.
Touches(x, k) ==
    /\ \A y \in Executions \ {x} :
          /\ pc'[y] = pc[y] /\ part'[y] = part[y] /\ taken'[y] = taken[y]
          /\ disabled'[y] = disabled[y] /\ ending'[y] = ending[y] /\ receipts'[y] = receipts[y]
          /\ attempts'[y] = attempts[y]
    /\ \A j \in Keys \ {k} : attempts'[x][j] = attempts[x][j]
    /\ \A b \in AttemptIds \ {AttemptId(x, k)} : manifests'[b] = manifests[b]
    /\ \A m : m.attempt # AttemptId(x, k) => (m \in live' <=> m \in live)

LEMMA TouchesOne ==
    ASSUME NEW x \in Executions, NEW k \in Keys, Touches(x, k)
    PROVE  /\ \A y \in Executions \ {x} : SameExecution(y)
           /\ \A j \in Keys \ {k} : SameKey(x, j)
<1>1. ASSUME NEW y \in Executions, NEW j \in Keys, AttemptId(y, j) # AttemptId(x, k)
      PROVE  /\ manifests'[AttemptId(y, j)] = manifests[AttemptId(y, j)]
             /\ \A m : m.attempt = AttemptId(y, j) => (m \in live' <=> m \in live)
    <2>1. AttemptId(y, j) \in AttemptIds \ {AttemptId(x, k)}
        BY <1>1, Ids
    <2> QED  BY <1>1, <2>1 DEF Touches
<1>2. ASSUME NEW y \in Executions \ {x} PROVE SameExecution(y)
    <2>1. \A j \in Keys : AttemptId(y, j) # AttemptId(x, k)
        BY <1>2, Ids
    <2>2. attempts'[y] = attempts[y]
        BY <1>2 DEF Touches
    <2>3. \A j \in Keys : SameKey(y, j)
        BY <1>1, <1>2, <2>1, <2>2 DEF SameKey
    <2> QED  BY <1>2, <2>2, <2>3 DEF SameExecution, Touches
<1>3. ASSUME NEW j \in Keys \ {k} PROVE SameKey(x, j)
    <2>1. AttemptId(x, j) # AttemptId(x, k)
        BY <1>3, Ids
    <2>2. attempts'[x][j] = attempts[x][j]
        BY <1>3 DEF Touches
    <2> QED  BY <1>1, <1>3, <2>1, <2>2 DEF SameKey
<1> QED  BY <1>2, <1>3

\* With TouchesOne, a step has to show its types and the invariant of its own.
LEMMA Together ==
    ASSUME IInv, NEW x \in Executions, TypeOK',
           \A y \in Executions \ {x} : SameExecution(y), Own(x)'
    PROVE  IInv'
<1>1. ASSUME NEW y \in Executions PROVE Own(y)'
    <2>1. CASE y = x
        BY <2>1
    <2>2. CASE y # x
        BY <1>1, <2>2, OwnSame DEF IInv
    <2> QED  BY <2>1, <2>2
<1> QED  BY <1>1 DEF IInv

\* A step of x that leaves the attempts, the manifests and the chunks alone.
LEMMA Quiet ==
    ASSUME IInv, NEW x \in Executions, UNCHANGED <<attempts, store>>,
           \A y \in Executions \ {x} :
              /\ pc'[y] = pc[y] /\ part'[y] = part[y] /\ taken'[y] = taken[y]
              /\ disabled'[y] = disabled[y] /\ ending'[y] = ending[y] /\ receipts'[y] = receipts[y],
           ending'[x] = ending[x] \/ ending[x] = "none",
           pc'[x] \in Accepting \cup {"closing"} => pc[x] \in Accepting \cup {"closing"}
    PROVE  /\ \A y \in Executions \ {x} : SameExecution(y)
           /\ \A k \in Keys : SameKey(x, k) /\ Kept(x, k)' /\ Closed(x, k)'
<1>1. \A y \in Executions, k \in Keys : SameKey(y, k)
    BY DEF SameKey, store
<1>2. \A y \in Executions \ {x} : SameExecution(y)
    BY <1>1 DEF SameExecution
<1>3. \A k \in Keys : Kept(x, k)' /\ Closed(x, k)'
    BY <1>1, KeptSame, ClosedSame DEF IInv, Own
<1> QED  BY <1>1, <1>2, <1>3

-----------------------------------------------------------------------------
(* Steps that leave attempts and store alone.                              *)

LEMMA StartOK ==
    ASSUME IInv, NEW x \in Executions, Start(x)
    PROVE  IInv'
<1>1. TypeOK'
    BY DEF IInv, TypeOK, Start, Goto, relay, outcome, store
<1>2. pc[x] = "scheduled" /\ pc'[x] = "select" /\ \A y \in Executions \ {x} : pc'[y] = pc[y]
    BY DEF IInv, TypeOK, Start, Goto
<1>3. UNCHANGED <<part, taken, attempts, disabled, ending, receipts, store>>
    BY DEF Start, relay, outcome
<1>4. /\ \A y \in Executions \ {x} : SameExecution(y)
      /\ \A k \in Keys : SameKey(x, k) /\ Kept(x, k)' /\ Closed(x, k)'
    BY <1>2, <1>3, Quiet DEF Accepting
<1>5. Phase(x)'
    BY <1>2, <1>3 DEF IInv, Own, Phase, Accepting
<1>6. Receipted(x)'
    BY <1>2, <1>3 DEF IInv, Own, Receipted
<1>7. ASSUME NEW k \in Keys PROVE Current(x, k)'
    <2>1. Current(x, k) /\ SameKey(x, k)
        BY <1>4, <1>7 DEF IInv, Own
    <2> QED  BY <1>2, <1>3, <1>7, <2>1, SameAfter
             DEF Current, Level, SameKey, Row, SnapshotDue, AttemptId, Accepting
<1> QED  BY <1>1, <1>4, <1>5, <1>6, <1>7, Together DEF Own

\* A step after which x accepts nothing has no Current to show.
LEMMA ReceiveOK ==
    ASSUME IInv, NEW x \in Executions, NEW p \in Parts[x], Receive(x, p)
    PROVE  IInv'
<1>1. p \in StreamPart /\ p.key \in Keys
    BY DEF StreamPart
<1>2. /\ pc[x] = "select" /\ pc'[x] \in {"select", "begin", "chunk"}
      /\ taken[x] \in Nat /\ taken'[x] = taken[x] + 1 /\ part'[x] = p
      /\ \A y \in Executions \ {x} : pc'[y] = pc[y] /\ part'[y] = part[y] /\ taken'[y] = taken[y]
      /\ disabled[x] => pc'[x] = "select"
      /\ pc'[x] = "begin" => ~attempts[x][p.key].begun
      /\ pc'[x] = "chunk" => attempts[x][p.key].begun
    BY <1>1 DEF IInv, TypeOK, Receive, Goto, Emits
<1>3. UNCHANGED <<policy, attempts, disabled, ending, ctxDone, outcome, store, faults>> /\ UNCHANGED receipts
    BY DEF Receive, relay, outcome
<1>4. TypeOK'
    <2>1. pc' \in [Executions -> {"scheduled", "select", "begin", "chunk", "checkpoint",
                              "closing", "return", "done", "broken"}]
        BY <1>2 DEF IInv, TypeOK, Receive, Goto
    <2>2. part' \in [Executions -> StreamPart \cup {NoPart}] /\ taken' \in [Executions -> Nat]
        BY <1>1 DEF IInv, TypeOK, Receive
    <2> QED  BY <1>3, <2>1, <2>2 DEF IInv, TypeOK, outcome, store
<1>5. /\ \A y \in Executions \ {x} : SameExecution(y)
      /\ \A k \in Keys : SameKey(x, k) /\ Kept(x, k)' /\ Closed(x, k)'
    BY <1>2, <1>3, Quiet DEF Accepting
<1>6. Phase(x)'
    BY <1>1, <1>2, <1>3 DEF IInv, Own, Phase, Accepting
<1>7. Receipted(x)'
    BY <1>2, <1>3 DEF IInv, Own, Receipted
<1>8. ASSUME NEW k \in Keys PROVE Current(x, k)'
    <2>1. Current(x, k) /\ SameKey(x, k)
        BY <1>5, <1>8 DEF IInv, Own
    <2>2. SUFFICES ASSUME ~disabled[x] PROVE Level(x, k)'
        BY <1>3 DEF Current
    <2>3. Level(x, k)
        BY <1>2, <2>1, <2>2 DEF Current, Accepting
    <2>4. \A n \in Nat : <<x, n>> \in attempts'[x][k].text => n <= taken[x]
        BY <1>8, <2>1, <2>3 DEF Level, SameKey
    <2>5. \A n \in Nat : <<x, n>> \in attempts'[x][k].text => n <= taken'[x]
        BY <1>2, <2>4
    <2>6. <<x, taken'[x]>> \notin attempts'[x][k].text
        BY <1>2, <2>4
    <2>7. ~SnapshotDue(attempts'[x][k])
        BY <1>2, <1>8, <2>1, <2>3 DEF Level, SameKey
    <2> QED  BY <1>8, <2>1, <2>3, <2>5, <2>6, <2>7, SameAfter
             DEF Level, SameKey, Row, AttemptId, SnapshotDue
<1> QED  BY <1>4, <1>5, <1>6, <1>7, <1>8, Together DEF Own

LEMMA FinishOK ==
    ASSUME IInv, NEW x \in Executions, NEW o \in {"succeeded", "failed", "canceled"}, Finish(x, o)
    PROVE  IInv'
<1>1. /\ pc[x] = "select" /\ pc'[x] = IF disabled[x] THEN "return" ELSE "closing"
      /\ \A y \in Executions \ {x} : pc'[y] = pc[y] /\ ending'[y] = ending[y]
      /\ ending[x] = "none" /\ ending'[x] = o
    BY DEF IInv, TypeOK, Own, Phase, Accepting, Finish, Complete, Goto
<1>2. UNCHANGED <<part, taken, attempts, disabled, receipts, store>>
    BY DEF Finish, outcome
<1>3. TypeOK'
    <2>1. pc' \in [Executions -> {"scheduled", "select", "begin", "chunk", "checkpoint",
                              "closing", "return", "done", "broken"}]
        BY DEF IInv, TypeOK, Finish, Complete, Goto
    <2>2. ending' \in [Executions -> {"none", "succeeded", "failed", "canceled"}]
        BY DEF IInv, TypeOK, Finish, Complete
    <2> QED  BY <2>1, <2>2 DEF IInv, TypeOK, Finish, outcome, store
<1>4. /\ \A y \in Executions \ {x} : SameExecution(y)
      /\ \A k \in Keys : Kept(x, k)' /\ Closed(x, k)'
    BY <1>1, <1>2, Quiet DEF Accepting
<1>5. Phase(x)'
    BY <1>1, <1>2 DEF Phase, Accepting
<1>6. Receipted(x)'
    BY <1>1, <1>2 DEF IInv, Own, Receipted
<1>7. \A k \in Keys : Current(x, k)'
    BY <1>1, <1>2 DEF Current, Accepting
<1> QED  BY <1>3, <1>4, <1>5, <1>6, <1>7, Together DEF Own

LEMMA ReturnOK ==
    ASSUME IInv, NEW x \in Executions, Return(x)
    PROVE  IInv'
<1>1. /\ pc[x] \in {"return", "closing"} /\ pc'[x] = "done" /\ (pc[x] = "closing" => Open(x) = {})
      /\ \A y \in Executions \ {x} : pc'[y] = pc[y] /\ receipts'[y] = receipts[y]
      /\ ending[x] # "none"
    BY DEF IInv, TypeOK, Own, Phase, Return, Goto
<1>2. UNCHANGED <<policy, part, taken, attempts, disabled, ending, ctxDone, store, faults>>
    BY DEF Return, relay
<1>3. receipts[x] = {}
    BY <1>1 DEF IInv, Own, Receipted
<1>4. /\ ending[x] # "succeeded" => receipts'[x] = {}
      /\ ending[x] = "succeeded" =>
            receipts'[x] = {Receipt(x, k) : k \in {j \in Begun(x) : attempts[x][j].ended}}
    BY <1>3 DEF IInv, TypeOK, Return
<1>5. TypeOK'
    <2>1. pc' \in [Executions -> {"scheduled", "select", "begin", "chunk", "checkpoint",
                              "closing", "return", "done", "broken"}]
        BY DEF IInv, TypeOK, Return, Goto
    <2>2. result' \in [Executions -> {"none", "ok", "error", "crashed"}]
        BY DEF IInv, TypeOK, Return
    <2>3. ASSUME NEW k \in Keys
          PROVE  Receipt(x, k) \in [attempt : AttemptIds, seq : Nat, text : SUBSET Deltas]
        BY <2>3, Ids, StateFields DEF IInv, TypeOK, Receipt
    <2>4. {Receipt(x, k) : k \in {j \in Begun(x) : attempts[x][j].ended}}
            \in SUBSET [attempt : AttemptIds, seq : Nat, text : SUBSET Deltas]
        BY <2>3 DEF Begun
    <2>5. receipts' \in [Executions -> SUBSET [attempt : AttemptIds, seq : Nat, text : SUBSET Deltas]]
        BY <2>4 DEF IInv, TypeOK, Return
    <2> QED  BY <1>2, <2>1, <2>2, <2>5 DEF IInv, TypeOK, store
<1>6. /\ \A y \in Executions \ {x} : SameExecution(y)
      /\ \A k \in Keys : Kept(x, k)' /\ Closed(x, k)'
    BY <1>1, <1>2, Quiet DEF Accepting
<1>7. Phase(x)'
    <2>1. pc[x] = "return" => disabled[x]
        BY DEF IInv, Own, Phase
    <2>2. Open(x)' = Open(x)
        BY <1>2 DEF Open, Begun
    <2> QED  BY <1>1, <1>2, <2>1, <2>2 DEF Phase, Accepting
<1>8. Receipted(x)'
    <2>1. SUFFICES ASSUME NEW r \in receipts'[x]
                   PROVE  /\ pc'[x] = "done" /\ ending'[x] = "succeeded"
                          /\ \E k \in Keys : attempts'[x][k].ended /\ r = Receipt(x, k)'
        BY DEF Receipted
    <2>2. PICK k \in {j \in Begun(x) : attempts[x][j].ended} : r = Receipt(x, k)
        BY <1>4, <2>1
    <2>3. k \in Keys /\ attempts'[x][k].ended /\ r = Receipt(x, k)'
        BY <1>2, <2>2 DEF Begun, Receipt
    <2> QED  BY <1>1, <1>2, <1>4, <2>1, <2>3
<1>9. \A k \in Keys : Current(x, k)'
    BY <1>1 DEF Current, Accepting
<1> QED  BY <1>5, <1>6, <1>7, <1>8, <1>9, Together DEF Own

LEMMA ContextDoneOK ==
    ASSUME IInv, NEW x \in Executions, ContextDone(x)
    PROVE  IInv'
<1>1. UNCHANGED <<policy, pc, part, taken, attempts, disabled, ending, receipts, result, manifests, live, faults>>
    BY DEF ContextDone, relay, outcome, store
<1>2. TypeOK'
    BY <1>1 DEF IInv, TypeOK, ContextDone
<1>3. \A y \in Executions : SameExecution(y)
    BY <1>1 DEF SameExecution, SameKey
<1> QED  BY <1>2, <1>3, OwnSame DEF IInv

LEMMA CrashOK ==
    ASSUME IInv, NEW x \in Executions, Crash(x)
    PROVE  IInv'
<1>1. pc[x] # "done" /\ pc'[x] = "broken" /\ \A y \in Executions \ {x} : pc'[y] = pc[y]
    BY DEF IInv, TypeOK, Crash, Over, Goto
<1>2. UNCHANGED <<policy, part, taken, attempts, disabled, ending, ctxDone, receipts, store>>
    BY DEF Crash, relay
<1>3. TypeOK'
    <2>1. pc' \in [Executions -> {"scheduled", "select", "begin", "chunk", "checkpoint",
                              "closing", "return", "done", "broken"}]
        BY DEF IInv, TypeOK, Crash, Goto
    <2>2. result' \in [Executions -> {"none", "ok", "error", "crashed"}] /\ faults' \in 0..MaxFaults
        BY DEF IInv, TypeOK, Crash
    <2> QED  BY <1>2, <2>1, <2>2 DEF IInv, TypeOK, store
<1>4. /\ \A y \in Executions \ {x} : SameExecution(y)
      /\ \A k \in Keys : Kept(x, k)' /\ Closed(x, k)'
    BY <1>1, <1>2, Quiet DEF Accepting
<1>5. Phase(x)' /\ \A k \in Keys : Current(x, k)'
    BY <1>1 DEF Phase, Current, Accepting
<1>6. Receipted(x)'
    BY <1>1, <1>2 DEF IInv, Own, Receipted
<1> QED  BY <1>3, <1>4, <1>5, <1>6, Together DEF Own

-----------------------------------------------------------------------------
(* Steps that write about one key.                                         *)

\* What such a step leaves alone, and so does not have to show.
LEMMA Writing ==
    ASSUME IInv, NEW x \in Executions, NEW k \in Keys, Touches(x, k),
           pc[x] # "done", receipts'[x] = receipts[x],
           ending'[x] = ending[x] \/ ending[x] = "none",
           pc'[x] \in Accepting \cup {"closing"} => pc[x] \in Accepting \cup {"closing"}
    PROVE  /\ \A y \in Executions \ {x} : SameExecution(y)
           /\ \A j \in Keys \ {k} : SameKey(x, j) /\ Kept(x, j)' /\ Closed(x, j)'
           /\ Receipted(x)'
<1>1. /\ \A y \in Executions \ {x} : SameExecution(y)
      /\ \A j \in Keys \ {k} : SameKey(x, j)
    BY TouchesOne
<1>2. \A j \in Keys \ {k} : Kept(x, j)' /\ Closed(x, j)'
    BY <1>1, KeptSame, ClosedSame DEF IInv, Own
<1>3. Receipted(x)'
    BY DEF IInv, Own, Receipted
<1> QED  BY <1>1, <1>2, <1>3

\* An open attempt of an execution that still may write has an active manifest.
LEMMA OpenIsActive ==
    ASSUME IInv, NEW x \in Executions, NEW k \in Keys, pc[x] \in Accepting \cup {"closing"},
           attempts[x][k].begun, ~attempts[x][k].ended
    PROVE  Row(x, k).status = "active" /\ Row(x, k).seq <= attempts[x][k].seq
BY DEF IInv, Own, Kept, Closed

\* While parts are accepted no attempt has ended.
LEMMA AcceptingIsOpen ==
    ASSUME IInv, NEW x \in Executions, NEW k \in Keys, pc[x] \in Accepting
    PROVE  ~attempts[x][k].ended /\ ending[x] = "none"
BY DEF IInv, Own, Phase, Closed

\* What a call changes besides the attempt: how it failed.
LEMMA CallFailsOK ==
    ASSUME TypeOK, NEW x \in Executions, CallFails(x)
    PROVE  faults' \in 0..MaxFaults
BY DEF CallFails, TypeOK

LEMMA DisableOK ==
    ASSUME TypeOK, NEW x \in Executions, Disable(x)
    PROVE  /\ disabled' \in [Executions -> BOOLEAN] /\ disabled'[x]
           /\ \A y \in Executions \ {x} : disabled'[y] = disabled[y]
BY DEF Disable, TypeOK

Labels == {"scheduled", "select", "begin", "chunk", "checkpoint", "closing", "return", "done", "broken"}

LEMMA GotoOK ==
    ASSUME TypeOK, NEW x \in Executions, NEW label \in Labels, Goto(x, label)
    PROVE  /\ pc' \in [Executions -> Labels] /\ pc'[x] = label
           /\ \A y \in Executions \ {x} : pc'[y] = pc[y]
BY DEF Goto, TypeOK, Labels

LEMMA AcceptFailsOK ==
    ASSUME TypeOK, NEW x \in Executions, ~disabled[x], AcceptFails(x)
    PROVE  /\ pc' \in [Executions -> Labels] /\ pc'[x] = "closing" /\ disabled' = disabled
           /\ ending' \in [Executions -> {"none", "succeeded", "failed", "canceled"}]
           /\ ending'[x] = "failed"
           /\ \A y \in Executions \ {x} : pc'[y] = pc[y] /\ ending'[y] = ending[y]
BY DEF AcceptFails, Complete, Goto, TypeOK, Labels

\* A failed call of Accept: x accepts nothing more, whatever reached the store.
LEMMA FailOK ==
    ASSUME IInv, NEW x \in Executions, NEW q \in Keys,
           pc[x] \in {"begin", "chunk", "checkpoint"},
           CallFails(x),
           (Disable(x) /\ Goto(x, "select") /\ UNCHANGED ending) \/ AcceptFails(x),
           UNCHANGED <<policy, part, taken, ctxDone, receipts, result>>,
           manifests' \in [AttemptIds -> Manifest \cup {NoManifest}],
           \A b \in AttemptIds \ {AttemptId(x, q)} : manifests'[b] = manifests[b],
           live' \subseteq [attempt : AttemptIds, seq : Nat, delta : SUBSET Deltas],
           \A m : m.attempt # AttemptId(x, q) => (m \in live' <=> m \in live),
           attempts' \in [Executions -> [Keys -> PreviewState]],
           \A j \in Keys \ {q} : attempts'[x][j] = attempts[x][j],
           \A y \in Executions \ {x} : attempts'[y] = attempts[y],
           Kept(x, q)', ~attempts'[x][q].ended, Row(x, q)'.status \in {"absent", "active"}
    PROVE  IInv'
<1>1. ~disabled[x] /\ ending[x] = "none"
    BY DEF IInv, Own, Phase, Accepting
<1>2. /\ pc' \in [Executions -> Labels]
      /\ disabled' \in [Executions -> BOOLEAN]
      /\ ending' \in [Executions -> {"none", "succeeded", "failed", "canceled"}]
      /\ \/ pc'[x] = "select" /\ disabled'[x] /\ ending'[x] = ending[x]
         \/ pc'[x] = "closing" /\ ending'[x] = "failed"
      /\ \A y \in Executions \ {x} :
            pc'[y] = pc[y] /\ disabled'[y] = disabled[y] /\ ending'[y] = ending[y]
    BY <1>1, DisableOK, GotoOK, AcceptFailsOK DEF IInv, TypeOK, Labels
<1>3. TypeOK'
    BY <1>2, CallFailsOK DEF IInv, TypeOK, Labels
<1>4. Touches(x, q)
    BY <1>2 DEF Touches
<1>5. /\ \A y \in Executions \ {x} : SameExecution(y)
      /\ \A j \in Keys \ {q} : SameKey(x, j) /\ Kept(x, j)' /\ Closed(x, j)'
      /\ Receipted(x)'
    BY <1>1, <1>2, <1>4, Writing DEF Accepting
<1>6. Closed(x, q)'
    BY DEF Closed
<1>7. Phase(x)' /\ \A j \in Keys : Current(x, j)'
    BY <1>1, <1>2 DEF Phase, Current, Accepting
<1> QED  BY <1>3, <1>5, <1>6, <1>7, Together DEF Own

\* The attempt of a new key.
LEMMA BegunExcept ==
    ASSUME TypeOK, NEW x \in Executions, NEW k \in Keys, attempts[x][k] = NoState,
           attempts' = [attempts EXCEPT ![x][k].begun = TRUE]
    PROVE  /\ attempts' \in [Executions -> [Keys -> PreviewState]]
           /\ \A j \in Keys \ {k} : attempts'[x][j] = attempts[x][j]
           /\ \A y \in Executions \ {x} : attempts'[y] = attempts[y]
           /\ attempts'[x][k].begun /\ ~attempts'[x][k].ended
           /\ attempts'[x][k].seq = 0 /\ attempts'[x][k].text = {}
           /\ attempts'[x][k].snapSeq = 0 /\ attempts'[x][k].snapLen = 0
<1> DEFINE s == [NoState EXCEPT !.begun = TRUE]
<1>1. s \in PreviewState
    BY DEF NoState, PreviewState
<1>2. attempts' = [attempts EXCEPT ![x][k] = s]
    <2>1. [attempts[x][k] EXCEPT !.begun = TRUE] = s
        OBVIOUS
    <2>2. attempts' = [attempts EXCEPT ![x] = [attempts[x] EXCEPT ![k] = [attempts[x][k] EXCEPT !.begun = TRUE]]]
        OBVIOUS
    <2> QED  BY <2>1, <2>2
<1>3. /\ attempts' \in [Executions -> [Keys -> PreviewState]]
      /\ attempts'[x][k] = s
      /\ \A j \in Keys \ {k} : attempts'[x][j] = attempts[x][j]
      /\ \A y \in Executions \ {x} : attempts'[y] = attempts[y]
    BY <1>1, <1>2, AttemptsExcept
<1>4. s.begun /\ ~s.ended /\ s.seq = 0 /\ s.text = {} /\ s.snapSeq = 0 /\ s.snapLen = 0
    BY DEF NoState
<1> QED  BY <1>3, <1>4

LEMMA BeginOK ==
    ASSUME IInv, NEW x \in Executions, Begin(x)
    PROVE  IInv'
<1> DEFINE row == [status |-> "active", seq |-> 0, text |-> {}]
<1>1. /\ pc[x] = "begin" /\ ending[x] = "none" /\ ~disabled[x]
      /\ part[x].key \in Keys /\ ~attempts[x][part[x].key].begun /\ part[x] \in StreamPart
    BY DEF Begin, IInv, Own, Phase, Accepting, StreamPart
<1>2. PICK q \in Keys : q = part[x].key
    BY <1>1
<1>3. /\ attempts[x][q] = NoState
      /\ Row(x, q).status \in {"absent", "active"} /\ Row(x, q).seq = 0 /\ Row(x, q).text = {}
      /\ \A m \in live : m.attempt # AttemptId(x, q)
    BY <1>1, <1>2 DEF IInv, Own, Kept
<1>4. row \in Manifest /\ AttemptId(x, q) \in AttemptIds
    BY Ids DEF Manifest
<1>5. UNCHANGED <<policy, part, taken, ctxDone, receipts, result, live>>
    BY DEF Begin, outcome
<1>6. manifests' = manifests \/ manifests' = Stored(AttemptId(x, q), row)
    BY <1>2 DEF Begin
<1>7. /\ manifests' \in [AttemptIds -> Manifest \cup {NoManifest}]
      /\ \A b \in AttemptIds \ {AttemptId(x, q)} : manifests'[b] = manifests[b]
      /\ Row(x, q)' \in {Row(x, q), row}
    BY <1>4, <1>6, StoredOK DEF IInv, TypeOK, Row
<1>8. IsFiniteSet({}) /\ Cardinality({}) = 0
    BY FS_EmptySet
<1>9. CASE /\ manifests' = Stored(AttemptId(x, q), row)
           /\ attempts' = [attempts EXCEPT ![x][q].begun = TRUE]
           /\ Goto(x, IF Emits(part[x]) THEN "chunk" ELSE "select")
           /\ UNCHANGED <<disabled, ending, faults>>
    <2>1. Row(x, q)' = row
        BY <1>2, <1>3, <1>4, <1>9, StoredOK DEF IInv, Row
    <2>2. Row(x, q)'.status = "active" /\ Row(x, q)'.seq = 0 /\ Row(x, q)'.text = {}
        BY <2>1
    <2>3. /\ attempts' \in [Executions -> [Keys -> PreviewState]]
          /\ \A j \in Keys \ {q} : attempts'[x][j] = attempts[x][j]
          /\ \A y \in Executions \ {x} : attempts'[y] = attempts[y]
          /\ attempts'[x][q].begun /\ ~attempts'[x][q].ended
          /\ attempts'[x][q].seq = 0 /\ attempts'[x][q].text = {}
          /\ attempts'[x][q].snapSeq = 0 /\ attempts'[x][q].snapLen = 0
        BY <1>3, <1>9, BegunExcept DEF IInv
    <2>4. /\ pc' \in [Executions -> Labels] /\ pc'[x] \in {"chunk", "select"}
          /\ \A y \in Executions \ {x} : pc'[y] = pc[y]
        BY <1>9, GotoOK DEF IInv, Labels
    <2>5. TypeOK'
        BY <1>5, <1>7, <1>9, <2>3, <2>4 DEF IInv, TypeOK, Labels
    <2>6. Touches(x, q)
        BY <1>5, <1>7, <1>9, <2>3, <2>4 DEF Touches
    <2>7. /\ \A y \in Executions \ {x} : SameExecution(y)
          /\ \A j \in Keys \ {q} : SameKey(x, j) /\ Kept(x, j)' /\ Closed(x, j)'
          /\ Receipted(x)'
        BY <1>1, <1>5, <1>9, <2>6, Writing DEF Accepting
    <2>8. IsFiniteSet(attempts'[x][q].text)
        BY <1>8, <2>3
    <2>9. Kept(x, q)' /\ Closed(x, q)'
        BY <2>2, <2>3, <2>8 DEF Kept, Closed
    <2>10. Phase(x)'
        BY <1>1, <1>2, <1>5, <1>9, <2>3, <2>4 DEF Phase, Accepting
    <2>11. Current(x, q)'
        <3>1. After(AttemptId(x, q))' = {} /\ Later(AttemptId(x, q))' = {}
            BY <1>3, <1>5 DEF After, Later
        <3>2. Cardinality(attempts'[x][q].text) = 0 /\ Cardinality(Row(x, q)'.text) = 0
            BY <1>8, <2>2, <2>3
        <3>3. ~SnapshotDue(attempts'[x][q])
            BY <2>3, <3>2 DEF SnapshotDue
        <3>4. IsFiniteSet(After(AttemptId(x, q))') /\ Cardinality(After(AttemptId(x, q))') = 0
            BY <1>8, <3>1
        <3>5. Row(x, q)'.text \cup Later(AttemptId(x, q))' = attempts'[x][q].text
              /\ Row(x, q)'.text \cap Later(AttemptId(x, q))' = {}
            BY <2>2, <2>3, <3>1
        <3>6. \A m \in live' : m.attempt # AttemptId(x, q)
            BY <1>3, <1>5
        <3> QED  BY <2>2, <2>3, <3>2, <3>3, <3>4, <3>5, <3>6 DEF Current, Level, AttemptId
    <2>12. ASSUME NEW j \in Keys \ {q} PROVE Current(x, j)'
        <3>1. Level(x, j)
            BY <1>1, <2>12 DEF IInv, Own, Current, Accepting
        <3> QED  BY <1>1, <1>5, <2>4, <2>7, <2>12, <3>1, SameAfter
                 DEF Current, Level, SameKey, Row, AttemptId, SnapshotDue
    <2> QED  BY <2>5, <2>7, <2>9, <2>10, <2>11, <2>12, Together DEF Own
<1>10. CASE /\ CallFails(x)
            /\ \/ Disable(x) /\ Goto(x, "select") /\ UNCHANGED ending
               \/ AcceptFails(x)
            /\ UNCHANGED attempts
    <2>1. /\ Row(x, q)'.status \in {"absent", "active"} /\ Row(x, q)'.seq = 0 /\ Row(x, q)'.text = {}
          /\ attempts'[x][q] = NoState /\ \A m \in live' : m.attempt # AttemptId(x, q)
        BY <1>3, <1>5, <1>7, <1>10
    <2>2. NoState.text = {} /\ ~NoState.begun /\ ~NoState.ended /\ NoState.seq = 0
        BY DEF NoState
    <2>3. Kept(x, q)' /\ ~attempts'[x][q].ended
        <3>1. IsFiniteSet(attempts'[x][q].text)
            BY <1>8, <2>1, <2>2
        <3> QED  BY <2>1, <2>2, <3>1 DEF Kept, AttemptId
    <2>4. live' \subseteq [attempt : AttemptIds, seq : Nat, delta : SUBSET Deltas]
          /\ attempts' \in [Executions -> [Keys -> PreviewState]]
        BY <1>5, <1>10 DEF IInv, TypeOK
    <2> QED  BY <1>1, <1>5, <1>7, <1>10, <2>1, <2>3, <2>4, FailOK
<1> QED  BY <1>2, <1>9, <1>10 DEF Begin

\* What a part makes of the text.
LEMMA ExtendedOK ==
    ASSUME IInv, NEW x \in Executions, NEW q \in Keys, q = part[x].key
    PROVE  /\ Extended(x) \in PreviewState
           /\ Extended(x).begun = attempts[x][q].begun /\ Extended(x).ended = attempts[x][q].ended
           /\ Extended(x).seq = attempts[x][q].seq + 1
           /\ Extended(x).text = attempts[x][q].text \cup Content(x)
           /\ IsFiniteSet(Extended(x).text)
           /\ Extended(x).snapSeq = attempts[x][q].snapSeq
           /\ Extended(x).snapLen = attempts[x][q].snapLen
<1>1. attempts[x][q] \in PreviewState /\ IsFiniteSet(attempts[x][q].text)
    BY DEF IInv, TypeOK, Own, Kept
<1>2. Content(x) \subseteq Deltas /\ IsFiniteSet(Content(x))
    BY Content1 DEF IInv
<1>3. Extended(x) = [attempts[x][q] EXCEPT !.seq = attempts[x][q].seq + 1,
                                           !.text = attempts[x][q].text \cup Content(x)]
    BY DEF Extended
<1>4. IsFiniteSet(attempts[x][q].text \cup Content(x))
    BY <1>1, <1>2, FS_Union
<1>5. attempts[x][q].seq + 1 \in Nat /\ attempts[x][q].text \cup Content(x) \in SUBSET Deltas
    BY <1>1, <1>2, StateFields
<1>6. Extended(x) \in PreviewState
    BY <1>1, <1>3, <1>5 DEF PreviewState
<1>7. Extended(x).text = attempts[x][q].text \cup Content(x)
    BY <1>1, <1>3 DEF PreviewState
<1>8. IsFiniteSet(Extended(x).text)
    BY <1>4, <1>7
<1> QED  BY <1>1, <1>3, <1>6, <1>7, <1>8 DEF PreviewState

LEMMA ChunkOK ==
    ASSUME IInv, NEW x \in Executions, Chunk(x)
    PROVE  IInv'
<1>1. /\ pc[x] = "chunk" /\ ending[x] = "none" /\ ~disabled[x]
      /\ part[x].key \in Keys /\ attempts[x][part[x].key].begun /\ part[x] \in StreamPart
    BY DEF Chunk, IInv, Own, Phase, Accepting, StreamPart
<1>2. PICK q \in Keys : q = part[x].key
    BY <1>1
<1> DEFINE s == Extended(x)
           a == AttemptId(x, q)
           message == [attempt |-> a, seq |-> s.seq, delta |-> Content(x)]
<1>3. /\ s \in PreviewState /\ s.begun /\ ~s.ended /\ IsFiniteSet(s.text)
      /\ s.seq = attempts[x][q].seq + 1 /\ s.text = attempts[x][q].text \cup Content(x)
      /\ s.snapSeq = attempts[x][q].snapSeq /\ s.snapLen = attempts[x][q].snapLen
      /\ s.seq \in Nat /\ attempts[x][q].seq \in Nat
    <2>1. ~attempts[x][q].ended
        BY <1>1, AcceptingIsOpen DEF Accepting
    <2>2. attempts[x][q] \in PreviewState
        BY DEF IInv, TypeOK
    <2> QED  BY <1>1, <1>2, <2>1, <2>2, ExtendedOK, StateFields
<1>4. Row(x, q).status = "active" /\ Row(x, q).seq <= attempts[x][q].seq /\ Row(x, q).seq \in Nat
    <2>1. Row(x, q).status = "active" /\ Row(x, q).seq <= attempts[x][q].seq
        BY <1>1, <1>2, AcceptingIsOpen, OpenIsActive DEF Accepting
    <2>2. Row(x, q) \in Manifest \cup {NoManifest}
        BY Ids DEF IInv, TypeOK, Row
    <2> QED  BY <2>1, <2>2 DEF Manifest, NoManifest
<1>5. UNCHANGED <<policy, part, taken, ctxDone, receipts, result, manifests>>
    BY DEF Chunk, outcome
<1>6. /\ attempts' \in [Executions -> [Keys -> PreviewState]]
      /\ attempts'[x][q] = s
      /\ \A j \in Keys \ {q} : attempts'[x][j] = attempts[x][j]
      /\ \A y \in Executions \ {x} : attempts'[y] = attempts[y]
    <2>1. attempts' = [attempts EXCEPT ![x][q] = s]
        BY <1>2 DEF Chunk
    <2> QED  BY <1>3, <2>1, AttemptsExcept DEF IInv
<1>7. live' = live \/ live' = live \cup {message}
    BY <1>2 DEF Chunk
<1>8. /\ live' \subseteq [attempt : AttemptIds, seq : Nat, delta : SUBSET Deltas]
      /\ \A m : m.attempt # a => (m \in live' <=> m \in live)
    <2>1. a \in AttemptIds /\ Content(x) \in SUBSET Deltas
        BY Ids, Content1 DEF IInv
    <2>2. message \in [attempt : AttemptIds, seq : Nat, delta : SUBSET Deltas]
        BY <1>3, <2>1
    <2>3. message.attempt = a
        OBVIOUS
    <2> QED  BY <1>7, <2>2, <2>3 DEF IInv, TypeOK
<1>9. Kept(x, q)'
    <2>1. Row(x, q)' = Row(x, q)
        BY <1>5 DEF Row, AttemptId
    <2>2. Row(x, q)'.status = "active" /\ Row(x, q)'.seq <= attempts'[x][q].seq
        BY <1>3, <1>4, <1>6, <2>1
    <2>3. IsFiniteSet(attempts'[x][q].text) /\ attempts'[x][q].begun
        BY <1>3, <1>6
    <2> QED  BY <2>2, <2>3 DEF Kept
<1>10. CASE /\ live' = live \cup {message}
            /\ Goto(x, IF part[x].kind = "element" \/ SnapshotDue(s) THEN "checkpoint" ELSE "select")
            /\ UNCHANGED <<disabled, ending, faults>>
    <2>1. /\ pc' \in [Executions -> Labels] /\ pc'[x] \in {"checkpoint", "select"}
          /\ SnapshotDue(s) => pc'[x] = "checkpoint"
          /\ \A y \in Executions \ {x} : pc'[y] = pc[y]
        BY <1>10, GotoOK DEF IInv, Labels
    <2>2. TypeOK'
        BY <1>5, <1>6, <1>8, <1>10, <2>1 DEF IInv, TypeOK, Labels
    <2>3. Touches(x, q)
        BY <1>5, <1>6, <1>8, <1>10, <2>1 DEF Touches
    <2>4. /\ \A y \in Executions \ {x} : SameExecution(y)
          /\ \A j \in Keys \ {q} : SameKey(x, j) /\ Kept(x, j)' /\ Closed(x, j)'
          /\ Receipted(x)'
        BY <1>1, <1>5, <1>10, <2>3, Writing DEF Accepting
    <2>5. Row(x, q)' = Row(x, q)
        BY <1>5 DEF Row, AttemptId
    <2>6. Closed(x, q)' /\ Phase(x)'
        BY <1>1, <1>2, <1>3, <1>4, <1>5, <1>6, <1>10, <2>1, <2>5 DEF Closed, Phase, Accepting
    <2>7. ASSUME NEW j \in Keys \ {q} PROVE Current(x, j)'
        <3>1. Level(x, j)
            BY <1>1, <2>7 DEF IInv, Own, Current, Accepting
        <3>2. ~SnapshotDue(attempts[x][j])
            BY <1>1, <3>1 DEF Level
        <3> QED  BY <1>1, <1>5, <2>1, <2>4, <2>7, <3>1, <3>2, SameAfter
                 DEF Current, Level, SameKey, Row, AttemptId, SnapshotDue
    <2>8. Level(x, q)
        BY <1>1 DEF IInv, Own, Current, Accepting
    <2>9. After(a)' = After(a) \cup {message} /\ Later(a)' = Later(a) \cup Content(x)
        <3>1. message.seq > manifests[a].seq /\ message.attempt = a /\ message.delta = Content(x)
            BY <1>3, <1>4 DEF Row
        <3>2. After(a)' = After(a) \cup {message}
            BY <1>5, <1>10, <3>1 DEF After, AttemptId
        <3> QED  BY <3>1, <3>2 DEF Later
    <2>10. <<x, taken[x]>> \notin attempts[x][q].text /\ Content(x) \subseteq {<<x, taken[x]>>}
        BY <1>1, <2>8, Content1 DEF Level, IInv
    <2>11. Row(x, q).text \cup Later(a)' = s.text /\ Row(x, q).text \cap Later(a)' = {}
        <3>1. Row(x, q).text \cup Later(a) = attempts[x][q].text /\ Row(x, q).text \cap Later(a) = {}
            BY <1>1, <1>2, <2>8 DEF Level
        <3> QED  BY <1>3, <2>9, <2>10, <3>1
    <2>12. IsFiniteSet(After(a)') /\ Cardinality(After(a)') <= s.seq - s.snapSeq
        <3>1. IsFiniteSet(After(a)) /\ Cardinality(After(a)) <= attempts[x][q].seq - attempts[x][q].snapSeq
            BY <1>1, <1>2, <2>8 DEF Level
        <3>2. Cardinality(After(a)) \in Nat
            BY <3>1, FS_CardinalityType
        <3>3. /\ IsFiniteSet(After(a) \cup {message})
              /\ Cardinality(After(a) \cup {message}) =
                    IF message \in After(a) THEN Cardinality(After(a)) ELSE Cardinality(After(a)) + 1
            BY <3>1, FS_AddElement
        <3>4. attempts[x][q] \in PreviewState
            BY DEF IInv, TypeOK
        <3>5. attempts[x][q].snapSeq \in Nat
            BY <3>4, StateFields
        <3>6. IsFiniteSet(After(a)') /\ Cardinality(After(a)') <= Cardinality(After(a)) + 1
              /\ Cardinality(After(a)') \in Nat
            <4> HIDE DEF message
            <4> QED  BY <2>9, <3>2, <3>3
        <3> HIDE DEF s, a, message
        <3> QED  BY <1>3, <3>1, <3>2, <3>5, <3>6
    <2>13. \A n \in Nat : <<x, n>> \in s.text => n <= taken[x]
        <3>1. taken[x] \in Nat
            BY DEF IInv, TypeOK
        <3> QED  BY <1>3, <2>8, <2>10, <3>1 DEF Level
    <2>14. \A m \in live' : m.attempt = a => m.seq <= s.seq
        <3>1. \A m \in live : m.seq \in Nat
            BY DEF IInv, TypeOK
        <3> QED  BY <1>3, <1>10, <2>8, <3>1 DEF Level
    <2>15. Row(x, q).seq = s.snapSeq /\ s.snapLen = Cardinality(Row(x, q).text)
        BY <1>1, <1>2, <1>3, <2>8 DEF Level
    <2>16. Current(x, q)'
        BY <1>2, <1>5, <1>6, <2>1, <2>5, <2>11, <2>12, <2>13, <2>14, <2>15
           DEF Current, Level, AttemptId
    <2> QED  BY <1>9, <2>2, <2>4, <2>6, <2>7, <2>16, Together DEF Own
<1>11. CASE /\ CallFails(x)
            /\ \/ Disable(x) /\ Goto(x, "select") /\ UNCHANGED ending
               \/ AcceptFails(x)
    <2>1. Row(x, q)'.status = "active" /\ ~attempts'[x][q].ended
        BY <1>3, <1>4, <1>5, <1>6 DEF Row, AttemptId
    <2>2. manifests' \in [AttemptIds -> Manifest \cup {NoManifest}]
        BY <1>5 DEF IInv, TypeOK
    <2> QED  BY <1>1, <1>5, <1>6, <1>8, <1>9, <1>11, <2>1, <2>2, FailOK
<1> QED  BY <1>2, <1>10, <1>11 DEF Chunk

\* What a checkpoint of an open attempt does to the manifest and the attempt.
LEMMA SnapshotOK ==
    ASSUME IInv, NEW x \in Executions, NEW q \in Keys, pc[x] \in Accepting \cup {"closing"},
           attempts[x][q].begun, ~attempts[x][q].ended
    PROVE  LET s == attempts[x][q]
               stored == Stored(AttemptId(x, q), Snapshot(s))
           IN
           /\ stored \in [AttemptIds -> Manifest \cup {NoManifest}]
           /\ \A b \in AttemptIds \ {AttemptId(x, q)} : stored[b] = manifests[b]
           /\ stored[AttemptId(x, q)] = Snapshot(s)
           /\ Snapshot(s).status = "active" /\ Snapshot(s).seq = s.seq /\ Snapshot(s).text = s.text
           /\ Snapped(s) \in PreviewState
           /\ Snapped(s).begun /\ ~Snapped(s).ended
           /\ Snapped(s).seq = s.seq /\ Snapped(s).text = s.text
           /\ Snapped(s).snapSeq = s.seq /\ Snapped(s).snapLen = Cardinality(s.text)
           /\ s.seq \in Nat /\ IsFiniteSet(s.text) /\ Cardinality(s.text) \in Nat
<1> DEFINE s == attempts[x][q]
<1>1. s \in PreviewState /\ IsFiniteSet(s.text) /\ s.seq \in Nat /\ s.text \in SUBSET Deltas
    BY StateFields DEF IInv, TypeOK, Own, Kept
<1>2. Cardinality(s.text) \in Nat
    BY <1>1, FS_CardinalityType
<1>3. Snapshot(s) \in Manifest
    BY <1>1 DEF Snapshot, Manifest
<1>4. Snapshot(s).status = "active" /\ Snapshot(s).seq = s.seq /\ Snapshot(s).text = s.text
    BY DEF Snapshot
<1>5. Snapped(s) \in PreviewState
    BY <1>1, <1>2 DEF Snapped, PreviewState
<1>6. /\ Snapped(s).begun /\ ~Snapped(s).ended
      /\ Snapped(s).seq = s.seq /\ Snapped(s).text = s.text
      /\ Snapped(s).snapSeq = s.seq /\ Snapped(s).snapLen = Cardinality(s.text)
    BY <1>1, <1>2 DEF Snapped, PreviewState
<1>7. manifests[AttemptId(x, q)].status = "active" /\ manifests[AttemptId(x, q)].seq <= s.seq
      /\ manifests[AttemptId(x, q)].seq \in Nat
    <2>1. manifests[AttemptId(x, q)] \in Manifest \cup {NoManifest}
        BY Ids DEF IInv, TypeOK
    <2>2. manifests[AttemptId(x, q)].seq \in Nat
        BY <2>1 DEF Manifest, NoManifest
    <2> QED  BY <2>2, OpenIsActive DEF Row
<1>8. /\ Stored(AttemptId(x, q), Snapshot(s)) \in [AttemptIds -> Manifest \cup {NoManifest}]
      /\ \A b \in AttemptIds \ {AttemptId(x, q)} :
            Stored(AttemptId(x, q), Snapshot(s))[b] = manifests[b]
      /\ Stored(AttemptId(x, q), Snapshot(s))[AttemptId(x, q)] = Snapshot(s)
    <2>1. AttemptId(x, q) \in AttemptIds
        BY Ids
    <2>2. \/ manifests[AttemptId(x, q)].seq < Snapshot(s).seq
          \/ manifests[AttemptId(x, q)].seq = Snapshot(s).seq
        BY <1>1, <1>4, <1>7
    <2> QED  BY <1>3, <1>4, <1>7, <2>1, <2>2, StoredOK DEF IInv
<1> QED  BY <1>1, <1>2, <1>4, <1>5, <1>6, <1>8

LEMMA CheckpointOK ==
    ASSUME IInv, NEW x \in Executions, Checkpoint(x)
    PROVE  IInv'
<1>1. /\ pc[x] = "checkpoint" /\ ending[x] = "none" /\ ~disabled[x]
      /\ part[x].key \in Keys /\ attempts[x][part[x].key].begun /\ part[x] \in StreamPart
    BY DEF Checkpoint, IInv, Own, Phase, Accepting, StreamPart
<1>2. PICK q \in Keys : q = part[x].key
    BY <1>1
<1> DEFINE s == attempts[x][q]
           a == AttemptId(x, q)
<1>3. s.begun /\ ~s.ended /\ Row(x, q).status = "active" /\ Row(x, q).seq <= s.seq
    BY <1>1, <1>2, AcceptingIsOpen, OpenIsActive DEF Accepting
<1>4. /\ Stored(a, Snapshot(s)) \in [AttemptIds -> Manifest \cup {NoManifest}]
      /\ \A b \in AttemptIds \ {a} : Stored(a, Snapshot(s))[b] = manifests[b]
      /\ Stored(a, Snapshot(s))[a] = Snapshot(s)
      /\ Snapshot(s).status = "active" /\ Snapshot(s).seq = s.seq /\ Snapshot(s).text = s.text
      /\ Snapped(s) \in PreviewState
      /\ Snapped(s).begun /\ ~Snapped(s).ended
      /\ Snapped(s).seq = s.seq /\ Snapped(s).text = s.text
      /\ Snapped(s).snapSeq = s.seq /\ Snapped(s).snapLen = Cardinality(s.text)
      /\ s.seq \in Nat /\ IsFiniteSet(s.text) /\ Cardinality(s.text) \in Nat
    BY <1>1, <1>3, SnapshotOK DEF Accepting
<1>5. UNCHANGED <<policy, part, taken, ctxDone, live>>
    BY DEF Checkpoint
<1>6. CASE /\ manifests' = Stored(a, Snapshot(s))
           /\ attempts' = [attempts EXCEPT ![x][q] = Snapped(s)]
           /\ Goto(x, "select")
           /\ UNCHANGED <<disabled, ending, faults, outcome>>
    <2>1. /\ pc' \in [Executions -> Labels] /\ pc'[x] = "select"
          /\ \A y \in Executions \ {x} : pc'[y] = pc[y]
        BY <1>6, GotoOK DEF IInv, Labels
    <2>2. /\ attempts' \in [Executions -> [Keys -> PreviewState]]
          /\ attempts'[x][q] = Snapped(s)
          /\ \A j \in Keys \ {q} : attempts'[x][j] = attempts[x][j]
          /\ \A y \in Executions \ {x} : attempts'[y] = attempts[y]
        BY <1>4, <1>6, AttemptsExcept DEF IInv
    <2>3. TypeOK'
        BY <1>4, <1>5, <1>6, <2>1, <2>2 DEF IInv, TypeOK, Labels, outcome
    <2>4. Touches(x, q)
        BY <1>4, <1>5, <1>6, <2>1, <2>2 DEF Touches, outcome
    <2>5. /\ \A y \in Executions \ {x} : SameExecution(y)
          /\ \A j \in Keys \ {q} : SameKey(x, j) /\ Kept(x, j)' /\ Closed(x, j)'
          /\ Receipted(x)'
        BY <1>1, <1>6, <2>4, Writing DEF Accepting, outcome
    <2>6. /\ Row(x, q)'.status = "active" /\ Row(x, q)'.seq = s.seq /\ Row(x, q)'.text = s.text
          /\ attempts'[x][q].begun /\ ~attempts'[x][q].ended
          /\ attempts'[x][q].seq = s.seq /\ attempts'[x][q].text = s.text
          /\ attempts'[x][q].snapSeq = s.seq /\ attempts'[x][q].snapLen = Cardinality(s.text)
        BY <1>4, <1>6, <2>2 DEF Row, AttemptId
    <2>7. Kept(x, q)' /\ Closed(x, q)' /\ Phase(x)'
        <3>1. IsFiniteSet(attempts'[x][q].text) /\ Row(x, q)'.seq <= attempts'[x][q].seq
            BY <1>4, <2>6
        <3>2. Kept(x, q)' /\ Closed(x, q)'
            BY <2>6, <3>1 DEF Kept, Closed
        <3>3. Phase(x)'
            BY <1>1, <1>6, <2>1 DEF Phase, Accepting
        <3> QED  BY <3>2, <3>3
    <2>8. ASSUME NEW j \in Keys \ {q} PROVE Current(x, j)'
        <3>1. Level(x, j)
            BY <1>1, <2>8 DEF IInv, Own, Current, Accepting
        <3>2. ~SnapshotDue(attempts[x][j])
            BY <1>1, <1>2, <2>8, <3>1 DEF Level
        <3> QED  BY <1>1, <1>5, <2>1, <2>5, <2>8, <3>1, <3>2, SameAfter
                 DEF Current, Level, SameKey, Row, AttemptId, SnapshotDue
    <2>9. Level(x, q)
        BY <1>1 DEF IInv, Own, Current, Accepting
    <2>10. After(a)' = {} /\ Later(a)' = {}
        <3>1. \A m \in live : m.attempt = a => m.seq <= s.seq /\ m.seq \in Nat
            BY <2>9 DEF Level, IInv, TypeOK
        <3>2. After(a)' = {}
            BY <1>4, <1>5, <2>6, <3>1 DEF After, AttemptId, Row
        <3> QED  BY <3>2 DEF Later
    <2>11. IsFiniteSet(After(a)') /\ Cardinality(After(a)') = 0
        BY <2>10, FS_EmptySet
    <2>12. ~SnapshotDue(attempts'[x][q])
        BY <1>4, <2>6 DEF SnapshotDue
    <2>13. /\ \A m \in live' : m.attempt = a => m.seq <= attempts'[x][q].seq
           /\ \A n \in Nat : <<x, n>> \in attempts'[x][q].text => n <= taken'[x]
        BY <1>5, <2>6, <2>9 DEF Level
    <2>14. /\ Row(x, q)'.text \cup Later(a)' = attempts'[x][q].text
           /\ Row(x, q)'.text \cap Later(a)' = {}
           /\ attempts'[x][q].snapLen = Cardinality(Row(x, q)'.text)
           /\ Row(x, q)'.seq = attempts'[x][q].snapSeq
        BY <2>6, <2>10
    <2>15. Current(x, q)'
        BY <1>4, <2>1, <2>6, <2>11, <2>12, <2>13, <2>14 DEF Current, Level, AttemptId
    <2> QED  BY <2>3, <2>5, <2>7, <2>8, <2>15, Together DEF Own
<1>7. CASE /\ CallFails(x)
           /\ UNCHANGED manifests \/ manifests' = Stored(a, Snapshot(s))
           /\ \/ Disable(x) /\ Goto(x, "select") /\ UNCHANGED <<ending, outcome>>
              \/ AcceptFails(x) /\ UNCHANGED outcome
           /\ UNCHANGED attempts
    <2>1. /\ manifests' \in [AttemptIds -> Manifest \cup {NoManifest}]
          /\ \A b \in AttemptIds \ {a} : manifests'[b] = manifests[b]
        BY <1>4, <1>7 DEF IInv, TypeOK
    <2>2. Row(x, q)'.status = "active" /\ Row(x, q)'.seq <= s.seq
        BY <1>3, <1>4, <1>7 DEF Row, AttemptId
    <2>3. Kept(x, q)' /\ ~attempts'[x][q].ended
        BY <1>3, <1>4, <1>7, <2>2 DEF Kept
    <2>4. /\ live' \subseteq [attempt : AttemptIds, seq : Nat, delta : SUBSET Deltas]
          /\ attempts' \in [Executions -> [Keys -> PreviewState]]
          /\ UNCHANGED <<receipts, result>>
        BY <1>5, <1>7 DEF IInv, TypeOK, outcome
    <2> QED  BY <1>1, <1>5, <1>7, <2>1, <2>2, <2>3, <2>4, FailOK
<1> QED  BY <1>2, <1>6, <1>7 DEF Checkpoint, CheckpointCall

\* While it closes its previews, an execution accepts nothing.
LEMMA ClosingOK ==
    ASSUME IInv, NEW x \in Executions, NEW q \in Keys,
           pc[x] = "closing", pc' \in [Executions -> Labels],
           \A y \in Executions \ {x} : pc'[y] = pc[y] /\ disabled'[y] = disabled[y],
           pc'[x] \in {"closing", "return", "broken"}, pc'[x] = "return" => disabled'[x],
           disabled' \in [Executions -> BOOLEAN],
           result' \in [Executions -> {"none", "ok", "error", "crashed"}],
           faults' \in 0..MaxFaults,
           UNCHANGED <<policy, part, taken, ending, ctxDone, receipts, live>>,
           manifests' \in [AttemptIds -> Manifest \cup {NoManifest}],
           \A b \in AttemptIds \ {AttemptId(x, q)} : manifests'[b] = manifests[b],
           attempts' \in [Executions -> [Keys -> PreviewState]],
           \A j \in Keys \ {q} : attempts'[x][j] = attempts[x][j],
           \A y \in Executions \ {x} : attempts'[y] = attempts[y],
           Kept(x, q)', Closed(x, q)'
    PROVE  IInv'
<1>1. TypeOK'
    BY DEF IInv, TypeOK, Labels
<1>2. Touches(x, q)
    BY DEF Touches
<1>3. /\ \A y \in Executions \ {x} : SameExecution(y)
      /\ \A j \in Keys \ {q} : SameKey(x, j) /\ Kept(x, j)' /\ Closed(x, j)'
      /\ Receipted(x)'
    BY <1>2, Writing
<1>4. Phase(x)' /\ \A j \in Keys : Current(x, j)'
    BY DEF IInv, Own, Phase, Current, Accepting
<1> QED  BY <1>1, <1>3, <1>4, Together DEF Own

LEMMA CloseSnapshotOK ==
    ASSUME IInv, NEW x \in Executions, NEW q \in Keys, CloseSnapshot(x, q)
    PROVE  IInv'
<1> DEFINE s == attempts[x][q]
           a == AttemptId(x, q)
<1>1. pc[x] = "closing" /\ s.begun /\ ~s.ended
    BY DEF CloseSnapshot, Turn, Open, Begun
<1>2. Row(x, q).status = "active" /\ Row(x, q).seq <= s.seq
    BY <1>1, OpenIsActive
<1>3. /\ Stored(a, Snapshot(s)) \in [AttemptIds -> Manifest \cup {NoManifest}]
      /\ \A b \in AttemptIds \ {a} : Stored(a, Snapshot(s))[b] = manifests[b]
      /\ Stored(a, Snapshot(s))[a] = Snapshot(s)
      /\ Snapshot(s).status = "active" /\ Snapshot(s).seq = s.seq /\ Snapshot(s).text = s.text
      /\ Snapped(s) \in PreviewState
      /\ Snapped(s).begun /\ ~Snapped(s).ended
      /\ Snapped(s).seq = s.seq /\ Snapped(s).text = s.text
      /\ s.seq \in Nat /\ IsFiniteSet(s.text)
    BY <1>1, SnapshotOK
<1>4. UNCHANGED <<policy, part, taken, ctxDone, live>>
    BY DEF CloseSnapshot
<1>5. CASE /\ manifests' = Stored(a, Snapshot(s))
           /\ attempts' = [attempts EXCEPT ![x][q] = Snapped(s)]
           /\ Goto(x, "closing")
           /\ UNCHANGED <<disabled, ending, faults, outcome>>
    <2>1. /\ pc' \in [Executions -> Labels] /\ pc'[x] = "closing"
          /\ \A y \in Executions \ {x} : pc'[y] = pc[y]
        BY <1>5, GotoOK DEF IInv, Labels
    <2>2. /\ attempts' \in [Executions -> [Keys -> PreviewState]]
          /\ attempts'[x][q] = Snapped(s)
          /\ \A j \in Keys \ {q} : attempts'[x][j] = attempts[x][j]
          /\ \A y \in Executions \ {x} : attempts'[y] = attempts[y]
        BY <1>3, <1>5, AttemptsExcept DEF IInv
    <2>3. /\ Row(x, q)'.status = "active" /\ Row(x, q)'.seq = s.seq
          /\ attempts'[x][q].begun /\ ~attempts'[x][q].ended
          /\ attempts'[x][q].seq = s.seq /\ attempts'[x][q].text = s.text
        BY <1>3, <1>5, <2>2 DEF Row, AttemptId
    <2>4. Kept(x, q)' /\ Closed(x, q)'
        BY <1>3, <2>3 DEF Kept, Closed
    <2>5. /\ result' = result /\ receipts' = receipts /\ faults' = faults /\ disabled' = disabled
          /\ ending' = ending
          /\ result \in [Executions -> {"none", "ok", "error", "crashed"}] /\ faults \in 0..MaxFaults
          /\ disabled \in [Executions -> BOOLEAN]
        BY <1>5 DEF IInv, TypeOK, outcome
    <2>6. /\ manifests' \in [AttemptIds -> Manifest \cup {NoManifest}]
          /\ \A b \in AttemptIds \ {a} : manifests'[b] = manifests[b]
        BY <1>3, <1>5
    <2> QED  BY <1>1, <1>4, <2>1, <2>2, <2>4, <2>5, <2>6, ClosingOK
<1>6. CASE /\ CallFails(x)
           /\ UNCHANGED manifests \/ manifests' = Stored(a, Snapshot(s))
           /\ \/ Disable(x) /\ Goto(x, "closing") /\ UNCHANGED <<ending, outcome>>
              \/ /\ Goto(x, "broken")
                 /\ result' = [result EXCEPT ![x] = "error"]
                 /\ UNCHANGED <<disabled, ending, receipts>>
           /\ UNCHANGED attempts
    <2>1. /\ pc' \in [Executions -> Labels] /\ pc'[x] \in {"closing", "broken"}
          /\ \A y \in Executions \ {x} : pc'[y] = pc[y] /\ disabled'[y] = disabled[y]
          /\ disabled' \in [Executions -> BOOLEAN]
          /\ result' \in [Executions -> {"none", "ok", "error", "crashed"}]
          /\ UNCHANGED <<ending, receipts>>
        BY <1>6, GotoOK, DisableOK DEF IInv, TypeOK, Labels, outcome
    <2>2. Row(x, q)'.status = "active" /\ Row(x, q)'.seq <= s.seq
        BY <1>2, <1>3, <1>6 DEF Row, AttemptId
    <2>3. Kept(x, q)' /\ Closed(x, q)'
        BY <1>1, <1>3, <1>6, <2>2 DEF Kept, Closed
    <2>4. /\ manifests' \in [AttemptIds -> Manifest \cup {NoManifest}]
          /\ \A b \in AttemptIds \ {a} : manifests'[b] = manifests[b]
          /\ attempts' \in [Executions -> [Keys -> PreviewState]]
        BY <1>3, <1>6 DEF IInv, TypeOK
    <2> QED  BY <1>1, <1>4, <1>6, <2>1, <2>3, <2>4, CallFailsOK, ClosingOK DEF IInv
<1> QED  BY <1>5, <1>6 DEF CloseSnapshot, CheckpointCall

LEMMA CloseEndOK ==
    ASSUME IInv, NEW x \in Executions, NEW q \in Keys, CloseEnd(x, q)
    PROVE  IInv'
<1> DEFINE s == attempts[x][q]
           a == AttemptId(x, q)
           row == [status |-> ending[x], seq |-> s.seq + 1, text |-> s.text]
<1>1. pc[x] = "closing" /\ s.begun /\ ~s.ended /\ ending[x] # "none"
    BY DEF CloseEnd, Turn, Open, Begun, IInv, Own, Phase
<1>2. s \in PreviewState /\ IsFiniteSet(s.text) /\ s.seq \in Nat /\ s.text \in SUBSET Deltas
    <2>1. s \in PreviewState /\ IsFiniteSet(s.text)
        BY DEF IInv, TypeOK, Own, Kept
    <2> QED  BY <2>1, StateFields
<1>3. Row(x, q).status = "active" /\ Row(x, q).seq <= s.seq /\ Row(x, q).seq \in Nat
    <2>1. Row(x, q) \in Manifest \cup {NoManifest}
        BY Ids DEF IInv, TypeOK, Row
    <2>2. Row(x, q).seq \in Nat
        BY <2>1 DEF Manifest, NoManifest
    <2> QED  BY <1>1, <2>2, OpenIsActive
<1>4. row \in Manifest /\ row.seq = s.seq + 1 /\ row.status # "active"
    <2>1. ending[x] \in {"succeeded", "failed", "canceled"}
        BY <1>1 DEF IInv, TypeOK
    <2> QED  BY <1>2, <2>1 DEF Manifest
<1>5. /\ Stored(a, row) \in [AttemptIds -> Manifest \cup {NoManifest}]
      /\ \A b \in AttemptIds \ {a} : Stored(a, row)[b] = manifests[b]
      /\ Stored(a, row)[a] = row
    <2>1. a \in AttemptIds
        BY Ids
    <2>2. manifests[a].status = "active" /\ manifests[a].seq <= s.seq /\ manifests[a].seq \in Nat
        BY <1>3 DEF Row
    <2>3. manifests[a].seq < row.seq
        BY <1>2, <1>4, <2>2
    <2> QED  BY <1>4, <2>1, <2>2, <2>3, StoredOK DEF IInv
<1>6. UNCHANGED <<policy, part, taken, ending, ctxDone, live>>
    BY DEF CloseEnd
<1>7. CASE /\ manifests' = Stored(a, row)
           /\ attempts' = [attempts EXCEPT ![x][q] = EndedState(s)]
           /\ Goto(x, AfterEnd(x))
           /\ UNCHANGED <<disabled, faults, outcome>>
    <2>1. /\ pc' \in [Executions -> Labels] /\ pc'[x] = "closing"
          /\ \A y \in Executions \ {x} : pc'[y] = pc[y]
        BY <1>7, GotoOK DEF IInv, Labels, AfterEnd
    <2>2. /\ EndedState(s) \in PreviewState /\ EndedState(s).begun /\ EndedState(s).ended
          /\ EndedState(s).seq = s.seq + 1 /\ EndedState(s).text = s.text
        <3>1. s.begun \in BOOLEAN /\ s.snapSeq \in Nat /\ s.snapLen \in Nat /\ s.seq + 1 \in Nat
            BY <1>2, StateFields
        <3> HIDE DEF s
        <3> QED  BY <1>1, <1>2, <3>1 DEF EndedState, PreviewState
    <2>3. /\ attempts' \in [Executions -> [Keys -> PreviewState]]
          /\ attempts'[x][q] = EndedState(s)
          /\ \A j \in Keys \ {q} : attempts'[x][j] = attempts[x][j]
          /\ \A y \in Executions \ {x} : attempts'[y] = attempts[y]
        BY <1>7, <2>2, AttemptsExcept DEF IInv
    <2>4. Row(x, q)' = row
        BY <1>5, <1>7 DEF Row, AttemptId
    <2>5. Row(x, q)'.status # "active" /\ Row(x, q)'.status # "absent"
        BY <1>4, <2>4 DEF Manifest
    <2>6. Kept(x, q)'
        BY <1>2, <2>2, <2>3, <2>5 DEF Kept
    <2>7. Closed(x, q)'
        BY <1>1, <1>6, <2>2, <2>3, <2>4 DEF Closed
    <2>8. /\ result' = result /\ receipts' = receipts /\ faults' = faults /\ disabled' = disabled
          /\ result \in [Executions -> {"none", "ok", "error", "crashed"}] /\ faults \in 0..MaxFaults
          /\ disabled \in [Executions -> BOOLEAN]
        BY <1>7 DEF IInv, TypeOK, outcome
    <2>9. /\ manifests' \in [AttemptIds -> Manifest \cup {NoManifest}]
          /\ \A b \in AttemptIds \ {a} : manifests'[b] = manifests[b]
        BY <1>5, <1>7
    <2> QED  BY <1>1, <1>6, <2>1, <2>3, <2>6, <2>7, <2>8, <2>9, ClosingOK
<1>8. CASE /\ CallFails(x)
           /\ UNCHANGED manifests \/ manifests' = Stored(a, row)
           /\ attempts' = [attempts EXCEPT ![x][q].seq = s.seq + 1]
           /\ \/ Disable(x) /\ Goto(x, "return") /\ UNCHANGED outcome
              \/ /\ Goto(x, "broken")
                 /\ result' = [result EXCEPT ![x] = "error"]
                 /\ UNCHANGED <<disabled, receipts>>
    <2>1. /\ pc' \in [Executions -> Labels] /\ pc'[x] \in {"return", "broken"}
          /\ pc'[x] = "return" => disabled'[x]
          /\ \A y \in Executions \ {x} : pc'[y] = pc[y] /\ disabled'[y] = disabled[y]
          /\ disabled' \in [Executions -> BOOLEAN]
          /\ result' \in [Executions -> {"none", "ok", "error", "crashed"}]
          /\ UNCHANGED receipts
        BY <1>8, GotoOK, DisableOK DEF IInv, TypeOK, Labels, outcome
    <2> DEFINE s1 == [s EXCEPT !.seq = s.seq + 1]
    <2>2. /\ s1 \in PreviewState /\ s1.begun /\ ~s1.ended
          /\ s1.seq = s.seq + 1 /\ s1.text = s.text
        BY <1>1, <1>2 DEF PreviewState
    <2>3. attempts' = [attempts EXCEPT ![x][q] = s1]
        <3>1. attempts' = [attempts EXCEPT ![x] = [attempts[x] EXCEPT ![q] = s1]]
            BY <1>8
        <3> QED  BY <3>1
    <2>4. /\ attempts' \in [Executions -> [Keys -> PreviewState]]
          /\ attempts'[x][q] = s1
          /\ \A j \in Keys \ {q} : attempts'[x][j] = attempts[x][j]
          /\ \A y \in Executions \ {x} : attempts'[y] = attempts[y]
        BY <2>2, <2>3, AttemptsExcept DEF IInv
    <2>5. /\ manifests' \in [AttemptIds -> Manifest \cup {NoManifest}]
          /\ \A b \in AttemptIds \ {a} : manifests'[b] = manifests[b]
        BY <1>5, <1>8 DEF IInv, TypeOK
    <2>6. Row(x, q)' = Row(x, q) \/ Row(x, q)' = row
        BY <1>5, <1>8 DEF Row, AttemptId
    <2>7. /\ Row(x, q)'.status # "absent"
          /\ Row(x, q)'.status = "active" => Row(x, q)'.seq <= s.seq + 1
        BY <1>2, <1>3, <1>4, <2>6 DEF Manifest
    <2>8. Kept(x, q)' /\ Closed(x, q)'
        <3>1. /\ attempts'[x][q].begun /\ ~attempts'[x][q].ended
              /\ attempts'[x][q].seq = s.seq + 1 /\ attempts'[x][q].text = s.text
            BY <2>2, <2>4
        <3>2. IsFiniteSet(attempts'[x][q].text)
            BY <1>2, <3>1
        <3>3. Kept(x, q)'
            BY <2>7, <3>1, <3>2 DEF Kept
        <3>4. Closed(x, q)'
            BY <2>1, <3>1 DEF Closed, Accepting
        <3> QED  BY <3>3, <3>4
    <2> QED  BY <1>1, <1>6, <1>8, <2>1, <2>4, <2>5, <2>8, CallFailsOK, ClosingOK DEF IInv
<1> QED  BY <1>7, <1>8 DEF CloseEnd

-----------------------------------------------------------------------------
(* The theorems.                                                           *)

LEMMA IInvInit == Init => IInv
<1> SUFFICES ASSUME Init PROVE IInv
    OBVIOUS
<1>1. NoState \in PreviewState /\ ~NoState.begun /\ ~NoState.ended /\ NoState.text = {}
      /\ NoState.seq = 0 /\ NoState.snapSeq = 0 /\ NoState.snapLen = 0
    BY DEF NoState, PreviewState
<1>2. IsFiniteSet({}) /\ Cardinality({}) = 0
    BY FS_EmptySet
<1>3. TypeOK
    BY <1>1 DEF Init, TypeOK
<1>4. \A x \in Executions, k \in Keys : attempts[x][k] = NoState /\ Row(x, k) = NoManifest
    BY Ids DEF Init, Row
<1>5. \A x \in Executions : pc[x] = "scheduled" /\ ending[x] = "none" /\ receipts[x] = {}
    BY DEF Init
<1>6. live = {}
    BY DEF Init
<1>7. ASSUME NEW x \in Executions PROVE Phase(x) /\ Receipted(x)
    BY <1>5, <1>7 DEF Phase, Receipted, Accepting
<1>8. ASSUME NEW x \in Executions, NEW k \in Keys PROVE Kept(x, k) /\ Closed(x, k) /\ Current(x, k)
    <2>1. /\ attempts[x][k] = NoState /\ Row(x, k).status = "absent"
          /\ Row(x, k).seq = 0 /\ Row(x, k).text = {}
        BY <1>4, <1>8 DEF NoManifest
    <2>2. IsFiniteSet(attempts[x][k].text) /\ Cardinality(attempts[x][k].text) = 0
        BY <1>1, <1>2, <2>1
    <2>3. Kept(x, k) /\ Closed(x, k)
        BY <1>1, <1>6, <2>1, <2>2 DEF Kept, Closed
    <2>4. ~SnapshotDue(attempts[x][k])
        BY <1>1, <2>1, <2>2 DEF SnapshotDue
    <2>5. Current(x, k)
        BY <1>1, <1>5, <1>6, <1>8, <2>1, <2>4 DEF Current, Level
    <2> QED  BY <2>3, <2>5
<1> QED  BY <1>3, <1>7, <1>8 DEF IInv, Own

LEMMA IInvStutter == IInv /\ UNCHANGED vars => IInv'
<1> SUFFICES ASSUME IInv, UNCHANGED vars PROVE IInv'
    OBVIOUS
<1>1. UNCHANGED <<policy, pc, part, taken, attempts, disabled, ending, ctxDone, receipts, result,
                  manifests, live, faults>>
    BY DEF vars, relay, outcome, store
<1>2. TypeOK'
    BY <1>1 DEF IInv, TypeOK
<1>3. \A x \in Executions : SameExecution(x)
    BY <1>1 DEF SameExecution, SameKey
<1> QED  BY <1>2, <1>3, OwnSame DEF IInv

LEMMA IInvNext == IInv /\ [Next]_vars => IInv'
<1> SUFFICES ASSUME IInv, [Next]_vars PROVE IInv'
    OBVIOUS
<1>1. ASSUME NEW x \in Executions, Step(x) PROVE IInv'
    <2>1. ASSUME NEW p \in Parts[x], Receive(x, p) PROVE IInv'
        BY <1>1, <2>1, ReceiveOK
    <2>2. CASE Begin(x) \/ Chunk(x) \/ Checkpoint(x)
        BY <1>1, <2>2, BeginOK, ChunkOK, CheckpointOK
    <2>3. CASE StreamCloses(x) \/ ProviderFails(x) \/ SeesContextDone(x)
        BY <1>1, <2>3, FinishOK DEF StreamCloses, ProviderFails, SeesContextDone
    <2>4. ASSUME NEW k \in Keys, CloseSnapshot(x, k) \/ CloseEnd(x, k) PROVE IInv'
        BY <1>1, <2>4, CloseSnapshotOK, CloseEndOK
    <2>5. CASE Return(x)
        BY <1>1, <2>5, ReturnOK
    <2> QED  BY <1>1, <2>1, <2>2, <2>3, <2>4, <2>5 DEF Step
<1>2. ASSUME NEW x \in Executions, Start(x) \/ ContextDone(x) \/ Crash(x) PROVE IInv'
    BY <1>2, StartOK, ContextDoneOK, CrashOK
<1>3. CASE Settled \/ UNCHANGED vars
    BY <1>3, IInvStutter DEF Settled
<1> QED  BY <1>1, <1>2, <1>3 DEF Next

\* The invariant of the relay: what its step says of the execution, that receipts
\* are of ended attempts, and how far each manifest is behind its text.
THEOREM RelayInvariant == Spec => []IInv
BY IInvInit, IInvNext, PTL DEF Spec

\* Every variable of the relay and its executions keeps its type.
THEOREM RelayTypes == Spec => []TypeOK
<1>1. IInv => TypeOK
    BY DEF IInv
<1> QED  BY <1>1, RelayInvariant, PTL

\* A receipt names a succeeded manifest with its sequence and its text: it is of
\* an attempt that ended so, and nothing writes about an ended attempt again.
THEOREM ReceiptsAreStored == Spec => []ReceiptIsStored
<1>1. IInv => ReceiptIsStored
    <2> SUFFICES ASSUME IInv, NEW x \in Executions, NEW r \in receipts[x]
                 PROVE  manifests[r.attempt] = [status |-> "succeeded", seq |-> r.seq, text |-> r.text]
        BY DEF ReceiptIsStored
    <2>1. ending[x] = "succeeded" /\ \E k \in Keys : attempts[x][k].ended /\ r = Receipt(x, k)
        BY DEF IInv, Own, Receipted
    <2>2. PICK k \in Keys : attempts[x][k].ended /\ r = Receipt(x, k)
        BY <2>1
    <2>3. Row(x, k) = [status |-> ending[x], seq |-> attempts[x][k].seq, text |-> attempts[x][k].text]
        BY <2>2 DEF IInv, Own, Closed
    <2> QED  BY <2>1, <2>2, <2>3 DEF Row, Receipt
<1> QED  BY <1>1, RelayInvariant, PTL

\* Manifest and later chunks together are the text, whenever the relay waits for
\* its next part: a late joiner loses nothing and renders nothing twice.
THEOREM LateJoiners == Spec => []LateJoinerCatchesUp
<1>1. IInv => LateJoinerCatchesUp
    <2> SUFFICES ASSUME IInv, NEW x \in Executions, pc[x] = "select", ~disabled[x], NEW k \in Begun(x)
                 PROVE  /\ manifests[AttemptId(x, k)].text \cup Later(AttemptId(x, k)) = attempts[x][k].text
                        /\ manifests[AttemptId(x, k)].text \cap Later(AttemptId(x, k)) = {}
        BY DEF LateJoinerCatchesUp
    <2>1. k \in Keys /\ attempts[x][k].begun
        BY DEF Begun
    <2>2. Level(x, k)
        BY <2>1 DEF IInv, Own, Current, Accepting
    <2> QED  BY <2>1, <2>2 DEF Level, Row
<1> QED  BY <1>1, RelayInvariant, PTL

\* Between parts the manifest is less than a snapshot interval behind, in chunks
\* and in characters, for every interval and every interleaving of lanes.
THEOREM ManifestLag == Spec => []ManifestLagBounded
<1>1. IInv => ManifestLagBounded
    <2> SUFFICES ASSUME IInv, NEW x \in Executions, pc[x] = "select", ~disabled[x], NEW k \in Begun(x)
                 PROVE  /\ Cardinality(After(AttemptId(x, k))) < SnapshotEveryChunks
                        /\ Cardinality(Later(AttemptId(x, k))) < SnapshotEveryCharacters
        BY DEF ManifestLagBounded
    <2> DEFINE s == attempts[x][k]
               later == Later(AttemptId(x, k))
               text == Row(x, k).text
    <2>1. k \in Keys /\ s.begun
        BY DEF Begun
    <2>2. Level(x, k)
        BY <2>1 DEF IInv, Own, Current, Accepting
    <2>3. IsFiniteSet(s.text) /\ s \in PreviewState
        BY <2>1 DEF IInv, TypeOK, Own, Kept
    <2>4. /\ s.snapLen = Cardinality(text) /\ text \cup later = s.text /\ text \cap later = {}
          /\ IsFiniteSet(After(AttemptId(x, k))) /\ Cardinality(After(AttemptId(x, k))) <= s.seq - s.snapSeq
          /\ ~SnapshotDue(s)
        BY <2>1, <2>2 DEF Level
    <2>5. /\ s.seq - s.snapSeq < SnapshotEveryChunks
          /\ Cardinality(s.text) - s.snapLen < SnapshotEveryCharacters
          /\ s.seq \in Nat /\ s.snapSeq \in Nat /\ s.snapLen \in Nat
          /\ Cardinality(s.text) \in Nat /\ Cardinality(After(AttemptId(x, k))) \in Nat
        BY <2>3, <2>4, StateFields, FS_CardinalityType DEF SnapshotDue
    <2>6. IsFiniteSet(text) /\ IsFiniteSet(later)
        <3>1. text \in SUBSET s.text /\ later \in SUBSET s.text
            BY <2>4
        <3> QED  BY <2>3, <3>1, FS_Subset
    <2>7. Cardinality(s.text) = Cardinality(text) + Cardinality(later)
        <3>1. Cardinality(text \cup later) = Cardinality(text) + Cardinality(later) - Cardinality(text \cap later)
            BY <2>6, FS_Union
        <3>2. Cardinality(text \cap later) = 0
            BY <2>4, FS_EmptySet
        <3>3. Cardinality(text) \in Nat /\ Cardinality(later) \in Nat
            BY <2>6, FS_CardinalityType
        <3>4. Cardinality(s.text) = Cardinality(text \cup later)
            BY <2>4
        <3> HIDE DEF text, later, s
        <3> QED  BY <3>1, <3>2, <3>3, <3>4
    <2>8. Cardinality(later) \in Nat
        BY <2>6, FS_CardinalityType
    <2> QED  BY <2>4, <2>5, <2>7, <2>8
<1> QED  BY <1>1, RelayInvariant, PTL

\* An execution whose relay could be completed closed every lane it opened, with
\* its outcome and the whole text.
THEOREM CompletedAreClosed == Spec => []CompletedIsClosed
<1>1. IInv => CompletedIsClosed
    <2> SUFFICES ASSUME IInv, NEW x \in Executions, pc[x] = "done", ~disabled[x], NEW k \in Begun(x)
                 PROVE  /\ manifests[AttemptId(x, k)].status = ending[x]
                        /\ manifests[AttemptId(x, k)].text = attempts[x][k].text
        BY DEF CompletedIsClosed
    <2>1. k \in Keys /\ attempts[x][k].ended
        BY DEF IInv, Own, Phase, Open, Begun
    <2>2. Row(x, k) = [status |-> ending[x], seq |-> attempts[x][k].seq, text |-> attempts[x][k].text]
        BY <2>1 DEF IInv, Own, Closed
    <2> QED  BY <2>2 DEF Row
<1> QED  BY <1>1, RelayInvariant, PTL
-----------------------------------------------------------------------------
(* The order of what a relay submits, which module Connector assumes of its *)
(* callers (the first conjunct of MayPreview).                             *)

\* The row that the next connector call of an execution puts for a preview.
Submits(x, k) ==
    LET s == attempts[x][k] IN
    IF pc[x] = "begin" /\ part[x].key = k
        THEN {[status |-> "active", seq |-> 0, text |-> {}]}
    ELSE IF \/ pc[x] = "checkpoint" /\ part[x].key = k
            \/ pc[x] = "closing" /\ Turn(x, k) /\ Unsaved(x, k)
        THEN {Snapshot(s)}
    ELSE IF pc[x] = "closing" /\ Turn(x, k)
        THEN {[status |-> ending[x], seq |-> s.seq + 1, text |-> s.text]}
    ELSE {}

SubmitsInOrder ==
    \A x \in Executions, k \in Keys : \A row \in Submits(x, k) :
        \/ Row(x, k).status = "absent"
        \/ Row(x, k).status = "active" /\ Row(x, k).seq < row.seq
        \/ Row(x, k) = row

\* A manifest at the relay's sequence has the relay's text.
Same(x, k) ==
    Row(x, k).status = "active" /\ Row(x, k).seq = attempts[x][k].seq =>
        Row(x, k).text = attempts[x][k].text

SameText == \A x \in Executions, k \in Keys : Same(x, k)

\* What a step does to one preview, of execution x and key q, and to no other.
Writes(x, q) ==
    /\ \A y \in Executions \ {x} : attempts'[y] = attempts[y]
    /\ \A j \in Keys \ {q} : attempts'[x][j] = attempts[x][j]
    /\ \A b \in AttemptIds \ {AttemptId(x, q)} : manifests'[b] = manifests[b]
    /\ Row(x, q)' \in {Row(x, q)} \cup Submits(x, q)
    /\ Same(x, q)'

Effect == SameText' /\ \A x \in Executions, k \in Keys : Row(x, k)' \in {Row(x, k)} \cup Submits(x, k)

LEMMA WritesOne ==
    ASSUME SameText, NEW x \in Executions, NEW q \in Keys, Writes(x, q)
    PROVE  Effect
<1>1. ASSUME NEW y \in Executions, NEW k \in Keys
      PROVE  Same(y, k)' /\ Row(y, k)' \in {Row(y, k)} \cup Submits(y, k)
    <2>1. CASE y = x /\ k = q
        BY <2>1 DEF Writes
    <2>2. CASE y # x \/ k # q
        <3>1. attempts'[y][k] = attempts[y][k]
            BY <2>2 DEF Writes
        <3>2. AttemptId(y, k) \in AttemptIds \ {AttemptId(x, q)}
            BY <2>2, Ids
        <3>3. Row(y, k)' = Row(y, k)
            BY <3>2 DEF Writes, Row, AttemptId
        <3>4. Same(y, k)
            BY DEF SameText
        <3> QED  BY <3>1, <3>3, <3>4 DEF Same
    <2> QED  BY <2>1, <2>2
<1> QED  BY <1>1 DEF Effect, SameText

LEMMA WritesNone ==
    ASSUME SameText, UNCHANGED <<attempts, manifests>>
    PROVE  Effect
<1>1. ASSUME NEW y \in Executions, NEW k \in Keys
      PROVE  Same(y, k)' /\ Row(y, k)' \in {Row(y, k)} \cup Submits(y, k)
    <2>1. Row(y, k)' = Row(y, k)
        BY DEF Row, AttemptId
    <2>2. Same(y, k)
        BY DEF SameText
    <2> QED  BY <2>1, <2>2 DEF Same
<1> QED  BY <1>1 DEF Effect, SameText

LEMMA BeginWrites ==
    ASSUME IInv, SameText, NEW x \in Executions, Begin(x)
    PROVE  Effect
<1> DEFINE row == [status |-> "active", seq |-> 0, text |-> {}]
<1>1. pc[x] = "begin" /\ part[x].key \in Keys /\ ~attempts[x][part[x].key].begun
    BY DEF Begin, IInv, Own, Phase, StreamPart
<1>2. PICK q \in Keys : q = part[x].key
    BY <1>1
<1>3. attempts[x][q] = NoState /\ Row(x, q).seq = 0 /\ Row(x, q).text = {}
    BY <1>1, <1>2 DEF IInv, Own, Kept
<1>4. row \in Manifest /\ AttemptId(x, q) \in AttemptIds
    BY Ids DEF Manifest
<1>5. manifests' = manifests \/ manifests' = Stored(AttemptId(x, q), row)
    BY <1>2 DEF Begin
<1>6. /\ \A b \in AttemptIds \ {AttemptId(x, q)} : manifests'[b] = manifests[b]
      /\ Row(x, q)' \in {Row(x, q), row}
    BY <1>4, <1>5, StoredOK DEF IInv, TypeOK, Row, AttemptId
<1>7. Row(x, q)'.text = {}
    BY <1>3, <1>6
<1>8. row \in Submits(x, q)
    BY <1>1, <1>2 DEF Submits
<1>9. CASE attempts' = [attempts EXCEPT ![x][q].begun = TRUE]
    <2>1. /\ \A j \in Keys \ {q} : attempts'[x][j] = attempts[x][j]
          /\ \A y \in Executions \ {x} : attempts'[y] = attempts[y]
          /\ attempts'[x][q].text = {}
        <3>1. TypeOK /\ attempts[x][q] = NoState
            BY <1>3 DEF IInv
        <3> QED  BY <1>9, <3>1, BegunExcept
    <2>2. Same(x, q)'
        BY <1>7, <2>1 DEF Same
    <2> QED  BY <1>6, <1>8, <2>1, <2>2, WritesOne DEF Writes
<1>10. CASE attempts' = attempts
    <2>1. Same(x, q)'
        BY <1>3, <1>7, <1>10 DEF Same, NoState
    <2> QED  BY <1>6, <1>8, <1>10, <2>1, WritesOne DEF Writes
<1> QED  BY <1>2, <1>9, <1>10 DEF Begin

LEMMA ChunkWrites ==
    ASSUME IInv, SameText, NEW x \in Executions, Chunk(x)
    PROVE  Effect
<1>1. pc[x] = "chunk" /\ part[x].key \in Keys /\ attempts[x][part[x].key].begun
    BY DEF Chunk, IInv, Own, Phase, StreamPart
<1>2. PICK q \in Keys : q = part[x].key
    BY <1>1
<1>3. /\ Extended(x) \in PreviewState /\ Extended(x).seq = attempts[x][q].seq + 1
      /\ attempts[x][q].seq \in Nat
    BY <1>2, ExtendedOK, StateFields DEF IInv, TypeOK
<1>4. Row(x, q).seq <= attempts[x][q].seq /\ Row(x, q).seq \in Nat
    <2>1. Row(x, q).seq <= attempts[x][q].seq
        BY <1>1, <1>2, AcceptingIsOpen, OpenIsActive DEF Accepting
    <2>2. Row(x, q) \in Manifest \cup {NoManifest}
        BY Ids DEF IInv, TypeOK, Row
    <2> QED  BY <2>1, <2>2 DEF Manifest, NoManifest
<1>5. /\ attempts'[x][q] = Extended(x)
      /\ \A j \in Keys \ {q} : attempts'[x][j] = attempts[x][j]
      /\ \A y \in Executions \ {x} : attempts'[y] = attempts[y]
    <2>1. attempts' = [attempts EXCEPT ![x][q] = Extended(x)]
        BY <1>2 DEF Chunk
    <2>2. TypeOK /\ Extended(x) \in PreviewState
        BY <1>3 DEF IInv
    <2> QED  BY <2>1, <2>2, AttemptsExcept
<1>6. manifests' = manifests /\ Row(x, q)' = Row(x, q)
    BY DEF Chunk, Row, AttemptId
<1>7. Row(x, q)'.seq # attempts'[x][q].seq
    BY <1>3, <1>4, <1>5, <1>6
<1>8. Same(x, q)'
    BY <1>7 DEF Same
<1> QED  BY <1>5, <1>6, <1>8, WritesOne DEF Writes

\* A checkpoint of an open attempt, whose row is what it submits.
LEMMA CheckpointWrites ==
    ASSUME IInv, SameText, NEW x \in Executions, NEW q \in Keys, NEW label,
           pc[x] \in Accepting \cup {"closing"}, attempts[x][q].begun, ~attempts[x][q].ended,
           Snapshot(attempts[x][q]) \in Submits(x, q), CheckpointCall(x, q, label)
    PROVE  Effect
<1> DEFINE s == attempts[x][q]
           stored == Stored(AttemptId(x, q), Snapshot(s))
<1>1. /\ \A b \in AttemptIds \ {AttemptId(x, q)} : stored[b] = manifests[b]
      /\ stored[AttemptId(x, q)] = Snapshot(s)
      /\ Snapshot(s).text = s.text
      /\ Snapped(s) \in PreviewState /\ Snapped(s).seq = s.seq /\ Snapped(s).text = s.text
    BY SnapshotOK
<1>2. manifests' = manifests \/ manifests' = stored
    BY DEF CheckpointCall
<1>3. /\ \A b \in AttemptIds \ {AttemptId(x, q)} : manifests'[b] = manifests[b]
      /\ Row(x, q)' \in {Row(x, q), Snapshot(s)}
    BY <1>1, <1>2 DEF Row, AttemptId
<1>4. /\ \A j \in Keys \ {q} : attempts'[x][j] = attempts[x][j]
      /\ \A y \in Executions \ {x} : attempts'[y] = attempts[y]
      /\ attempts'[x][q].seq = s.seq /\ attempts'[x][q].text = s.text
    <2>1. CASE attempts' = [attempts EXCEPT ![x][q] = Snapped(s)]
        BY <1>1, <2>1, AttemptsExcept DEF IInv
    <2>2. CASE attempts' = attempts
        BY <2>2
    <2> QED  BY <2>1, <2>2 DEF CheckpointCall
<1>5. Same(x, q)'
    <2>1. Same(x, q)
        BY DEF SameText
    <2>2. CASE Row(x, q)' = Row(x, q)
        BY <1>4, <2>1, <2>2 DEF Same
    <2>3. CASE Row(x, q)' = Snapshot(s)
        BY <1>1, <1>4, <2>3 DEF Same
    <2> QED  BY <1>3, <2>2, <2>3
<1> QED  BY <1>3, <1>4, <1>5, WritesOne DEF Writes

LEMMA ClosingWrites ==
    ASSUME IInv, SameText, NEW x \in Executions, NEW q \in Keys, CloseEnd(x, q)
    PROVE  Effect
<1> DEFINE s == attempts[x][q]
           row == [status |-> ending[x], seq |-> s.seq + 1, text |-> s.text]
<1>1. pc[x] = "closing" /\ s.begun /\ ~s.ended /\ ending[x] # "none" /\ Turn(x, q) /\ ~Unsaved(x, q)
    BY DEF CloseEnd, Turn, Open, Begun, IInv, Own, Phase
<1>2. s \in PreviewState /\ s.seq \in Nat /\ s.text \in SUBSET Deltas
    <2>1. s \in PreviewState
        BY DEF IInv, TypeOK
    <2> QED  BY <2>1, StateFields
<1>3. Row(x, q).seq <= s.seq /\ Row(x, q).seq \in Nat
    <2>1. Row(x, q) \in Manifest \cup {NoManifest}
        BY Ids DEF IInv, TypeOK, Row
    <2>2. Row(x, q).seq \in Nat
        BY <2>1 DEF Manifest, NoManifest
    <2> QED  BY <1>1, <2>2, OpenIsActive
<1>4. row \in Manifest /\ row.text = s.text
    <2>1. ending[x] \in {"succeeded", "failed", "canceled"}
        BY <1>1 DEF IInv, TypeOK
    <2> QED  BY <1>2, <2>1 DEF Manifest
<1>5. manifests' = manifests \/ manifests' = Stored(AttemptId(x, q), row)
    BY DEF CloseEnd
<1>6. /\ \A b \in AttemptIds \ {AttemptId(x, q)} : manifests'[b] = manifests[b]
      /\ Row(x, q)' \in {Row(x, q), row}
    <2>1. AttemptId(x, q) \in AttemptIds
        BY Ids
    <2> QED  BY <1>4, <1>5, <2>1, StoredOK DEF IInv, Row, AttemptId
<1>7. row \in Submits(x, q)
    BY <1>1 DEF Submits
<1>8. \E t \in PreviewState : /\ attempts' = [attempts EXCEPT ![x][q] = t]
                              /\ t.seq = s.seq + 1 /\ t.text = s.text
    <2>1. s.begun \in BOOLEAN /\ s.ended \in BOOLEAN /\ s.snapSeq \in Nat /\ s.snapLen \in Nat
          /\ s.seq + 1 \in Nat
        BY <1>2, StateFields
    <2>2. CASE attempts' = [attempts EXCEPT ![x][q] = EndedState(s)]
        <3> HIDE DEF s
        <3>1. EndedState(s) \in PreviewState /\ EndedState(s).seq = s.seq + 1 /\ EndedState(s).text = s.text
            BY <1>2, <2>1 DEF EndedState, PreviewState
        <3> QED  BY <2>2, <3>1
    <2>3. CASE attempts' = [attempts EXCEPT ![x][q].seq = s.seq + 1]
        <3> DEFINE t == [s EXCEPT !.seq = s.seq + 1]
        <3>1. attempts' = [attempts EXCEPT ![x][q] = t]
            BY <2>3
        <3> HIDE DEF s
        <3>2. t \in PreviewState /\ t.seq = s.seq + 1 /\ t.text = s.text
            BY <1>2, <2>1 DEF PreviewState
        <3> HIDE DEF t
        <3> QED  BY <3>1, <3>2
    <2> QED  BY <2>2, <2>3 DEF CloseEnd
<1>9. /\ \A j \in Keys \ {q} : attempts'[x][j] = attempts[x][j]
      /\ \A y \in Executions \ {x} : attempts'[y] = attempts[y]
      /\ attempts'[x][q].seq = s.seq + 1 /\ attempts'[x][q].text = s.text
    <2>1. PICK t \in PreviewState : /\ attempts' = [attempts EXCEPT ![x][q] = t]
                                   /\ t.seq = s.seq + 1 /\ t.text = s.text
        BY <1>8
    <2>2. TypeOK
        BY DEF IInv
    <2>3. /\ \A j \in Keys \ {q} : attempts'[x][j] = attempts[x][j]
          /\ \A y \in Executions \ {x} : attempts'[y] = attempts[y]
          /\ attempts'[x][q] = t
        BY <2>1, <2>2, AttemptsExcept
    <2> QED  BY <2>1, <2>3
<1>10. Same(x, q)'
    <2>1. CASE Row(x, q)' = Row(x, q)
        <3>1. Row(x, q)'.seq # attempts'[x][q].seq
            BY <1>2, <1>3, <1>9, <2>1
        <3> QED  BY <3>1 DEF Same
    <2>2. CASE Row(x, q)' = row
        BY <1>4, <1>9, <2>2 DEF Same
    <2> QED  BY <1>6, <2>1, <2>2
<1> QED  BY <1>6, <1>7, <1>9, <1>10, WritesOne DEF Writes

LEMMA EffectNext == IInv /\ SameText /\ [Next]_vars => Effect
<1> SUFFICES ASSUME IInv, SameText, [Next]_vars PROVE Effect
    OBVIOUS
<1>1. ASSUME NEW x \in Executions, Step(x) PROVE Effect
    <2>1. ASSUME NEW p \in Parts[x], Receive(x, p) PROVE Effect
        BY <2>1, WritesNone DEF Receive, relay, store
    <2>2. CASE Begin(x) \/ Chunk(x)
        BY <1>1, <2>2, BeginWrites, ChunkWrites
    <2>3. CASE Checkpoint(x)
        <3>1. pc[x] = "checkpoint" /\ part[x].key \in Keys /\ attempts[x][part[x].key].begun
            BY <1>1, <2>3 DEF Checkpoint, IInv, Own, Phase, StreamPart
        <3>2. PICK q \in Keys : q = part[x].key
            BY <3>1
        <3>3. Snapshot(attempts[x][q]) \in Submits(x, q)
            BY <3>1, <3>2 DEF Submits
        <3>4. ~attempts[x][q].ended
            BY <1>1, <3>1, AcceptingIsOpen DEF Accepting
        <3>5. CheckpointCall(x, q, "select")
            BY <2>3, <3>2 DEF Checkpoint
        <3> QED  BY <1>1, <3>1, <3>2, <3>3, <3>4, <3>5, CheckpointWrites DEF Accepting
    <2>4. CASE StreamCloses(x) \/ ProviderFails(x) \/ SeesContextDone(x)
        BY <2>4, WritesNone DEF StreamCloses, ProviderFails, SeesContextDone, Finish, store
    <2>5. ASSUME NEW k \in Keys, CloseSnapshot(x, k) PROVE Effect
        <3>1. /\ pc[x] = "closing" /\ Turn(x, k) /\ Unsaved(x, k) /\ CheckpointCall(x, k, "closing")
              /\ attempts[x][k].begun /\ ~attempts[x][k].ended
            BY <2>5 DEF CloseSnapshot, Turn, Open, Begun
        <3>2. Snapshot(attempts[x][k]) \in Submits(x, k)
            BY <3>1 DEF Submits
        <3> QED  BY <1>1, <3>1, <3>2, CheckpointWrites
    <2>6. ASSUME NEW k \in Keys, CloseEnd(x, k) PROVE Effect
        BY <1>1, <2>6, ClosingWrites
    <2>7. CASE Return(x)
        BY <2>7, WritesNone DEF Return, relay, store
    <2> QED  BY <1>1, <2>1, <2>2, <2>3, <2>4, <2>5, <2>6, <2>7 DEF Step
<1>2. ASSUME NEW x \in Executions, Start(x) \/ ContextDone(x) \/ Crash(x) PROVE Effect
    BY <1>2, WritesNone DEF Start, ContextDone, Crash, relay, store
<1>3. CASE Settled \/ UNCHANGED vars
    BY <1>3, WritesNone DEF Settled, vars, relay, store
<1> QED  BY <1>1, <1>2, <1>3 DEF Next

\* Whatever a relay submits about an attempt follows what the store has of it:
\* the attempt is new, or its row is active and older, or the row is the one
\* already stored (a checkpoint sent again).
THEOREM SubmissionsInOrder == Spec => []SubmitsInOrder
<1>1. IInv /\ SameText => SubmitsInOrder
    <2> SUFFICES ASSUME IInv, SameText, NEW x \in Executions, NEW k \in Keys, NEW row \in Submits(x, k)
                 PROVE  \/ Row(x, k).status = "absent"
                        \/ Row(x, k).status = "active" /\ Row(x, k).seq < row.seq
                        \/ Row(x, k) = row
        BY DEF SubmitsInOrder
    <2> DEFINE s == attempts[x][k]
    <2>1. s \in PreviewState /\ s.seq \in Nat /\ Row(x, k) \in Manifest \cup {NoManifest}
        <3>1. s \in PreviewState
            BY DEF IInv, TypeOK
        <3>2. Row(x, k) \in Manifest \cup {NoManifest}
            BY Ids DEF IInv, TypeOK, Row
        <3> QED  BY <3>1, <3>2, StateFields
    <2>2. CASE pc[x] = "begin" /\ part[x].key = k
        <3>1. ~s.begun /\ row = [status |-> "active", seq |-> 0, text |-> {}]
            BY <2>2 DEF Submits, IInv, Own, Phase
        <3>2. Row(x, k).status \in {"absent", "active"} /\ Row(x, k).seq = 0 /\ Row(x, k).text = {}
            BY <3>1 DEF IInv, Own, Kept
        <3> QED  BY <2>1, <3>1, <3>2 DEF Manifest, NoManifest
    <2>3. CASE \/ pc[x] = "checkpoint" /\ part[x].key = k
               \/ pc[x] = "closing" /\ Turn(x, k) /\ Unsaved(x, k)
        <3>1. row = Snapshot(s)
            BY <2>3 DEF Submits
        <3>2. s.begun /\ ~s.ended
            <4>1. CASE pc[x] = "checkpoint" /\ part[x].key = k
                BY <4>1, AcceptingIsOpen DEF IInv, Own, Phase, Accepting
            <4>2. CASE pc[x] = "closing" /\ Turn(x, k)
                BY <4>2 DEF Turn, Open, Begun
            <4> QED  BY <2>3, <4>1, <4>2
        <3>3. Row(x, k).status = "active" /\ Row(x, k).seq <= s.seq
            BY <2>3, <3>2, OpenIsActive DEF Accepting
        <3>4. row.seq = s.seq /\ row = [status |-> "active", seq |-> s.seq, text |-> s.text]
            BY <3>1 DEF Snapshot
        <3>5. CASE Row(x, k).seq = s.seq
            <4>1. Row(x, k).text = s.text
                BY <3>3, <3>5 DEF SameText, Same
            <4> QED  BY <2>1, <3>3, <3>4, <3>5, <4>1 DEF Manifest, NoManifest
        <3>6. CASE Row(x, k).seq # s.seq
            <4>1. Row(x, k).seq \in Nat
                BY <2>1 DEF Manifest, NoManifest
            <4> QED  BY <2>1, <3>3, <3>4, <3>6, <4>1
        <3> QED  BY <3>5, <3>6
    <2>4. CASE pc[x] = "closing" /\ Turn(x, k) /\ ~Unsaved(x, k)
        <3>1. s.begun /\ ~s.ended /\ row.seq = s.seq + 1
            BY <2>4 DEF Submits, Turn, Open, Begun
        <3>2. Row(x, k).status = "active" /\ Row(x, k).seq <= s.seq
            BY <2>4, <3>1, OpenIsActive
        <3>3. Row(x, k).seq \in Nat
            BY <2>1 DEF Manifest, NoManifest
        <3> QED  BY <2>1, <3>1, <3>2, <3>3
    <2> QED  BY <2>2, <2>3, <2>4 DEF Submits
<1>2. Init => SameText
    BY Ids DEF Init, SameText, Same, Row, NoManifest
<1>3. IInv /\ SameText /\ [Next]_vars => SameText'
    BY EffectNext DEF Effect
<1>4. Spec => [](IInv /\ SameText)
    BY IInvInit, IInvNext, <1>2, <1>3, PTL DEF Spec
<1> QED  BY <1>1, <1>4, PTL

\* A stored manifest only goes forward: a step replaces it by a row of a higher
\* sequence and only while it is active, so no two texts are ever stored under
\* one sequence, and what ended stays as it ended.
THEOREM ManifestsGoForward ==
    Spec => [][\A x \in Executions, k \in Keys :
                  Row(x, k)' # Row(x, k) =>
                      \/ Row(x, k).status = "absent"
                      \/ Row(x, k).status = "active" /\ Row(x, k).seq < Row(x, k)'.seq]_vars
<1> DEFINE Forward == \A x \in Executions, k \in Keys :
                          Row(x, k)' # Row(x, k) =>
                              \/ Row(x, k).status = "absent"
                              \/ Row(x, k).status = "active" /\ Row(x, k).seq < Row(x, k)'.seq
<1>1. Init => SameText
    BY Ids DEF Init, SameText, Same, Row, NoManifest
<1>2. IInv /\ SameText /\ [Next]_vars => SameText'
    BY EffectNext DEF Effect
<1>3. IInv /\ SameText /\ SubmitsInOrder /\ [Next]_vars => [Forward]_vars
    <2> SUFFICES ASSUME IInv, SameText, SubmitsInOrder, [Next]_vars PROVE Forward
        OBVIOUS
    <2>1. Effect
        BY EffectNext
    <2> QED  BY <2>1 DEF Effect, SubmitsInOrder
<1> QED
    <2> HIDE DEF Forward
    <2>1. Spec => [][Forward]_vars
        BY IInvInit, IInvNext, SubmissionsInOrder, <1>1, <1>2, <1>3, PTL DEF Spec
    <2> QED  BY <2>1 DEF Forward
=============================================================================
