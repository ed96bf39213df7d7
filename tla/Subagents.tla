----------------------------- MODULE Subagents -----------------------------
(***************************************************************************)
(* Background subagents (temporalai/subagent.go): the manager in a parent  *)
(* workflow, whose coroutines share one snapshot per child, and the child  *)
(* agents, which signal their progress to it.  The parent's coroutines are *)
(* the tool calls that spawn, wait for and cancel children, the listener   *)
(* of progress signals and one monitor per child.                          *)
(*                                                                         *)
(* Data abstraction: a snapshot is its status and sequence.  The tools     *)
(* that only read a snapshot (list, inspect and the query) and the message *)
(* tool, which changes nothing in the parent, are left out.                *)
(*                                                                         *)
(* Coroutines run one at a time after each batch of events.  The listener  *)
(* was created before every monitor, so it has applied the signals that    *)
(* arrived with the end of a child when its monitor runs.                  *)
(***************************************************************************)
EXTENDS Naturals, Sequences, FiniteSets

CONSTANTS
    Ids,          \* subagent ids: tool name and call id
    Calls,        \* tool calls of the parent to its manager
    Sinces,       \* values of sinceSequence in use
    MaxRuntimes,  \* bound: children asked for
    MaxReports    \* bound: snapshots a child reports before its last one

ASSUME SubagentsAssumption ==
    /\ Sinces \subseteq Nat
    /\ MaxRuntimes \in Nat
    /\ MaxReports \in Nat

VARIABLES
    runtimes,  \* m.runtimes: the runtime of each id, or 0
    snapshot,  \* runtime.snapshot, of the runtimes made so far
    owner,     \* the id a runtime was made for
    monitor,   \* its monitor: "none", "waiting", "done", or "gaveUp" before the end
    child,     \* the child workflow
    flight,    \* its progress signal under way, if any
    queue,     \* progress signals that arrived at the parent
    call       \* the coroutines of the tool calls

manager == <<runtimes, snapshot, owner, monitor>>
vars == <<manager, child, flight, queue, call>>

Made == 1..Len(snapshot)
Running == "running"
Terminal == {"completed", "failed", "canceled"}
NoCall == [at |-> "idle", runtime |-> 0, since |-> 0]

NewChild == [at |-> "requested", reports |-> 0, result |-> "none", cancel |-> FALSE, canceled |-> FALSE]

Init ==
    /\ runtimes = [id \in Ids |-> 0]
    /\ snapshot = <<>>
    /\ owner = <<>>
    /\ monitor = <<>>
    /\ child = <<>>
    /\ flight = <<>>
    /\ queue = <<>>
    /\ call = [c \in Calls |-> NoCall]

-----------------------------------------------------------------------------
(* Tool calls of the parent.                                               *)

Returns(c) == call' = [call EXCEPT ![c].at = "returned"]
Bumped(n, status) == [snapshot EXCEPT ![n] = [status |-> status, seq |-> @.seq + 1]]

\* Mutant: a second call with one id starts a second child.
KnownNever(id) == FALSE
Known(id) == runtimes[id] # 0

\* spawn finds the child it is asked for.
SpawnAgain(c, id) ==
    /\ call[c].at = "idle"
    /\ Known(id)
    /\ Returns(c)
    /\ UNCHANGED <<manager, child, flight, queue>>

\* spawn up to the start of the child, which it awaits.
Spawn(c, id) ==
    /\ call[c].at = "idle"
    /\ ~Known(id)
    /\ Len(snapshot) < MaxRuntimes
    /\ snapshot' = Append(snapshot, [status |-> "starting", seq |-> 1])
    /\ owner' = Append(owner, id)
    /\ monitor' = Append(monitor, "none")
    /\ child' = Append(child, NewChild)
    /\ flight' = Append(flight, <<>>)
    /\ runtimes' = [runtimes EXCEPT ![id] = Len(snapshot) + 1]
    /\ call' = [call EXCEPT ![c] = [at |-> "spawning", runtime |-> Len(snapshot) + 1, since |-> 0]]
    /\ UNCHANGED queue

\* spawn learns that the child started, though more may have arrived since.
SpawnStarted(c) ==
    LET n == call[c].runtime IN
    /\ call[c].at = "spawning"
    /\ child[n].at \in {"running", "ending", "closed"}
    /\ snapshot' = Bumped(n, Running)
    /\ monitor' = [monitor EXCEPT ![n] = "waiting"]
    /\ Returns(c)
    /\ UNCHANGED <<runtimes, owner, child, flight, queue>>

\* spawn learns that the child did not start and forgets it.  Its error ends the
\* parent's loop (agent.go:342); other calls are not made to stop here.
SpawnFailed(c) ==
    LET n == call[c].runtime IN
    /\ call[c].at = "spawning"
    /\ child[n].at = "refused"
    /\ runtimes' = [runtimes EXCEPT ![owner[n]] = 0]
    /\ Returns(c)
    /\ UNCHANGED <<snapshot, owner, monitor, child, flight, queue>>

\* wait: an unknown or ended subagent is answered at once.
WaitBegins(c, id, s) ==
    LET n == runtimes[id] IN
    /\ call[c].at = "idle"
    /\ IF n = 0 \/ snapshot[n].status \in Terminal
       THEN Returns(c)
       ELSE call' = [call EXCEPT ![c] = [at |-> "waiting", runtime |-> n,
                                         since |-> IF s = 0 THEN snapshot[n].seq ELSE s]]
    /\ UNCHANGED <<manager, child, flight, queue>>

\* Mutant: only the sequence counts, not the end of the child.
HasNewsBySequence(c) == snapshot[call[c].runtime].seq > call[c].since

\* The condition of wait's AwaitWithTimeout.
HasNews(c) ==
    LET now == snapshot[call[c].runtime] IN now.seq > call[c].since \/ now.status \in Terminal

WaitEnds(c) ==
    /\ call[c].at = "waiting"
    /\ HasNews(c)
    /\ Returns(c)
    /\ UNCHANGED <<manager, child, flight, queue>>

WaitTimesOut(c) ==
    /\ call[c].at = "waiting"
    /\ ~HasNews(c)
    /\ Returns(c)
    /\ UNCHANGED <<manager, child, flight, queue>>

\* cancel: an ended subagent is left alone.
CancelSubagent(c, id) ==
    LET n == runtimes[id] IN
    /\ call[c].at = "idle"
    /\ Returns(c)
    /\ IF n = 0 \/ snapshot[n].status \in Terminal
       THEN UNCHANGED <<snapshot, child>>
       ELSE /\ snapshot' = Bumped(n, "cancelling")
            /\ child' = [child EXCEPT ![n].cancel = TRUE]
    /\ UNCHANGED <<runtimes, owner, monitor, flight, queue>>

-----------------------------------------------------------------------------
(* The listener and the monitors.                                          *)

\* Mutant: the sequence the child gave is kept, whatever the parent added to it.
SequenceAsGiven(given, current) == given

\* applySnapshot's sequence.
NextSequence(given, current) == IF given <= current THEN current + 1 ELSE given

\* listenForProgress, applySnapshot
Listen ==
    /\ queue # <<>>
    /\ queue' = Tail(queue)
    /\ LET signal == Head(queue)
           n == runtimes[signal.id]
       IN IF n = 0 THEN UNCHANGED snapshot
          ELSE snapshot' = [snapshot EXCEPT ![n] =
                    [status |-> signal.status, seq |-> NextSequence(signal.seq, @.seq)]]
    /\ UNCHANGED <<runtimes, owner, monitor, child, flight, call>>

\* Mutant: a child that failed leaves the snapshot as it was.
EndStatusKept(n) == IF child[n].result = "ok" THEN "completed" ELSE snapshot[n].status

ErrorStatus(n) == IF snapshot[n].status = "cancelling" THEN "canceled" ELSE "failed"
EndStatus(n) == IF child[n].result = "ok" THEN "completed" ELSE ErrorStatus(n)

\* monitor, once the child's future is ready because the child has closed.
Monitor(n) ==
    /\ monitor[n] = "waiting"
    /\ child[n].at = "closed"
    /\ queue = <<>>
    /\ snapshot' = Bumped(n, EndStatus(n))
    /\ monitor' = [monitor EXCEPT ![n] = "done"]
    /\ UNCHANGED <<runtimes, owner, child, flight, queue, call>>

\* monitor, when the future of a canceled child is ready before the child closes:
\* spawn's options leave WaitForCancellation unset (subagent.go:256), so a cancel
\* request need not be awaited.
MonitorGivesUp(n) ==
    /\ monitor[n] = "waiting"
    /\ child[n].cancel /\ child[n].at \in {"running", "ending"}
    /\ snapshot' = Bumped(n, ErrorStatus(n))
    /\ monitor' = [monitor EXCEPT ![n] = "gaveUp"]
    /\ UNCHANGED <<runtimes, owner, child, flight, queue, call>>

-----------------------------------------------------------------------------
(* The children: RunAgent with a SubagentExecution (module Agent).         *)

\* Mutant: the child does not await the delivery of its signals.
AwaitsNothing(n) == TRUE

\* publishSubagentProgress awaits the delivery of the signal.
Delivered(n) == flight[n] = <<>>

Sends(n, status, seq) ==
    flight' = [flight EXCEPT ![n] = Append(@, [id |-> owner[n], status |-> status, seq |-> seq])]

ChildStarts(n) ==
    /\ child[n].at = "requested"
    /\ child' = [child EXCEPT ![n].at = "running"]
    /\ UNCHANGED <<manager, flight, queue, call>>

\* The service refuses the start, or the request is canceled before it.
ChildRefused(n) ==
    /\ child[n].at = "requested"
    /\ child' = [child EXCEPT ![n].at = "refused"]
    /\ UNCHANGED <<manager, flight, queue, call>>

\* The snapshot of the start and of each step.
Report(n) ==
    /\ child[n].at = "running"
    /\ Delivered(n)
    /\ child[n].reports < MaxReports
    /\ child' = [child EXCEPT ![n].reports = @ + 1]
    /\ Sends(n, Running, child[n].reports + 1)
    /\ UNCHANGED <<manager, queue, call>>

\* The loop ended, or the record of the start failed: the last snapshot.  A child
\* whose record of it fails, conflicts or is canceled ends with that error and
\* sends no signal.
Conclude(n, result) ==
    LET canceled == child[n].cancel /\ result = "error" IN
    /\ child[n].at = "running"
    /\ Delivered(n)
    /\ child' = [child EXCEPT ![n].at = "ending", ![n].result = result, ![n].canceled = canceled]
    /\ \/ result = "ok" /\ child[n].reports >= 2 /\ Sends(n, "completed", child[n].reports + 1)
       \/ result = "error" /\ child[n].reports >= 1 /\ Sends(n, "failed", 2)
       \/ result = "error" /\ UNCHANGED flight
    /\ UNCHANGED <<manager, queue, call>>

ChildCloses(n) ==
    /\ child[n].at = "ending"
    /\ Delivered(n)
    /\ child' = [child EXCEPT ![n].at = "closed"]
    /\ UNCHANGED <<manager, flight, queue, call>>

\* The service delivers a signal to the parent.
Deliver(n) ==
    /\ flight[n] # <<>>
    /\ queue' = Append(queue, Head(flight[n]))
    /\ flight' = [flight EXCEPT ![n] = Tail(@)]
    /\ UNCHANGED <<manager, child, call>>

-----------------------------------------------------------------------------

Asks(c) ==
    \E id \in Ids :
        \/ SpawnAgain(c, id) \/ Spawn(c, id) \/ CancelSubagent(c, id)
        \/ \E s \in Sinces \cup {0} : WaitBegins(c, id, s)

Resumes(c) == SpawnStarted(c) \/ SpawnFailed(c) \/ WaitEnds(c)

ChildStep(n) ==
    \/ ChildStarts(n) \/ ChildRefused(n) \/ Report(n) \/ ChildCloses(n) \/ Deliver(n)
    \/ \E result \in {"ok", "error"} : Conclude(n, result)

Next ==
    \/ \E c \in Calls : Asks(c) \/ Resumes(c) \/ WaitTimesOut(c)
    \/ Listen
    \/ \E n \in Made : Monitor(n) \/ MonitorGivesUp(n) \/ ChildStep(n)

\* The parent's worker runs the coroutines that can go on and the service
\* delivers.  Nothing makes the model call tools; what a waiter is promised must
\* not hang on its timer.
Fairness ==
    /\ \A c \in Calls : WF_vars(Resumes(c))
    /\ WF_vars(Listen)
    /\ \A n \in 1..MaxRuntimes : WF_vars(n \in Made /\ (Monitor(n) \/ ChildStep(n)))

Spec == Init /\ [][Next]_vars /\ Fairness

-----------------------------------------------------------------------------
(* Properties                                                              *)

Statuses == Terminal \cup {"starting", "running", "cancelling"}
Signal == [id : Ids, status : Statuses, seq : Nat]

\* Every variable keeps its type; a child has one signal under way at most.
TypeOK ==
    /\ runtimes \in [Ids -> 0..Len(snapshot)]
    /\ snapshot \in Seq([status : Statuses, seq : Nat \ {0}])
    /\ owner \in [Made -> Ids]
    /\ monitor \in [Made -> {"none", "waiting", "done", "gaveUp"}]
    /\ child \in [Made -> [at : {"requested", "refused", "running", "ending", "closed"},
                           reports : 0..MaxReports, result : {"none", "ok", "error"},
                           cancel : BOOLEAN, canceled : BOOLEAN]]
    /\ flight \in [Made -> {<<>>} \cup [{1} -> Signal]]
    /\ queue \in Seq(Signal)
    /\ call \in [Calls -> [at : {"idle", "spawning", "waiting", "returned"},
                           runtime : 0..Len(snapshot), since : Nat]]

\* Whoever changes a snapshot raises its sequence, the one thing a waiter with a
\* sinceSequence goes by (subagent.go:176, 291, 302, 401).
SnapshotsAdvance ==
    [][\A n \in Made : snapshot'[n] # snapshot[n] => snapshot'[n].seq > snapshot[n].seq]_vars

\* An ended subagent stays as its monitor reported it, though applySnapshot
\* takes whatever signal arrives (subagent.go:170).  It is not said of a monitor
\* that gave up: the signals of its child go on overwriting the report.
ReportIsFinal ==
    [][\A n \in Made : monitor[n] = "done" => snapshot'[n] = snapshot[n]]_vars

\* The report of an ended child tells success from failure, whatever signals,
\* cancellation and the late start of its spawner have written before.
ReportIsTrue ==
    \A n \in Made : monitor[n] = "done" =>
        /\ snapshot[n].status \in Terminal
        /\ snapshot[n].status = "completed" <=> child[n].result = "ok"

\* A subagent id names one child at a time: its workflow id is derived from it
\* (subagent.go:520), and the service would refuse a second one.
OneChildPerId ==
    \A n, m \in Made :
        /\ owner[n] = owner[m]
        /\ {child[n].at, child[m].at} \subseteq {"requested", "running", "ending"}
        => n = m

\* A waiter hears of the end of the child without its timeout, if the child's
\* monitor did not give up before it.
WaiterHearsTheEnd ==
    \A c \in Calls : LET n == call[c].runtime IN
        (call[c].at = "waiting" /\ child[n].at = "closed" /\ monitor[n] # "gaveUp")
            ~> call[c].at # "waiting"

\* agent_regression_test.go:229: a child that ended because cancel_subagent
\* canceled it is reported as canceled.
CanceledIsReported ==
    \A n \in Made : monitor[n] = "done" /\ child[n].canceled => snapshot[n].status = "canceled"
=============================================================================
