---------------------------- MODULE ToolActivity ----------------------------
(***************************************************************************)
(* One tool call through its activity (activities/tool.go), with the       *)
(* compaction of large values into artifacts (activities/artifacts.go).    *)
(* Temporal starts another execution when one failed, timed out or was     *)
(* lost with its worker, and the workflow itself starts a regular activity *)
(* after a local one timed out (temporalai/agent.go); an execution that    *)
(* timed out may go on beside its successors, but its answer is dropped.   *)
(*                                                                         *)
(* Data abstraction: a payload is the content of a value, large if its     *)
(* JSON is longer than MaxInlineBytes.  A value is a payload, inline, or   *)
(* the reference to an artifact.  The hash of a value stands for the value *)
(* itself; previews, sizes and metadata of a reference are left out.       *)
(***************************************************************************)
EXTENDS Naturals

CONSTANTS
    Tools,      \* registered tools, with the arguments of the call that are not data
    Inputs,     \* what a call may pass to its tool
    Runs,       \* what an execution of a tool may produce
    Payloads,
    Large,      \* the payloads to be compacted
    LargeRefs,  \* TRUE: a reference with its preview is itself large
    Refusal,    \* the payload of the error text of a call that was not run
    MaxFaults,  \* bound: timeouts, crashes and failed store writes
    None

Verdicts == {"approve", "deny", "ask", "error"}  \* of ai.ResolveToolApproval

Tool == [registered : BOOLEAN,
         valid : BOOLEAN,      \* the input passes ValidateToolInput
         requires : BOOLEAN,   \* RequiresApproval
         policy : BOOLEAN,     \* NeedsApproval is set
         verdicts : SUBSET Verdicts,  \* what the policy may say, each time
         execute : BOOLEAN,    \* Execute is set
         approval : {"none", "approved", "denied"},  \* args.Approval
         compact : SUBSET {"input", "output", "error"},  \* args.Artifacts
         store : BOOLEAN]      \* an artifact store is configured

\* Result and the model's view of it; an error may come with a result, one that
\* fails its schema or cannot be shown to the model.
Run == [result : Payloads \cup {None}, model : Payloads, isError : BOOLEAN]

ASSUME ToolAssumption ==
    /\ Tools \subseteq Tool
    /\ \A t \in Tools : t.policy => t.verdicts # {}
    /\ Inputs \subseteq Payloads
    /\ Runs \subseteq Run
    /\ Large \subseteq Payloads
    /\ LargeRefs \in BOOLEAN
    /\ Refusal \in Payloads
    /\ MaxFaults \in Nat
    /\ None \notin Payloads \cup Runs \cup Tools

VARIABLES
    tool,       \* the tool and the arguments of the call
    input,      \* args.Input
    attempt,    \* the execution whose answer the workflow awaits
    exec,       \* every execution
    artifacts,  \* the artifact store: a set of [key, data]
    accepted,   \* the execution whose answer the workflow got, 0 before
    faults

toolVars == <<tool, input, attempt, exec, artifacts, accepted, faults>>

Executions == 1..MaxFaults + 1

-----------------------------------------------------------------------------
(* Values.                                                                 *)

Kinds == {"input", "result", "output", "error"}
Fields == {"input", "result", "output"}  \* of a result: Input, Result, Output.Value

Inline(p) == [at |-> "inline", data |-> p]
Inlines == [at : {"inline"}, data : Payloads \cup {None}]

\* Mutant: the artifact of a call and kind has one key, whatever its content.
KeyOfKind(kind, value) == <<kind, None>>

\* The key of an artifact of this call: its kind and its hash.
Key(kind, value) == <<kind, value>>

Ref(kind, value) == [at |-> "store", key |-> Key(kind, value)]
\* A value and a reference to one, which compaction may replace once more.
RefsTo(values) == [at : {"store"}, key : Kinds \X values]
Values == Inlines \cup RefsTo(Inlines) \cup RefsTo(RefsTo(Inlines))

IsLarge(value) == IF value.at = "inline" THEN value.data \in Large ELSE LargeRefs

\* What a reference leads to in the store, a reference in turn or the value.
Fetch(value) ==
    IF value.at = "inline" THEN value
    ELSE (CHOOSE a \in artifacts : a.key = value.key).data
Whole(value) == Fetch(Fetch(value))

-----------------------------------------------------------------------------
(* The activity.                                                           *)

NoValues == [f \in Fields |-> Inline(None)]
Values3(in, result, output) ==
    [f \in Fields |-> Inline(CASE f = "input" -> in [] f = "result" -> result
                             [] f = "output" -> output)]

NoExec == [at |-> "idle", run |-> None, status |-> "none", isError |-> FALSE,
           values |-> NoValues]

\* toolErrorResult, deniedToolResult and the result of a run.
Refused == [at |-> "input", run |-> None, status |-> "refused", isError |-> TRUE,
            values |-> Values3(input, None, Refusal)]
Denied == [at |-> "input", run |-> None, status |-> "denied", isError |-> FALSE,
           values |-> Values3(input, None, None)]
Ran(run) == [at |-> "input", run |-> run, status |-> "ran", isError |-> run.isError,
             values |-> Values3(input, run.result, run.model)]

ToolInit ==
    /\ tool = None
    /\ input = None
    /\ attempt = 0
    /\ exec = [e \in Executions |-> NoExec]
    /\ artifacts = {}
    /\ accepted = 0
    /\ faults = 0

\* The first execution, or the next one, begins.
Begins(e) ==
    /\ attempt' = e
    /\ exec' = [exec EXCEPT ![e].at = "gate"]

\* The workflow schedules the activity.
Call(t, in) ==
    /\ attempt = 0
    /\ tool' = t
    /\ input' = in
    /\ Begins(1)
    /\ UNCHANGED <<artifacts, accepted, faults>>

At(e, label) == exec[e].at = label
Goes(e, label) == exec' = [exec EXCEPT ![e].at = label]

\* Mutant: the activity that follows a timeout is called without the approval.
ApprovalOfFirst(e) == IF e = 1 THEN tool.approval ELSE "none"

\* Every execution gets the approval the workflow has.
Approval(e) == tool.approval

\* What the policy says; it is asked again after an approval.
VerdictsOf(e) ==
    IF tool.policy THEN tool.verdicts
    ELSE IF tool.requires /\ Approval(e) = "none" THEN {"ask"} ELSE {"approve"}

\* InvokeTool up to tool.Execute.
Denies(e, verdict) ==
    \/ Approval(e) = "denied"
    \/ verdict = "deny"
    \/ verdict = "ask" /\ Approval(e) = "none"

Gate(e) ==
    /\ At(e, "gate")
    /\ \E verdict \in VerdictsOf(e) :
          exec' = [exec EXCEPT ![e] =
            IF ~tool.registered \/ ~tool.valid THEN Refused
            ELSE IF Approval(e) # "denied" /\ verdict = "error" THEN Refused
            ELSE IF Denies(e, verdict) THEN Denied
            ELSE IF ~tool.execute THEN Refused
            ELSE [@ EXCEPT !.at = "run"]]
    /\ UNCHANGED <<tool, input, attempt, artifacts, accepted, faults>>

\* tool.Execute, with its effects, and the model's view of its output.
Execute(e) ==
    /\ At(e, "run")
    /\ \E run \in Runs : exec' = [exec EXCEPT ![e] = Ran(run)]
    /\ UNCHANGED <<tool, input, attempt, artifacts, accepted, faults>>

\* compactToolArtifacts: the values in their order; an error text that was
\* compacted as output is looked at again as error.
FieldOf(kind) == IF kind = "error" THEN "output" ELSE kind
After(kind) == CASE kind = "input" -> "result" [] kind = "result" -> "output"
                 [] kind = "output" -> "error" [] kind = "error" -> "return"

\* Mutant: only what the model sees of a result is compacted.
CompactsOutputOnly(e, kind) ==
    /\ kind # "result"
    /\ kind \in tool.compact
    /\ kind = "error" => exec[e].isError

Compacts(e, kind) ==
    /\ (IF kind = "result" THEN "output" ELSE kind) \in tool.compact
    /\ kind = "error" => exec[e].isError

ValueOf(e, kind) == exec[e].values[FieldOf(kind)]
ToStore(e, kind) == Compacts(e, kind) /\ IsLarge(ValueOf(e, kind))

KeepInline(e, kind) ==
    /\ At(e, kind)
    /\ ~ToStore(e, kind)
    /\ Goes(e, After(kind))
    /\ UNCHANGED <<tool, input, attempt, artifacts, accepted, faults>>

\* PutToolArtifact of a store that is idempotent under a key.
PutArtifact(e, kind) ==
    artifacts' = {a \in artifacts : a.key # Key(kind, ValueOf(e, kind))}
                 \cup {[key |-> Key(kind, ValueOf(e, kind)), data |-> ValueOf(e, kind)]}

Compact(e, kind) ==
    /\ At(e, kind)
    /\ ToStore(e, kind)
    /\ tool.store
    /\ PutArtifact(e, kind)
    /\ exec' = [exec EXCEPT ![e].at = After(kind),
                            ![e].values[FieldOf(kind)] = Ref(kind, ValueOf(e, kind))]
    /\ UNCHANGED <<tool, input, attempt, accepted, faults>>

\* There is no store, so that every execution fails; or the store fails or
\* returns no reference, perhaps after a write that took effect.
CompactFails(e, kind) ==
    /\ At(e, kind)
    /\ ToStore(e, kind)
    /\ Goes(e, "failed")
    /\ \/ ~tool.store /\ UNCHANGED <<artifacts, faults>>
       \/ /\ tool.store /\ faults < MaxFaults
          /\ faults' = faults + 1
          /\ UNCHANGED artifacts \/ PutArtifact(e, kind)
    /\ UNCHANGED <<tool, input, attempt, accepted>>

\* Mutant: the workflow goes on waiting for the execution that timed out.
IsAwaitedFirst(e) == e = 1

IsAwaited(e) == e = attempt

\* The activity returns; nobody waits for an execution that timed out.
Returns(e) ==
    /\ At(e, "return")
    /\ Goes(e, "returned")
    /\ accepted' = IF IsAwaited(e) THEN e ELSE accepted
    /\ UNCHANGED <<tool, input, attempt, artifacts, faults>>

\* The awaited execution returned an error: it is retried, the tool included.
Retry ==
    /\ attempt \in 1..MaxFaults
    /\ At(attempt, "failed")
    /\ Begins(attempt + 1)
    /\ UNCHANGED <<tool, input, artifacts, accepted, faults>>

\* The awaited execution timed out, or its worker is gone: a retry or the regular
\* activity of the fallback begins, while the old execution may take more steps.
TimeOut ==
    /\ attempt \in 1..MaxFaults
    /\ exec[attempt].at \notin {"failed", "returned"}
    /\ faults < MaxFaults
    /\ faults' = faults + 1
    /\ Begins(attempt + 1)
    /\ UNCHANGED <<tool, input, artifacts, accepted>>

Step(e) ==
    \/ Gate(e) \/ Execute(e) \/ Returns(e)
    \/ \E kind \in Kinds : KeepInline(e, kind) \/ Compact(e, kind) \/ CompactFails(e, kind)

ToolNext ==
    \/ \E t \in Tools, in \in Inputs : Call(t, in)
    \/ \E e \in Executions : Step(e)
    \/ Retry
    \/ TimeOut

ToolSpec == ToolInit /\ [][ToolNext]_toolVars

-----------------------------------------------------------------------------
(* Properties.                                                             *)

Labels == {"idle", "gate", "run", "input", "result", "output", "error", "return",
           "returned", "failed"}

Execution == [at : Labels, run : Runs \cup {None}, isError : BOOLEAN,
              status : {"none", "refused", "denied", "ran"}, values : [Fields -> Values]]

\* The type of every variable.
ToolTypeOK ==
    /\ tool \in Tools \cup {None}
    /\ input \in Inputs \cup {None}
    /\ attempt \in 0..MaxFaults + 1
    /\ exec \in [Executions -> Execution]
    /\ \A a \in artifacts : a \in [key : Kinds \X (Inlines \cup RefsTo(Inlines)),
                                 data : Inlines \cup RefsTo(Inlines)]
    /\ accepted \in 0..MaxFaults + 1
    /\ faults \in 0..MaxFaults

\* What execution e made of each field before it was compacted.
Made(e, f) ==
    CASE f = "input" -> Inline(input)
      [] f = "result" -> Inline(IF exec[e].status = "ran" THEN exec[e].run.result ELSE None)
      [] f = "output" -> Inline(CASE exec[e].status = "ran" -> exec[e].run.model
                                  [] exec[e].status = "refused" -> Refusal
                                  [] OTHER -> None)

\* The answer the workflow keeps leads, through whatever references it holds, to
\* the values of the one execution it came from, however many executions of the
\* call wrote artifacts before, meanwhile and after.
ReturnedIsWhatRan ==
    accepted # 0 =>
        /\ \A f \in Fields : Whole(exec[accepted].values[f]) = Made(accepted, f)
        /\ exec[accepted].status = "ran" <=> exec[accepted].run # None
        /\ exec[accepted].status = "ran" => exec[accepted].isError = exec[accepted].run.isError

\* A policy that always says the same of this call.
Steady == \E verdict \in Verdicts : tool.policy => tool.verdicts = {verdict}

\* A call that people denied has not run; nor has one whose answer says denied, in
\* any of its executions, unless its policy changed its mind between two.
DeniedNeverRan ==
    \/ attempt # 0 /\ tool.approval = "denied"
    \/ accepted # 0 /\ exec[accepted].status = "denied" /\ Steady
    => \A e \in Executions : exec[e].run = None

\* Stored, or small enough to be inline.
Fits(value) == value.at = "store" \/ value.data \notin Large

\* No value that the policy wants stored reaches the workflow's history inline.
HistoryStaysSmall ==
    accepted # 0 => \A f \in Fields :
        \/ f = "input" /\ "input" \in tool.compact
        \/ f # "input" /\ "output" \in tool.compact
        \/ f = "output" /\ "error" \in tool.compact /\ exec[accepted].isError
        => Fits(exec[accepted].values[f])
=============================================================================
