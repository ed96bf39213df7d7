------------------------- MODULE ToolActivityProofs -------------------------
(* Theorems about ToolActivity, for every value of its constants.          *)
EXTENDS ToolActivity, TLAPS

USE ToolAssumption

-----------------------------------------------------------------------------
(* Types, with how deep the references of an execution are at each step.   *)

Shallow == Inlines \cup RefsTo(Inlines)

\* Executions after the awaited one have not begun.
Fresh ==
    /\ \A e \in Executions : e > attempt => exec[e] = NoExec
    /\ attempt # 0 => tool \in Tools /\ input \in Inputs

DepthOf(x) ==
    /\ x.at \in {"idle", "gate", "run"} => x.run = None /\ x.status = "none"
    /\ x.at = "input" => x.values["input"] \in Inlines
    /\ x.at \in {"input", "result"} => x.values["result"] \in Inlines
    /\ x.at \in {"input", "result", "output"} => x.values["output"] \in Inlines
    /\ x.at = "error" => x.values["output"] \in Shallow

Depths == \A e \in Executions : DepthOf(exec[e])

TypeInv == ToolTypeOK /\ Fresh /\ Depths

LEMMA Constant ==
    /\ MaxFaults \in Nat
    /\ Executions = 1..MaxFaults + 1
    /\ \A e \in Executions : e \in Nat /\ e # 0
    /\ Fields = {"input", "result", "output"}
    /\ \A kind \in Kinds : FieldOf(kind) \in Fields /\ After(kind) \in Labels \ {"idle", "gate", "run", "input"}
BY DEF Executions, Fields, Kinds, FieldOf, After, Labels

\* The values an execution starts its compaction with.
LEMMA InlineValues ==
    ASSUME NEW in \in Payloads \cup {None}, NEW result \in Payloads \cup {None},
           NEW output \in Payloads \cup {None}
    PROVE  /\ Values3(in, result, output) \in [Fields -> Values]
           /\ \A f \in Fields : Values3(in, result, output)[f] \in Inlines
           /\ Values3(in, result, output)["input"] = Inline(in)
           /\ Values3(in, result, output)["result"] = Inline(result)
           /\ Values3(in, result, output)["output"] = Inline(output)
<1>1. \A p \in Payloads \cup {None} : Inline(p) \in Inlines
    BY DEF Inline, Inlines
<1>2. Inlines \subseteq Values
    BY DEF Values
<1> QED  BY <1>1, <1>2 DEF Values3, Fields

LEMMA RunFields ==
    ASSUME NEW run \in Runs
    PROVE  run.result \in Payloads \cup {None} /\ run.model \in Payloads /\ run.isError \in BOOLEAN
BY DEF Run

\* A reference to a value of some depth is one deeper.
LEMMA RefDepth ==
    /\ \A kind \in Kinds : \A v \in Inlines : Ref(kind, v) \in RefsTo(Inlines)
    /\ \A kind \in Kinds : \A v \in Shallow : Ref(kind, v) \in Values /\ Key(kind, v) \in Kinds \X Shallow
    /\ Shallow \subseteq Values
BY DEF Ref, RefsTo, Key, Shallow, Values

LEMMA TypeInit == ToolInit => TypeInv
<1> SUFFICES ASSUME ToolInit PROVE TypeInv
    OBVIOUS
<1>1. NoValues \in [Fields -> Values]
    BY DEF NoValues, Inline, Inlines, Values
<1>2. NoExec \in Execution
    BY <1>1 DEF NoExec, Execution, Labels
<1>3. \A e \in Executions : exec[e] = NoExec
    BY DEF ToolInit
<1>4. ToolTypeOK
    BY <1>2, Constant DEF ToolInit, ToolTypeOK
<1>5. Fresh
    BY <1>3 DEF ToolInit, Fresh
<1>6. Depths
    BY <1>3 DEF Depths, DepthOf, NoExec
<1> QED  BY <1>4, <1>5, <1>6 DEF TypeInv

\* An execution at a kind has a shallow value of it.
LEMMA ShallowValue ==
    ASSUME TypeInv, NEW e \in Executions, NEW kind \in Kinds, At(e, kind)
    PROVE  ValueOf(e, kind) \in Shallow /\ (kind # "error" => ValueOf(e, kind) \in Inlines)
BY Constant DEF TypeInv, Depths, DepthOf, At, ValueOf, FieldOf, Kinds, Shallow

\* Beginning an execution changes the state as little as it seems to.
LEMMA BeginsOK ==
    ASSUME TypeInv, NEW e \in Executions, e = attempt + 1, Begins(e),
           tool' \in Tools, input' \in Inputs, artifacts' = artifacts,
           accepted' = accepted, faults' \in 0..MaxFaults
    PROVE  TypeInv'
<1>1. exec[e] = NoExec
    BY Constant DEF TypeInv, Fresh, ToolTypeOK
<1>2. exec' \in [Executions -> Execution]
    BY <1>1 DEF TypeInv, ToolTypeOK, Begins, Execution, Labels
<1>3. exec'[e] = [NoExec EXCEPT !.at = "gate"] /\ \A d \in Executions \ {e} : exec'[d] = exec[d]
    BY <1>1 DEF TypeInv, ToolTypeOK, Begins
<1>4. ToolTypeOK'
    BY <1>2, Constant DEF TypeInv, ToolTypeOK, Begins
<1>5. Fresh'
    BY <1>3, Constant DEF TypeInv, Fresh, ToolTypeOK, Begins
<1>6. Depths'
    BY <1>3 DEF TypeInv, Depths, DepthOf, NoExec
<1> QED  BY <1>4, <1>5, <1>6 DEF TypeInv

\* A step of one execution that gives it a typed record keeps the types.
LEMMA StepOK ==
    ASSUME TypeInv, NEW e \in Executions, NEW x \in Execution, exec[e].at # "idle",
           exec' = [exec EXCEPT ![e] = x], DepthOf(x),
           tool' = tool, input' = input, attempt' = attempt,
           accepted' \in 0..MaxFaults + 1, faults' \in 0..MaxFaults,
           \A a \in artifacts' : a \in [key : Kinds \X Shallow, data : Shallow]
    PROVE  TypeInv'
<1>1. exec' \in [Executions -> Execution]
    BY DEF TypeInv, ToolTypeOK
<1>2. exec'[e] = x /\ \A d \in Executions \ {e} : exec'[d] = exec[d]
    BY DEF TypeInv, ToolTypeOK
<1>3. ToolTypeOK'
    BY <1>1 DEF TypeInv, ToolTypeOK, Shallow
<1>a. NoExec.at = "idle"
    BY DEF NoExec
<1>4. Fresh'
    BY <1>2, <1>a DEF TypeInv, Fresh
<1>5. Depths'
    BY <1>2 DEF TypeInv, Depths, DepthOf
<1> QED  BY <1>3, <1>4, <1>5 DEF TypeInv

LEMMA ArtifactType ==
    TypeInv => \A a \in artifacts : a \in [key : Kinds \X Shallow, data : Shallow]
BY DEF TypeInv, ToolTypeOK, Shallow

LEMMA PutType ==
    ASSUME TypeInv, NEW e \in Executions, NEW kind \in Kinds, At(e, kind), PutArtifact(e, kind)
    PROVE  \A a \in artifacts' : a \in [key : Kinds \X Shallow, data : Shallow]
BY ArtifactType, ShallowValue, RefDepth DEF PutArtifact

\* The record of an execution that was refused, denied or ran, or gets to the tool.
LEMMA GateOK ==
    ASSUME TypeInv, NEW e \in Executions, At(e, "gate"),
           NEW x \in {Refused, Denied, [exec[e] EXCEPT !.at = "run"]}
    PROVE  x \in Execution /\ DepthOf(x)
<1>1. exec[e] \in Execution /\ input \in Payloads \cup {None}
    BY DEF TypeInv, ToolTypeOK
<1>2. CASE x = Refused
    BY <1>1, <1>2, InlineValues DEF Refused, Execution, Labels, DepthOf, Fields
<1>3. CASE x = Denied
    BY <1>1, <1>3, InlineValues DEF Denied, Execution, Labels, DepthOf, Fields
<1>4. CASE x = [exec[e] EXCEPT !.at = "run"]
    BY <1>1, <1>4 DEF Execution, Labels, DepthOf, TypeInv, Depths, At
<1> QED  BY <1>2, <1>3, <1>4

LEMMA RanOK ==
    ASSUME TypeInv, NEW run \in Runs
    PROVE  Ran(run) \in Execution /\ DepthOf(Ran(run))
<1>1. input \in Payloads \cup {None}
    BY DEF TypeInv, ToolTypeOK
<1> QED  BY <1>1, InlineValues, RunFields DEF Ran, Execution, Labels, DepthOf, Fields

\* Moving on without a change of values.
LEMMA GoesOK ==
    ASSUME TypeInv, NEW e \in Executions,
           NEW label \in {"result", "output", "error", "return", "returned", "failed"},
           \/ At(e, "input") /\ label = "result"
           \/ At(e, "result") /\ label = "output"
           \/ At(e, "output") /\ label = "error"
           \/ label \in {"return", "returned", "failed"}
    PROVE  [exec[e] EXCEPT !.at = label] \in Execution /\ DepthOf([exec[e] EXCEPT !.at = label])
<1>1. exec[e] \in Execution
    BY DEF TypeInv, ToolTypeOK
<1> QED  BY <1>1 DEF Execution, Labels, DepthOf, TypeInv, Depths, At, Shallow

\* What Compact leaves of its execution.
Compacted(e, kind) ==
    [exec[e] EXCEPT !.at = After(kind), !.values[FieldOf(kind)] = Ref(kind, ValueOf(e, kind))]

LEMMA CompactedOK ==
    ASSUME TypeInv, NEW e \in Executions, NEW kind \in Kinds, At(e, kind)
    PROVE  Compacted(e, kind) \in Execution /\ DepthOf(Compacted(e, kind))
<1>1. exec[e] \in Execution
    BY DEF TypeInv, ToolTypeOK
<1>2. Ref(kind, ValueOf(e, kind)) \in Values
      /\ (kind # "error" => Ref(kind, ValueOf(e, kind)) \in RefsTo(Inlines))
    BY ShallowValue, RefDepth
<1>3. Compacted(e, kind) \in Execution
    BY <1>1, <1>2, Constant DEF Compacted, Execution
<1>4. DepthOf(Compacted(e, kind))
    BY <1>1, <1>2 DEF Compacted, Execution, DepthOf, After, FieldOf, Kinds, TypeInv, Depths, At,
                      Shallow, Fields
<1> QED  BY <1>3, <1>4

LEMMA TypeStep == TypeInv /\ [ToolNext]_toolVars => TypeInv'
<1> SUFFICES ASSUME TypeInv, [ToolNext]_toolVars PROVE TypeInv'
    OBVIOUS
<1>t. /\ tool \in Tools \cup {None} /\ attempt \in 0..MaxFaults + 1
      /\ exec \in [Executions -> Execution]
      /\ accepted \in 0..MaxFaults + 1 /\ faults \in 0..MaxFaults
    BY DEF TypeInv, ToolTypeOK
<1>1. ASSUME NEW t \in Tools, NEW in \in Inputs, Call(t, in) PROVE TypeInv'
    BY <1>1, <1>t, BeginsOK, Constant DEF Call
<1>2. ASSUME NEW e \in Executions, Gate(e) PROVE TypeInv'
    <2>1. PICK x \in {Refused, Denied, [exec[e] EXCEPT !.at = "run"]} : exec' = [exec EXCEPT ![e] = x]
        BY <1>2, <1>t DEF Gate
    <2> QED  BY <2>1, <1>2, <1>t, GateOK, StepOK, ArtifactType DEF Gate, At
<1>3. ASSUME NEW e \in Executions, Execute(e) PROVE TypeInv'
    <2>1. PICK run \in Runs : exec' = [exec EXCEPT ![e] = Ran(run)]
        BY <1>3 DEF Execute
    <2> QED  BY <2>1, <1>3, <1>t, RanOK, StepOK, ArtifactType DEF Execute, At
<1>4. ASSUME NEW e \in Executions, NEW kind \in Kinds, KeepInline(e, kind) PROVE TypeInv'
    <2>1. exec' = [exec EXCEPT ![e] = [exec[e] EXCEPT !.at = After(kind)]]
        BY <1>4, <1>t DEF KeepInline, Goes
    <2>2. [exec[e] EXCEPT !.at = After(kind)] \in Execution
          /\ DepthOf([exec[e] EXCEPT !.at = After(kind)])
        BY <1>4, GoesOK DEF KeepInline, After, Kinds
    <2> QED  BY <2>1, <2>2, <1>4, <1>t, StepOK, ArtifactType DEF KeepInline, At, Kinds
<1>5. ASSUME NEW e \in Executions, NEW kind \in Kinds, Compact(e, kind) PROVE TypeInv'
    <2>1. exec' = [exec EXCEPT ![e] = Compacted(e, kind)]
        BY <1>5, <1>t DEF Compact, Compacted
    <2>2. At(e, kind) /\ PutArtifact(e, kind)
        BY <1>5 DEF Compact
    <2>3. exec[e].at # "idle"
        BY <2>2 DEF At, Kinds
    <2>4. \A a \in artifacts' : a \in [key : Kinds \X Shallow, data : Shallow]
        BY <2>2, PutType
    <2>5. /\ tool' = tool /\ input' = input /\ attempt' = attempt
          /\ accepted' \in 0..MaxFaults + 1 /\ faults' \in 0..MaxFaults
        BY <1>5, <1>t DEF Compact
    <2>6. Compacted(e, kind) \in Execution /\ DepthOf(Compacted(e, kind))
        BY <2>2, CompactedOK
    <2> QED  BY <2>1, <2>3, <2>4, <2>5, <2>6, StepOK
<1>6. ASSUME NEW e \in Executions, NEW kind \in Kinds, CompactFails(e, kind) PROVE TypeInv'
    <2>1. exec' = [exec EXCEPT ![e] = [exec[e] EXCEPT !.at = "failed"]]
        BY <1>6, <1>t DEF CompactFails, Goes
    <2>2. \A a \in artifacts' : a \in [key : Kinds \X Shallow, data : Shallow]
        BY <1>6, PutType, ArtifactType DEF CompactFails
    <2>3. faults' \in 0..MaxFaults
        BY <1>6, <1>t DEF CompactFails
    <2> QED  BY <2>1, <2>2, <2>3, <1>6, <1>t, GoesOK, StepOK DEF CompactFails, At, Kinds
<1>7. ASSUME NEW e \in Executions, Returns(e) PROVE TypeInv'
    <2>1. exec' = [exec EXCEPT ![e] = [exec[e] EXCEPT !.at = "returned"]]
        BY <1>7, <1>t DEF Returns, Goes
    <2>2. accepted' \in 0..MaxFaults + 1
        BY <1>7, <1>t, Constant DEF Returns
    <2> QED  BY <2>1, <2>2, <1>7, <1>t, GoesOK, StepOK, ArtifactType DEF Returns, At
<1>8. ASSUME Retry PROVE TypeInv'
    BY <1>8, <1>t, BeginsOK, Constant DEF Retry, TypeInv, Fresh
<1>9. ASSUME TimeOut PROVE TypeInv'
    BY <1>9, <1>t, BeginsOK, Constant DEF TimeOut, TypeInv, Fresh
<1>10. CASE UNCHANGED toolVars
    BY <1>10 DEF toolVars, TypeInv, ToolTypeOK, Fresh, Depths, DepthOf
<1> QED
    BY <1>1, <1>2, <1>3, <1>4, <1>5, <1>6, <1>7, <1>8, <1>9, <1>10 DEF ToolNext, Step

\* Every variable keeps its type, whatever executions of a call overlap.
THEOREM ToolTypeCorrect == ToolSpec => []ToolTypeOK
<1>1. TypeInv => ToolTypeOK
    BY DEF TypeInv
<1> QED  BY TypeInit, TypeStep, <1>1, PTL DEF ToolSpec

-----------------------------------------------------------------------------
(* What an answer leads to through the artifacts of its call.              *)

InStore(key) == \E a \in artifacts : a.key = key

\* An artifact's key tells its content, so that whoever writes it again writes the same.
KeysTell == \A a \in artifacts : a.key[2] = a.data

\* The value a reference was made of.
Behind(value) == IF value.at = "inline" THEN value ELSE value.key[2]

\* The artifact of a reference is in the store, and so is that of the one behind it.
Leads(value) ==
    value.at = "store" =>
        /\ InStore(value.key)
        /\ value.key[2].at = "store" => InStore(value.key[2].key)

ExecOK(e) ==
    LET x == exec[e] IN
    /\ x.at \notin {"idle", "gate", "run"} => x.status # "none"
    /\ x.status = "ran" <=> x.run # None
    /\ x.status = "ran" => x.isError = x.run.isError
    /\ \A f \in Fields : Leads(x.values[f])
    /\ x.status # "none" => \A f \in Fields : Behind(Behind(x.values[f])) = Made(e, f)

Done == accepted # 0 => exec[accepted].at = "returned"

StoreInv == TypeInv /\ KeysTell /\ (\A e \in Executions : ExecOK(e)) /\ Done

\* The store only grows.
Grows == \A key : InStore(key) => InStore(key)'

LEMMA PutGrows ==
    ASSUME TypeInv, KeysTell, NEW e \in Executions, NEW kind \in Kinds, PutArtifact(e, kind)
    PROVE  /\ Grows /\ KeysTell'
           /\ \A key : key = Key(kind, ValueOf(e, kind)) => InStore(key)'
<1>p. PICK new : new = [key |-> Key(kind, ValueOf(e, kind)), data |-> ValueOf(e, kind)]
    OBVIOUS
<1>1. artifacts' = {a \in artifacts : a.key # new.key} \cup {new}
    BY <1>p DEF PutArtifact
<1>2. new.key[2] = new.data /\ new.key = Key(kind, ValueOf(e, kind))
    BY <1>p DEF Key
<1>3. KeysTell'
    BY <1>1, <1>2 DEF KeysTell
<1>4. InStore(new.key)'
    BY <1>1 DEF InStore
<1>5. ASSUME NEW key, InStore(key) PROVE InStore(key)'
    BY <1>5, <1>1, <1>4 DEF InStore
<1> QED  BY <1>2, <1>3, <1>4, <1>5 DEF Grows

LEMMA StillLeads == Grows => \A value : Leads(value) => Leads(value)'
BY DEF Grows, Leads

LEMMA InlineLeads ==
    ASSUME NEW value \in Inlines
    PROVE  Leads(value) /\ Behind(Behind(value)) = value
BY DEF Leads, Behind, Inlines

\* An execution that a step leaves alone, in a store that may have grown.
LEMMA OtherOK ==
    ASSUME NEW e \in Executions, ExecOK(e), exec'[e] = exec[e], input' = input, Grows
    PROVE  ExecOK(e)'
<1>1. \A f \in Fields : Leads(exec[e].values[f])'
    BY StillLeads DEF ExecOK
<1>2. \A f \in Fields : Made(e, f)' = Made(e, f)
    BY DEF Made
<1> QED  BY <1>1, <1>2 DEF ExecOK

LEMMA Unstored == artifacts' = artifacts /\ KeysTell => Grows /\ KeysTell'
BY DEF Grows, InStore, KeysTell

\* A step of one execution: what it has to give to keep the invariant.
LEMMA ExecStep ==
    ASSUME StoreInv, TypeInv', NEW e \in Executions,
           \A d \in Executions \ {e} : exec'[d] = exec[d],
           ExecOK(e)', input' = input, Grows, KeysTell',
           accepted' = accepted \/ (accepted' = e /\ exec'[e].at = "returned"),
           exec[e].at # "returned"
    PROVE  StoreInv'
<1>1. accepted # 0 => accepted \in Executions
    BY Constant DEF StoreInv, TypeInv, ToolTypeOK
<1>2. \A d \in Executions \ {e} : ExecOK(d)'
    BY OtherOK DEF StoreInv
<1>3. Done'
    BY <1>1 DEF StoreInv, Done
<1> QED  BY <1>2, <1>3 DEF StoreInv

LEMMA StoreInit == ToolInit => StoreInv
<1> SUFFICES ASSUME ToolInit PROVE StoreInv
    OBVIOUS
<1>1. \A e \in Executions : exec[e] = NoExec
    BY DEF ToolInit
<1>2. \A f \in Fields : NoValues[f] \in Inlines
    BY DEF NoValues, Inline, Inlines
<1>3. \A e \in Executions : ExecOK(e)
    BY <1>1, <1>2, InlineLeads DEF ExecOK, NoExec
<1>4. KeysTell /\ Done
    BY DEF ToolInit, KeysTell, Done
<1> QED  BY <1>3, <1>4, TypeInit DEF StoreInv

\* A new execution has no values yet.
LEMMA StoreBegins ==
    ASSUME StoreInv, TypeInv', NEW e \in Executions, e = attempt + 1, Begins(e),
           artifacts' = artifacts, accepted' = accepted,
           input' = input \/ attempt = 0
    PROVE  StoreInv'
<1>1. exec \in [Executions -> Execution] /\ accepted \in 0..MaxFaults + 1 /\ attempt \in Nat
    BY DEF StoreInv, TypeInv, ToolTypeOK
<1>2. exec[e] = NoExec /\ (attempt = 0 => \A d \in Executions : exec[d] = NoExec)
    BY <1>1, Constant DEF StoreInv, TypeInv, Fresh
<1>3. exec'[e] = [NoExec EXCEPT !.at = "gate"] /\ \A d \in Executions \ {e} : exec'[d] = exec[d]
    BY <1>1, <1>2 DEF Begins
<1>4. Grows /\ KeysTell'
    BY Unstored DEF StoreInv
<1>5. \A f \in Fields : NoValues[f] \in Inlines
    BY DEF NoValues, Inline, Inlines
<1>6. ASSUME NEW d \in Executions, exec'[d].at \in {"idle", "gate"}, exec'[d].run = None,
             exec'[d].status = "none", exec'[d].values = NoValues
      PROVE  ExecOK(d)'
    <2>1. \A f \in Fields : Leads(NoValues[f])'
        BY <1>5 DEF Leads, Inlines
    <2> QED  BY <1>6, <2>1 DEF ExecOK
<1>7. ExecOK(e)'
    BY <1>3, <1>6 DEF NoExec
<1>8. ASSUME NEW d \in Executions \ {e} PROVE ExecOK(d)'
    <2>1. CASE attempt = 0
        BY <2>1, <1>2, <1>3, <1>6 DEF NoExec
    <2>2. CASE input' = input
        BY <2>2, <1>3, <1>4, OtherOK DEF StoreInv
    <2> QED  BY <2>1, <2>2
<1>9. Done'
    <2>1. accepted # 0 => accepted \in Executions
        BY <1>1, Constant
    <2> QED  BY <2>1, <1>2, <1>3 DEF StoreInv, Done, NoExec
<1> QED  BY <1>4, <1>7, <1>8, <1>9 DEF StoreInv

\* The record an execution gets at its gate or from its tool.
LEMMA FreshRecordOK ==
    ASSUME StoreInv, NEW e \in Executions, exec[e].at \in {"gate", "run"}, NEW x,
           exec' = [exec EXCEPT ![e] = x], input' = input, artifacts' = artifacts,
           \/ x = Refused
           \/ x = Denied
           \/ x = [exec[e] EXCEPT !.at = "run"]
           \/ \E run \in Runs : x = Ran(run)
    PROVE  ExecOK(e)'
<1>1. exec \in [Executions -> Execution] /\ input \in Payloads \cup {None}
    BY DEF StoreInv, TypeInv, ToolTypeOK
<1>2. exec'[e] = x /\ Grows
    BY <1>1, Unstored DEF StoreInv
<1>3. CASE x = [exec[e] EXCEPT !.at = "run"]
    <2>1. exec[e].run = None /\ exec[e].status = "none"
        BY DEF StoreInv, TypeInv, Depths, DepthOf
    <2>2. x.run = None /\ x.status = "none" /\ x.at = "run" /\ x.values = exec[e].values
        BY <1>1, <1>3, <2>1 DEF Execution
    <2>3. \A f \in Fields : Leads(x.values[f])'
        BY <2>2, <1>2 DEF StoreInv, ExecOK, Leads, Grows
    <2> QED  BY <1>2, <2>2, <2>3 DEF ExecOK
<1>4. ASSUME NEW in \in Payloads \cup {None}, NEW res \in Payloads \cup {None},
             NEW out \in Payloads \cup {None}, x.values = Values3(in, res, out)
      PROVE  /\ \A f \in Fields : Leads(x.values[f])'
             /\ \A f \in Fields : Behind(Behind(x.values[f])) = x.values[f]
             /\ x.values["input"] = Inline(in)
             /\ x.values["result"] = Inline(res)
             /\ x.values["output"] = Inline(out)
    <2>1. \A f \in Fields : x.values[f] \in Inlines
        BY <1>4, InlineValues
    <2>2. \A f \in Fields : Leads(x.values[f])'
        BY <2>1 DEF Leads, Inlines
    <2> QED  BY <1>4, <2>1, <2>2, InlineValues, InlineLeads
<1>5. CASE x = Refused
    <2>1. /\ x.values = Values3(input, None, Refusal) /\ x.run = None
          /\ x.status = "refused" /\ x.at = "input"
        BY <1>5 DEF Refused
    <2>2. \A f \in Fields : x.values[f] = Made(e, f)'
        BY <2>1, <1>1, <1>2, <1>4 DEF Made, Fields
    <2> QED  BY <2>1, <2>2, <1>1, <1>2, <1>4 DEF ExecOK
<1>6. CASE x = Denied
    <2>1. /\ x.values = Values3(input, None, None) /\ x.run = None
          /\ x.status = "denied" /\ x.at = "input"
        BY <1>6 DEF Denied
    <2>2. \A f \in Fields : x.values[f] = Made(e, f)'
        BY <2>1, <1>1, <1>2, <1>4 DEF Made, Fields
    <2> QED  BY <2>1, <2>2, <1>1, <1>2, <1>4 DEF ExecOK
<1>7. ASSUME NEW run \in Runs, x = Ran(run) PROVE ExecOK(e)'
    <2>1. /\ x.values = Values3(input, run.result, run.model) /\ x.run = run
          /\ x.status = "ran" /\ x.at = "input" /\ x.isError = run.isError
        BY <1>7 DEF Ran
    <2>2. run # None
        BY ToolAssumption
    <2>3. \A f \in Fields : x.values[f] = Made(e, f)'
        BY <2>1, <1>1, <1>2, <1>4, RunFields DEF Made, Fields
    <2> QED  BY <2>1, <2>2, <2>3, <1>1, <1>2, <1>4, RunFields DEF ExecOK
<1> QED  BY <1>3, <1>5, <1>6, <1>7

\* Moving on leaves an execution's values as they are.
LEMMA MovedOK ==
    ASSUME StoreInv, NEW e \in Executions, exec[e].at \notin {"idle", "gate", "run"},
           exec'[e].status = exec[e].status, exec'[e].run = exec[e].run,
           exec'[e].isError = exec[e].isError, exec'[e].values = exec[e].values,
           input' = input, Grows
    PROVE  ExecOK(e)'
<1>1. \A f \in Fields : Leads(exec[e].values[f])'
    BY StillLeads DEF StoreInv, ExecOK
<1>2. \A f \in Fields : Made(e, f)' = Made(e, f)
    BY DEF Made
<1> QED  BY <1>1, <1>2 DEF StoreInv, ExecOK

\* An execution's record where only its label changed.
LEMMA Moves ==
    ASSUME TypeInv, NEW e \in Executions, NEW label, Goes(e, label)
    PROVE  /\ exec'[e].at = label /\ exec'[e].status = exec[e].status
           /\ exec'[e].run = exec[e].run /\ exec'[e].isError = exec[e].isError
           /\ exec'[e].values = exec[e].values
           /\ \A d \in Executions \ {e} : exec'[d] = exec[d]
BY DEF TypeInv, ToolTypeOK, Goes, Execution

\* A reference leads to what the value it replaces led to.
LEMMA CompactedLeads ==
    ASSUME StoreInv, NEW e \in Executions, NEW kind \in Kinds, At(e, kind),
           exec' = [exec EXCEPT ![e] = Compacted(e, kind)], input' = input,
           PutArtifact(e, kind)
    PROVE  ExecOK(e)'
<1>p. PICK v, r, x : v = ValueOf(e, kind) /\ r = Ref(kind, v) /\ x = Compacted(e, kind)
    OBVIOUS
<1>1. exec \in [Executions -> Execution] /\ exec[e] \in Execution
    BY DEF StoreInv, TypeInv, ToolTypeOK
<1>2. exec'[e] = x
    BY <1>p, <1>1
<1>3. Grows /\ \A key : key = Key(kind, v) => InStore(key)'
    BY <1>p, PutGrows DEF StoreInv
<1>4. FieldOf(kind) \in Fields /\ After(kind) \notin {"idle", "gate", "run"}
    BY Constant
<1>5. exec[e].at \notin {"idle", "gate", "run"}
    BY DEF At, Kinds
<1>6. v = exec[e].values[FieldOf(kind)] /\ v \in Shallow
    BY <1>p, ShallowValue DEF ValueOf, StoreInv
<1>7. /\ x.at = After(kind) /\ x.status = exec[e].status /\ x.run = exec[e].run
      /\ x.isError = exec[e].isError
      /\ x.values[FieldOf(kind)] = r
      /\ \A f \in Fields \ {FieldOf(kind)} : x.values[f] = exec[e].values[f]
    BY <1>p, <1>1, <1>4 DEF Compacted, Execution
<1>8. r.at = "store" /\ r.key = Key(kind, v) /\ r.key[2] = v
    BY <1>p DEF Ref, Key
<1>9. Leads(v) /\ (v.at = "store" => v.key[2] \in Inlines)
    <2>1. Leads(v)
        BY <1>4, <1>6 DEF StoreInv, ExecOK
    <2> QED  BY <2>1, <1>6 DEF Shallow, Inlines, RefsTo
<1>10. Leads(r)'
    <2>1. InStore(r.key)' /\ (v.at = "store" => InStore(v.key)')
        BY <1>3, <1>8, <1>9 DEF Leads, Grows
    <2> QED  BY <2>1, <1>8 DEF Leads
<1>11. \A f \in Fields : Leads(x.values[f])'
    <2>1. \A f \in Fields \ {FieldOf(kind)} : Leads(x.values[f])
        BY <1>7 DEF StoreInv, ExecOK
    <2> QED  BY <2>1, <1>3, <1>7, <1>10, StillLeads
<1>12. Behind(Behind(r)) = Behind(Behind(v))
    <2>1. Behind(r) = v
        BY <1>8 DEF Behind
    <2>2. Behind(Behind(v)) = Behind(v)
        BY <1>6, <1>9 DEF Behind, Inlines, Shallow, RefsTo
    <2> QED  BY <2>1, <2>2
<1>13. \A f \in Fields : Made(e, f)' = Made(e, f)
    BY <1>2, <1>7 DEF Made
<1>14. \A f \in Fields : Behind(Behind(x.values[f])) = Made(e, f)'
    BY <1>4, <1>5, <1>6, <1>7, <1>12, <1>13 DEF StoreInv, ExecOK
<1> QED  BY <1>2, <1>4, <1>5, <1>7, <1>11, <1>14 DEF StoreInv, ExecOK

LEMMA StoreStep == StoreInv /\ [ToolNext]_toolVars => StoreInv'
<1> SUFFICES ASSUME StoreInv, [ToolNext]_toolVars PROVE StoreInv'
    OBVIOUS
<1>t. TypeInv /\ TypeInv' /\ KeysTell /\ exec \in [Executions -> Execution]
    BY TypeStep DEF StoreInv, TypeInv, ToolTypeOK
<1>1. ASSUME NEW t \in Tools, NEW in \in Inputs, Call(t, in) PROVE StoreInv'
    BY <1>1, <1>t, StoreBegins, Constant DEF Call
<1>2. ASSUME NEW e \in Executions, Gate(e) PROVE StoreInv'
    <2>1. PICK x \in {Refused, Denied, [exec[e] EXCEPT !.at = "run"]} : exec' = [exec EXCEPT ![e] = x]
        BY <1>2, <1>t DEF Gate
    <2>2. /\ exec[e].at = "gate" /\ input' = input /\ artifacts' = artifacts
          /\ accepted' = accepted
        BY <1>2 DEF Gate, At
    <2>3. ExecOK(e)' /\ Grows /\ KeysTell'
        BY <1>t, <1>2, <2>1, <2>2, FreshRecordOK, Unstored
    <2>4. \A d \in Executions \ {e} : exec'[d] = exec[d]
        BY <1>t, <1>2, <2>1
    <2> QED  BY <1>t, <1>2, <2>2, <2>3, <2>4, ExecStep
<1>3. ASSUME NEW e \in Executions, Execute(e) PROVE StoreInv'
    <2>1. PICK run \in Runs : exec' = [exec EXCEPT ![e] = Ran(run)]
        BY <1>3 DEF Execute
    <2>2. /\ exec[e].at = "run" /\ input' = input /\ artifacts' = artifacts
          /\ accepted' = accepted
        BY <1>3 DEF Execute, At
    <2>3. ExecOK(e)' /\ Grows /\ KeysTell'
        BY <1>t, <1>3, <2>1, <2>2, FreshRecordOK, Unstored
    <2>4. \A d \in Executions \ {e} : exec'[d] = exec[d]
        BY <1>t, <1>3, <2>1
    <2> QED  BY <1>t, <1>3, <2>2, <2>3, <2>4, ExecStep
<1>4. ASSUME NEW e \in Executions, NEW kind \in Kinds, KeepInline(e, kind) PROVE StoreInv'
    <2>1. /\ Goes(e, After(kind)) /\ exec[e].at = kind /\ input' = input
          /\ artifacts' = artifacts /\ accepted' = accepted
        BY <1>4 DEF KeepInline, At
    <2>2. exec[e].at \notin {"idle", "gate", "run", "returned"}
        BY <2>1 DEF Kinds
    <2>3. ExecOK(e)' /\ Grows /\ KeysTell'
        BY <1>t, <1>4, <2>1, <2>2, Moves, MovedOK, Unstored
    <2> QED  BY <1>t, <1>4, <2>1, <2>2, <2>3, Moves, ExecStep
<1>5. ASSUME NEW e \in Executions, NEW kind \in Kinds, Compact(e, kind) PROVE StoreInv'
    <2>1. exec' = [exec EXCEPT ![e] = Compacted(e, kind)]
        BY <1>5, <1>t DEF Compact, Compacted
    <2>2. /\ At(e, kind) /\ PutArtifact(e, kind) /\ input' = input /\ accepted' = accepted
        BY <1>5 DEF Compact
    <2>3. ExecOK(e)' /\ Grows /\ KeysTell'
        BY <1>t, <1>5, <2>1, <2>2, CompactedLeads, PutGrows
    <2>4. exec[e].at # "returned" /\ \A d \in Executions \ {e} : exec'[d] = exec[d]
        BY <1>t, <1>5, <2>1, <2>2 DEF At, Kinds
    <2> QED  BY <1>t, <1>5, <2>2, <2>3, <2>4, ExecStep
<1>6. ASSUME NEW e \in Executions, NEW kind \in Kinds, CompactFails(e, kind) PROVE StoreInv'
    <2>1. /\ Goes(e, "failed") /\ exec[e].at = kind /\ input' = input /\ accepted' = accepted
          /\ artifacts' = artifacts \/ PutArtifact(e, kind)
        BY <1>6 DEF CompactFails, At
    <2>2. exec[e].at \notin {"idle", "gate", "run", "returned"}
        BY <2>1 DEF Kinds
    <2>3. Grows /\ KeysTell'
        BY <2>1, <1>t, Unstored, PutGrows
    <2>4. ExecOK(e)'
        BY <1>t, <1>6, <2>1, <2>2, <2>3, Moves, MovedOK
    <2> QED  BY <1>t, <1>6, <2>1, <2>2, <2>3, <2>4, Moves, ExecStep
<1>7. ASSUME NEW e \in Executions, Returns(e) PROVE StoreInv'
    <2>1. /\ Goes(e, "returned") /\ exec[e].at = "return" /\ input' = input
          /\ artifacts' = artifacts
          /\ accepted' = accepted \/ accepted' = e
        BY <1>7 DEF Returns, At
    <2>2. ExecOK(e)' /\ Grows /\ KeysTell'
        BY <1>t, <1>7, <2>1, Moves, MovedOK, Unstored
    <2> QED  BY <1>t, <1>7, <2>1, <2>2, Moves, ExecStep
<1>8. ASSUME Retry PROVE StoreInv'
    BY <1>8, <1>t, StoreBegins, Constant DEF Retry
<1>9. ASSUME TimeOut PROVE StoreInv'
    BY <1>9, <1>t, StoreBegins, Constant DEF TimeOut
<1>10. CASE UNCHANGED toolVars
    <2>1. /\ exec' = exec /\ input' = input /\ artifacts' = artifacts /\ accepted' = accepted
        BY <1>10 DEF toolVars
    <2>2. Grows /\ KeysTell'
        BY <2>1, <1>t, Unstored
    <2>3. \A e \in Executions : ExecOK(e)'
        BY <2>1, <2>2, OtherOK DEF StoreInv
    <2> QED  BY <2>1, <2>2, <2>3, <1>t DEF StoreInv, Done
<1> QED
    BY <1>1, <1>2, <1>3, <1>4, <1>5, <1>6, <1>7, <1>8, <1>9, <1>10 DEF ToolNext, Step

\* Following a reference through the store gives the value it was made of.
LEMMA FetchBehind ==
    ASSUME KeysTell, NEW value, value.at \in {"inline", "store"},
           value.at = "store" => InStore(value.key)
    PROVE  Fetch(value) = Behind(value)
<1>1. CASE value.at = "inline"
    BY <1>1 DEF Fetch, Behind
<1>2. CASE value.at = "store"
    <2> DEFINE a == CHOOSE b \in artifacts : b.key = value.key
    <2>1. a \in artifacts /\ a.key = value.key
        BY <1>2 DEF InStore
    <2> QED  BY <1>2, <2>1 DEF KeysTell, Fetch, Behind
<1> QED  BY <1>1, <1>2

LEMMA WholeBehind ==
    ASSUME KeysTell, NEW value \in Values, Leads(value)
    PROVE  Whole(value) = Behind(Behind(value))
<1>1. /\ value.at \in {"inline", "store"}
      /\ value.at = "store" => value.key[2].at \in {"inline", "store"}
    BY DEF Values, Inlines, RefsTo
<1>2. Fetch(value) = Behind(value)
    BY <1>1, FetchBehind DEF Leads
<1>3. /\ Behind(value).at \in {"inline", "store"}
      /\ Behind(value).at = "store" => InStore(Behind(value).key)
    BY <1>1 DEF Behind, Leads
<1> QED  BY <1>2, <1>3, FetchBehind DEF Whole

\* The answer the workflow keeps leads, through the references in it, to what its own
\* execution made, however many other executions wrote artifacts of the same call.
THEOREM AnswersAreWhatRan == ToolSpec => []ReturnedIsWhatRan
<1>1. StoreInv => ReturnedIsWhatRan
    <2> SUFFICES ASSUME StoreInv, accepted # 0
                 PROVE  /\ \A f \in Fields : Whole(exec[accepted].values[f]) = Made(accepted, f)
                        /\ exec[accepted].status = "ran" <=> exec[accepted].run # None
                        /\ exec[accepted].status = "ran" =>
                              exec[accepted].isError = exec[accepted].run.isError
        BY DEF ReturnedIsWhatRan
    <2>1. accepted \in Executions /\ exec[accepted] \in Execution /\ ExecOK(accepted)
        BY Constant DEF StoreInv, TypeInv, ToolTypeOK
    <2>2. exec[accepted].status # "none"
        BY <2>1 DEF StoreInv, Done, ExecOK
    <2>3. \A f \in Fields : exec[accepted].values[f] \in Values /\ Leads(exec[accepted].values[f])
        BY <2>1 DEF Execution, ExecOK
    <2>4. \A f \in Fields : Whole(exec[accepted].values[f]) = Made(accepted, f)
        BY <2>1, <2>2, <2>3, WholeBehind DEF StoreInv, ExecOK
    <2> QED  BY <2>1, <2>4 DEF ExecOK
<1> QED  BY StoreInit, StoreStep, <1>1, PTL DEF ToolSpec

-----------------------------------------------------------------------------
(* What approval and the artifact policy promise.                          *)

\* A denial and a run each had a verdict that let them be.
GatedOK(e) ==
    /\ exec[e].status = "denied" => \E v \in VerdictsOf(e) : Denies(e, v)
    /\ exec[e].at = "run" \/ exec[e].run # None => \E v \in VerdictsOf(e) : ~Denies(e, v)

\* The values that were looked at so far fit.
SmallOK(e) ==
    LET x == exec[e] IN
    /\ x.at \in {"result", "output", "error", "return", "returned"} /\ "input" \in tool.compact
          => Fits(x.values["input"])
    /\ x.at \in {"output", "error", "return", "returned"} /\ "output" \in tool.compact
          => Fits(x.values["result"])
    /\ x.at \in {"error", "return", "returned"} /\ "output" \in tool.compact
          => Fits(x.values["output"])
    /\ x.at \in {"return", "returned"} /\ "error" \in tool.compact /\ x.isError
          => Fits(x.values["output"])

PolicyInv == StoreInv /\ \A e \in Executions : GatedOK(e) /\ SmallOK(e)

\* What every execution's record and the tool decide.
LEMMA SameRecord ==
    ASSUME NEW e \in Executions, GatedOK(e), SmallOK(e), exec'[e] = exec[e], tool' = tool
    PROVE  GatedOK(e)' /\ SmallOK(e)'
<1>1. VerdictsOf(e)' = VerdictsOf(e) /\ \A v : Denies(e, v)' = Denies(e, v)
    BY DEF VerdictsOf, Approval, Denies
<1> QED  BY <1>1 DEF GatedOK, SmallOK, Fits

LEMMA NothingYet ==
    ASSUME NEW e \in Executions, exec[e].at \in {"idle", "gate"}, exec[e].run = None,
           exec[e].status = "none"
    PROVE  GatedOK(e) /\ SmallOK(e)
BY DEF GatedOK, SmallOK

LEMMA PolicyStep == PolicyInv /\ [ToolNext]_toolVars => PolicyInv'
<1> SUFFICES ASSUME PolicyInv, [ToolNext]_toolVars,
                    NEW d \in Executions
             PROVE  GatedOK(d)' /\ SmallOK(d)'
    BY StoreStep DEF PolicyInv
<1>t. /\ TypeInv /\ TypeInv' /\ exec \in [Executions -> Execution]
      /\ \A e \in Executions : GatedOK(e) /\ SmallOK(e) /\ DepthOf(exec[e])
    BY TypeStep DEF PolicyInv, StoreInv, TypeInv, ToolTypeOK, Depths
<1>b. ASSUME NEW e \in Executions, e = attempt + 1, Begins(e), tool' = tool \/ attempt = 0
      PROVE  GatedOK(d)' /\ SmallOK(d)'
    <2>1. exec[e] = NoExec /\ (attempt = 0 => exec[d] = NoExec)
        BY <1>t, <1>b, Constant DEF TypeInv, Fresh, ToolTypeOK
    <2>2. /\ exec'[e] = [NoExec EXCEPT !.at = "gate"]
          /\ d # e => exec'[d] = exec[d]
        BY <1>t, <1>b, <2>1 DEF Begins
    <2>3. CASE d = e \/ attempt = 0
        <3>1. exec'[d].at \in {"idle", "gate"} /\ exec'[d].run = None /\ exec'[d].status = "none"
            BY <2>1, <2>2, <2>3 DEF NoExec
        <3> QED  BY <3>1 DEF GatedOK, SmallOK
    <2>4. CASE d # e /\ tool' = tool
        BY <1>t, <2>2, <2>4, SameRecord
    <2> QED  BY <1>b, <2>3, <2>4
<1>1. ASSUME NEW t \in Tools, NEW in \in Inputs, Call(t, in) PROVE GatedOK(d)' /\ SmallOK(d)'
    BY <1>1, <1>b, Constant DEF Call
<1>2. ASSUME NEW e \in Executions, Gate(e) PROVE GatedOK(d)' /\ SmallOK(d)'
    <2>1. PICK v \in VerdictsOf(e) :
            exec' = [exec EXCEPT ![e] =
                IF ~tool.registered \/ ~tool.valid THEN Refused
                ELSE IF Approval(e) # "denied" /\ v = "error" THEN Refused
                ELSE IF Denies(e, v) THEN Denied
                ELSE IF ~tool.execute THEN Refused
                ELSE [exec[e] EXCEPT !.at = "run"]]
        BY <1>2, <1>t DEF Gate
    <2>2. tool' = tool /\ exec[e].at = "gate"
        BY <1>2 DEF Gate, At
    <2>3. CASE d # e
        BY <1>t, <2>1, <2>2, <2>3, SameRecord
    <2>4. CASE d = e
        <3>1. exec[e].run = None /\ exec[e].status = "none"
            BY <1>t, <2>2 DEF DepthOf
        <3>2. \/ exec'[e].at = "input" /\ exec'[e].status = "refused" /\ exec'[e].run = None
              \/ /\ exec'[e].at = "input" /\ exec'[e].status = "denied" /\ exec'[e].run = None
                 /\ Denies(e, v)
              \/ /\ exec'[e].at = "run" /\ exec'[e].status = "none" /\ ~Denies(e, v)
            BY <1>t, <2>1, <3>1 DEF Refused, Denied, Execution
        <3>3. VerdictsOf(e)' = VerdictsOf(e) /\ \A w : Denies(e, w)' = Denies(e, w)
            BY <2>2 DEF VerdictsOf, Approval, Denies
        <3> QED  BY <2>4, <3>2, <3>3 DEF GatedOK, SmallOK
    <2> QED  BY <2>3, <2>4
<1>3. ASSUME NEW e \in Executions, Execute(e) PROVE GatedOK(d)' /\ SmallOK(d)'
    <2>1. PICK run \in Runs : exec' = [exec EXCEPT ![e] = Ran(run)]
        BY <1>3 DEF Execute
    <2>2. tool' = tool /\ exec[e].at = "run"
        BY <1>3 DEF Execute, At
    <2>3. CASE d # e
        BY <1>t, <2>1, <2>2, <2>3, SameRecord
    <2>4. CASE d = e
        <3>1. exec'[e].at = "input" /\ exec'[e].status = "ran"
            BY <1>t, <2>1 DEF Ran
        <3>2. \E v \in VerdictsOf(e) : ~Denies(e, v)
            BY <1>t, <2>2 DEF GatedOK
        <3>3. VerdictsOf(e)' = VerdictsOf(e) /\ \A w : Denies(e, w)' = Denies(e, w)
            BY <2>2 DEF VerdictsOf, Approval, Denies
        <3> QED  BY <2>4, <3>1, <3>2, <3>3 DEF GatedOK, SmallOK
    <2> QED  BY <2>3, <2>4
<1>4. ASSUME NEW e \in Executions, NEW kind \in Kinds, KeepInline(e, kind)
      PROVE  GatedOK(d)' /\ SmallOK(d)'
    <2>1. /\ Goes(e, After(kind)) /\ exec[e].at = kind /\ tool' = tool /\ ~ToStore(e, kind)
        BY <1>4 DEF KeepInline, At
    <2>2. CASE d # e
        BY <1>t, <1>4, <2>1, <2>2, Moves, SameRecord
    <2>3. CASE d = e
        <3>1. GatedOK(e)'
            <4>1. VerdictsOf(e)' = VerdictsOf(e) /\ \A w : Denies(e, w)' = Denies(e, w)
                BY <2>1 DEF VerdictsOf, Approval, Denies
            <4>2. exec'[e].at # "run"
                BY <1>t, <1>4, <2>1, Moves, Constant
            <4> QED  BY <1>t, <1>4, <2>1, <4>1, <4>2, Moves DEF GatedOK
        <3>2. Compacts(e, kind) => Fits(exec[e].values[FieldOf(kind)])
            <4>1. ValueOf(e, kind) = exec[e].values[FieldOf(kind)] /\ ValueOf(e, kind) \in Shallow
                BY <1>t, <1>4, <2>1, ShallowValue DEF ValueOf, At
            <4> QED  BY <2>1, <4>1 DEF ToStore, IsLarge, Fits, Shallow, Inlines, RefsTo
        <3>3. SmallOK(e)'
            BY <1>t, <1>4, <2>1, <3>2, Moves DEF SmallOK, Compacts, FieldOf, After, Kinds, Fits
        <3> QED  BY <2>3, <3>1, <3>3
    <2> QED  BY <2>2, <2>3
<1>5. ASSUME NEW e \in Executions, NEW kind \in Kinds, Compact(e, kind)
      PROVE  GatedOK(d)' /\ SmallOK(d)'
    <2>1. /\ exec' = [exec EXCEPT ![e] = Compacted(e, kind)]
          /\ tool' = tool /\ exec[e].at = kind
        BY <1>5, <1>t DEF Compact, Compacted, At
    <2>2. CASE d # e
        BY <1>t, <2>1, <2>2, SameRecord
    <2>3. CASE d = e
        <3>1. /\ exec'[e].at = After(kind) /\ exec'[e].status = exec[e].status
              /\ exec'[e].run = exec[e].run /\ exec'[e].isError = exec[e].isError
              /\ exec'[e].values[FieldOf(kind)].at = "store"
              /\ \A f \in Fields \ {FieldOf(kind)} : exec'[e].values[f] = exec[e].values[f]
            BY <1>t, <2>1, Constant DEF Compacted, Execution, Ref
        <3>2. GatedOK(e)'
            <4>1. VerdictsOf(e)' = VerdictsOf(e) /\ \A w : Denies(e, w)' = Denies(e, w)
                BY <2>1 DEF VerdictsOf, Approval, Denies
            <4> QED  BY <1>t, <2>1, <3>1, <4>1, Constant DEF GatedOK
        <3>3. SmallOK(e)'
            BY <1>t, <2>1, <3>1 DEF SmallOK, FieldOf, After, Kinds, Fits, Fields
        <3> QED  BY <2>3, <3>2, <3>3
    <2> QED  BY <2>2, <2>3
<1>6. ASSUME NEW e \in Executions, NEW kind \in Kinds, CompactFails(e, kind)
      PROVE  GatedOK(d)' /\ SmallOK(d)'
    <2>1. Goes(e, "failed") /\ tool' = tool
        BY <1>6 DEF CompactFails
    <2>2. CASE d # e
        BY <1>t, <1>6, <2>1, <2>2, Moves, SameRecord
    <2>3. CASE d = e
        <3>1. VerdictsOf(e)' = VerdictsOf(e) /\ \A w : Denies(e, w)' = Denies(e, w)
            BY <2>1 DEF VerdictsOf, Approval, Denies
        <3> QED  BY <1>t, <1>6, <2>1, <2>3, <3>1, Moves DEF GatedOK, SmallOK
    <2> QED  BY <2>2, <2>3
<1>7. ASSUME NEW e \in Executions, Returns(e) PROVE GatedOK(d)' /\ SmallOK(d)'
    <2>1. Goes(e, "returned") /\ tool' = tool /\ exec[e].at = "return"
        BY <1>7 DEF Returns, At
    <2>2. CASE d # e
        BY <1>t, <1>7, <2>1, <2>2, Moves, SameRecord
    <2>3. CASE d = e
        <3>1. VerdictsOf(e)' = VerdictsOf(e) /\ \A w : Denies(e, w)' = Denies(e, w)
            BY <2>1 DEF VerdictsOf, Approval, Denies
        <3> QED  BY <1>t, <1>7, <2>1, <2>3, <3>1, Moves DEF GatedOK, SmallOK, Fits
    <2> QED  BY <2>2, <2>3
<1>8. ASSUME Retry PROVE GatedOK(d)' /\ SmallOK(d)'
    BY <1>8, <1>t, <1>b, Constant DEF Retry
<1>9. ASSUME TimeOut PROVE GatedOK(d)' /\ SmallOK(d)'
    BY <1>9, <1>t, <1>b, Constant DEF TimeOut
<1>10. CASE UNCHANGED toolVars
    BY <1>10, <1>t, SameRecord DEF toolVars
<1> QED
    BY <1>1, <1>2, <1>3, <1>4, <1>5, <1>6, <1>7, <1>8, <1>9, <1>10 DEF ToolNext, Step

LEMMA PolicyInit == ToolInit => PolicyInv
BY StoreInit, NothingYet DEF ToolInit, PolicyInv, NoExec

\* Under a policy that always says the same, no execution denies what another ran.
LEMMA OneVerdict ==
    ASSUME Steady, NEW d \in Executions, NEW e \in Executions,
           NEW v \in VerdictsOf(d), NEW w \in VerdictsOf(e)
    PROVE  Denies(d, v) = Denies(e, w)
<1>1. v = w
    BY DEF Steady, VerdictsOf, Approval
<1> QED  BY <1>1 DEF Denies, Approval

\* A call that people denied does not run, nor does one that was answered as denied,
\* in whichever of its executions.
THEOREM DenialsHold == ToolSpec => []DeniedNeverRan
<1>1. PolicyInv => DeniedNeverRan
    <2> SUFFICES ASSUME PolicyInv, NEW e \in Executions,
                        \/ attempt # 0 /\ tool.approval = "denied"
                        \/ accepted # 0 /\ exec[accepted].status = "denied" /\ Steady
                 PROVE  exec[e].run = None
        BY DEF DeniedNeverRan
    <2>1. GatedOK(e)
        BY DEF PolicyInv
    <2>2. CASE tool.approval = "denied"
        BY <2>1, <2>2 DEF GatedOK, Denies, Approval
    <2>3. CASE accepted # 0 /\ exec[accepted].status = "denied" /\ Steady
        <3>1. accepted \in Executions /\ GatedOK(accepted)
            BY <2>3, Constant DEF PolicyInv, StoreInv, TypeInv, ToolTypeOK
        <3>2. PICK v \in VerdictsOf(accepted) : Denies(accepted, v)
            BY <2>3, <3>1 DEF GatedOK
        <3>3. \A w \in VerdictsOf(e) : Denies(e, w)
            BY <2>3, <3>1, <3>2, OneVerdict
        <3> QED  BY <2>1, <3>3 DEF GatedOK
    <2> QED  BY <2>2, <2>3
<1> QED  BY PolicyInit, PolicyStep, <1>1, PTL DEF ToolSpec

\* An answer carries no value inline that its policy wants in the artifact store.
THEOREM HistoryIsSmall == ToolSpec => []HistoryStaysSmall
<1>1. PolicyInv => HistoryStaysSmall
    <2> SUFFICES ASSUME PolicyInv, accepted # 0 PROVE HistoryStaysSmall
        BY DEF HistoryStaysSmall
    <2>1. accepted \in Executions /\ SmallOK(accepted) /\ exec[accepted].at = "returned"
        BY Constant DEF PolicyInv, StoreInv, TypeInv, ToolTypeOK, Done
    <2> QED  BY <2>1 DEF SmallOK, HistoryStaysSmall, Fields
<1> QED  BY PolicyInit, PolicyStep, <1>1, PTL DEF ToolSpec
=============================================================================
