SPECIFICATION Spec
CONSTANTS
    Inputs <- Varied
    Tools <- TheTools
    Gated <- TheGated
    Local <- TheLocal
    Outputs <- TheOutputs
    ToolOutcomes <- TheOutcomes
    MaxCalls = 3
    MaxSteps = 2
    MaxResponses = 2
    MaxFaults = 1
INVARIANTS TypeOK RanOnlyApproved RecordedBeforeRun ResultsMatchCalls EndedIsRecorded CompletedChildIsRecorded
PROPERTIES AnsweredApprovalEnds AgentReturns
CHECK_DEADLOCK FALSE
