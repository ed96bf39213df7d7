SPECIFICATION Spec
CONSTANTS
    Inputs <- Parallel
    Tools <- TheTools
    Gated <- TheGated
    Local <- TheLocal
    Outputs <- TheOutputs
    ToolOutcomes <- TheOutcomes
    MaxCalls = 3
    MaxSteps = 2
    MaxResponses = 2
    MaxFaults = 1
PROPERTIES CanceledApprovalIsRecorded
CHECK_DEADLOCK FALSE
