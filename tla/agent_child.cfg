SPECIFICATION Spec
CONSTANTS
    Inputs <- Child
    Tools <- TheTools
    Gated <- TheGated
    Local <- TheLocal
    Outputs <- TheOutputs
    ToolOutcomes <- TheOutcomes
    MaxCalls = 3
    MaxSteps = 2
    MaxResponses = 2
    MaxFaults = 1
INVARIANTS SnapshotsAdvance
CHECK_DEADLOCK FALSE
