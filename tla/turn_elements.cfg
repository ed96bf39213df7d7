SPECIFICATION TurnSpec
CONSTANTS
    k1 = k1
    k2 = k2
    small = small
    big = big
    huge = huge
    refusal = refusal
    None = None
    Nothing = Nothing
    CallIds = {k1, k2}
    Asks <- ElementsAsks
    Tools <- OneTool
    Inputs <- TurnInputs
    Runs <- TurnRuns
    Payloads <- TurnPayloads
    Large <- TurnLarge
    LargeRefs = TRUE
    Refusal = refusal
    MaxFaults = 1
INVARIANTS NoRecordConflict
