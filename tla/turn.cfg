SPECIFICATION FairTurnSpec
CONSTANTS
    k1 = k1
    k2 = k2
    small = small
    big = big
    huge = huge
    refusal = refusal
    None = None
    Nothing = Nothing
    CallIds = {k1, k2}
    Asks <- TurnAsks
    Tools <- TurnTools
    Inputs <- TurnInputs
    Runs <- TurnRuns
    Payloads <- TurnPayloads
    Large <- TurnLarge
    LargeRefs = TRUE
    Refusal = refusal
    MaxFaults = 1
INVARIANTS ToolTypeOK ReturnedIsWhatRan DeniedNeverRan HistoryStaysSmall ResultIsAnswer ElementsAreFinal ReceiptsTellResult RecordTellsStep ToolRanAsIntended
PROPERTIES TurnEnds
