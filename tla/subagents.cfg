SPECIFICATION Spec
CONSTANTS
    Ids = {research}
    Calls = {call1, call2, call3}
    Sinces = {6}
    MaxRuntimes = 2
    MaxReports = 2
INVARIANTS TypeOK ReportIsTrue OneChildPerId
PROPERTIES SnapshotsAdvance ReportIsFinal WaiterHearsTheEnd
CHECK_DEADLOCK FALSE
