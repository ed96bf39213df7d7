SPECIFICATION Spec
CONSTANTS
    c1 = c1  c2 = c2  c3 = c3  r1 = r1  r2 = r2  a1 = a1  w1 = w1  w2 = w2  x = x  y = y
    Calls = {c1, c2}
    Workers = {w1, w2}
    Host <- TwoWorkers
    RecordIds = {r1, r2}
    Attempts = {a1}
    Payloads = {x, y}
    Outcomes = {"completed"}
    Times = {1, 2}
    None = None
    Requests <- PlainRequests
    Cursors = {1, 2, 3, 4, 5}
    SyncedClocks = FALSE
    Expiry = FALSE
    MaxFaults = 1
INVARIANTS FinalReplayComplete
