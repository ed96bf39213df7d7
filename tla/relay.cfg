SPECIFICATION Spec
CONSTANTS
    MaxExecutions = 2
    Keys = {1, 2}
    Parts <- LanesThenDelta
    Policies = {"strict", "best-effort"}
    SnapshotEveryChunks = 3
    SnapshotEveryCharacters = 2
    MaxParts <- ThreeThenOne
    MaxFaults = 1
INVARIANTS TypeOK ReceiptIsStored LateJoinerCatchesUp ManifestLagBounded CompletedIsClosed
