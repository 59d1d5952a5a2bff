SPECIFICATION Spec
CONSTANTS
    Paths <- Nested
    Parent <- ParentOfNested
    Subtree <- SubtreeOfNested
    Prefixed <- PrefixedOfNested
    NoPath = NoPath
    Library = {}
    Volatile = {}
    NoId = NoId
    Callers = {c1, c2}
    Kinds = {"add", "sync"}
    MaxRequests = 2
    FaultKinds = {"raise"}
    MaxFaults = 1
PROPERTY SyncFinishes
CHECK_DEADLOCK FALSE
