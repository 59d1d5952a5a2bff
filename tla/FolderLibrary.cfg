SPECIFICATION FairSpec
CONSTANTS
    Paths <- Siblings
    Parent <- ParentOfSiblings
    Subtree <- SubtreeOfSiblings
    Prefixed <- PrefixedOfSiblings
    NoPath = NoPath
    Library = {}
    Volatile = {}
    NoId = NoId
    Callers = {c1, c2}
    Kinds = {"add", "enable", "disable", "delete", "sync"}
    MaxRequests = 3
    FaultKinds = {"raise", "index", "flag", "worker_death", "restart"}
    MaxFaults = 1
INVARIANT TypeOK
INVARIANT BusyIsOwned
INVARIANT CompletedMeansIndexed
PROPERTY BusyEnds
CHECK_DEADLOCK FALSE
