SPECIFICATION Spec
CONSTANTS
    Paths <- Nested
    Parent <- ParentOfNested
    Subtree <- SubtreeOfNested
    Prefixed <- PrefixedOfNested
    NoPath = NoPath
    Library = {"a"}
    Volatile = {"b"}
    NoId = NoId
    Callers = {c1, c2}
    Kinds = {"enable", "disable", "delete", "sync"}
    MaxRequests = 4
    FaultKinds = {}
    MaxFaults = 0
SYMMETRY CallerSymmetry
INVARIANT NothingLeftUntagged
CHECK_DEADLOCK FALSE
