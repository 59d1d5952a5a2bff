CONSTANTS
    d1 = d1
    Dates = {d1}
    Today = d1
    r1 = r1
    r2 = r2
    Requests = {r1, r2}
    LibraryJobs = {}
    StaleAge = 1
    FaultKinds = {}
    MaxFaults = 0
    NoJob = NoJob
SPECIFICATION Spec
INVARIANTS NoDuplicatePass
