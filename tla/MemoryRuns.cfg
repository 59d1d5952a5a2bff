CONSTANTS
    d1 = d1
    Dates = {d1}
    Today = d1
    r1 = r1
    r2 = r2
    Requests = {r1, r2}
    l1 = l1
    LibraryJobs = {l1}
    StaleAge = 1
    FaultKinds = {"raise", "release", "worker_death", "restart"}
    MaxFaults = 1
    NoJob = NoJob
SPECIFICATION FairSpec
INVARIANTS TypeOK NoAbandonedClaim
PROPERTIES CompleteIsNotFailed ClaimsAreClosed ClaimsAreReaped
