SPECIFICATION WorkerSpec
CONSTANTS
    r1 = r1
    r2 = r2
    Requests = {r1, r2}
    NoRequest = NoRequest
INVARIANTS
    OwnAnswer
    OneProcess
PROPERTY
    ServesRuns
