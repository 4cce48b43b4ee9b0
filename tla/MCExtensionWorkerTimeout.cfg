SPECIFICATION WorkerSafety
CONSTANTS
    r1 = r1
    r2 = r2
    Requests = {r1, r2}
    NoRequest = NoRequest
PROPERTY
    TimeoutFailsThatOneRun
