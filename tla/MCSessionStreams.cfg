SPECIFICATION ComposedSpec
CONSTANTS
    s1 = s1
    q1 = q1
    d1 = d1
    d2 = d2
    c1 = c1
    Here = s1
    Sessions = {s1}
    Submits = {q1}
    Uploads = {}
    Gets = {}
    Deletes = {d1, d2}
    Of <- ModelOf
    Wanted <- ModelWanted
    Events <- ModelEvents
    Streams = {c1}
    KeepAlive = 2
INVARIANTS
    StreamTypeOK
    SentIsPrefix
PROPERTIES
    EveryEventIsSent
    StreamsGoOn
    EndIsTold
