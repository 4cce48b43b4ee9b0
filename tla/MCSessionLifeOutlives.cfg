SPECIFICATION SessionSpec
CONSTANTS
    s1 = s1
    q1 = q1
    q2 = q2
    u1 = u1
    g1 = g1
    g2 = g2
    d1 = d1
    d2 = d2
    Sessions = {s1}
    Submits = {q1, q2}
    Uploads = {}
    Gets = {}
    Deletes = {d1, d2}
    Of <- ModelOf
    Wanted <- ModelWanted
INVARIANT
    NothingOutlivesSession
