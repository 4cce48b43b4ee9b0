SPECIFICATION SessionSpec
CONSTANTS
    s1 = s1
    q1 = q1
    q2 = q2
    u1 = u1
    g1 = g1
    g2 = g2
    d1 = d1
    d2 = d2
    Sessions = {s1}
    Submits = {q1}
    Uploads = {u1}
    Gets = {g1, g2}
    Deletes = {d1, d2}
    Of <- ModelOf
    Wanted <- ModelWanted
INVARIANTS
    DeleteStopsKnownJobs
    DeletedIsGone
    AnnouncedCanBeFetched
