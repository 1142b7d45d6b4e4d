CONSTANTS
    c1 = c1
    c2 = c2
    c3 = c3
    c4 = c4
    k1 = k1
    k2 = k2
    u1 = u1
    Calls = {c1, c2, c3}
    Contexts = {k1}
    HitlRoles = {"guard"}
    PlainRoles = {"plain"}
    Callbacks = {u1}
    Requests <- RaceRequests
    Outcomes = {"completed"}
    NoContext = NoContext
    NoCallback = NoCallback
    NoCall = NoCall
    MaxHistory = 2
    MaxTransitions = 3
    TTL = 1
    Times = {0, 1, 2}
    MaxInFlight = 2
SPECIFICATION FairSpec
PROPERTIES
    ContinuationKept
