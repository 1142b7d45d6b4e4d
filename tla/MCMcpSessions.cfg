CONSTANTS
    a1 = a1
    a2 = a2
    p1 = p1
    p2 = p2
    p3 = p3
    s1 = s1
    s2 = s2
    Connections = {a1, a2}
    Posts = {p1, p2, p3}
    Notes = {p3}
    Unencodable = {p2}
    SessionIds = {s1, s2}
    Capacity = 1
SPECIFICATION FairSpec
INVARIANTS
    DeliveredOnceToAddressee
    NoSessionLeaks
PROPERTIES
    PostsEnd
    AcceptedIsWritten
CHECK_DEADLOCK FALSE
