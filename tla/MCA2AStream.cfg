CONSTANTS
    c1 = c1
    c2 = c2
    k1 = k1
    u1 = u1
    doc = doc
    Calls = {c1, c2}
    Contexts = {k1}
    HitlRoles = {"guard"}
    PlainRoles = {"plain"}
    Callbacks = {u1}
    Requests <- StreamedRequests
    Outcomes = {"completed", "failed"}
    NoContext = NoContext
    NoCallback = NoCallback
    NoCall = NoCall
    MaxHistory = 1
    MaxTransitions = 1
    TTL = 1
    Times = {0, 2}
    MaxInFlight = 2
    Artifacts = {doc}
    FormName = "ApprovalForm"
    Results <- SomeResults
    MaxYields = 2
SPECIFICATION StreamSpec
SYMMETRY Symmetry
INVARIANTS
    StreamGrammar
    ArtifactsOnce
    AnnouncedIdKept
    CancelAnswered
