CONSTANTS
    x = x
    y = y
    w = w
    unnamed = unnamed
    Actions = {x, y, w, unnamed}
    ActionName <- Named
    BindingName <- Bound
    NoName = "none"
    Executable = {y, w, unnamed}
    Unencodable = {y}
    Batches <- MountedBatches
    HostResources <- HostsOwn
    HostPrompts <- Prompts
    Host = Host
    MaxCalls = 2
    Requests <- ClientRequests
    MaxLines = 3
    MaxUnread = 2
SPECIFICATION FairSpec
INVARIANTS
    OneAnswerEach
    OneLineAfterCancel
    DocsFollowTools
PROPERTIES
    EndedInputIsServed
CHECK_DEADLOCK FALSE
