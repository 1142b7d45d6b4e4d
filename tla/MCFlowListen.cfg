CONSTANTS
    l1 = l1
    l2 = l2
    greet = greet
    refund = refund
    plain = plain
    helper = helper
    Callers = {l1, l2}
    NoCaller = NoCaller
    MaxRequests = 1
    Actions = {greet, refund, plain}
    Unknown = Unknown
    Roles = {helper}
    NoRole = NoRole
    RoleOf <- Binding
    NoAction = NoAction
SPECIFICATION FairFlowSpec
INVARIANTS
    ReturnedMeansStopped
    ReadyIsMounted
    QuietOnlyWhenCanceled
PROPERTIES
    StartsOnce
    ListenCallReturns
CHECK_DEADLOCK FALSE
