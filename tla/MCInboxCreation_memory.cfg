SPECIFICATION Spec
CONSTANTS
    InboxIDs = {i1, i2}
    MessageIDs = {}
    upper = upper
    lower = lower
    Addresses <- MCAddresses
    Lower <- MCLower
    Nil = Nil
    Backend = "memory"
    ForeignKeys = TRUE
    Unreliable = FALSE
    UsingLambda = FALSE
    RouteAnswers = {"route", "error"}
    Life = 2
    MaxTime = 3
    MaxRestarts = 0
INVARIANTS
    TypeOK
    RevokedOnlyIfFailed
    NoStrayRow
PROPERTIES
    ImplementsLifecycle
    ExpiredInboxDeleted
CHECK_DEADLOCK FALSE
