SPECIFICATION Spec
CONSTANTS
    InboxIDs = {i1}
    MessageIDs = {}
    upper = upper
    lower = lower
    Addresses <- MCOneAddress
    Lower <- MCOneLower
    Nil = Nil
    Backend = "sql"
    ForeignKeys = TRUE
    Unreliable = TRUE
    UsingLambda = FALSE
    RouteAnswers = {"route", "error"}
    Life = 2
    MaxTime = 3
    MaxRestarts = 0
PROPERTIES
    ExpiredInboxDeleted
CHECK_DEADLOCK FALSE
