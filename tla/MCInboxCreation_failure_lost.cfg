SPECIFICATION Spec
CONSTANTS
    InboxIDs = {i1}
    MessageIDs = {}
    upper = upper
    lower = lower
    Addresses <- MCOneAddress
    Lower <- MCOneLower
    Nil = Nil
    Backend = "memory"
    ForeignKeys = TRUE
    Unreliable = FALSE
    UsingLambda = FALSE
    RouteAnswers = {"route", "error"}
    Life = 2
    MaxTime = 3
    MaxRestarts = 0
INVARIANTS
    FailurePickedUp
CHECK_DEADLOCK FALSE
