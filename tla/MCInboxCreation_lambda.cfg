SPECIFICATION Spec
CONSTANTS
    InboxIDs = {i1, i2}
    MessageIDs = {}
    upper = upper
    lower = lower
    Addresses <- MCOneAddress
    Lower <- MCOneLower
    Nil = Nil
    Backend = "dynamo"
    ForeignKeys = TRUE
    Unreliable = TRUE
    UsingLambda = TRUE
    RouteAnswers = {"route", "error"}
    Life = 2
    MaxTime = 3
    MaxRestarts = 0
INVARIANTS
    CredentialHasInbox
    LambdaWaits
PROPERTIES
    ImplementsLifecycle
    RequestsAnswered
CHECK_DEADLOCK FALSE
