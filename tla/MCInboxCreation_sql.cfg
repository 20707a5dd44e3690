SPECIFICATION Spec
CONSTANTS
    InboxIDs = {i1, i2}
    MessageIDs = {}
    upper = upper
    lower = lower
    Addresses <- MCAddresses
    Lower <- MCLower
    Nil = Nil
    Backend = "sql"
    ForeignKeys = TRUE
    Unreliable = TRUE
    UsingLambda = FALSE
    RouteAnswers = {"route", "error"}
    Life = 2
    MaxTime = 3
    MaxRestarts = 1
SYMMETRY MCSymmetry
INVARIANTS
    CredentialHasInbox
    MarksAreTrue
    AddressUnique
PROPERTIES
    ImplementsLifecycle
CHECK_DEADLOCK FALSE
