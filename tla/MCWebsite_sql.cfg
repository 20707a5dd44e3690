SPECIFICATION WebSpec
CONSTANTS
    InboxIDs = {i1, i2}
    MessageIDs = {}
    kiwi = kiwi
    Addresses <- MCAddresses
    Lower <- MCLower
    Nil = Nil
    Backend = "sql"
    ForeignKeys = TRUE
    Unreliable = FALSE
    UsingLambda = FALSE
    RouteAnswers = {"route", "error"}
    Life = 1
    MaxTime = 3
    MaxRestarts = 0
    Tabs = {t1, t2}
    CookieLife = 2
INVARIANTS
    SessionHasInbox
PROPERTIES
    SessionLeftForCause
    FailedSessionEnds
CHECK_DEADLOCK FALSE
