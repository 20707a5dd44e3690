SPECIFICATION Spec
CONSTANTS
    InboxIDs = {i1, i2}
    MessageIDs = {m1}
    upper = upper
    lower = lower
    Addresses <- MCAddresses
    Lower <- MCLower
    Nil = Nil
    Backend = "sql"
    ForeignKeys = FALSE
    Unreliable = FALSE
    Life = 2
    MaxTime = 3
PROPERTIES
    ExpiredMailDeleted
CHECK_DEADLOCK FALSE
