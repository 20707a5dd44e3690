SPECIFICATION Spec
CONSTANTS
    InboxIDs = {i1, i2}
    MessageIDs = {m1, m2}
    upper = upper
    lower = lower
    Addresses <- MCAddresses
    Lower <- MCLower
    Nil = Nil
    Backend = "memory"
    ForeignKeys = FALSE
    Unreliable = FALSE
    Life = 2
    MaxTime = 3
INVARIANTS
    TypeOK
    AcceptedMailIsKept
PROPERTIES
    ImplementsContract
    ExpiredMailDeleted
CHECK_DEADLOCK FALSE
