SPECIFICATION MailgunSpec
CONSTANTS
    InboxIDs = {i1}
    MessageIDs <- MCMessageIDs
    kiwi = kiwi
    mail1 = mail1
    Addresses <- MCAddresses
    Lower <- MCLower
    Mails <- MCMails
    MaxTries = 2
    PageSize = 1
    MaxOthers = 1
    Nil = Nil
    Backend = "dynamo"
    ForeignKeys = FALSE
    Unreliable = TRUE
    Life = 2
    MaxTime = 3
INVARIANTS
    MailgunTypeOK
    AcceptedMailIsKept
    MailHasInbox
    LiveRouteKept
    StoredTwiceOnlyIfAbandoned
PROPERTIES
    DealtWithMailWasSaved
    ImplementsContract
    ExpiredRouteDeleted
CHECK_DEADLOCK FALSE
