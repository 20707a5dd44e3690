SPECIFICATION MailgunSpec
CONSTANTS
    InboxIDs = {i1}
    MessageIDs <- MCMessageIDs
    kiwi = kiwi
    mail1 = mail1
    Addresses <- MCAddresses
    Lower <- MCLower
    Mails <- MCMails
    MaxTries = 1
    PageSize = 1
    MaxOthers = 0
    Nil = Nil
    Backend = "dynamo"
    ForeignKeys = FALSE
    Unreliable = FALSE
    Life = 2
    MaxTime = 3
INVARIANTS
    FailureIsTrue
CHECK_DEADLOCK FALSE
