SPECIFICATION SmtpSpec
CONSTANTS
    InboxIDs = {i1, i2}
    MessageIDs <- MCMessageIDs
    kiwi = kiwi
    roger = roger
    mail1 = mail1
    Addresses <- MCAddresses
    Lower <- MCLower
    Mails <- MCMails
    Letters <- MCLetters
    MaxTries = 2
    MaxTo = 2
    Nil = Nil
    Backend = "sql"
    ForeignKeys = TRUE
    Unreliable = TRUE
    Life = 1
    MaxTime = 2
SYMMETRY MCSymmetry
INVARIANTS
    SmtpTypeOK
    AcceptedMailIsKept
    MailHasInbox
    AnsweredMailIsServed
    MailWasAddressed
    RefusedMailIsAPrefix
    MailHadRecipient
PROPERTIES
    ImplementsContract
CHECK_DEADLOCK FALSE
