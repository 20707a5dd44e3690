SPECIFICATION PagesSpec
CONSTANTS
    Characters <- MCCharacters
    Lower <- MCLower
    Alphanumeric <- MCAlphanumeric
    Alphabet <- MCAlphabet
    MinUser = 1
    MaxUser = 2
    L = 2
    Reserved <- MCReserved
    HostNames <- MCHostNames
    LowerHost <- MCLowerHost
    NoHost = ""
    Hosts <- MCHosts
    MaxGiven = 2
    InboxLife <- MCInboxLife
    Starts <- MCStarts
    Pauses <- MCPauses
    Overdue <- MCOverdue
INVARIANTS
    AgeIsTrue
    CountdownIsTrue
    GivenIsProper
    OneSpelling
CHECK_DEADLOCK FALSE
