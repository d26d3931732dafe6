SPECIFICATION FairSpec
CONSTANTS
    page = page
    other = other
    c1 = c1
    c2 = c2
    text = text
    secret = secret
    address = address
    Pages = {page, other}
    Comments = {c1, c2}
    Blocks <- MCBlocks
    PagesPerPoll = 1
    BlocksPerVisit = 1
    PollsPerQuery = 1
    Versions <- MCVersions
    Sheet <- MCSheet
    Contacts = {address}
    Redacted = Redacted
    Transcribes = TRUE
    MaxEdits = 2
    MaxHalts = 1
    MaxFailures = 1
INVARIANTS
    AcknowledgedIsLast
PROPERTIES
    OnlyFreshIsSent
    RepeatsAreExcused
    EventuallyCurrent
