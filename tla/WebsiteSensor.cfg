SPECIFICATION FairSpec
CONSTANTS
    home = home
    page = page
    Pages = {home, page}
    Home = home
    Links <- MCLinks
    Scripted = TRUE
    MaxPages = 3
    HardLimit = 4
    MaxConcurrent = 2
    MaxVersion <- MCMaxVersion
    MaxTriggers = 1
    MaxHalts = 1
    MaxFailures = 1
INVARIANTS
    RecordedIsLast
    LimitWithoutTrigger
PROPERTIES
    ChangesAreNoticed
