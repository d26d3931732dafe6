SPECIFICATION FairSpec
CONSTANTS
    Sensors = {"github", "gitlab", "github_activity", "medium", "rss", "podcast",
               "youtube", "telegram", "twitter", "newsletters", "mbox", "substack"}
    Items = {1, 2, 3}
    Foreign <- MCForeign
    Short <- MCShort
    Fleeting <- MCFleeting
    Dated = {2}
    HistoricalLimit = 2
    PerCheck = 2
    MaxVersions <- MCMaxVersions
    MaxHalts = 1
    MaxFailures = 1
INVARIANTS
    RecordsOnlyWhatArrived
    RepeatsAreExcused
PROPERTIES
    EventuallyArrives
    ChangesArrive
