SPECIFICATION FairSpec
CONSTANTS
    Sensors = {"twitter", "telegram", "podcast", "youtube", "medium"}
    Items = {1}
    Foreign <- NoItems
    Short <- NoItems
    Fleeting <- NoItems
    Dated = {1}
    HistoricalLimit = 1
    PerCheck = 1
    MaxVersions <- OneVersion
    MaxHalts = 0
    MaxFailures = 0
PROPERTIES
    FitItemsArrive
