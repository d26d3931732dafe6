SPECIFICATION FairSpec
CONSTANTS
    Items = {i1, i2}
    Convertible = {i1}
    MaxVersions = 2
    MaxDocs = 3
    MaxHalts = 1
    MaxFailures = 1
    MaxResets = 1
INVARIANTS
    RecordsOnlyWhatArrived
    RepeatsAreExcused
PROPERTIES
    EventuallyProcessed
