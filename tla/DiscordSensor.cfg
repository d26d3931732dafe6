SPECIFICATION FairDiscordSpec
CONSTANTS
    Messages = {1, 2}
    Changing = {1}
    LastVersion = 2
    HistoryLimit = 1
    Collectors = {"first"}
    MaxStops = 1
    MaxErrors = 1
INVARIANTS
    HeldIsCurrent
PROPERTY
    EventuallyHeld
