SPECIFICATION FairClaudeSpec
CONSTANTS
    long = long
    brief = brief
    edit = edit
    search = search
    Sessions = {long, brief}
    Tools = {edit, search}
    Messages <- MCMessages
    Listed = {brief}
    Setup <- MCSetup
    Extractors = {"batch", "inline"}
    MinVersion = 2
    MaxAttempts = 2
    BatchLimit = 1
    MaxRuns = 1
    MaxEnds = 1
    MaxErrors = 1
INVARIANTS
    RecordedTimeIsSafe
    MarkedIsExtracted
PROPERTIES
    EpisodesAreExcused
    EventuallyExtracted
    EventuallyStored
