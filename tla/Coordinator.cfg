\* The cache: three kinds of rid, both scripts at any time, a restart.
\* The registry: a sensor with heartbeats and a type without, two requests that
\* stop one adapter, a failing write or a crash, two starts.
CONSTANTS
    orn = orn
    profile = profile
    url = url
    Rids = {orn, profile, url}
    Protected = {profile}
    Durable = {orn, profile}
    MaxFiles = 1
    MaxVersions = 2
    MaxWrites = 3
    MaxHalts = 1
    Types = {"website", "substack"}
    Beating = {"website"}
    Adapters = {"notion"}
    Requests = {"q1", "q2"}
    IdleAfter = 1
    OfflineAfter = 2
    HiddenAfter = 4
    BeatEvery = 2
    None = None
    MaxFaults = 1
    MaxStarts = 2
SPECIFICATION StoreSpec

INVARIANT NeverOutdated
INVARIANT MissingWasPruned
INVARIANT KnownTypesStay
INVARIANT RunningIsListed
INVARIANT AliveIsListed
PROPERTY PruningReachesLimit
