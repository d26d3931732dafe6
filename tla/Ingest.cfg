\* Requests that interleave, at their receipts if there are any; crashes and
\* torn files; a save of the dedup file that fails.
CONSTANTS
    r1 = r1
    r2 = r2
    u1 = u1
    h1 = h1
    h2 = h2
    q1 = q1
    q2 = q2
    Rids = {r1, r2}
    Urls = {u1}
    Hashes = {h1, h2}
    NoHash = NoHash
    NoUrl = NoUrl
    Podcasts = {r2}
    Durable = {r1}
    Requests = {q1, q2}
    Batches <- MCBatches
    TornWrites = TRUE
    MaxFailedSaves = 1
    MaxHalts = 1
SPECIFICATION Spec
SYMMETRY RequestSymmetry

INVARIANT OnlyCrashesLose
INVARIANT DedupFollowsQueue
INVARIANT CacheFollowsQueue
