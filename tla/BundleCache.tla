----------------------------- MODULE BundleCache ------------------------------
(***************************************************************************)
(* The bundle cache: node.cache and the persistent cache's own dictionary  *)
(* in the coordinator's memory, one file per bundle on disk, and the two   *)
(* scripts that work on those files from processes of their own while the  *)
(* coordinator runs - prune_bundle_cache.py, which a systemd timer starts, *)
(* and seed_bundle_cache.py, which an operator starts.                     *)
(*                                                                         *)
(* Neither script takes a lock.  Each reads what it works on once, at its  *)
(* beginning, and then goes through it bundle by bundle.                   *)
(***************************************************************************)
EXTENDS Naturals, FiniteSets

CONSTANTS
    Rids,          \* the resources whose bundles are cached
    Protected,     \* those that match PROTECTED_RID_PATTERNS
    Durable,       \* those that rid-lib parses as ORNs and can write to disk
    MaxFiles,      \* the size limit, with every file of size 1
    MaxVersions,   \* bound on the number of bundles that events bring
    MaxWrites,     \* bound on the number of file writes
    MaxHalts       \* bound on how often the coordinator ends

ASSUME ConstantsAssumption ==
    /\ Protected \subseteq Durable /\ Durable \subseteq Rids
    /\ {MaxFiles, MaxVersions, MaxWrites, MaxHalts} \subseteq Nat

VARIABLES
    up,        \* the coordinator is running
    node,      \* node.cache: the version of each rid, 0 for none
    memory,    \* the same for PersistentBundleCache._memory_cache
    disk,      \* the file of each rid: its version, and when it was written
    queued,    \* the version that the delivery queue file has of each rid
    pruner,    \* the pruning script: its phase, the files it loaded and when
               \* (as history), the age limit
    seeds,     \* the versions that the seed script has yet to write
    seeded,    \* history: the rids it wrote a file of, since their last event
    newest,    \* history: the version of each rid that is current, 0 if forgotten
    pruned,    \* history: the rids whose current version was pruned
    versions,  \* how many versions there have been
    writes,    \* how many file writes: the clock of the timestamps
    aged,      \* writes 1..aged are longer ago than max_age_days
    halts      \* how often the coordinator has ended

vars == <<up, node, memory, disk, queued, pruner, seeds, seeded, newest, pruned,
          versions, writes, aged, halts>>

Version == 0..MaxVersions
File == [version : Version, written : 0..MaxWrites]
NoFile == [version |-> 0, written |-> 0]
NoVersion == [r \in Rids |-> 0]
NoFiles == [r \in Rids |-> NoFile]
IdlePruner == [phase |-> "idle", files |-> NoFiles, cutoff |-> 0, loaded |-> 0]

TypeOK ==
    /\ up \in BOOLEAN
    /\ node \in [Rids -> Version]
    /\ memory \in [Rids -> Version]
    /\ disk \in [Rids -> File]
    /\ queued \in [Rids -> Version]
    /\ pruner \in [phase : {"idle", "loaded", "age", "size"}, files : [Rids -> File],
                   cutoff : 0..MaxWrites, loaded : 0..MaxWrites]
    /\ seeds \in [Rids -> Version]
    /\ seeded \subseteq Rids
    /\ newest \in [Rids -> Version]
    /\ pruned \subseteq Rids
    /\ versions \in Version
    /\ writes \in 0..MaxWrites
    /\ aged \in 0..MaxWrites
    /\ halts \in 0..MaxHalts

-----------------------------------------------------------------------------
OnDisk(files) == {r \in Rids : files[r] # NoFile}

\* Mutant: nothing is written.
WriteFileNever(r, v) == v # 0 /\ UNCHANGED <<disk, writes>>

\* RidLibBundle.generate gives the file a new timestamp.
WriteFile(r, v) ==
    IF r \in Durable
    THEN /\ writes < MaxWrites
         /\ writes' = writes + 1
         /\ disk' = [disk EXCEPT ![r] = [version |-> v, written |-> writes + 1]]
    ELSE UNCHANGED <<disk, writes>>

Init ==
    /\ up = FALSE
    /\ node = NoVersion /\ memory = NoVersion
    /\ disk = NoFiles
    /\ queued = NoVersion
    /\ pruner = IdlePruner
    /\ seeds = NoVersion /\ seeded = {}
    /\ newest = NoVersion /\ pruned = {}
    /\ versions = 0 /\ writes = 0 /\ aged = 0 /\ halts = 0

(* start(): load_all, then node.cache is a copy of the loaded dictionary.  *)
Start ==
    /\ ~up
    /\ up' = TRUE
    /\ memory' = [r \in Rids |-> disk[r].version]
    /\ node' = memory'
    /\ UNCHANGED <<disk, queued, pruner, seeds, seeded, newest, pruned, versions,
                   writes, aged, halts>>

(* handle_event of an event with a bundle: cache_bundle and write.         *)
Cache(r) ==
    /\ up
    /\ versions < MaxVersions
    /\ versions' = versions + 1
    /\ node' = [node EXCEPT ![r] = versions + 1]
    /\ memory' = [memory EXCEPT ![r] = versions + 1]
    /\ WriteFile(r, versions + 1)
    /\ queued' = [queued EXCEPT ![r] = versions + 1]
    /\ newest' = [newest EXCEPT ![r] = versions + 1]
    /\ pruned' = pruned \ {r}
    /\ seeded' = seeded \ {r}
    /\ UNCHANGED <<up, pruner, seeds, aged, halts>>

\* Mutant: the file of the bundle is left alone.
ForgetInMemory(r) ==
    /\ up
    /\ node' = [node EXCEPT ![r] = 0]
    /\ memory' = [memory EXCEPT ![r] = 0]
    /\ newest' = [newest EXCEPT ![r] = 0]
    /\ seeded' = seeded \ {r}
    /\ UNCHANGED <<up, disk, queued, pruner, seeds, pruned, versions, writes, aged,
                   halts>>

(* handle_event of a FORGET: remove_cached_bundle and delete.  The queue   *)
(* keeps the events with the old bundles.                                  *)
Forget(r) ==
    /\ up
    /\ node' = [node EXCEPT ![r] = 0]
    /\ memory' = [memory EXCEPT ![r] = 0]
    /\ disk' = [disk EXCEPT ![r] = NoFile]
    /\ newest' = [newest EXCEPT ![r] = 0]
    /\ seeded' = seeded \ {r}
    /\ UNCHANGED <<up, queued, pruner, seeds, pruned, versions, writes, aged,
                   halts>>

\* get_cached_bundle: node.cache first, then the persistent cache, which looks
\* into its dictionary and then on disk.
Held(r) ==
    IF node[r] # 0 THEN node[r] ELSE IF memory[r] # 0 THEN memory[r] ELSE disk[r].version

\* What the coordinator answers to the nodes that ask for rids, for manifests and
\* for bundles.  The strict endpoints leave out what they do not have, the
\* others name it.
CachedRids == {r \in Rids : node[r] # 0}
Manifests(R) == {[rid |-> r, version |-> Held(r)] : r \in {s \in R : Held(s) # 0}}
Bundles(R) == {[rid |-> r, version |-> Held(r)] : r \in {s \in R : Held(s) # 0}}
ManifestsPayload(R) == [manifests |-> Manifests(R), not_found |-> {r \in R : Held(r) = 0}]
BundlesPayload(R) == [bundles |-> Bundles(R), not_found |-> {r \in R : Held(r) = 0}]

(* A node asks for the manifests or the bundles of R: what is found outside *)
(* of node.cache is kept there and in the dictionary.                      *)
Fetch(R) ==
    /\ up
    /\ node' = [r \in Rids |-> IF r \in R THEN Held(r) ELSE node[r]]
    /\ memory' = [r \in Rids |-> IF r \in R /\ node[r] = 0 THEN Held(r) ELSE memory[r]]
    /\ UNCHANGED <<up, disk, queued, pruner, seeds, seeded, newest, pruned,
                   versions, writes, aged, halts>>

(* The coordinator stops or dies: what was in memory is gone.              *)
Halt ==
    /\ up
    /\ halts < MaxHalts
    /\ halts' = halts + 1
    /\ up' = FALSE
    /\ node' = NoVersion /\ memory' = NoVersion
    /\ UNCHANGED <<disk, queued, pruner, seeds, seeded, newest, pruned, versions,
                   writes, aged>>

(* The newest event with r's bundle leaves the delivery queue.             *)
LeaveQueue(r) ==
    /\ queued[r] # 0
    /\ queued' = [queued EXCEPT ![r] = 0]
    /\ UNCHANGED <<up, node, memory, disk, pruner, seeds, seeded, newest, pruned,
                   versions, writes, aged, halts>>

GrowOld ==
    /\ aged < writes
    /\ aged' = aged + 1
    /\ UNCHANGED <<up, node, memory, disk, queued, pruner, seeds, seeded, newest,
                   pruned, versions, writes, halts>>

-----------------------------------------------------------------------------
(* prune_bundle_cache.py                                                   *)

\* The bundles that prune_by_age removes.  Mutant: protection is not looked at.
TooOldUnprotected(p) ==
    {r \in OnDisk(p.files) : p.files[r].written <= p.cutoff}

TooOld(p) ==
    {r \in OnDisk(p.files) \ Protected : p.files[r].written <= p.cutoff}

\* delete: from the script's dictionary and, if it is there, from disk.
Prune(r, p) ==
    /\ pruner' = [p EXCEPT !.files[r] = NoFile]
    /\ disk' = [disk EXCEPT ![r] = NoFile]
    /\ pruned' = IF disk[r] = NoFile THEN pruned ELSE pruned \cup {r}

(* load_all reads file by file; what changes under it is as if it had     *)
(* changed before or after.                                                *)
PruneLoad ==
    /\ pruner.phase = "idle"
    /\ OnDisk(disk) # {}
    /\ pruner' = [phase |-> "loaded", files |-> disk, cutoff |-> 0, loaded |-> writes]
    /\ UNCHANGED <<up, node, memory, disk, queued, seeds, seeded, newest, pruned,
                   versions, writes, aged, halts>>

PruneAgeNext ==
    /\ pruner.phase = "loaded"
    /\ pruner' = [pruner EXCEPT !.phase = "age", !.cutoff = aged]
    /\ UNCHANGED <<up, node, memory, disk, queued, seeds, seeded, newest, pruned,
                   versions, writes, aged, halts>>

PruneByAge(r) ==
    /\ pruner.phase = "age"
    /\ r \in TooOld(pruner)
    /\ \A s \in TooOld(pruner) : pruner.files[r].written <= pruner.files[s].written
    /\ Prune(r, pruner)
    /\ UNCHANGED <<up, node, memory, queued, seeds, seeded, newest, versions,
                   writes, aged, halts>>

PruneSizeNext ==
    /\ pruner.phase = "age"
    /\ TooOld(pruner) = {}
    /\ pruner' = [pruner EXCEPT !.phase = "size"]
    /\ UNCHANGED <<up, node, memory, disk, queued, seeds, seeded, newest, pruned,
                   versions, writes, aged, halts>>

\* prune_by_size measures the files that are on disk now.
OverLimit == Cardinality(OnDisk(disk)) > MaxFiles

PruneBySize(r) ==
    LET left == OnDisk(pruner.files) \ Protected
    IN  /\ pruner.phase = "size"
        /\ OverLimit
        /\ r \in left
        /\ \A s \in left : pruner.files[r].written <= pruner.files[s].written
        /\ Prune(r, pruner)
        /\ UNCHANGED <<up, node, memory, queued, seeds, seeded, newest, versions,
                       writes, aged, halts>>

\* Mutant: the script ends without pruning by size.
PruneEndEarly ==
    /\ pruner.phase = "size"
    /\ pruner' = IdlePruner
    /\ UNCHANGED <<up, node, memory, disk, queued, seeds, seeded, newest, pruned,
                   versions, writes, aged, halts>>

PruneEnd ==
    /\ pruner.phase = "size"
    /\ ~OverLimit \/ OnDisk(pruner.files) \subseteq Protected
    /\ pruner' = IdlePruner
    /\ UNCHANGED <<up, node, memory, disk, queued, seeds, seeded, newest, pruned,
                   versions, writes, aged, halts>>

-----------------------------------------------------------------------------
(* seed_bundle_cache.py                                                    *)

(* For every rid, the newest event with a bundle in the queue file; FORGET *)
(* events are passed over.                                                 *)
SeedLoad ==
    /\ seeds = NoVersion
    /\ queued # NoVersion
    /\ seeds' = queued
    /\ UNCHANGED <<up, node, memory, disk, queued, pruner, seeded, newest, pruned,
                   versions, writes, aged, halts>>

SeedWrite(r) ==
    /\ seeds[r] # 0
    /\ seeds' = [seeds EXCEPT ![r] = 0]
    /\ WriteFile(r, seeds[r])
    /\ seeded' = seeded \cup {r}
    /\ UNCHANGED <<up, node, memory, queued, pruner, newest, pruned, versions, aged,
                   halts>>

Next ==
    \/ Start \/ Halt \/ GrowOld
    \/ PruneLoad \/ PruneAgeNext \/ PruneSizeNext \/ PruneEnd
    \/ SeedLoad
    \/ \E R \in SUBSET Rids : Fetch(R)
    \/ \E r \in Rids :
          \/ Cache(r) \/ Forget(r) \/ LeaveQueue(r)
          \/ PruneByAge(r) \/ PruneBySize(r)
          \/ SeedWrite(r)

Spec == Init /\ [][Next]_vars

-----------------------------------------------------------------------------
(* Properties.                                                             *)

(* A bundle that the coordinator serves, or has on disk, is the current    *)
(* version of its rid, if the seed script has not written one since the    *)
(* last event about that rid: no restart, pruning or FORGET ever brings an *)
(* older or a forgotten one back by itself, and a node never fetches what  *)
(* is outdated, from whichever of the three copies it is answered.         *)
(* (koi_node.py, cache_bundle, remove_cached_bundle, get_cached_bundle)    *)
NeverOutdated ==
    /\ \A b \in Bundles(Rids) : b.rid \in seeded \/ b.version = newest[b.rid]
    /\ \A r \in Rids \ seeded : disk[r].version \in {0, newest[r]}

(* A rid that has a current version is among those that the coordinator    *)
(* lists, and its bundle and manifest are served, unless a restart found   *)
(* no file of it: then it was pruned, or is one that cannot be written.    *)
(* (koi_node.py:491, "synced with disk on startup"; persistent_cache.py,   *)
(* delete)                                                                 *)
MissingWasPruned ==
    \A r \in Rids :
        up /\ newest[r] # 0
           /\ (r \notin CachedRids \/ r \in ManifestsPayload(Rids).not_found
                                  \/ r \in BundlesPayload(Rids).not_found) =>
            halts > 0 /\ (r \in pruned \/ r \notin Durable)

(* The file of a protected rid disappears only when the rid is forgotten,  *)
(* whatever the pruning script loaded and whenever it did.                 *)
(* (persistent_cache.py, prune_by_age and prune_by_size)                   *)
ProtectedStay ==
    \A r \in Protected : newest[r] # 0 => disk[r] # NoFile

(* When the script ends, the cache is within its limit, or what exceeds it *)
(* is protected or was written while the script ran.                       *)
PruningReachesLimit ==
    [][PruneEnd => \/ ~OverLimit
                   \/ \A r \in OnDisk(disk) \ Protected :
                          disk[r].written > pruner.loaded]_vars

-----------------------------------------------------------------------------
(***************************************************************************)
(* The inductive invariant.                                                *)
(***************************************************************************)

\* What the seed script did not write is current, in memory and on disk.
CopiesCurrent ==
    \A r \in Rids \ seeded :
        {node[r], memory[r], disk[r].version} \subseteq {0, newest[r]}

\* A current version that has no file was pruned, or never had one; so was one
\* that is not listed.
FilelessWasPruned ==
    \A r \in Rids :
        /\ up /\ newest[r] # 0 /\ node[r] = 0 => r \in pruned \/ r \notin Durable
        /\ newest[r] # 0 /\ disk[r] = NoFile => r \in pruned \/ r \notin Durable
        /\ disk[r] # NoFile => r \in Durable /\ disk[r].version # 0

\* Until the first halt, memory has every current version.
FirstRunRemembers ==
    halts = 0 => \A r \in Rids : newest[r] # 0 => up /\ node[r] # 0

\* What is on disk, the script has loaded, or it was written after that.
PrunerKnows ==
    /\ pruner.loaded <= writes
    /\ pruner.phase # "idle" =>
          \A r \in OnDisk(disk) \ OnDisk(pruner.files) :
              disk[r].written > pruner.loaded

IInv ==
    /\ TypeOK
    /\ CopiesCurrent
    /\ FilelessWasPruned
    /\ FirstRunRemembers
    /\ PrunerKnows
    /\ ProtectedStay

=============================================================================
