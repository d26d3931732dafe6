------------------------- MODULE CoordinatorProofs --------------------------
(***************************************************************************)
(* Proofs about what the coordinator keeps: the bundles in its cache, and  *)
(* the registry of its sensors.  Each part is about one of the two.        *)
(***************************************************************************)
EXTENDS BundleCache, SensorRegistry, TLAPS

-----------------------------------------------------------------------------
(***************************************************************************)
(* Proofs of the properties of BundleCache, for any set of resources and   *)
(* any interleaving of the coordinator with the two scripts.               *)
(***************************************************************************)

(* A resource starts with no version and with no file.                     *)
LEMMA FileTypes ==
    /\ NoFile \in File /\ NoFile.version = 0
    /\ NoVersion \in [Rids -> Version] /\ NoFiles \in [Rids -> File]
    /\ \A r \in Rids : NoVersion[r] = 0 /\ NoFiles[r] = NoFile
  BY ConstantsAssumption DEF NoFile, File, NoVersion, NoFiles, Version

(* Writing a file changes that file alone, and dates it after all others.  *)
LEMMA WriteFileEffect ==
    ASSUME TypeOK, NEW r \in Rids, NEW v \in Version, WriteFile(r, v), v # 0
    PROVE  /\ disk' \in [Rids -> File]
           /\ writes' \in 0..MaxWrites /\ writes <= writes'
           /\ \A s \in Rids \ {r} : disk'[s] = disk[s]
           /\ r \in Durable => /\ disk'[r] # NoFile
                               /\ disk'[r].version = v
                               /\ disk'[r].written > writes
           /\ r \notin Durable => disk'[r] = disk[r]
  <1>1. CASE r \in Durable
    <2> DEFINE f == [version |-> v, written |-> writes + 1]
    <2>1. /\ writes < MaxWrites /\ writes' = writes + 1
          /\ disk' = [disk EXCEPT ![r] = f]
      BY <1>1 DEF WriteFile
    <2>2. f \in File /\ f # NoFile /\ writes' \in 0..MaxWrites
      BY <2>1, ConstantsAssumption DEF File, NoFile, TypeOK, Version
    <2>3. f.written = writes + 1 /\ f.version = v /\ writes + 1 > writes /\ writes <= writes'
      BY <2>1 DEF TypeOK
    <2> QED BY <1>1, <2>1, <2>2, <2>3 DEF TypeOK
  <1>2. CASE r \notin Durable
    BY <1>2 DEF WriteFile, TypeOK
  <1> QED BY <1>1, <1>2

(* Pruning changes one file and one entry of the script's dictionary.      *)
LEMMA PruneEffect ==
    ASSUME TypeOK, NEW r \in Rids, Prune(r, pruner)
    PROVE  /\ disk' = [disk EXCEPT ![r] = NoFile]
           /\ pruner' = [pruner EXCEPT !.files = [pruner.files EXCEPT ![r] = NoFile]]
           /\ pruner'.files = [pruner.files EXCEPT ![r] = NoFile]
           /\ pruner'.phase = pruner.phase /\ pruner'.loaded = pruner.loaded
           /\ pruned \subseteq pruned' /\ pruned' \subseteq Rids
           /\ disk[r] # NoFile => r \in pruned'
           /\ disk' \in [Rids -> File]
           /\ pruner' \in [phase : {"idle", "loaded", "age", "size"},
                           files : [Rids -> File], cutoff : 0..MaxWrites,
                           loaded : 0..MaxWrites]
  BY FileTypes DEF TypeOK, Prune

(* A lookup finds a version, and in node.cache if it is there.             *)
LEMMA HeldIsVersion ==
    ASSUME TypeOK, NEW r \in Rids
    PROVE  /\ Held(r) \in Version /\ Held(r) \in {node[r], memory[r], disk[r].version}
           /\ node[r] # 0 => Held(r) = node[r]
           /\ Held(r) = 0 => {node[r], memory[r], disk[r].version} = {0}
  BY FileTypes DEF TypeOK, Held, File

(* Every step keeps the types.                                             *)
LEMMA TypeStep == TypeOK /\ [Next]_vars => TypeOK'
  <1> SUFFICES ASSUME TypeOK, [Next]_vars PROVE TypeOK'
    OBVIOUS
  <1> USE FileTypes, ConstantsAssumption
  <1>0. up' \in BOOLEAN
    BY DEF TypeOK, Next, vars, Start, Halt, GrowOld, PruneLoad, PruneAgeNext,
           PruneSizeNext, PruneEnd, SeedLoad, Cache, Forget, Fetch, LeaveQueue,
           PruneByAge, PruneBySize, SeedWrite
  <1>1. CASE Start
    BY <1>0, <1>1 DEF TypeOK, Start, File
  <1>2. CASE Halt
    BY <1>0, <1>2 DEF TypeOK, Halt
  <1>3. CASE GrowOld
    BY <1>0, <1>3 DEF TypeOK, GrowOld
  <1>4. CASE PruneLoad
    BY <1>0, <1>4 DEF TypeOK, PruneLoad
  <1>5. CASE PruneAgeNext
    BY <1>0, <1>5 DEF TypeOK, PruneAgeNext
  <1>6. CASE PruneSizeNext
    BY <1>0, <1>6 DEF TypeOK, PruneSizeNext
  <1>7. CASE PruneEnd
    BY <1>0, <1>7 DEF TypeOK, PruneEnd, IdlePruner
  <1>8. CASE SeedLoad
    BY <1>0, <1>8 DEF TypeOK, SeedLoad
  <1>9. ASSUME NEW r \in Rids, Cache(r) PROVE TypeOK'
    <2>1. versions + 1 \in Version /\ versions + 1 # 0
      BY <1>9 DEF TypeOK, Cache, Version
    <2> QED BY <1>0, <1>9, <2>1, WriteFileEffect DEF TypeOK, Cache
  <1>10. ASSUME NEW r \in Rids, Forget(r) PROVE TypeOK'
    BY <1>0, <1>10 DEF TypeOK, Forget, Version
  <1>11. ASSUME NEW R \in SUBSET Rids, Fetch(R) PROVE TypeOK'
    BY <1>0, <1>11, HeldIsVersion DEF TypeOK, Fetch
  <1>12. ASSUME NEW r \in Rids, LeaveQueue(r) PROVE TypeOK'
    BY <1>0, <1>12 DEF TypeOK, LeaveQueue, Version
  <1>13. ASSUME NEW r \in Rids, PruneByAge(r) PROVE TypeOK'
    BY <1>0, <1>13, PruneEffect DEF TypeOK, PruneByAge
  <1>14. ASSUME NEW r \in Rids, PruneBySize(r) PROVE TypeOK'
    BY <1>0, <1>14, PruneEffect DEF TypeOK, PruneBySize
  <1>15. ASSUME NEW r \in Rids, SeedWrite(r) PROVE TypeOK'
    BY <1>0, <1>15, WriteFileEffect DEF TypeOK, SeedWrite, Version
  <1>16. CASE UNCHANGED vars
    BY <1>16 DEF TypeOK, vars
  <1> QED
    BY <1>1, <1>2, <1>3, <1>4, <1>5, <1>6, <1>7, <1>8, <1>9, <1>10, <1>11, <1>12,
       <1>13, <1>14, <1>15, <1>16
    DEF Next

-----------------------------------------------------------------------------
(* Most steps leave the files, and what is known of them, alone.           *)
LEMMA QuietSteps ==
    ASSUME TypeOK, [Next]_vars
    PROVE  \/ Start \/ Halt \/ SeedLoad \/ PruneLoad \/ PruneEnd
           \/ \E R \in SUBSET Rids : Fetch(R)
           \/ \E r \in Rids : \/ Cache(r) \/ Forget(r)
                              \/ PruneByAge(r) \/ PruneBySize(r) \/ SeedWrite(r)
           \/ /\ UNCHANGED <<up, node, memory, disk, seeded, newest, pruned, writes, halts>>
              /\ pruner'.files = pruner.files /\ pruner'.loaded = pruner.loaded
              /\ pruner'.phase = "idle" <=> pruner.phase = "idle"
  <1>1. CASE PruneAgeNext
    BY <1>1 DEF PruneAgeNext, TypeOK
  <1>2. CASE PruneSizeNext
    BY <1>2 DEF PruneSizeNext, TypeOK
  <1>3. CASE GrowOld \/ UNCHANGED vars \/ \E r \in Rids : LeaveQueue(r)
    BY <1>3 DEF GrowOld, LeaveQueue, vars
  <1> QED BY <1>1, <1>2, <1>3 DEF Next

(* Every step keeps the copies current.                                    *)
LEMMA CopiesCurrentStep == IInv /\ [Next]_vars => CopiesCurrent'
  <1> DEFINE Current(r) == /\ node[r] \in {0, newest[r]}
                           /\ memory[r] \in {0, newest[r]}
                           /\ disk[r].version \in {0, newest[r]}
  <1> SUFFICES ASSUME IInv, [Next]_vars
               PROVE  \A r \in Rids \ seeded' : Current(r)'
    BY DEF CopiesCurrent
  <1>0. /\ TypeOK /\ \A r \in Rids \ seeded : Current(r)
        /\ \A r \in Rids \ Durable : disk[r].version = 0
    BY FileTypes DEF IInv, CopiesCurrent, FilelessWasPruned
  <1> USE FileTypes
  <1>1. CASE Start
    BY <1>0, <1>1 DEF Start
  <1>2. CASE Halt
    BY <1>0, <1>2 DEF Halt
  <1>3. ASSUME NEW r \in Rids, Cache(r)
        PROVE  \A s \in Rids \ seeded' : Current(s)'
    <2>1. versions + 1 \in Version /\ versions + 1 # 0
      BY <1>0, <1>3, ConstantsAssumption DEF TypeOK, Cache, Version
    <2>2. /\ r \in Durable => disk'[r].version = versions + 1
          /\ r \notin Durable => disk'[r] = disk[r]
          /\ \A s \in Rids \ {r} : disk'[s] = disk[s]
      BY <1>0, <1>3, <2>1, WriteFileEffect DEF Cache
    <2> QED BY <1>0, <1>3, <2>2 DEF Cache, TypeOK
  <1>4. ASSUME NEW r \in Rids, Forget(r)
        PROVE  \A s \in Rids \ seeded' : Current(s)'
    BY <1>0, <1>4 DEF Forget, TypeOK
  <1>5. ASSUME NEW R \in SUBSET Rids, Fetch(R)
        PROVE  \A s \in Rids \ seeded' : Current(s)'
    BY <1>0, <1>5, HeldIsVersion DEF Fetch
  <1>6. ASSUME NEW r \in Rids, PruneByAge(r) \/ PruneBySize(r)
        PROVE  \A s \in Rids \ seeded' : Current(s)'
    <2>1. disk' = [disk EXCEPT ![r] = NoFile]
      BY <1>0, <1>6, PruneEffect DEF PruneByAge, PruneBySize
    <2> QED BY <1>0, <1>6, <2>1 DEF PruneByAge, PruneBySize, TypeOK
  <1>7. ASSUME NEW r \in Rids, SeedWrite(r)
        PROVE  \A s \in Rids \ seeded' : Current(s)'
    <2>1. /\ seeds[r] \in Version /\ seeds[r] # 0 /\ WriteFile(r, seeds[r])
          /\ seeded' = seeded \cup {r} /\ UNCHANGED <<node, memory, newest>>
      BY <1>0, <1>7 DEF SeedWrite, TypeOK
    <2>2. \A s \in Rids \ {r} : disk'[s] = disk[s]
      BY <1>0, <2>1, WriteFileEffect
    <2> QED BY <1>0, <2>1, <2>2
  <1>8. CASE SeedLoad
    BY <1>0, <1>8 DEF SeedLoad
  <1>9. CASE PruneLoad \/ PruneEnd
    BY <1>0, <1>9 DEF PruneLoad, PruneEnd
  <1> QED
    BY <1>0, <1>1, <1>2, <1>3, <1>4, <1>5, <1>6, <1>7, <1>8, <1>9, QuietSteps

(* A resource loses its file by the pruning only.                          *)
LEMMA FilelessWasPrunedStep == IInv /\ [Next]_vars => FilelessWasPruned'
  <1> DEFINE P(r) == /\ up /\ newest[r] # 0 /\ node[r] = 0 => r \in pruned \/ r \notin Durable
                     /\ newest[r] # 0 /\ disk[r] = NoFile => r \in pruned \/ r \notin Durable
                     /\ disk[r] # NoFile => r \in Durable /\ disk[r].version # 0
  <1> SUFFICES ASSUME IInv, [Next]_vars, NEW r \in Rids PROVE P(r)'
    BY DEF FilelessWasPruned
  <1>0. TypeOK /\ P(r)
    BY DEF IInv, FilelessWasPruned
  <1>1. CASE Start \/ Halt \/ SeedLoad \/ PruneLoad \/ PruneEnd
    BY <1>0, <1>1 DEF Start, Halt, SeedLoad, PruneLoad, PruneEnd
  <1>2. ASSUME NEW s \in Rids, Cache(s) PROVE P(r)'
    <2>1. versions + 1 \in Version /\ versions + 1 # 0
      BY <1>0, <1>2, ConstantsAssumption DEF TypeOK, Cache, Version
    <2>2. /\ s \in Durable => disk'[s] # NoFile /\ disk'[s].version = versions + 1
          /\ s \notin Durable => disk'[s] = disk[s]
          /\ r # s => disk'[r] = disk[r]
      BY <1>0, <1>2, <2>1, WriteFileEffect DEF Cache
    <2>3. CASE r = s
      <3>1. node'[r] # 0
        BY <1>0, <1>2, <2>1, <2>3 DEF Cache, TypeOK
      <3> QED BY <1>0, <2>1, <2>2, <2>3, <3>1
    <2>4. CASE r # s
      <3>1. /\ newest'[r] = newest[r] /\ node'[r] = node[r] /\ up' = up
            /\ r \in pruned' <=> r \in pruned
        BY <1>0, <1>2, <2>4 DEF Cache, TypeOK
      <3> QED BY <1>0, <2>2, <2>4, <3>1
    <2> QED BY <2>3, <2>4
  <1>3. ASSUME NEW s \in Rids, Forget(s) PROVE P(r)'
    BY <1>0, <1>3 DEF Forget, TypeOK
  <1>4. ASSUME NEW R \in SUBSET Rids, Fetch(R) PROVE P(r)'
    BY <1>0, <1>4, HeldIsVersion DEF Fetch
  <1>5. ASSUME NEW s \in Rids, PruneByAge(s) \/ PruneBySize(s) PROVE P(r)'
    <2>1. /\ disk' = [disk EXCEPT ![s] = NoFile] /\ pruned \subseteq pruned'
          /\ disk[s] # NoFile => s \in pruned'
      BY <1>0, <1>5, PruneEffect DEF PruneByAge, PruneBySize
    <2> QED BY <1>0, <1>5, <2>1 DEF PruneByAge, PruneBySize, TypeOK
  <1>6. ASSUME NEW s \in Rids, SeedWrite(s) PROVE P(r)'
    <2>1. /\ seeds[s] \in Version /\ seeds[s] # 0
          /\ WriteFile(s, seeds[s])
          /\ UNCHANGED <<up, node, newest, pruned>>
      BY <1>0, <1>6 DEF SeedWrite, TypeOK
    <2>2. /\ s \in Durable => disk'[s] # NoFile /\ disk'[s].version = seeds[s]
          /\ s \notin Durable => disk'[s] = disk[s]
          /\ r # s => disk'[r] = disk[r]
      BY <1>0, <2>1, WriteFileEffect
    <2> QED BY <1>0, <2>1, <2>2
  <1> QED BY <1>0, <1>1, <1>2, <1>3, <1>4, <1>5, <1>6, QuietSteps

(* Before the first restart nothing in memory is lost.                     *)
LEMMA FirstRunRemembersStep == IInv /\ [Next]_vars => FirstRunRemembers'
  <1> SUFFICES ASSUME IInv, [Next]_vars, halts' = 0, NEW r \in Rids, newest'[r] # 0
               PROVE  up' /\ node'[r] # 0
    BY DEF FirstRunRemembers
  <1>0. /\ TypeOK
        /\ halts = 0 /\ newest[r] # 0 => up /\ node[r] # 0
    BY DEF IInv, FirstRunRemembers
  <1>1. CASE Start
    BY <1>0, <1>1 DEF Start
  <1>2. CASE Halt
    BY <1>0, <1>2 DEF Halt, TypeOK
  <1>3. ASSUME NEW s \in Rids, Cache(s) PROVE up' /\ node'[r] # 0
    <2>1. versions + 1 # 0
      BY <1>0 DEF TypeOK, Version
    <2> QED BY <1>0, <1>3, <2>1 DEF Cache, TypeOK
  <1>4. ASSUME NEW s \in Rids, Forget(s) PROVE up' /\ node'[r] # 0
    BY <1>0, <1>4 DEF Forget, TypeOK
  <1>5. ASSUME NEW R \in SUBSET Rids, Fetch(R) PROVE up' /\ node'[r] # 0
    BY <1>0, <1>5, HeldIsVersion DEF Fetch
  <1>6. ASSUME NEW s \in Rids, PruneByAge(s) \/ PruneBySize(s) \/ SeedWrite(s)
        PROVE  up' /\ node'[r] # 0
    BY <1>0, <1>6 DEF PruneByAge, PruneBySize, SeedWrite
  <1>7. CASE SeedLoad \/ PruneLoad \/ PruneEnd
    BY <1>0, <1>7 DEF SeedLoad, PruneLoad, PruneEnd
  <1> QED BY <1>0, <1>1, <1>2, <1>3, <1>4, <1>5, <1>6, <1>7, QuietSteps

(* What is on disk the pruning has loaded, or it was written after that.   *)
LEMMA PrunerKnowsStep == IInv /\ [Next]_vars => PrunerKnows'
  <1> SUFFICES ASSUME IInv, [Next]_vars PROVE PrunerKnows'
    OBVIOUS
  <1>0. TypeOK /\ PrunerKnows /\ writes \in Nat /\ pruner.loaded \in Nat
    BY DEF IInv, TypeOK
  <1> USE DEF PrunerKnows, OnDisk
  <1>1. CASE Start \/ Halt \/ SeedLoad
    BY <1>0, <1>1 DEF Start, Halt, SeedLoad
  <1>2. CASE PruneLoad
    BY <1>0, <1>2 DEF PruneLoad
  <1>3. CASE PruneEnd
    BY <1>0, <1>3 DEF PruneEnd, IdlePruner
  <1>4. ASSUME NEW r \in Rids, NEW v \in Version, v # 0, WriteFile(r, v), pruner' = pruner
        PROVE  PrunerKnows'
    <2>1. /\ writes' \in 0..MaxWrites /\ writes <= writes'
          /\ disk'[r] = disk[r] \/ disk'[r].written > writes
          /\ disk'[r] \in File
          /\ \A s \in Rids \ {r} : disk'[s] = disk[s]
      BY <1>0, <1>4, WriteFileEffect
    <2>2. disk'[r].written \in Nat /\ writes' \in Nat
      BY <2>1 DEF File
    <2>3. pruner.loaded <= writes'
      BY <1>0, <2>1, <2>2
    <2>4. disk'[r].written > writes => disk'[r].written > pruner.loaded
      BY <1>0, <2>2
    <2> QED BY <1>0, <1>4, <2>1, <2>3, <2>4
  <1>5. ASSUME NEW r \in Rids, Cache(r) PROVE PrunerKnows'
    <2>1. versions + 1 \in Version /\ versions + 1 # 0
      BY <1>0, <1>5, ConstantsAssumption DEF TypeOK, Cache, Version
    <2> QED BY <1>4, <1>5, <2>1 DEF Cache
  <1>6. ASSUME NEW r \in Rids, SeedWrite(r) PROVE PrunerKnows'
    BY <1>0, <1>4, <1>6 DEF SeedWrite, TypeOK
  <1>7. ASSUME NEW r \in Rids, Forget(r) PROVE PrunerKnows'
    BY <1>0, <1>7 DEF Forget, TypeOK
  <1>8. ASSUME NEW R \in SUBSET Rids, Fetch(R) PROVE PrunerKnows'
    BY <1>0, <1>8 DEF Fetch
  <1>9. ASSUME NEW r \in Rids, PruneByAge(r) \/ PruneBySize(r) PROVE PrunerKnows'
    <2>1. /\ disk' = [disk EXCEPT ![r] = NoFile]
          /\ pruner'.files = [pruner.files EXCEPT ![r] = NoFile]
          /\ pruner'.phase = pruner.phase /\ pruner'.loaded = pruner.loaded
          /\ writes' = writes
      BY <1>0, <1>9, PruneEffect DEF PruneByAge, PruneBySize
    <2> QED BY <1>0, <2>1 DEF TypeOK
  <1> QED BY <1>0, <1>1, <1>2, <1>3, <1>5, <1>6, <1>7, <1>8, <1>9, QuietSteps

(* A protected resource keeps its file.                                    *)
LEMMA ProtectedStayStep == IInv /\ [Next]_vars => ProtectedStay'
  <1> SUFFICES ASSUME IInv, [Next]_vars, NEW r \in Protected, newest'[r] # 0
               PROVE  disk'[r] # NoFile
    BY DEF ProtectedStay
  <1>0. /\ TypeOK /\ r \in Durable /\ r \in Rids
        /\ newest[r] # 0 => disk[r] # NoFile
    BY ConstantsAssumption DEF IInv, ProtectedStay
  <1>1. CASE Start \/ Halt \/ SeedLoad \/ PruneLoad \/ PruneEnd
    BY <1>0, <1>1 DEF Start, Halt, SeedLoad, PruneLoad, PruneEnd
  <1>2. ASSUME NEW s \in Rids, Cache(s) PROVE disk'[r] # NoFile
    <2>1. versions + 1 \in Version /\ versions + 1 # 0
      BY <1>0, <1>2, ConstantsAssumption DEF TypeOK, Cache, Version
    <2>2. /\ s \in Durable => disk'[s] # NoFile
          /\ r # s => disk'[r] = disk[r]
      BY <1>0, <1>2, <2>1, WriteFileEffect DEF Cache
    <2> QED BY <1>0, <1>2, <2>2 DEF Cache, TypeOK
  <1>3. ASSUME NEW s \in Rids, Forget(s) PROVE disk'[r] # NoFile
    BY <1>0, <1>3 DEF Forget, TypeOK
  <1>4. ASSUME NEW R \in SUBSET Rids, Fetch(R) PROVE disk'[r] # NoFile
    BY <1>0, <1>4 DEF Fetch
  <1>5. ASSUME NEW s \in Rids, PruneByAge(s) \/ PruneBySize(s)
        PROVE  disk'[r] # NoFile
    <2>1. s \notin Protected /\ newest' = newest
      BY <1>5 DEF PruneByAge, PruneBySize, TooOld
    <2>2. disk' = [disk EXCEPT ![s] = NoFile]
      BY <1>0, <1>5, PruneEffect DEF PruneByAge, PruneBySize
    <2> QED BY <1>0, <2>1, <2>2 DEF TypeOK
  <1>6. ASSUME NEW s \in Rids, SeedWrite(s) PROVE disk'[r] # NoFile
    <2>1. /\ seeds[s] \in Version /\ seeds[s] # 0
          /\ WriteFile(s, seeds[s])
          /\ newest' = newest
      BY <1>0, <1>6 DEF SeedWrite, TypeOK
    <2>2. /\ s \in Durable => disk'[s] # NoFile
          /\ r # s => disk'[r] = disk[r]
      BY <1>0, <2>1, WriteFileEffect
    <2> QED BY <1>0, <2>1, <2>2
  <1> QED BY <1>0, <1>1, <1>2, <1>3, <1>4, <1>5, <1>6, QuietSteps

-----------------------------------------------------------------------------
(* The inductive invariant, on which the other theorems rest.              *)
THEOREM CacheInvariant == Spec => []IInv
  <1>1. Init => IInv
    <2> SUFFICES ASSUME Init PROVE IInv
      OBVIOUS
    <2>1. up \in BOOLEAN
      BY DEF Init
    <2>2. TypeOK
      BY <2>1, FileTypes, ConstantsAssumption DEF Init, TypeOK, IdlePruner, Version
    <2>3. /\ CopiesCurrent /\ FilelessWasPruned /\ FirstRunRemembers
          /\ PrunerKnows /\ ProtectedStay
      BY FileTypes, ConstantsAssumption
      DEF Init, CopiesCurrent, FilelessWasPruned, FirstRunRemembers, PrunerKnows,
          ProtectedStay, IdlePruner
    <2> QED BY <2>2, <2>3 DEF IInv
  <1>2. IInv /\ [Next]_vars => IInv'
    BY TypeStep, CopiesCurrentStep, FilelessWasPrunedStep, FirstRunRemembersStep,
       PrunerKnowsStep, ProtectedStayStep
    DEF IInv
  <1> QED BY <1>1, <1>2, PTL DEF Spec

(* Every reachable state of the bundle cache is well typed.                *)
THEOREM CacheTypes == Spec => []TypeOK
  <1>1. IInv => TypeOK
    BY DEF IInv
  <1> QED BY CacheInvariant, <1>1, PTL

(* What the seed script did not write is never outdated or forgotten.      *)
THEOREM NothingOutdated == Spec => []NeverOutdated
  <1>1. IInv => NeverOutdated
    BY HeldIsVersion DEF IInv, NeverOutdated, CopiesCurrent, Bundles
  <1> QED BY CacheInvariant, <1>1, PTL

(* A bundle is missing only if a restart missed its file.                  *)
THEOREM OnlyPrunedAreMissing == Spec => []MissingWasPruned
  <1>1. IInv => MissingWasPruned
    <2> SUFFICES ASSUME IInv, NEW r \in Rids, up, newest[r] # 0, node[r] = 0
                 PROVE  halts > 0 /\ (r \in pruned \/ r \notin Durable)
      BY HeldIsVersion
      DEF IInv, MissingWasPruned, CachedRids, ManifestsPayload, BundlesPayload
    <2>1. halts \in Nat /\ halts # 0
      BY DEF IInv, TypeOK, FirstRunRemembers
    <2> QED BY <2>1 DEF IInv, FilelessWasPruned
  <1> QED BY CacheInvariant, <1>1, PTL

(* Pruning spares the protected bundles.                                   *)
THEOREM ProtectedAreKept == Spec => []ProtectedStay
  <1>1. IInv => ProtectedStay
    BY DEF IInv
  <1> QED BY CacheInvariant, <1>1, PTL

(* Pruning ends within the limit, but for what was written meanwhile.      *)
THEOREM PruningSuffices == Spec => PruningReachesLimit
  <1>1. IInv /\ [Next]_vars =>
          [PruneEnd => \/ ~OverLimit
                       \/ \A r \in OnDisk(disk) \ Protected :
                              disk[r].written > pruner.loaded]_vars
    BY DEF IInv, PrunerKnows, PruneEnd
  <1> QED BY CacheInvariant, <1>1, PTL DEF Spec, PruningReachesLimit

-----------------------------------------------------------------------------
(* Proofs about the registry of sensors and the adapters.  The invariant has *)
(* a part for each of the three questions; each part is preserved by every   *)
(* step on its own, from the types.                                          *)

(* What is in the table or in the file was heard of, and while the           *)
(* coordinator runs the file holds no type that memory does not.             *)
MemoryCoversFile ==
  /\ \A t \in Types : Registered(t) \/ file[t] # None => t \in seen
  /\ \A t \in Types : nodeUp /\ file[t] # None => Registered(t)
  /\ \A t \in Types : Registered(t) => nodeUp

KnownInv == MemoryCoversFile /\ KnownTypesStay

(* An adapter is listed under its type.  One that a request waits for is     *)
(* stopped and, unless requests crossed, still listed, and by one request.   *)
ListedByType == \A a \in Adapters : listed[a] # None => listed[a].of = a

ClosingIsListed ==
  \A q \in Requests :
    closing[q] # None /\ closing[q].of \notin crossed =>
      /\ listed[closing[q].of] = closing[q]
      /\ closing[q] \notin running
      /\ \A p \in Requests :
           closing[p] # None /\ closing[p].of = closing[q].of => p = q

AdapterInv == ListedByType /\ ClosingIsListed /\ RunningIsListed

(* The time of a sensor that is heard, and its wait, add up to no more than  *)
(* the time between two heartbeats: in memory while the coordinator runs,    *)
(* in the file otherwise.                                                    *)
HeardLately(table) ==
  \A t \in Beating \ unheard :
    wait[t] # None => table[t] # None /\ table[t].age + wait[t] <= BeatEvery

(* Who is offline in a table has been silent for long.                       *)
OfflineWasSilent(table) ==
  \A t \in Types : table[t] # None /\ table[t].status = "offline" =>
                     table[t].age >= OfflineAfter

AliveInv ==
  /\ IF nodeUp THEN HeardLately(entry) ELSE HeardLately(file)
  /\ OfflineWasSilent(entry) /\ OfflineWasSilent(file)

(***************************************************************************)
(* The operators.                                                            *)
(***************************************************************************)
(* None is neither an entry nor an adapter.                                  *)
LEMMA NoneDiffers == None \notin Entries /\ None \notin Adapter
BY RegistryAssumption DEF Entries, Age, Adapter

(* A check gives each entry the status of its age and leaves the rest.       *)
LEMMA CheckedEntries ==
  ASSUME NEW table \in [Types -> Entries \union {None}]
  PROVE  /\ Checked(table) \in [Types -> Entries \union {None}]
         /\ \A t \in Types : Checked(table)[t] = None <=> table[t] = None
         /\ \A t \in Types : table[t] # None => Checked(table)[t].age = table[t].age
         /\ OfflineWasSilent(Checked(table))
<1>1. ASSUME NEW t \in Types, table[t] # None
      PROVE  /\ Checked(table)[t] \in Entries
             /\ Checked(table)[t].age = table[t].age
             /\ Checked(table)[t].status = HealthOf(table[t].age)
  BY <1>1 DEF Checked, Entry, Entries, HealthOf
<1>2. \A t \in Types : table[t] = None => Checked(table)[t] = None
  BY DEF Checked
<1>3. \A t \in Types : table[t] # None /\ HealthOf(table[t].age) = "offline" =>
                         table[t].age >= OfflineAfter
  BY RegistryAssumption DEF HealthOf, Entries, Age
<1>4. Checked(table) = [t \in Types |-> Checked(table)[t]]
  BY DEF Checked
<1>5. Checked(table) \in [Types -> Entries \union {None}]
  BY <1>1, <1>2, <1>4
<1>6. OfflineWasSilent(Checked(table))
  BY <1>1, <1>2, <1>3 DEF OfflineWasSilent
<1> QED
  BY <1>1, <1>2, <1>5, <1>6, NoneDiffers

(* An interval makes every entry one older, up to the last threshold.        *)
LEMMA OlderEntries ==
  ASSUME NEW table \in [Types -> Entries \union {None}]
  PROVE  /\ Older(table) \in [Types -> Entries \union {None}]
         /\ \A t \in Types : Older(table)[t] = None <=> table[t] = None
         /\ \A t \in Types : table[t] # None =>
              /\ Older(table)[t].status = table[t].status
              /\ Older(table)[t].age >= table[t].age
              /\ Older(table)[t].age <= table[t].age + 1
<1>1. ASSUME NEW t \in Types, table[t] # None
      PROVE  /\ Older(table)[t] \in Entries
             /\ Older(table)[t].status = table[t].status
             /\ Older(table)[t].age >= table[t].age
             /\ Older(table)[t].age <= table[t].age + 1
  <2>1. table[t] \in Entries
    BY <1>1
  <2>2. CASE table[t].age = HiddenAfter
    BY <1>1, <2>1, <2>2, RegistryAssumption DEF Older, Entries, Age
  <2>3. CASE table[t].age # HiddenAfter
    <3>1. Older(table)[t] = [table[t] EXCEPT !.age = @ + 1]
      BY <1>1, <2>3 DEF Older
    <3>2. table[t].age + 1 \in Age
      BY <2>1, <2>3, RegistryAssumption DEF Entries, Age
    <3> QED
      BY <2>1, <3>1, <3>2 DEF Entries, Age
  <2> QED
    BY <2>2, <2>3
<1>2. \A t \in Types : table[t] = None => Older(table)[t] = None
  BY DEF Older
<1>3. Older(table) = [t \in Types |-> Older(table)[t]]
  BY DEF Older
<1>4. Older(table) \in [Types -> Entries \union {None}]
  BY <1>1, <1>2, <1>3
<1> QED
  BY <1>1, <1>2, <1>4, NoneDiffers

(* A first heartbeat of the loop is due at once or after a whole sleep.      *)
LEMMA FirstWaits == \A t : FirstWait(t, BeatEvery) \in {0, BeatEvery}
BY DEF FirstWait

(***************************************************************************)
(* The types.                                                                *)
(***************************************************************************)
(* Tables without an entry.                                                  *)
LEMMA EmptyTables ==
  /\ NoEntries \in [Types -> Entries \union {None}]
  /\ [t \in Beating |-> None] \in [Beating -> 0..BeatEvery \union {None}]
  /\ [a \in Adapters |-> None] \in [Adapters -> Adapter \union {None}]
  /\ [q \in Requests |-> None] \in [Requests -> Adapter \union {None}]
BY DEF NoEntries

(* The types hold at first.                                                  *)
LEMMA TypeOKInit == RegistryInit => RegistryTypeOK
<1>1. 0 \in 0..MaxStarts /\ 0 \in 0..MaxFaults
  BY RegistryAssumption
<1> QED
  BY <1>1, EmptyTables, Zenon DEF RegistryInit, NoEntries, RegistryTypeOK

(* The file is written, or the write fails.                                  *)
LEMMA SaveTypes ==
  ASSUME RegistryTypeOK, NEW table \in [Types -> Entries \union {None}], Save(table)
  PROVE  /\ file' \in [Types -> Entries \union {None}]
         /\ faults' \in 0..MaxFaults
         /\ forgotten' \subseteq Types
BY RegistryAssumption DEF Save, Fault, NoEntries, RegistryTypeOK

(* The adapters of a process that ends are gone.                             *)
LEMMA NoAdapterTypes ==
  ASSUME RegistryTypeOK, NoAdapters
  PROVE  /\ listed' \in [Adapters -> Adapter \union {None}]
         /\ running' \subseteq Adapter
         /\ closing' \in [Requests -> Adapter \union {None}]
         /\ starts' \in 0..MaxStarts /\ crossed' \subseteq Adapters
BY EmptyTables DEF NoAdapters, RegistryTypeOK

(* An event is tracked.                                                      *)
LEMMA TrackTypes ==
  ASSUME RegistryTypeOK, NEW t \in Types, Track(t)
  PROVE  /\ nodeUp' \in BOOLEAN /\ due' \in BOOLEAN
         /\ entry' \in [Types -> Entries \union {None}]
         /\ file' \in [Types -> Entries \union {None}]
         /\ faults' \in 0..MaxFaults
         /\ seen' \subseteq Types /\ forgotten' \subseteq Types
         /\ UNCHANGED managed
<1>1. Entry("active", 0) \in Entries
  BY RegistryAssumption DEF Entry, Entries, Age
<1>2. entry' \in [Types -> Entries \union {None}]
  BY <1>1 DEF Track, RegistryTypeOK
<1> QED
  BY <1>2, RegistryAssumption DEF Track, Save, Fault, NoEntries, RegistryTypeOK

(* A heartbeat is sent.                                                      *)
LEMMA HeartbeatTypes ==
  ASSUME RegistryTypeOK, NEW t \in Beating, NEW next \in 0..BeatEvery, SendHeartbeat(t, next)
  PROVE  RegistryTypeOK'
<1>1. t \in Types
  BY RegistryAssumption
<1>2. wait' \in [Beating -> 0..BeatEvery \union {None}]
  BY DEF SendHeartbeat, RegistryTypeOK
<1>3. CASE Track(t) /\ unheard' = unheard \ {t}
  BY <1>1, <1>2, <1>3, TrackTypes DEF RegistryTypeOK, managed
<1>4. CASE /\ IF nodeUp THEN Fault ELSE UNCHANGED faults
           /\ unheard' = unheard \union {t}
           /\ UNCHANGED <<nodeUp, registry, managed>>
  BY <1>1, <1>2, <1>4, RegistryAssumption DEF Fault, RegistryTypeOK, registry, managed
<1> QED
  BY <1>3, <1>4 DEF SendHeartbeat

(* The variables keep their types.                                           *)
LEMMA TypeOKStep ==
  ASSUME RegistryTypeOK, [RegistryNext]_registryVars
  PROVE  RegistryTypeOK'
<1>0. /\ Checked(file) \in [Types -> Entries \union {None}]
      /\ Checked(entry) \in [Types -> Entries \union {None}]
      /\ Older(file) \in [Types -> Entries \union {None}]
      /\ Older(entry) \in [Types -> Entries \union {None}]
  BY CheckedEntries, OlderEntries DEF RegistryTypeOK
<1>1. CASE StartNode
  <2>1. entry' \in [Types -> Entries \union {None}] /\ Save(entry')
    BY <1>0, <1>1 DEF StartNode
  <2> QED
    BY <1>1, <2>1, SaveTypes DEF StartNode, RegistryTypeOK, sensors, managed
<1>2. CASE Stop
  <2>1. Unsaved \subseteq Types
    BY DEF Unsaved
  <2> QED
    BY <1>2, <2>1, SaveTypes, NoAdapterTypes, EmptyTables DEF Stop, NoEntries, RegistryTypeOK
<1>3. CASE Crash
  <2>1. Unsaved \subseteq Types
    BY DEF Unsaved
  <2>2. faults' \in 0..MaxFaults
    BY <1>3, RegistryAssumption DEF Crash, NoEntries, Fault, RegistryTypeOK
  <2>3. file' \in [Types -> Entries \union {None}] /\ forgotten' \subseteq Types
    BY <1>3, EmptyTables DEF Crash, NoEntries, RegistryTypeOK
  <2> QED
    BY <1>3, <2>1, <2>2, <2>3, NoAdapterTypes, EmptyTables DEF Crash, NoEntries, RegistryTypeOK
<1>4. ASSUME NEW t \in Types, EventArrives(t) PROVE RegistryTypeOK'
  BY <1>4, TrackTypes DEF EventArrives, RegistryTypeOK, sensors, managed
<1>5. ASSUME NEW t \in Beating, SensorStarts(t) PROVE RegistryTypeOK'
  <2>1. FirstWait(t, BeatEvery) \in 0..BeatEvery
    BY FirstWaits, RegistryAssumption
  <2> QED
    BY <1>5, <2>1, HeartbeatTypes DEF SensorStarts
<1>6. ASSUME NEW t \in Beating, PeriodicHeartbeat(t) PROVE RegistryTypeOK'
  <2>1. BeatEvery \in 0..BeatEvery
    BY RegistryAssumption
  <2> QED
    BY <1>6, <2>1, HeartbeatTypes DEF PeriodicHeartbeat
<1>7. ASSUME NEW t \in Beating, SensorEnds(t) PROVE RegistryTypeOK'
  BY <1>7 DEF SensorEnds, RegistryTypeOK, registry, managed
<1>8. CASE Tick
  <2>1. wait' \in [Beating -> 0..BeatEvery \union {None}]
    BY <1>8, RegistryAssumption DEF Tick, RegistryTypeOK
  <2> QED
    BY <1>0, <1>8, <2>1 DEF Tick, RegistryTypeOK, managed
<1>9. CASE Check
  <2>1. entry' \in [Types -> Entries \union {None}] /\ Save(entry')
    BY <1>0, <1>9 DEF Check
  <2> QED
    BY <1>9, <2>1, SaveTypes DEF Check, RegistryTypeOK, sensors, managed
<1>10. ASSUME NEW a \in Adapters, StartSensor(a) PROVE RegistryTypeOK'
  <2>1. [of |-> a, number |-> starts + 1] \in Adapter /\ starts + 1 \in 0..MaxStarts
    BY <1>10, RegistryAssumption DEF StartSensor, RegistryTypeOK, Adapter
  <2> QED
    BY <1>10, <2>1 DEF StartSensor, RegistryTypeOK, registry, sensors
<1>11. ASSUME NEW q \in Requests, NEW a \in Adapters, StopSensor(q, a) PROVE RegistryTypeOK'
  BY <1>11 DEF StopSensor, RegistryTypeOK, registry, sensors
<1>12. ASSUME NEW q \in Requests, NEW a \in Adapters, StopAgain(q, a) PROVE RegistryTypeOK'
  BY <1>12 DEF StopAgain, RegistryTypeOK, registry, sensors
<1>13. ASSUME NEW q \in Requests, SensorStopped(q) PROVE RegistryTypeOK'
  BY <1>13 DEF SensorStopped, RegistryTypeOK, registry, sensors
<1>14. CASE UNCHANGED registryVars
  BY <1>14 DEF registryVars, RegistryTypeOK, registry, sensors, managed
<1> QED
  BY <1>1, <1>2, <1>3, <1>4, <1>5, <1>6, <1>7, <1>8, <1>9, <1>10, <1>11,
     <1>12, <1>13, <1>14 DEF RegistryNext

(* Every variable keeps its type.                                            *)
THEOREM TypeCorrect == RegistrySpec => []RegistryTypeOK
<1>1. RegistryInit => RegistryTypeOK
  BY TypeOKInit
<1>2. RegistryTypeOK /\ [RegistryNext]_registryVars => RegistryTypeOK'
  BY TypeOKStep
<1> QED
  BY <1>1, <1>2, PTL DEF RegistrySpec

(***************************************************************************)
(* The types of sensors that are known.                                      *)
(***************************************************************************)
(* A write that fails or not keeps what is said of the file, whichever table *)
(* is written, as long as the table covers the file.                         *)
LEMMA SaveKnows ==
  ASSUME RegistryTypeOK, NEW table \in [Types -> Entries \union {None}], Save(table),
         seen \subseteq seen', seen' \subseteq Types,
         \A t \in Types : file[t] # None => table[t] # None
  PROVE  /\ \A t \in Types : file'[t] # None => table[t] # None
         /\ \A t \in seen' \ forgotten' : file'[t] # None /\ table[t] # None
BY DEF Save, NoEntries

(* An event makes its type known, and every other type stays so.             *)
LEMMA TrackKnows ==
  ASSUME RegistryTypeOK, KnownInv, NEW t \in Types, Track(t)
  PROVE  KnownInv'
<1>1. /\ entry' = [entry EXCEPT ![t] = Entry("active", 0)]
      /\ seen' = seen \union {t} /\ nodeUp /\ nodeUp'
  BY DEF Track
<1>2. Entry("active", 0) \in Entries /\ Entry("active", 0) # None
  BY RegistryAssumption, NoneDiffers DEF Entry, Entries, Age
<1>3. /\ entry' \in [Types -> Entries \union {None}]
      /\ entry'[t] # None /\ \A s \in Types \ {t} : entry'[s] = entry[s]
  BY <1>1, <1>2 DEF RegistryTypeOK
<1>4. seen' \subseteq Types /\ forgotten' \subseteq Types
  BY TrackTypes
<1>5. CASE Registered(t) /\ UNCHANGED <<file, forgotten, faults>>
  BY <1>1, <1>3, <1>4, <1>5
     DEF KnownInv, MemoryCoversFile, KnownTypesStay, Registered, RegistryTypeOK
<1>6. CASE ~Registered(t) /\ Save(entry')
  <2>1. \A s \in Types : file[s] # None => entry'[s] # None
    BY <1>1, <1>3 DEF KnownInv, MemoryCoversFile, Registered
  <2>2. /\ \A s \in Types : file'[s] # None => entry'[s] # None
        /\ \A s \in seen' \ forgotten' : file'[s] # None /\ entry'[s] # None
    BY <1>1, <1>3, <1>4, <1>6, <2>1, SaveKnows
  <2> QED
    BY <1>1, <1>3, <2>2 DEF KnownInv, MemoryCoversFile, KnownTypesStay, Registered
<1> QED
  BY <1>5, <1>6 DEF Track

(* The table is checked and saved.                                           *)
LEMMA CheckedIsKnown ==
  ASSUME RegistryTypeOK, KnownInv, NEW table \in [Types -> Entries \union {None}],
         \A t \in Types : file[t] # None => table[t] # None,
         \A t \in Types : table[t] # None => t \in seen,
         nodeUp', entry' = Checked(table), seen' = seen, Save(entry')
  PROVE  KnownInv'
<1>1. /\ entry' \in [Types -> Entries \union {None}]
      /\ \A t \in Types : entry'[t] = None <=> table[t] = None
  BY CheckedEntries
<1>2. /\ \A t \in Types : file'[t] # None => entry'[t] # None
      /\ \A t \in seen' \ forgotten' : file'[t] # None /\ entry'[t] # None
  BY <1>1, SaveKnows DEF RegistryTypeOK
<1> QED
  BY <1>1, <1>2 DEF KnownInv, MemoryCoversFile, KnownTypesStay, Registered

(* Every step keeps known types known.                                       *)
LEMMA KnownStep ==
  ASSUME RegistryTypeOK, KnownInv, [RegistryNext]_registryVars
  PROVE  KnownInv'
<1> USE DEF KnownInv, MemoryCoversFile, KnownTypesStay, Registered
<1>1. CASE StartNode
  BY <1>1, CheckedIsKnown DEF StartNode, RegistryTypeOK
<1>2. CASE Stop
  <2>1. /\ \A t \in Types : file'[t] # None => entry[t] # None
        /\ \A t \in seen' \ forgotten' : file'[t] # None /\ entry[t] # None
    BY <1>2, SaveKnows DEF Stop, NoEntries, RegistryTypeOK
  <2> QED
    BY <1>2, <2>1 DEF Stop, NoEntries, RegistryTypeOK
<1>3. CASE Crash
  BY <1>3 DEF Crash, NoEntries, RegistryTypeOK
<1>4. ASSUME NEW t \in Types, EventArrives(t) PROVE KnownInv'
  BY <1>4, TrackKnows DEF EventArrives
<1>5. ASSUME NEW t \in Beating, NEW next, SendHeartbeat(t, next) PROVE KnownInv'
  <2>1. t \in Types
    BY RegistryAssumption
  <2>2. CASE UNCHANGED <<nodeUp, registry, managed>>
    BY <2>2 DEF registry
  <2> QED
    BY <1>5, <2>1, <2>2, TrackKnows DEF SendHeartbeat
<1>6. ASSUME NEW t \in Beating, SensorEnds(t) PROVE KnownInv'
  BY <1>6 DEF SensorEnds, registry
<1>7. CASE Tick
  <2>1. \A t \in Types : (entry'[t] = None <=> entry[t] = None)
                      /\ (file'[t] = None <=> file[t] = None)
    BY <1>7, OlderEntries DEF Tick, RegistryTypeOK
  <2> QED
    BY <1>7, <2>1 DEF Tick, RegistryTypeOK
<1>8. CASE Check
  BY <1>8, CheckedIsKnown DEF Check, RegistryTypeOK
<1>9. ASSUME NEW a \in Adapters, StartSensor(a) PROVE KnownInv'
  BY <1>9 DEF StartSensor, registry
<1>10. ASSUME NEW q \in Requests, NEW a \in Adapters,
              StopSensor(q, a) \/ StopAgain(q, a)
       PROVE  KnownInv'
  BY <1>10 DEF StopSensor, StopAgain, registry
<1>11. ASSUME NEW q \in Requests, SensorStopped(q) PROVE KnownInv'
  BY <1>11 DEF SensorStopped, registry
<1>12. CASE UNCHANGED registryVars
  BY <1>12 DEF registryVars, registry
<1> QED
  BY <1>1, <1>2, <1>3, <1>4, <1>5, <1>6, <1>7, <1>8, <1>9, <1>10, <1>11, <1>12
     DEF RegistryNext, SensorStarts, PeriodicHeartbeat

(* A type of sensor that was heard of once stays known, in the file and      *)
(* while the coordinator runs in memory, unless a write failed or was cut    *)
(* short since.                                                              *)
THEOREM OnceKnownStaysKnown == RegistrySpec => []KnownTypesStay
<1>1. RegistryInit => KnownInv
  BY DEF RegistryInit, NoEntries, KnownInv, MemoryCoversFile, KnownTypesStay, Registered
<1>2. RegistryTypeOK /\ KnownInv /\ [RegistryNext]_registryVars => KnownInv'
  BY KnownStep
<1>3. KnownInv => KnownTypesStay
  BY DEF KnownInv
<1> QED
  BY <1>1, <1>2, <1>3, TypeCorrect, PTL DEF RegistrySpec

(***************************************************************************)
(* The adapters.                                                             *)
(***************************************************************************)
(* Steps that leave the adapters alone, and those that end them all.         *)
LEMMA AdaptersLeftAlone ==
  ASSUME AdapterInv, UNCHANGED managed \/ NoAdapters
  PROVE  AdapterInv'
<1> USE DEF AdapterInv, ListedByType, ClosingIsListed, RunningIsListed
<1>1. CASE UNCHANGED managed
  BY <1>1 DEF managed
<1>2. CASE NoAdapters
  BY <1>2 DEF NoAdapters
<1> QED
  BY <1>1, <1>2

(* An adapter is made where none is listed: unless requests crossed there,   *)
(* none of its type runs then, and no request waits for one.                 *)
LEMMA StartKeepsListed ==
  ASSUME RegistryTypeOK, AdapterInv, NEW a \in Adapters, StartSensor(a)
  PROVE  AdapterInv'
<1> DEFINE new == [of |-> a, number |-> starts + 1]
<1>1. /\ listed[a] = None /\ listed' = [listed EXCEPT ![a] = new]
      /\ running' = running \union {new} /\ closing' = closing /\ crossed' = crossed
  BY DEF StartSensor
<1>2. new \in Adapter /\ new # None /\ new.of = a
  BY NoneDiffers, RegistryAssumption DEF StartSensor, RegistryTypeOK, Adapter
<1>3. listed'[a] = new /\ \A b \in Adapters \ {a} : listed'[b] = listed[b]
  BY <1>1 DEF RegistryTypeOK
<1>4. \A q \in Requests : closing[q] # None /\ closing[q].of \notin crossed =>
                            closing[q].of \in Adapters /\ closing[q].of # a
  BY <1>1 DEF AdapterInv, ClosingIsListed, RegistryTypeOK, Adapter
<1>5. a \notin crossed => \A r \in running : r.of # a
  BY <1>1, NoneDiffers DEF AdapterInv, RunningIsListed, RegistryTypeOK
<1> HIDE DEF new
<1>6. ListedByType'
  BY <1>2, <1>3 DEF AdapterInv, ListedByType
<1>7. ClosingIsListed'
  BY <1>1, <1>2, <1>3, <1>4 DEF AdapterInv, ClosingIsListed
<1>8. RunningIsListed'
  BY <1>1, <1>2, <1>3, <1>5 DEF AdapterInv, RunningIsListed
<1> QED
  BY <1>6, <1>7, <1>8 DEF AdapterInv

(* A running adapter is stopped: no other request waits for its type.        *)
LEMMA StopKeepsListed ==
  ASSUME RegistryTypeOK, AdapterInv, NEW q \in Requests, NEW a \in Adapters, StopSensor(q, a)
  PROVE  AdapterInv'
<1>1. /\ closing[q] = None /\ listed[a] # None /\ listed[a] \in running
      /\ running' = running \ {listed[a]}
      /\ closing' = [closing EXCEPT ![q] = listed[a]]
      /\ listed' = listed /\ crossed' = crossed
  BY DEF StopSensor
<1>2. listed[a].of = a
  BY <1>1 DEF AdapterInv, ListedByType
<1>3. closing'[q] = listed[a] /\ \A p \in Requests \ {q} : closing'[p] = closing[p]
  BY <1>1 DEF RegistryTypeOK
<1>4. \A p \in Requests :
        closing[p] # None /\ closing[p].of \notin crossed => closing[p].of # a
  BY <1>1 DEF AdapterInv, ClosingIsListed
<1>5. ListedByType'
  BY <1>1 DEF AdapterInv, ListedByType
<1>6. ClosingIsListed'
  BY <1>1, <1>2, <1>3, <1>4 DEF AdapterInv, ClosingIsListed
<1>7. RunningIsListed'
  <2>1. ASSUME NEW b \in Adapters \ crossed, NEW r \in running', r.of = b
        PROVE  listed'[b] = r
    BY <1>1, <2>1 DEF AdapterInv, RunningIsListed
  <2>2. ASSUME NEW b \in Adapters \ crossed, listed'[b] # None
        PROVE  listed'[b] \in running' \/ \E p \in Requests : closing'[p] = listed'[b]
    <3>1. CASE b = a
      BY <1>1, <1>3, <3>1
    <3>2. CASE b # a
      <4>1. listed[b] # listed[a]
        BY <1>1, <1>2, <2>2, <3>2 DEF AdapterInv, ListedByType
      <4> QED
        BY <1>1, <1>3, <2>2, <4>1 DEF AdapterInv, RunningIsListed
    <3> QED
      BY <3>1, <3>2
  <2> QED
    BY <1>1, <2>1, <2>2 DEF RunningIsListed
<1> QED
  BY <1>5, <1>6, <1>7 DEF AdapterInv

(* A second request takes a type off the list while the first waits.         *)
LEMMA StopAgainKeepsListed ==
  ASSUME RegistryTypeOK, AdapterInv, NEW q \in Requests, NEW a \in Adapters, StopAgain(q, a)
  PROVE  AdapterInv'
<1>1. /\ listed' = [listed EXCEPT ![a] = None] /\ crossed' = crossed \union {a}
      /\ running' = running /\ closing' = closing
  BY DEF StopAgain
<1>2. listed'[a] = None /\ \A b \in Adapters \ {a} : listed'[b] = listed[b]
  BY <1>1 DEF RegistryTypeOK
<1>3. \A p \in Requests : closing[p] # None => closing[p].of \in Adapters
  BY DEF RegistryTypeOK, Adapter
<1> QED
  BY <1>1, <1>2, <1>3 DEF AdapterInv, ListedByType, ClosingIsListed, RunningIsListed

(* A request has closed its session.                                         *)
LEMMA StoppedKeepsListed ==
  ASSUME RegistryTypeOK, AdapterInv, NEW q \in Requests, SensorStopped(q)
  PROVE  AdapterInv'
<1> DEFINE a == closing[q].of
<1>1. /\ closing[q] # None /\ listed' = [listed EXCEPT ![a] = None]
      /\ closing' = [closing EXCEPT ![q] = None]
      /\ running' = running /\ crossed' = crossed
  BY DEF SensorStopped
<1>2. a \in Adapters
  BY <1>1 DEF RegistryTypeOK, Adapter
<1>3. listed'[a] = None /\ \A b \in Adapters \ {a} : listed'[b] = listed[b]
  BY <1>1, <1>2 DEF RegistryTypeOK
<1>4. closing'[q] = None /\ \A p \in Requests \ {q} : closing'[p] = closing[p]
  BY <1>1 DEF RegistryTypeOK
<1>5. a \notin crossed =>
        /\ \A r \in running : r.of # a
        /\ \A p \in Requests \ {q} : closing[p] # None => closing[p].of # a
  BY <1>1, <1>2 DEF AdapterInv, ClosingIsListed, RunningIsListed
<1>6. \A p \in Requests : closing[p] # None => closing[p].of \in Adapters
  BY DEF RegistryTypeOK, Adapter
<1>7. ListedByType'
  BY <1>3 DEF AdapterInv, ListedByType
<1>8. ClosingIsListed'
  BY <1>1, <1>3, <1>4, <1>5, <1>6 DEF AdapterInv, ClosingIsListed
<1>9. RunningIsListed'
  <2>1. ASSUME NEW b \in Adapters \ crossed, NEW r \in running, r.of = b
        PROVE  listed'[b] = r
    BY <1>3, <1>5, <2>1 DEF AdapterInv, RunningIsListed
  <2>2. ASSUME NEW b \in Adapters \ crossed, listed'[b] # None
        PROVE  listed'[b] \in running \/ \E p \in Requests : closing'[p] = listed'[b]
    <3>1. b # a /\ listed'[b] = listed[b] /\ listed[b].of = b
      BY <1>3, <2>2 DEF AdapterInv, ListedByType
    <3>2. listed[b] # closing[q]
      BY <3>1
    <3> QED
      BY <1>4, <2>2, <3>1, <3>2 DEF AdapterInv, RunningIsListed
  <2> QED
    BY <1>1, <2>1, <2>2 DEF RunningIsListed
<1> QED
  BY <1>7, <1>8, <1>9 DEF AdapterInv

(* Every step keeps what is said of the adapters.                            *)
LEMMA AdapterStep ==
  ASSUME RegistryTypeOK, AdapterInv, [RegistryNext]_registryVars
  PROVE  AdapterInv'
<1>1. CASE StartNode \/ Tick \/ Check
  BY <1>1, AdaptersLeftAlone DEF StartNode, Tick, Check
<1>2. CASE Stop \/ Crash
  BY <1>2, AdaptersLeftAlone DEF Stop, NoEntries, Crash
<1>3. ASSUME NEW t \in Types, EventArrives(t) PROVE AdapterInv'
  BY <1>3, AdaptersLeftAlone DEF EventArrives, Track, managed
<1>4. ASSUME NEW t \in Beating, NEW next, SendHeartbeat(t, next) PROVE AdapterInv'
  BY <1>4, AdaptersLeftAlone DEF SendHeartbeat, Track, managed
<1>5. ASSUME NEW t \in Beating, SensorEnds(t) PROVE AdapterInv'
  BY <1>5, AdaptersLeftAlone DEF SensorEnds
<1>6. ASSUME NEW a \in Adapters, StartSensor(a) PROVE AdapterInv'
  BY <1>6, StartKeepsListed
<1>7. ASSUME NEW q \in Requests, NEW a \in Adapters, StopSensor(q, a) PROVE AdapterInv'
  BY <1>7, StopKeepsListed
<1>8. ASSUME NEW q \in Requests, NEW a \in Adapters, StopAgain(q, a) PROVE AdapterInv'
  BY <1>8, StopAgainKeepsListed
<1>9. ASSUME NEW q \in Requests, SensorStopped(q) PROVE AdapterInv'
  BY <1>9, StoppedKeepsListed
<1>10. CASE UNCHANGED registryVars
  BY <1>10, AdaptersLeftAlone DEF registryVars
<1> QED
  BY <1>1, <1>2, <1>3, <1>4, <1>5, <1>6, <1>7, <1>8, <1>9, <1>10
     DEF RegistryNext, SensorStarts, PeriodicHeartbeat

(* An adapter that runs is listed, and one that is listed runs or is being   *)
(* stopped, unless two stop requests for its type crossed.                   *)
THEOREM RunningAdaptersAreListed == RegistrySpec => []RunningIsListed
<1>1. RegistryInit => AdapterInv
  BY DEF RegistryInit, NoEntries, AdapterInv, ListedByType, ClosingIsListed, RunningIsListed
<1>2. RegistryTypeOK /\ AdapterInv /\ [RegistryNext]_registryVars => AdapterInv'
  BY AdapterStep
<1>3. AdapterInv => RunningIsListed
  BY DEF AdapterInv
<1> QED
  BY <1>1, <1>2, <1>3, TypeCorrect, PTL DEF RegistrySpec

(***************************************************************************)
(* The sensors that are alive.                                               *)
(***************************************************************************)
(* Heard in a table, heard in one that is at least as young.                 *)
LEMMA YoungerIsHeard ==
  ASSUME RegistryTypeOK, NEW old \in [Types -> Entries \union {None}],
         NEW young \in [Types -> Entries \union {None}],
         NEW lost \in SUBSET Types, HeardLately(old),
         \A t \in Types \ lost : old[t] # None => young[t] # None /\ young[t].age <= old[t].age
  PROVE  \A t \in Beating \ (unheard \union lost) :
           wait[t] # None => young[t] # None /\ young[t].age + wait[t] <= BeatEvery
<1> SUFFICES ASSUME NEW t \in Beating \ (unheard \union lost), wait[t] # None
             PROVE  young[t] # None /\ young[t].age + wait[t] <= BeatEvery
  OBVIOUS
<1>1. t \in Types
  BY RegistryAssumption
<1>2. old[t] # None /\ old[t].age + wait[t] <= BeatEvery
  BY DEF HeardLately
<1>3. young[t] # None /\ young[t].age <= old[t].age
  BY <1>1, <1>2
<1>4. old[t].age \in Nat /\ young[t].age \in Nat
  BY <1>1, <1>2, <1>3, RegistryAssumption DEF Entries, Age
<1>5. wait[t] \in Nat /\ BeatEvery \in Nat
  BY RegistryAssumption DEF RegistryTypeOK
<1> QED
  BY <1>2, <1>3, <1>4, <1>5

(* The file has the time of whatever is not among what is unsaved.           *)
LEMMA SavedIsHeard ==
  ASSUME RegistryTypeOK, file' \in [Types -> Entries \union {None}],
         HeardLately(entry), wait' = wait, unheard' = unheard \union Unsaved
  PROVE  HeardLately(file)'
<1>1. ASSUME NEW t \in Types \ Unsaved, entry[t] # None
      PROVE  file'[t] # None /\ file'[t].age <= entry[t].age
  <2>1. file'[t] # None /\ ~(entry[t].age < file'[t].age)
    BY <1>1 DEF Unsaved, Registered
  <2>2. entry[t].age \in Nat /\ file'[t].age \in Nat
    BY <1>1, <2>1, RegistryAssumption DEF RegistryTypeOK, Entries, Age
  <2> QED
    BY <2>1, <2>2
<1>2. Unsaved \in SUBSET Types /\ entry \in [Types -> Entries \union {None}]
  BY DEF Unsaved, RegistryTypeOK
<1>3. \A t \in Beating \ (unheard \union Unsaved) :
        wait[t] # None => file'[t] # None /\ file'[t].age + wait[t] <= BeatEvery
  BY <1>1, <1>2, YoungerIsHeard
<1> QED
  BY <1>3 DEF HeardLately

(* What is saved was in memory or in the file.                               *)
LEMMA SavedWasSilent ==
  ASSUME NEW table, Save(table), OfflineWasSilent(table), OfflineWasSilent(file)
  PROVE  OfflineWasSilent(file')
BY DEF Save, NoEntries, OfflineWasSilent

(* The process ends with its memory.                                         *)
LEMMA EndIsAlive ==
  ASSUME RegistryTypeOK, AliveInv, nodeUp, ~nodeUp', file' \in [Types -> Entries \union {None}],
         OfflineWasSilent(file'), entry' = NoEntries, wait' = wait,
         unheard' = unheard \union Unsaved
  PROVE  AliveInv'
<1>1. HeardLately(file)'
  BY SavedIsHeard DEF AliveInv
<1>2. OfflineWasSilent(entry)' /\ OfflineWasSilent(file)'
  BY DEF OfflineWasSilent, NoEntries
<1> QED
  BY <1>1, <1>2 DEF AliveInv

(* The table is checked and saved, when the process starts or in a check.    *)
LEMMA CheckedIsAlive ==
  ASSUME RegistryTypeOK, AliveInv, NEW table \in [Types -> Entries \union {None}],
         HeardLately(table), OfflineWasSilent(file), nodeUp', entry' = Checked(table),
         Save(entry'), UNCHANGED sensors
  PROVE  AliveInv'
<1>1. /\ \A t \in Types : entry'[t] = None <=> table[t] = None
      /\ \A t \in Types : table[t] # None => entry'[t].age = table[t].age
      /\ OfflineWasSilent(entry')
  BY CheckedEntries
<1>2. HeardLately(entry)'
  BY <1>1, RegistryAssumption DEF HeardLately, sensors
<1>3. OfflineWasSilent(entry)' /\ OfflineWasSilent(file)'
  BY <1>1, SavedWasSilent DEF OfflineWasSilent
<1> QED
  BY <1>2, <1>3 DEF AliveInv

(* An event makes its type active, and its time starts anew.                 *)
LEMMA TrackIsAlive ==
  ASSUME RegistryTypeOK, AliveInv, NEW t \in Types, Track(t),
         RegistryTypeOK', \A s \in Beating \ {t} : wait'[s] = wait[s],
         unheard \ {t} \subseteq unheard'
  PROVE  AliveInv'
<1>1. /\ nodeUp /\ nodeUp' /\ entry'[t] = Entry("active", 0)
      /\ \A s \in Types \ {t} : entry'[s] = entry[s]
  BY DEF Track, RegistryTypeOK
<1>2. HeardLately(entry)'
  <2> SUFFICES ASSUME NEW s \in Beating \ unheard', wait'[s] # None
               PROVE  entry'[s] # None /\ entry'[s].age + wait'[s] <= BeatEvery
    BY DEF HeardLately
  <2>1. CASE s = t
    <3>1. entry'[s] # None /\ entry'[s].age = 0
      BY <1>1, <2>1, NoneDiffers, RegistryAssumption DEF Entry, Entries, Age
    <3>2. wait'[s] \in 0..BeatEvery
      BY DEF RegistryTypeOK
    <3> QED
      BY <3>1, <3>2, RegistryAssumption
  <2>2. CASE s # t
    BY <1>1, <2>2, RegistryAssumption DEF AliveInv, HeardLately
  <2> QED
    BY <2>1, <2>2
<1>3. OfflineWasSilent(entry')
  BY <1>1 DEF AliveInv, OfflineWasSilent, Entry
<1>4. OfflineWasSilent(file')
  BY <1>3, SavedWasSilent DEF Track, AliveInv
<1> QED
  BY <1>1, <1>2, <1>3, <1>4 DEF AliveInv, OfflineWasSilent

(* A heartbeat is taken, or it is lost and the sensor unheard.               *)
LEMMA HeartbeatIsAlive ==
  ASSUME RegistryTypeOK, RegistryTypeOK', AliveInv, NEW t \in Beating, NEW next, SendHeartbeat(t, next)
  PROVE  AliveInv'
<1>1. t \in Types /\ \A s \in Beating \ {t} : wait'[s] = wait[s]
  BY RegistryAssumption DEF SendHeartbeat, RegistryTypeOK
<1>2. CASE Track(t) /\ unheard' = unheard \ {t}
  BY <1>1, <1>2, TrackIsAlive
<1>3. CASE unheard' = unheard \union {t} /\ UNCHANGED <<nodeUp, registry, managed>>
  BY <1>1, <1>3 DEF AliveInv, HeardLately, OfflineWasSilent, registry
<1> QED
  BY <1>2, <1>3 DEF SendHeartbeat

(* An interval passes: an entry ages by no more than the wait gets shorter.  *)
LEMMA TickIsAlive ==
  ASSUME RegistryTypeOK, AliveInv, Tick
  PROVE  AliveInv'
<1>1. ASSUME NEW table \in [Types -> Entries \union {None}], HeardLately(table)
      PROVE  \A t \in Beating \ unheard : wait'[t] # None =>
               Older(table)[t] # None /\ Older(table)[t].age + wait'[t] <= BeatEvery
  <2> SUFFICES ASSUME NEW t \in Beating \ unheard, wait'[t] # None
               PROVE  Older(table)[t] # None /\ Older(table)[t].age + wait'[t] <= BeatEvery
    OBVIOUS
  <2>1. t \in Types
    BY RegistryAssumption
  <2>2. wait[t] # None /\ wait[t] # 0 /\ wait'[t] = wait[t] - 1
    BY DEF Tick
  <2>3. wait[t] \in Nat /\ BeatEvery \in Nat
    BY <2>2, RegistryAssumption DEF RegistryTypeOK
  <2>4. table[t] # None /\ table[t].age + wait[t] <= BeatEvery
    BY <1>1, <2>2 DEF HeardLately
  <2>5. Older(table)[t] # None /\ Older(table)[t].age <= table[t].age + 1
    BY <2>1, <2>4, OlderEntries
  <2>6. table[t].age \in Nat /\ Older(table)[t].age \in Nat
    BY <2>1, <2>4, <2>5, OlderEntries, RegistryAssumption DEF Entries, Age
  <2> QED
    BY <2>2, <2>3, <2>4, <2>5, <2>6
<1>2. ASSUME NEW table \in [Types -> Entries \union {None}], OfflineWasSilent(table)
      PROVE  OfflineWasSilent(Older(table))
  <2> SUFFICES ASSUME NEW t \in Types, Older(table)[t] # None,
                      Older(table)[t].status = "offline"
               PROVE  Older(table)[t].age >= OfflineAfter
    BY DEF OfflineWasSilent
  <2>1. /\ table[t] # None /\ table[t].status = "offline"
        /\ Older(table)[t].age >= table[t].age
    BY OlderEntries
  <2>2. table[t].age >= OfflineAfter
    BY <1>2, <2>1 DEF OfflineWasSilent
  <2>3. table[t].age \in Nat /\ Older(table)[t].age \in Nat /\ OfflineAfter \in Nat
    BY <2>1, OlderEntries, RegistryAssumption DEF Entries, Age
  <2> QED
    BY <2>1, <2>2, <2>3
<1>3. /\ nodeUp' = nodeUp /\ unheard' = unheard
      /\ entry' = Older(entry) /\ file' = Older(file)
  BY DEF Tick
<1>4. OfflineWasSilent(entry') /\ OfflineWasSilent(file')
  BY <1>2, <1>3 DEF AliveInv, RegistryTypeOK
<1>5. IF nodeUp' THEN HeardLately(entry)' ELSE HeardLately(file)'
  BY <1>1, <1>3 DEF AliveInv, RegistryTypeOK, HeardLately
<1> QED
  BY <1>4, <1>5 DEF AliveInv, OfflineWasSilent

(* Every step keeps what is said of sensors that are alive.                  *)
LEMMA AliveStep ==
  ASSUME RegistryTypeOK, RegistryTypeOK', AliveInv, [RegistryNext]_registryVars
  PROVE  AliveInv'
<1>1. CASE StartNode
  BY <1>1, CheckedIsAlive DEF StartNode, AliveInv, RegistryTypeOK
<1>2. CASE Stop
  <2>1. OfflineWasSilent(file')
    BY <1>2, SavedWasSilent DEF Stop, NoEntries, AliveInv
  <2> QED
    BY <1>2, <2>1, EndIsAlive DEF Stop, NoEntries, RegistryTypeOK
<1>3. CASE Crash
  <2>1. OfflineWasSilent(file')
    BY <1>3 DEF Crash, NoEntries, AliveInv, OfflineWasSilent
  <2> QED
    BY <1>3, <2>1, EndIsAlive DEF Crash, NoEntries, RegistryTypeOK
<1>4. ASSUME NEW t \in Types, EventArrives(t) PROVE AliveInv'
  BY <1>4, TrackIsAlive DEF EventArrives, sensors
<1>5. ASSUME NEW t \in Beating, NEW next, SendHeartbeat(t, next) PROVE AliveInv'
  BY <1>5, HeartbeatIsAlive
<1>6. ASSUME NEW t \in Beating, SensorEnds(t) PROVE AliveInv'
  BY <1>6 DEF SensorEnds, AliveInv, HeardLately, OfflineWasSilent, registry, RegistryTypeOK
<1>7. CASE Tick
  BY <1>7, TickIsAlive
<1>8. CASE Check
  BY <1>8, CheckedIsAlive DEF Check, AliveInv, RegistryTypeOK
<1>9. ASSUME UNCHANGED <<nodeUp, registry, sensors>> PROVE AliveInv'
  BY <1>9 DEF AliveInv, HeardLately, OfflineWasSilent, registry, sensors
<1>10. CASE \/ \E a \in Adapters : StartSensor(a)
            \/ \E q \in Requests, a \in Adapters : StopSensor(q, a) \/ StopAgain(q, a)
            \/ \E q \in Requests : SensorStopped(q)
            \/ UNCHANGED registryVars
  BY <1>9, <1>10 DEF StartSensor, StopSensor, StopAgain, SensorStopped, registryVars
<1> QED
  BY <1>1, <1>2, <1>3, <1>4, <1>5, <1>6, <1>7, <1>8, <1>10
     DEF RegistryNext, SensorStarts, PeriodicHeartbeat

(* Where heartbeats come more often than sensors are taken off the list, a   *)
(* sensor that runs, whose heartbeats are taken and whose time is not lost,  *)
(* is listed; and one that is offline has been silent for that long.         *)
THEOREM AliveSensorsAreListed ==
  ASSUME BeatEvery < HiddenAfter
  PROVE  RegistrySpec => []AliveIsListed
<1>1. RegistryInit => AliveInv
  BY DEF RegistryInit, NoEntries, AliveInv, HeardLately, OfflineWasSilent
<1>2. RegistryTypeOK /\ RegistryTypeOK' /\ AliveInv /\ [RegistryNext]_registryVars => AliveInv'
  BY AliveStep
<1>3. RegistryTypeOK /\ AliveInv => AliveIsListed
  <2> SUFFICES ASSUME RegistryTypeOK, AliveInv, nodeUp PROVE AliveIsListed
    BY DEF AliveIsListed
  <2>1. ASSUME NEW t \in Beating \ unheard, wait[t] # None PROVE t \in Listed
    <3>1. t \in Types /\ entry[t] # None /\ entry[t].age + wait[t] <= BeatEvery
      BY <2>1, RegistryAssumption DEF AliveInv, HeardLately
    <3>2. entry[t].age \in Nat /\ wait[t] \in Nat
      BY <2>1, <3>1, RegistryAssumption DEF RegistryTypeOK, Entries, Age
    <3>3. entry[t].age < HiddenAfter
      BY <3>1, <3>2, RegistryAssumption
    <3> QED
      BY <3>1, <3>3 DEF Listed, Registered
  <2> QED
    BY <2>1 DEF AliveIsListed, AliveInv, OfflineWasSilent, Registered
<1> QED
  BY <1>1, <1>2, <1>3, TypeCorrect, PTL DEF RegistrySpec

=============================================================================
