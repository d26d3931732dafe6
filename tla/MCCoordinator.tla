---------------------------- MODULE MCCoordinator -----------------------------
(* Instances of the two stores of the coordinator that have nothing in common, *)
(* the bundles and the registry of sensors, checked by one run of TLC: each    *)
(* behaviour is one of BundleCache or one of SensorRegistry, and the variables *)
(* of the other keep their initial values.                                     *)
EXTENDS BundleCache, SensorRegistry

\* An ordinary rid, a protected one, and one that is not an ORN.
CONSTANTS orn, profile, url

VARIABLE store    \* the one that takes steps

StoreInit == Init /\ RegistryInit /\ store \in {"bundles", "registry"}

OfBundles == store = "bundles" /\ UNCHANGED <<store, registryVars>>
OfRegistry == store = "registry" /\ UNCHANGED <<store, vars>>

StoreNext ==
    \/ OfBundles /\ Start
    \/ OfBundles /\ Halt
    \/ OfBundles /\ GrowOld
    \/ OfBundles /\ PruneLoad
    \/ OfBundles /\ PruneAgeNext
    \/ OfBundles /\ PruneSizeNext
    \/ OfBundles /\ PruneEnd
    \/ OfBundles /\ SeedLoad
    \/ \E R \in SUBSET Rids : OfBundles /\ Fetch(R)
    \/ \E r \in Rids :
          \/ OfBundles /\ Cache(r)
          \/ OfBundles /\ Forget(r)
          \/ OfBundles /\ LeaveQueue(r)
          \/ OfBundles /\ PruneByAge(r)
          \/ OfBundles /\ PruneBySize(r)
          \/ OfBundles /\ SeedWrite(r)
    \/ OfRegistry /\ StartNode
    \/ OfRegistry /\ Stop
    \/ OfRegistry /\ Crash
    \/ OfRegistry /\ Tick
    \/ OfRegistry /\ Check
    \/ \E t \in Types : OfRegistry /\ EventArrives(t)
    \/ \E t \in Beating :
          \/ OfRegistry /\ SensorStarts(t)
          \/ OfRegistry /\ PeriodicHeartbeat(t)
          \/ OfRegistry /\ SensorEnds(t)
    \/ \E a \in Adapters : OfRegistry /\ StartSensor(a)
    \/ \E q \in Requests, a \in Adapters :
          \/ OfRegistry /\ StopSensor(q, a)
          \/ OfRegistry /\ StopAgain(q, a)
    \/ \E q \in Requests : OfRegistry /\ SensorStopped(q)

StoreSpec == StoreInit /\ [][StoreNext]_<<store, vars, registryVars>>

=============================================================================
