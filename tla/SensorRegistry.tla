--------------------------- MODULE SensorRegistry ---------------------------
(* How the coordinator keeps track of sensors: the registry of those that    *)
(* broadcast events to it, with the health checks, and the adapters that it  *)
(* starts and stops itself.                                                  *)
(*                                                                           *)
(* Time passes in intervals of the health check (health_check_interval), and *)
(* an age is a number of whole intervals.  The loops of the checks and of    *)
(* the heartbeats sleep and then act at once, so that no interval ends       *)
(* before what was due in it.                                                *)
EXTENDS Heartbeats, FiniteSets

CONSTANTS Types,        \* sensors, for the type in their node id
          Beating,      \* those that send heartbeats
          Adapters,     \* the types that have an adapter class
          Requests,     \* /sensors/start and /sensors/stop requests at a time
          IdleAfter,    \* intervals without an event until a sensor is idle,
          OfflineAfter, \* offline,
          HiddenAfter,  \* and no longer listed
          BeatEvery,    \* intervals between two heartbeats
          None,
          MaxFaults,    \* crashes and writes that fail
          MaxStarts     \* adapters that are started

ASSUME RegistryAssumption ==
  /\ IdleAfter \in Nat /\ OfflineAfter \in Nat /\ HiddenAfter \in Nat
  /\ 0 < IdleAfter /\ IdleAfter < OfflineAfter /\ OfflineAfter < HiddenAfter
  /\ Beating \subseteq Types \cap DOMAIN HeartbeatOf /\ BeatEvery \in Nat \ {0}
  /\ MaxFaults \in Nat /\ MaxStarts \in Nat
  /\ None \notin [status : {"active", "idle", "offline"}, age : 0..HiddenAfter]
  /\ None \notin [of : Adapters, number : 1..MaxStarts]

VARIABLES nodeUp,    \* the coordinator runs
          entry,     \* broadcast_sensors: type -> status and age of the last event
          file,      \* coordinator_sensor_registry.json
          due,       \* an interval has passed since the last health check
          wait,      \* the sensors that run -> intervals until their heartbeat
          listed,    \* sensor_adapters: adapter type -> adapter, or None
          running,   \* the adapters whose node runs
          closing,   \* stop requests that wait for a session to close
          starts,    \* number of adapters made
          seen,      \* history: types that have sent an event
          forgotten, \* history: types a failed or torn write has lost
          unheard,   \* history: types whose last heartbeat was not taken, or
                     \* whose time is in memory only or was lost from there
          crossed,   \* history: types two stop requests were at work on
          faults

sensors == <<wait, unheard>>
registry == <<entry, file, due, seen, forgotten>>
managed == <<listed, running, closing, starts, crossed>>
registryVars == <<nodeUp, registry, sensors, managed, faults>>

Age == 0..HiddenAfter
Entry(status, age) == [status |-> status, age |-> age]
Entries == [status : {"active", "idle", "offline"}, age : Age]
Adapter == [of : Adapters, number : 1..MaxStarts]

Registered(t) == entry[t] # None
Fault == faults < MaxFaults /\ faults' = faults + 1

(* check_sensor_health                                                       *)
HealthOf(age) ==
  IF age < IdleAfter THEN "active" ELSE IF age < OfflineAfter THEN "idle" ELSE "offline"

Checked(table) ==
  [t \in Types |-> IF table[t] = None THEN None
                   ELSE Entry(HealthOf(table[t].age), table[t].age)]

(* An age beyond the last threshold makes no further difference.             *)
Older(table) ==
  [t \in Types |-> IF table[t] = None \/ table[t].age = HiddenAfter THEN table[t]
                   ELSE [table[t] EXCEPT !.age = @ + 1]]

NoEntries == [t \in Types |-> None]

(* _save_sensor_registry, whose failure is only logged: the file is as it    *)
(* was if it could not be opened, and cut short, which is read as no sensors *)
(* at all, if it could.                                                      *)
Save(table) ==
  /\ \/ file' = table /\ UNCHANGED faults
     \/ Fault /\ file' \in {file, NoEntries}
  /\ forgotten' = {t \in Types : t \in seen' /\ file'[t] = None}

\* Types whose time in the table is younger than the one the file has then.
Unsaved == {t \in Types : Registered(t) /\ (file'[t] = None \/ entry[t].age < file'[t].age)}

RegistryInit ==
  /\ nodeUp = FALSE
  /\ wait = [t \in Beating |-> None] /\ unheard = {}
  /\ entry = NoEntries /\ file = entry
  /\ due = FALSE
  /\ listed = [a \in Adapters |-> None] /\ running = {}
  /\ closing = [q \in Requests |-> None] /\ starts = 0
  /\ seen = {} /\ forgotten = {} /\ crossed = {}
  /\ faults = 0

(***************************************************************************)
(* The process.                                                              *)
(***************************************************************************)
(* The file is read and its entries are checked and saved.                   *)
StartNode ==
  /\ ~nodeUp
  /\ nodeUp' = TRUE
  /\ entry' = Checked(file)
  /\ seen' = seen
  /\ Save(entry')
  /\ due' = FALSE
  /\ UNCHANGED <<sensors, managed>>

NoAdapters ==
  /\ listed' = [a \in Adapters |-> None] /\ running' = {}
  /\ closing' = [q \in Requests |-> None]
  /\ crossed' = {}
  /\ UNCHANGED starts

(* stop: the registry is saved and every adapter is stopped.                 *)
Stop ==
  /\ nodeUp
  /\ nodeUp' = FALSE
  /\ seen' = seen
  /\ Save(entry)
  /\ unheard' = unheard \union Unsaved
  /\ entry' = NoEntries
  /\ due' = FALSE /\ UNCHANGED wait
  /\ NoAdapters

(* The process ends, perhaps while it writes the file, which is then cut     *)
(* short and read as no sensors at all.  Only a check and the first event of *)
(* a type write it.                                                          *)
Crash ==
  /\ nodeUp /\ Fault
  /\ nodeUp' = FALSE
  /\ \/ UNCHANGED <<file, forgotten>>
     \/ /\ due \/ \E t \in Types : ~Registered(t)
        /\ file' = NoEntries
        /\ forgotten' = seen
  /\ unheard' = unheard \union Unsaved
  /\ entry' = NoEntries
  /\ due' = FALSE
  /\ UNCHANGED <<seen, wait>>
  /\ NoAdapters

(***************************************************************************)
(* The registry of sensors that broadcast.                                   *)
(***************************************************************************)
\* Mutant: a new entry is left for the next check to save.
TrackedInMemory(t) ==
  /\ nodeUp
  /\ entry' = [entry EXCEPT ![t] = Entry("active", 0)]
  /\ seen' = seen \union {t}
  /\ UNCHANGED <<nodeUp, file, forgotten, faults, due, managed>>

(* sensor_tracking_handler: an event of a node of this type passes the       *)
(* pipeline.  The file is written when the type is new only.                 *)
Track(t) ==
  /\ nodeUp
  /\ entry' = [entry EXCEPT ![t] = Entry("active", 0)]
  /\ seen' = seen \union {t}
  /\ IF Registered(t) THEN UNCHANGED <<file, forgotten, faults>> ELSE Save(entry')
  /\ UNCHANGED <<nodeUp, due, managed>>

(* A sensor that runs, or one that sends no heartbeats, sends an event.      *)
EventArrives(t) ==
  /\ t \in Beating => wait[t] # None
  /\ Track(t)
  /\ UNCHANGED sensors

(* send_heartbeat_event: it is sent once, and a failure is only logged.      *)
SendHeartbeat(t, next) ==
  /\ wait' = [wait EXCEPT ![t] = next]
  /\ \/ Track(t) /\ unheard' = unheard \ {t}
     \/ /\ IF nodeUp THEN Fault ELSE UNCHANGED faults
        /\ unheard' = unheard \union {t}
        /\ UNCHANGED <<nodeUp, registry, managed>>

(* A sensor starts, and its loop sends a heartbeat after every sleep.        *)
SensorStarts(t) == wait[t] = None /\ SendHeartbeat(t, FirstWait(t, BeatEvery))
PeriodicHeartbeat(t) == wait[t] = 0 /\ SendHeartbeat(t, BeatEvery)

SensorEnds(t) ==
  /\ wait[t] # None
  /\ wait' = [wait EXCEPT ![t] = None]
  /\ UNCHANGED <<nodeUp, registry, unheard, managed, faults>>

Tick ==
  /\ ~due /\ \A t \in Beating : wait[t] # 0
  /\ wait' = [t \in Beating |-> IF wait[t] = None THEN None ELSE wait[t] - 1]
  /\ entry' = Older(entry) /\ file' = Older(file)
  /\ due' = nodeUp
  /\ UNCHANGED <<nodeUp, seen, forgotten, unheard, managed, faults>>

(* periodic_health_checks                                                    *)
Check ==
  /\ nodeUp /\ due
  /\ entry' = Checked(entry)
  /\ seen' = seen
  /\ Save(entry')
  /\ due' = FALSE
  /\ UNCHANGED <<nodeUp, sensors, managed>>

\* Mutant: the time-out that the comment in get_sensors says was too short.
ListedFiveMinutes == {t \in Types : Registered(t) /\ entry[t].age < IdleAfter}

(* GET /sensors: all that sent an event lately, whatever their status.       *)
Listed == {t \in Types : Registered(t) /\ entry[t].age < HiddenAfter}

(***************************************************************************)
(* The adapters.                                                             *)
(***************************************************************************)
\* Mutant: a running adapter does not keep another from being started.
StartsAgain(a) ==
  /\ nodeUp /\ starts < MaxStarts
  /\ LET new == [of |-> a, number |-> starts + 1]
     IN  listed' = [listed EXCEPT ![a] = new] /\ running' = running \union {new}
  /\ starts' = starts + 1
  /\ UNCHANGED <<nodeUp, registry, sensors, closing, crossed, faults>>

(* start_sensor: nothing in it gives the event loop away.  A type that is    *)
(* listed, be it on its way out, is answered with already_running.           *)
StartSensor(a) ==
  /\ nodeUp /\ listed[a] = None /\ starts < MaxStarts
  /\ LET new == [of |-> a, number |-> starts + 1]
     IN  listed' = [listed EXCEPT ![a] = new] /\ running' = running \union {new}
  /\ starts' = starts + 1
  /\ UNCHANGED <<nodeUp, registry, sensors, closing, crossed, faults>>

(* stop_sensor: the node stops at once; the request waits until its session  *)
(* is closed, unless another request has begun to close it.                  *)
StopSensor(q, a) ==
  /\ nodeUp /\ closing[q] = None /\ listed[a] # None
  /\ listed[a] \in running
  /\ running' = running \ {listed[a]}
  /\ closing' = [closing EXCEPT ![q] = listed[a]]
  /\ UNCHANGED <<nodeUp, registry, sensors, listed, starts, crossed, faults>>

StopAgain(q, a) ==
  /\ nodeUp /\ closing[q] = None /\ listed[a] # None
  /\ listed[a] \notin running
  /\ listed' = [listed EXCEPT ![a] = None]
  /\ crossed' = crossed \union {a}
  /\ UNCHANGED <<nodeUp, registry, sensors, running, closing, starts, faults>>

(* The type is taken off the list, whichever adapter is now listed for it;   *)
(* if none is, the request fails.                                            *)
SensorStopped(q) ==
  /\ nodeUp /\ closing[q] # None
  /\ listed' = [listed EXCEPT ![closing[q].of] = None]
  /\ closing' = [closing EXCEPT ![q] = None]
  /\ UNCHANGED <<nodeUp, registry, sensors, running, starts, crossed, faults>>

RegistryNext ==
  \/ StartNode \/ Stop \/ Crash
  \/ \E t \in Types : EventArrives(t)
  \/ \E t \in Beating : SensorStarts(t) \/ PeriodicHeartbeat(t) \/ SensorEnds(t)
  \/ Tick \/ Check
  \/ \E a \in Adapters : StartSensor(a)
  \/ \E q \in Requests, a \in Adapters : StopSensor(q, a) \/ StopAgain(q, a)
  \/ \E q \in Requests : SensorStopped(q)

RegistrySpec == RegistryInit /\ [][RegistryNext]_registryVars

RegistryTypeOK ==
  /\ nodeUp \in BOOLEAN /\ due \in BOOLEAN
  /\ entry \in [Types -> Entries \union {None}]
  /\ file \in [Types -> Entries \union {None}]
  /\ wait \in [Beating -> 0..BeatEvery \union {None}]
  /\ unheard \subseteq Types
  /\ listed \in [Adapters -> Adapter \union {None}]
  /\ running \subseteq Adapter
  /\ closing \in [Requests -> Adapter \union {None}]
  /\ starts \in 0..MaxStarts /\ faults \in 0..MaxFaults
  /\ seen \subseteq Types /\ forgotten \subseteq Types /\ crossed \subseteq Adapters

(* A type of sensor that was heard of once stays known, through restarts and *)
(* crashes: it is in the file from its first event on, and in memory while   *)
(* the coordinator runs, unless a write failed or was cut short since.       *)
(* (default_handlers.py, sensor_tracking_handler)                            *)
KnownTypesStay ==
  \A t \in seen \ forgotten : file[t] # None /\ (nodeUp => Registered(t))

(* An adapter that runs is listed, and so can be stopped, and the one listed *)
(* runs or is being stopped; only where two stop requests for a type crossed *)
(* may the second take a newly started adapter off the list.                 *)
(* (koi_coordinator.py, start_sensor and stop_sensor)                        *)
RunningIsListed ==
  \A a \in Adapters \ crossed :
    /\ \A r \in running : r.of = a => listed[a] = r
    /\ listed[a] # None =>
         listed[a] \in running \/ \E q \in Requests : closing[q] = listed[a]

(* A sensor that runs is on the list of sensors as long as its heartbeats    *)
(* are taken and their time is not lost with the memory of the coordinator,  *)
(* be it restarted in between; and one that is said to be offline was silent *)
(* for as long as that takes.                                                *)
(* (koi_coordinator.py, get_sensors, check_sensor_health and start)          *)
AliveIsListed ==
  nodeUp => /\ \A t \in Beating \ unheard : wait[t] # None => t \in Listed
            /\ \A t \in Types : Registered(t) /\ entry[t].status = "offline" =>
                                  entry[t].age >= OfflineAfter
=============================================================================
