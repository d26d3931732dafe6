----------------------------- MODULE SensorProcess -----------------------------
(***************************************************************************)
(* What the polling sensors have in common: a source that shows versions   *)
(* of items, one process that collects what it shows and sends it to the   *)
(* coordinator one request at a time, the state that PersistentSensorState *)
(* keeps in memory and in its file, and a network that may fail a request, *)
(* lose its answer or deliver it after the sensor stopped waiting.         *)
(*                                                                         *)
(* The sensors differ in what they record, when, and whether they look at  *)
(* the outcome of a request: see RepositorySensors, FeedSensors and        *)
(* MessageSensors, whose actions are built from the ones of this module.   *)
(***************************************************************************)
EXTENDS Naturals, FiniteSets

CONSTANTS
    Sensors,       \* the sensors that are looked at
    Items,         \* files, articles, messages: in the order they appear
    Foreign,       \* for each sensor, those whose path, link or sender is not
                   \* one it is asked for
    Short,         \* and those that are empty, too short or too large
    Fleeting,      \* those that a source may stop listing: they are deleted or
                   \* fall out of the feed or of the look-back time
    Dated,         \* articles whose page names its date in a time element
    HistoricalLimit, PerCheck,    \* articles that a check of medium looks at,
                   \* the first one of the process and any other
    MaxVersions,   \* bound on the versions of each item
    MaxHalts,      \* bound on how often the process ends
    MaxFailures    \* bound on the requests and the readings that fail

ASSUME ProcessAssumption ==
    /\ Items \subseteq Nat \ {0} /\ IsFiniteSet(Items)
    /\ Foreign \in [Sensors -> SUBSET Items] /\ Short \in [Sensors -> SUBSET Items]
    /\ MaxVersions \in [Items -> Nat \ {0}]
    /\ Fleeting \in [Sensors -> SUBSET Items] /\ Dated \subseteq Items
    /\ {HistoricalLimit, PerCheck} \subseteq Nat \ {0}
    /\ {MaxHalts, MaxFailures} \subseteq Nat

VARIABLES
    sensor,     \* which sensor the process is
    shown,      \* the version of each item that the source shows, 0 for none
    gone,       \* the items that it does not list any more
    phase,      \* what the process is doing
    started,    \* its first collection is over
    docs,       \* what this cycle has collected and not dealt with
    memory,     \* its PersistentSensorState
    file,       \* the file of that state
    taken,      \* items in the sets that only memory keeps (processed_rids)
    asked,      \* the document whose answer is awaited, if any
    answered,   \* the coordinator has taken it
    late,       \* requests the sensor gave up, that may arrive yet
    arrived,    \* history: the documents that reached the coordinator
    last,       \* history: the version of each item that arrived last
    twice,      \* history: the documents that arrived more than once
    failed,     \* history: the documents whose request failed
    missed,     \* history: the items that a failed reading has passed over
    forgotten,  \* history: the documents whose record a halt has lost
    halts, failures    \* counters of the bounds

work == <<phase, docs, started>>
wire == <<asked, answered, late>>
record == <<arrived, last, twice>>
vars == <<sensor, shown, gone, phase, started, docs, memory, file, taken, asked,
          answered, late, arrived, last, twice, failed, missed, forgotten, halts,
          failures>>

AllVersions == UNION {1..MaxVersions[i] : i \in Items}
Doc == [item : Items, version : AllVersions]
\* An item that was listed and whose content is read later, or that is sent
\* without its content.
Listed == [item : Items, version : {0}]
State == [hash : [Items -> AllVersions \cup {0}], done : SUBSET Items,
          mark : Items \cup {0}]
EmptyState == [hash |-> [i \in Items |-> 0], done |-> {}, mark |-> 0]

Unfit == Foreign[sensor] \cup Short[sensor]
Of(i, v) == [item |-> i, version |-> v]
Visible == {i \in Items : shown[i] # 0}
Offered == Visible \ gone
Current(i) == Of(i, shown[i])

ProcessTypeOK ==
    /\ sensor \in Sensors
    /\ shown \in [Items -> AllVersions \cup {0}]
    /\ gone \subseteq Visible
    /\ phase \in {"down", "idle", "sending", "waiting"}
    /\ started \in BOOLEAN
    /\ docs \subseteq Doc \cup Listed
    /\ memory \in State /\ file \in State
    /\ taken \subseteq Items
    /\ asked \subseteq Doc \cup Listed /\ Cardinality(asked) <= 1
    /\ answered \in BOOLEAN
    /\ late \cup arrived \subseteq Doc \cup Listed /\ twice \subseteq arrived
    /\ last \in [Items -> AllVersions \cup {0}]
    /\ failed \cup forgotten \subseteq Doc \cup Listed /\ missed \subseteq Items
    /\ halts \in 0..MaxHalts /\ failures \in 0..MaxFailures

-----------------------------------------------------------------------------
\* Steps of the process.  What a step leaves to the sensors is said at each.

others == <<sensor, shown, gone, record, forgotten, halts>>
trouble == <<failed, missed, failures>>

\* A cycle starts with what was collected.  Open: taken, trouble.
Collect(D) ==
    /\ phase = "idle" /\ phase' = "sending" /\ docs' = D
    /\ UNCHANGED <<started, memory, file, wire, others>>

\* A document is dealt with without a request.  Open: memory, trouble.
Skip(d) ==
    /\ phase = "sending" /\ d \in docs /\ docs' = docs \ {d}
    /\ UNCHANGED <<phase, started, file, taken, wire, others>>

\* An exception before the request ends what is done for a document; it is
\* logged, and the document is not recorded.
Raises(d) == Skip(d) /\ UNCHANGED <<memory, trouble>>

\* emit_new_event or emit_update_event: for d, the request e is under way.
Emit(d, e) ==
    /\ phase = "sending" /\ phase' = "waiting"
    /\ d \in docs /\ docs' = docs \ {d}
    /\ asked' = {e} /\ answered' = FALSE
    /\ UNCHANGED <<started, memory, file, taken, late, trouble, others>>

\* broadcast_event returns: true only if the coordinator took the request,
\* false after a timeout or a lost answer too.  Open: memory, file.
Answer(ok) ==
    /\ phase = "waiting" /\ phase' = "sending"
    /\ asked' = {} /\ answered' = FALSE
    /\ \/ ok /\ answered /\ UNCHANGED <<late, trouble>>
       \/ /\ ~ok /\ failures < MaxFailures
          /\ late' = IF answered THEN late ELSE late \cup asked
          /\ failed' = failed \cup asked /\ failures' = failures + 1
          /\ UNCHANGED missed
    /\ UNCHANGED <<docs, started, taken, others>>

\* Everything that was collected is dealt with; the process sleeps.  Open: file.
CycleEnds ==
    /\ phase = "sending" /\ docs = {} /\ phase' = "idle" /\ started' = TRUE
    /\ UNCHANGED <<docs, memory, taken, wire, trouble, others>>

\* A source could not be read, and is read again, but for the items L.
ReadingFails(L) ==
    /\ failures < MaxFailures /\ failures' = failures + 1
    /\ missed' = missed \cup L /\ UNCHANGED failed

\* What can be read of the items S: all of them, or fewer after a failure that
\* makes the sensor pass over the items L.
ReadableBut(S, R, L) ==
    /\ R \subseteq S /\ L \subseteq S \ R
    /\ IF R = S THEN UNCHANGED trouble ELSE ReadingFails(L)

Readable(S, R) == ReadableBut(S, R, {})

\* state.metadata["hash_..."] and state.mark_processed
WithHash(d) == [memory EXCEPT !.hash[d.item] = d.version]
WithDone(d) == [memory EXCEPT !.done = @ \cup {d.item}]
Record(d) == [WithHash(d) EXCEPT !.done = @ \cup {d.item}]

\* PersistentSensorState.save: a temporary file that replaces the old one.
Save == file' = memory

-----------------------------------------------------------------------------
\* The environment.

\* An item appears, after those before it, or an author changes it.
Publish(i) ==
    /\ shown[i] < MaxVersions[i] /\ i \notin gone
    /\ \A j \in Items : j < i => j \in Visible
    /\ shown' = [shown EXCEPT ![i] = @ + 1]
    /\ UNCHANGED <<sensor, gone, work, memory, file, taken, wire, record, trouble,
                   forgotten, halts>>

\* The source does not list an item any more.
Withdraw(i) ==
    /\ i \in Offered \cap Fleeting[sensor] /\ gone' = gone \cup {i}
    /\ UNCHANGED <<sensor, shown, work, memory, file, taken, wire, record, trouble,
                   forgotten, halts>>

Arrival(d) ==
    /\ arrived' = arrived \cup {d}
    /\ twice' = IF d \in arrived THEN twice \cup {d} ELSE twice
    /\ last' = [last EXCEPT ![d.item] = d.version]
    /\ UNCHANGED <<sensor, shown, gone, work, memory, file, taken, asked, trouble,
                   forgotten, halts>>

\* The coordinator takes the request that the sensor waits for.
Arrive ==
    /\ phase = "waiting" /\ ~answered /\ answered' = TRUE
    /\ \E d \in asked : Arrival(d)
    /\ UNCHANGED late

\* It takes one that the sensor no longer waits for.
ArriveLate(d) ==
    /\ d \in late /\ late' = late \ {d}
    /\ Arrival(d)
    /\ UNCHANGED answered

\* What the state says of a document, in memory or in the file.
Recorded(state, d) ==
    IF state.hash[d.item] = 0 THEN d.item \in state.done
                              ELSE state.hash[d.item] = d.version

\* The process ends, with a request under way or between two steps.
Halt ==
    /\ phase # "down" /\ halts < MaxHalts
    /\ halts' = halts + 1
    /\ phase' = "down" /\ docs' = {} /\ started' = FALSE /\ taken' = {}
    /\ memory' = EmptyState
    /\ asked' = {} /\ answered' = FALSE
    /\ late' = IF answered THEN late ELSE late \cup asked
    /\ forgotten' = forgotten \cup asked \cup
         {d \in arrived : Recorded(memory, d) /\ ~Recorded(file, d)}
    /\ UNCHANGED <<sensor, shown, gone, file, record, trouble>>

\* PersistentSensorState.__init__ loads the file.
Start ==
    /\ phase = "down" /\ phase' = "idle"
    /\ memory' = file
    /\ UNCHANGED <<sensor, shown, gone, docs, started, file, taken, wire, record,
                   trouble, forgotten, halts>>

ProcessInit ==
    /\ sensor \in Sensors
    /\ shown = [i \in Items |-> 0] /\ gone = {}
    /\ phase = "down" /\ started = FALSE /\ docs = {}
    /\ memory = EmptyState /\ file = EmptyState
    /\ taken = {}
    /\ asked = {} /\ answered = FALSE /\ late = {}
    /\ arrived = {} /\ twice = {} /\ last = [i \in Items |-> 0]
    /\ failed = {} /\ missed = {} /\ forgotten = {}
    /\ halts = 0 /\ failures = 0

=============================================================================
