-------------------------------- MODULE Ingest --------------------------------
(***************************************************************************)
(* How the coordinator ingests a broadcast: POST /events/broadcast and     *)
(* POST /koi-net/events/broadcast run each event of a batch through the    *)
(* knowledge pipeline - duplicate check, CAT receipts, emission.  Emission *)
(* writes the bundle cache and then the delivery queue.                    *)
(*                                                                         *)
(* The process is one asyncio event loop.  The only await of the pipeline  *)
(* that gives the loop away is the one for the CAT receipts, which happens *)
(* when the receipt service of koi-processor can be imported.  A request   *)
(* runs its other steps without interruption by another request; but the   *)
(* process may die between any two of them, since each writes its own file.*)
(***************************************************************************)
EXTENDS Naturals, Sequences

CONSTANTS
    Rids,        \* the resources that events are about
    Urls,        \* urls and source_urls in manifest metadata
    Hashes,      \* content hashes
    NoHash,      \* no manifest, no entry
    NoUrl,       \* no url in the metadata
    Podcasts,    \* the rids with "podcast" in their name
    Durable,     \* the rids that rid-lib parses as ORNs and can write to disk
    Requests,    \* request handlers that may be active at the same time
    Batches,     \* the lists of events that senders post
    TornWrites,  \* whether a crash can leave the dedup file half written
    MaxFailedSaves, \* bound on how often writing the dedup file fails
    MaxHalts     \* bound on how often the process dies

Keys == Rids \cup Urls

\* NEW and UPDATE are handled alike.  A manifest may come without contents.
Event == [kind : {"set", "forget", "malformed"}, rid : Rids,
          hash : Hashes \cup {NoHash}, url : Urls \cup {NoUrl},
          contents : BOOLEAN]

ASSUME ConstantsAssumption ==
    /\ NoHash \notin Hashes /\ NoUrl \notin Keys /\ Rids \cap Urls = {}
    /\ Podcasts \subseteq Rids /\ Durable \subseteq Rids
    /\ Batches \subseteq Seq(Event) \ {<<>>}
    /\ TornWrites \in BOOLEAN /\ MaxFailedSaves \in Nat /\ MaxHalts \in Nat

VARIABLES
    receipts,   \* whether the CAT receipt service can be imported
    up,         \* the coordinator process is running
    dedup,      \* content_hashes and url_hashes, as one function
    dedupFile,  \* what dedup_state.json holds
    cache,      \* the hash of the cached bundle of a rid: node.cache
    disk,       \* the same for the bundle files
    pc,         \* where each request handler is
    todo,       \* the events of its batch that remain
    shown,      \* history: what the queued events say a rid's contents are
    newest,     \* history: the hash in the newest queued event of a key
    queued,     \* history: the contents, <<key, hash>>, of all queued events
    skipped,    \* history: the contents answered with skipped_duplicate
    lost,       \* history: contents recorded by requests that died
    cut,        \* history: rids whose cache write was not followed by queueing
    unsaved,    \* history: the last write of the dedup file failed or was cut short
    outdated,   \* history: keys that a start after such a write read wrongly
    failedSaves, \* how often writing the dedup file has failed
    halts       \* how often the process has died

history == <<shown, newest, queued, skipped, lost, cut, unsaved, outdated>>
counters == <<failedSaves, halts>>
vars == <<receipts, up, dedup, dedupFile, cache, disk, pc, todo, history, counters>>

Nothing == [k \in Keys |-> NoHash]
NoBundles == [r \in Rids |-> NoHash]

TypeOK ==
    /\ receipts \in BOOLEAN
    /\ up \in BOOLEAN
    /\ dedup \in [Keys -> Hashes \cup {NoHash}]
    /\ dedupFile \in [Keys -> Hashes \cup {NoHash}]
    /\ cache \in [Rids -> Hashes \cup {NoHash}]
    /\ disk \in [Rids -> Hashes \cup {NoHash}]
    /\ pc \in [Requests -> {"idle", "check", "save", "receipt", "apply", "queue"}]
    /\ todo \in [Requests -> Seq(Event)]
    /\ \A q \in Requests : pc[q] # "idle" => todo[q] # <<>>
    /\ shown \in [Rids -> Hashes \cup {NoHash}]
    /\ newest \in [Keys -> Hashes \cup {NoHash}]
    /\ queued \subseteq Keys \X Hashes
    /\ skipped \subseteq Keys \X Hashes
    /\ lost \subseteq Keys \X Hashes
    /\ cut \subseteq Rids
    /\ unsaved \in BOOLEAN
    /\ outdated \subseteq Keys
    /\ failedSaves \in Nat
    /\ halts \in Nat

-----------------------------------------------------------------------------
\* What the duplicate check looks an event up by, and the event's content.
Key(e) == IF e.url # NoUrl THEN e.url ELSE e.rid
Content(e) == <<Key(e), e.hash>>

\* Events without a manifest and podcasts are not checked.
Checked(e) == e.hash # NoHash /\ e.rid \notin Podcasts

\* The bundle that handle_event caches needs a manifest and contents.
HasBundle(e) == e.kind = "set" /\ e.hash # NoHash /\ e.contents

\* What handling e makes of the table of bundles t.
Handled(t, e) == IF HasBundle(e) THEN [t EXCEPT ![e.rid] = e.hash]
                 ELSE IF e.kind = "forget" THEN [t EXCEPT ![e.rid] = NoHash]
                 ELSE t

\* Past the duplicate check and before the end of emission.
Busy == {"save", "receipt", "apply", "queue"}

\* The contents that a request has recorded and not queued yet.
InFlight == {Content(Head(todo[q])) :
                q \in {p \in Requests : pc[p] \in Busy /\ Checked(Head(todo[p]))}}

\* The hash of k in the table d is that of the newest queued event, or accounted for.
Current(d, k) ==
    \/ d[k] = newest[k]
    \/ <<k, d[k]>> \in InFlight \cup lost
    \/ k \in outdated

\* Mutants: emission gives the loop away between its two halves, or before them.
LoopFreeWhileQueueing ==
    \A q \in Requests : pc[q] \in {"idle", "receipt", "queue"}
LoopFreeWhileEmitting ==
    \A q \in Requests : pc[q] \in {"idle", "receipt", "apply", "queue"}

\* Nobody runs; a request that waits for its receipts does not.
LoopFree == \A q \in Requests : pc[q] \in {"idle", "receipt"}

\* The receipt handler returns at once when there is no manifest.
AfterCheck(e) == IF receipts /\ e.hash # NoHash THEN "receipt" ELSE "apply"

\* Mutant: the hash is recorded by the rid even if it is looked up by the url.
RecordedByRid(d, e) == [d EXCEPT ![e.rid] = e.hash]

\* The new entry of the duplicate tables.
Recorded(d, e) == [d EXCEPT ![Key(e)] = e.hash]

\* _ingest_events goes on with the next event, or the request is answered.
Advance(q) ==
    /\ todo' = [todo EXCEPT ![q] = Tail(@)]
    /\ pc' = [pc EXCEPT ![q] = IF Len(todo[q]) > 1 THEN "check" ELSE "idle"]

-----------------------------------------------------------------------------
Init ==
    /\ receipts \in BOOLEAN
    /\ up = FALSE
    /\ dedup = Nothing /\ dedupFile = Nothing
    /\ cache = NoBundles /\ disk = NoBundles
    /\ pc = [q \in Requests |-> "idle"]
    /\ todo = [q \in Requests |-> <<>>]
    /\ shown = NoBundles /\ newest = Nothing
    /\ queued = {} /\ skipped = {} /\ lost = {} /\ cut = {}
    /\ unsaved = FALSE /\ outdated = {}
    /\ failedSaves = 0 /\ halts = 0

(* Construction and start(): the dedup file and the bundle files are read. *)
Start ==
    /\ ~up
    /\ up' = TRUE
    /\ dedup' = dedupFile
    /\ cache' = disk
    /\ outdated' = IF unsaved THEN {k \in Keys : dedupFile[k] # newest[k]} ELSE outdated
    /\ unsaved' = FALSE
    /\ UNCHANGED <<dedupFile, disk, pc, todo, shown, newest, queued, skipped, lost, cut,
                   counters>>

Receive(q, batch) ==
    /\ up /\ LoopFree
    /\ pc[q] = "idle"
    /\ pc' = [pc EXCEPT ![q] = "check"]
    /\ todo' = [todo EXCEPT ![q] = batch]
    /\ UNCHANGED <<up, dedup, dedupFile, cache, disk, history, counters>>

(* An event that does not parse: the whole request is answered with 500.   *)
Reject(q) ==
    /\ pc[q] = "check"
    /\ Head(todo[q]).kind = "malformed"
    /\ pc' = [pc EXCEPT ![q] = "idle"]
    /\ todo' = [todo EXCEPT ![q] = <<>>]
    /\ UNCHANGED <<up, dedup, dedupFile, cache, disk, history, counters>>

(* dedup_handler and _check_duplicate_content, up to the file.             *)
Skip(q) ==
    LET e == Head(todo[q])
    IN  /\ pc[q] = "check"
        /\ e.kind # "malformed"
        /\ Checked(e) /\ dedup[Key(e)] = e.hash
        /\ skipped' = skipped \cup {Content(e)}
        /\ Advance(q)
        /\ UNCHANGED <<up, dedup, dedupFile, cache, disk,
                       shown, newest, queued, lost, cut, unsaved, outdated, counters>>

Record(q) ==
    LET e == Head(todo[q])
    IN  /\ pc[q] = "check"
        /\ e.kind # "malformed"
        /\ Checked(e) /\ dedup[Key(e)] # e.hash
        /\ dedup' = Recorded(dedup, e)
        /\ pc' = [pc EXCEPT ![q] = "save"]
        /\ UNCHANGED <<up, dedupFile, cache, disk, todo, history, counters>>

Bypass(q) ==
    LET e == Head(todo[q])
    IN  /\ pc[q] = "check"
        /\ e.kind # "malformed"
        /\ ~Checked(e)
        /\ pc' = [pc EXCEPT ![q] = AfterCheck(e)]
        /\ UNCHANGED <<up, dedup, dedupFile, cache, disk, todo, history, counters>>

(***************************************************************************)
(* _save_dedup_state.  An error is logged and the event goes on: the file  *)
(* is as it was if it could not be opened, and unreadable, which is read   *)
(* as empty, if it was opened and then not written to its end.             *)
(***************************************************************************)
SaveDedup(q) ==
    /\ pc[q] = "save"
    /\ \/ dedupFile' = dedup /\ unsaved' = FALSE /\ UNCHANGED failedSaves
       \/ /\ failedSaves < MaxFailedSaves
          /\ dedupFile' \in {dedupFile, Nothing}
          /\ unsaved' = TRUE
          /\ failedSaves' = failedSaves + 1
    /\ pc' = [pc EXCEPT ![q] = AfterCheck(Head(todo[q]))]
    /\ UNCHANGED <<up, dedup, cache, disk, todo, shown, newest, queued, skipped, lost,
                   cut, outdated, halts>>

(* The receipts are written, or failed: the handler continues either way.  *)
Resume(q) ==
    /\ LoopFree
    /\ pc[q] = "receipt"
    /\ pc' = [pc EXCEPT ![q] = "apply"]
    /\ UNCHANGED <<up, dedup, dedupFile, cache, disk, todo, history, counters>>

(* event_emission_handler, first half: handle_event changes the cache.     *)
Apply(q) ==
    LET e == Head(todo[q])
    IN  /\ pc[q] = "apply"
        /\ cache' = Handled(cache, e)
        /\ disk' = IF e.rid \in Durable THEN Handled(disk, e) ELSE disk
        /\ pc' = [pc EXCEPT ![q] = "queue"]
        /\ UNCHANGED <<up, dedup, dedupFile, todo, history, counters>>

(* Second half: broadcast_event queues the event and writes the queue file.*)
Queue(q) ==
    LET e == Head(todo[q])
    IN  /\ pc[q] = "queue"
        /\ shown' = Handled(shown, e)
        /\ cut' = IF HasBundle(e) \/ e.kind = "forget" THEN cut \ {e.rid} ELSE cut
        /\ newest' = IF Checked(e) THEN [newest EXCEPT ![Key(e)] = e.hash]
                     ELSE newest
        /\ queued' = IF Checked(e) THEN queued \cup {Content(e)} ELSE queued
        /\ outdated' = IF Checked(e) THEN outdated \ {Key(e)} ELSE outdated
        /\ Advance(q)
        /\ UNCHANGED <<up, dedup, dedupFile, cache, disk, skipped, lost, unsaved, counters>>

(***************************************************************************)
(* The process dies.  open(..., 'w') truncates the dedup file before the   *)
(* new text is written; a file cut short does not parse and is read as     *)
(* empty.                                                                  *)
(***************************************************************************)
Crash ==
    /\ up
    /\ halts < MaxHalts
    /\ up' = FALSE
    /\ dedup' = Nothing
    /\ cache' = NoBundles
    /\ \/ UNCHANGED <<dedupFile, unsaved>>
       \/ /\ TornWrites /\ \E q \in Requests : pc[q] = "save"
          /\ dedupFile' = Nothing
          /\ unsaved' = TRUE
    /\ lost' = lost \cup InFlight
    /\ cut' = cut \cup {Head(todo[q]).rid : q \in {p \in Requests : pc[p] = "queue"}}
    /\ pc' = [q \in Requests |-> "idle"]
    /\ todo' = [q \in Requests |-> <<>>]
    /\ halts' = halts + 1
    /\ UNCHANGED <<disk, shown, newest, queued, skipped, outdated, failedSaves>>

Next ==
    /\ \/ Start
       \/ \E q \in Requests :
             \/ \E batch \in Batches : Receive(q, batch)
             \/ Reject(q) \/ Skip(q) \/ Record(q) \/ Bypass(q)
             \/ SaveDedup(q) \/ Resume(q) \/ Apply(q) \/ Queue(q)
       \/ Crash
    /\ UNCHANGED receipts

Spec == Init /\ [][Next]_vars

-----------------------------------------------------------------------------
(* Properties.                                                             *)

(* Content is refused as a duplicate only when it was queued, is about to  *)
(* be, or was on its way when the process died: no other loss is possible, *)
(* whatever requests interleave and however batches fail.                  *)
(* (koi_coordinator.py, _check_duplicate_content)                          *)
OnlyCrashesLose == skipped \subseteq queued \cup InFlight \cup lost

(* While nothing is being emitted, the bundle cache holds for every rid    *)
(* what the queued events, in the order of the queue, say of it: a peer    *)
(* that has seen all events and fetches the bundle gets the same content.  *)
(* A rid whose emission a crash cut in two is excepted, until the next     *)
(* event about it.  (default_handlers.py, event_emission_handler)          *)
CacheFollowsQueue ==
    \A r \in Rids \ cut :
        (\A q \in Requests : pc[q] = "queue" => Head(todo[q]).rid # r) =>
            /\ r \in Durable => disk[r] = shown[r]
            /\ up /\ halts = 0 => cache[r] = shown[r]

(* Without receipts, the hash that new events of a key are compared with   *)
(* is that of the newest event queued for the key, in memory and, for the  *)
(* next start, in the file: a change is never taken for a duplicate nor a  *)
(* duplicate for a change, over any restarts.  Excepted are the content    *)
(* that is being emitted or was when the process died; a file of which the *)
(* last write failed or was cut short; and the keys that a start read from *)
(* such a file, until their next event.  Two requests that both wait for   *)
(* their receipts may be emitted in the other order.                       *)
(* (koi_coordinator.py, _check_duplicate_content and _load_dedup_state)    *)
ComparedWithNewest ==
    ~receipts =>
        \A k \in Keys :
            /\ up => Current(dedup, k)
            /\ unsaved \/ Current(dedupFile, k)

(* With receipts or without, a key that was queued is in the file.  It is  *)
(* missing only from a write that failed or was cut short to the next that *)
(* succeeds, or to its next event if a restart came between: a write that  *)
(* succeeds makes good for those that failed before it.                    *)
(* (koi_coordinator.py, _save_dedup_state before the emission)             *)
RestartRemembers ==
    \A k \in Keys :
        newest[k] # NoHash => dedupFile[k] # NoHash \/ unsaved \/ k \in outdated

(* The deduplication state, in memory and in its file, says of each key    *)
(* what the queue does.  (koi_coordinator.py, _check_duplicate_content,    *)
(* _save_dedup_state and _load_dedup_state)                                *)
DedupFollowsQueue == ComparedWithNewest /\ RestartRemembers

-----------------------------------------------------------------------------
(***************************************************************************)
(* The inductive invariant: the properties, and what they rest on.         *)
(***************************************************************************)

\* One request runs at a time, and only while the process does.
OneRuns ==
    /\ \A p, q \in Requests :
          p # q /\ pc[p] \notin {"idle", "receipt"} => pc[q] \in {"idle", "receipt"}
    /\ \A q \in Requests : pc[q] # "idle" => up
    /\ ~receipts => \A q \in Requests : pc[q] # "receipt"

\* Before the first start nothing has happened.
NothingBeforeStart ==
    ~up /\ halts = 0 =>
        /\ cache = NoBundles /\ disk = NoBundles /\ shown = NoBundles

\* Every hash in memory or in the file comes from an event that was queued, is
\* in flight, or was lost in a crash.
HashesAccounted ==
    \A k \in Keys :
        /\ dedup[k] # NoHash => <<k, dedup[k]>> \in queued \cup InFlight \cup lost
        /\ dedupFile[k] # NoHash =>
               <<k, dedupFile[k]>> \in queued \cup InFlight \cup lost

\* An event past the check has its key in memory, and in the file unless that could
\* not be saved; without receipts nobody has replaced its hash.
RecordedFirst ==
    \A q \in Requests :
        LET e == Head(todo[q])
        IN  pc[q] \in Busy /\ Checked(e) =>
                /\ dedup[Key(e)] # NoHash
                /\ pc[q] # "save" => dedupFile[Key(e)] # NoHash \/ unsaved
                /\ ~receipts => dedup[Key(e)] = e.hash
                /\ ~receipts /\ pc[q] # "save" => dedupFile[Key(e)] = e.hash \/ unsaved

\* The running process remembers what was queued, unless it read a file of which the
\* last write had failed.
MemoryRemembers ==
    up => \A k \in Keys : newest[k] # NoHash => dedup[k] # NoHash \/ k \in outdated

\* Between its halves an emission has done to the cache what its second half
\* will show.
EmissionInTwoHalves ==
    \A q \in Requests :
        LET e == Head(todo[q])
        IN  pc[q] = "queue" /\ (HasBundle(e) \/ e.kind = "forget" \/ e.rid \notin cut) =>
                /\ e.rid \in Durable => disk[e.rid] = Handled(shown, e)[e.rid]
                /\ halts = 0 => cache[e.rid] = Handled(shown, e)[e.rid]

IInv ==
    /\ TypeOK
    /\ OneRuns
    /\ NothingBeforeStart
    /\ HashesAccounted
    /\ RecordedFirst
    /\ MemoryRemembers
    /\ EmissionInTwoHalves
    /\ OnlyCrashesLose
    /\ CacheFollowsQueue
    /\ ComparedWithNewest
    /\ RestartRemembers

=============================================================================
