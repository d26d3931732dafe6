----------------------------- MODULE ClaudeSessions -----------------------------
(***************************************************************************)
(* The sensor of Claude Code sessions: processes that share a database.    *)
(* A daemon and an operator scan all transcripts and store the changed     *)
(* ones as chunks; a hook stores the transcript of a session that ends.    *)
(* What a model extracts from a session is linked as it is stored, or made *)
(* an episode of in a batch.  The operator may also read the tools that    *)
(* sessions used again, or add embeddings that are missing.                *)
(*                                                                         *)
(* A transcript only grows: its version is both its content and its time   *)
(* of modification.  A transaction of the database is one step.            *)
(***************************************************************************)
EXTENDS Naturals, Sequences, FiniteSets

CONSTANTS
    Sessions, Tools,
    Messages,      \* the messages of each session; a version is their number
    Listed,        \* sessions that are found in an index only
    Setup,         \* the embeddings each process is configured for
    Extractors,    \* how entities may be extracted: "inline", "batch"
    MinVersion,    \* min_messages
    MaxAttempts,   \* max_attempts of the extraction
    BatchLimit,    \* max_per_cycle
    MaxRuns,       \* bound on the runs of the hook and of the operator
    MaxEnds,       \* bound on how often a process ends
    MaxErrors      \* bound on the reads, requests and statements that fail

ASSUME SessionsAssumption ==
    /\ IsFiniteSet(Sessions) /\ IsFiniteSet(Tools) /\ Listed \subseteq Sessions
    /\ Messages \in [Sessions -> Seq([by : {"user", "assistant"}, text : BOOLEAN,
                                      tools : SUBSET Tools])]
    /\ Setup \in [{"daemon", "operator", "hook"} ->
                     [provider : {"openai", "poly"}, ready : BOOLEAN]]
    /\ Extractors \subseteq {"inline", "batch"}
    /\ {MinVersion, MaxAttempts, BatchLimit} \subseteq Nat \ {0}
    /\ {MaxRuns, MaxEnds, MaxErrors} \subseteq Nat

VARIABLES
    extractor,   \* how entities are extracted
    index,       \* the messageCount of each session in the index that lists it
    transcript,  \* the version of each transcript, 0 if there is none
    log,         \* session_ingestion_log, and the version in session_chunks
    usage,       \* session_tool_usage: the calls of each tool, 0 without a row
    linked,      \* the version whose entities the backend linked last
    pc,          \* what each process is doing
    work,        \* the transcripts a process has yet to store
    batch,       \* the sessions it has yet to extract
    job,         \* what it is storing or extracting
    episodes,    \* history: the versions that episodes were made of
    due,         \* history: stored, or extracted in vain, since the last episode
    misread,     \* history: a transcript that was stored was not read to its end
    skimmed,     \* history: nor was one that was extracted, since it was stored
    raced,       \* history: in the batches of two processes at a time
    overtaken,   \* history: stored while it was being extracted
    torn,        \* history: the calls were not counted to the end, or a refresh lost or
                 \* overwrote those that were stored
    runs, ends, errors    \* counters of the bounds

process == <<pc, work, batch, job>>
database == <<log, usage, linked>>
history == <<episodes, due, misread, skimmed, raced, overtaken, torn>>
bounds == <<runs, ends, errors>>
claudeVars == <<extractor, index, transcript, database, process, history, bounds>>

Scanners == {"daemon", "operator"}
Processes == Scanners \cup {"hook"}
Versions == UNION {0..Len(Messages[s]) : s \in Sessions}
Calls == [Tools -> 0..(CHOOSE n \in Versions : \A m \in Versions : m <= n)]
NoCalls == [t \in Tools |-> 0]

Known == [session : Sessions, mtime : Versions]
NoJob == [step |-> "none"]
StoreJob == [step : {"store"}, session : Sessions, mtime : Versions, content : Versions]
ExtractJob == [step : {"asking", "posted"}, session : Sessions, content : Versions]
LinkJob == [step : {"linking"}, session : Sessions, content : Versions]
UsageJob == [step : {"read", "deleted"}, session : Sessions, calls : Calls, left : SUBSET Tools]

\* extracted: entities_extracted_at is null, before or after last_ingested_at.
\* embedded: the columns with an embedding of the chunks.
NoRow == [mtime |-> 0, chunks |-> 0, extracted |-> "never", attempts |-> 0,
          embedded |-> {}]
Row == [mtime : Versions, chunks : Versions, extracted : {"never", "before", "after"},
        attempts : Nat, embedded : SUBSET {"openai", "poly"}]

ClaudeTypeOK ==
    /\ transcript \in [Sessions -> Versions] /\ index \in [Listed -> Versions]
    /\ extractor \in Extractors
    /\ log \in [Sessions -> Row]
    /\ usage \in [Sessions -> Calls] /\ linked \in [Sessions -> Versions]
    /\ pc \in [Processes -> {"down", "idle", "storing", "extracting", "extracted",
                             "refreshing", "backfilling"}]
    /\ work \in [Processes -> SUBSET Known]
    /\ batch \in [Processes -> SUBSET Sessions]
    /\ job \in [Processes -> {NoJob} \cup StoreJob \cup ExtractJob \cup LinkJob \cup UsageJob]
    /\ \A p \in Processes : job[p] \in ExtractJob => pc[p] = "extracted"
    /\ episodes \in [Sessions -> SUBSET Versions]
    /\ {due, misread, skimmed, raced, overtaken, torn} \subseteq SUBSET Sessions
    /\ runs \in 0..MaxRuns /\ ends \in 0..MaxEnds /\ errors \in 0..MaxErrors

Fails == errors < MaxErrors /\ errors' = errors + 1
Go(p, to) == pc' = [pc EXCEPT ![p] = to]
Free(p) == job[p] = NoJob
HasRow(s) == log[s].mtime # 0

-----------------------------------------------------------------------------
(* What a transcript says.                                                 *)

\* _extract_text: the text of a message, and not its tools and their results.
HasText(s, i) == Messages[s][i].text

\* A message of the user and the message of the assistant right after it; the
\* assistant's further messages belong to no turn.
Turn(s, v, i) ==
    {i} \cup {k \in {i + 1} : k <= v /\ Messages[s][k].by = "assistant"}

\* _create_chunks: a chunk for every turn with text on either side.
Chunks(s, v) ==
    {i \in 1..v : Messages[s][i].by = "user" /\ \E k \in Turn(s, v, i) : HasText(s, k)}

\* _extract_metadata: the calls of each tool.
CallsOf(s, v) ==
    [t \in Tools |-> Cardinality({i \in 1..v :
        Messages[s][i].by = "assistant" /\ t \in Messages[s][i].tools})]

\* Without any call the rows stay as they are.
Recorded(rows, calls) == IF calls = NoCalls THEN rows ELSE calls

-----------------------------------------------------------------------------
(* The processes.                                                          *)

\* initialize: without a key for OpenAI a process does not start; without the
\* address of Poly it stores chunks without embeddings.
CanStart(p) == Setup[p].provider = "openai" => Setup[p].ready

Embeddings(p) == IF Setup[p].ready THEN {Setup[p].provider} ELSE {}

-----------------------------------------------------------------------------
(* Phase 1: transcripts are stored.                                        *)

\* Mutant: a session that has a row is not stored again.
NeverStored(s) == ~HasRow(s)

\* A transcript without a row, or modified since.
NeedsProcessing(s) == transcript[s] > log[s].mtime

\* What is too short is left for later, by the number of lines or by the one that
\* the index gives; none passes.
TooShort(s) ==
    LET count == IF s \in Listed THEN index[s] ELSE transcript[s]
    IN count # 0 /\ count < MinVersion

\* _parse_sessions_index, _scan_jsonl_files: an index that cannot be read lists
\* nothing, a file may not be found or its lines not be counted.
Discovered(found, uncounted) ==
    \/ found = Sessions /\ uncounted = {} /\ UNCHANGED errors
    \/ /\ Fails
       /\ \/ found = Sessions \ Listed /\ Listed # {} /\ uncounted = {}
          \/ \E s \in Sessions \ Listed :
                \/ found = Sessions \ {s} /\ uncounted = {}
                \/ found = Sessions /\ uncounted = {s}

\* get_sessions_needing_processing.
ScanBegins(p) ==
    /\ p \in Scanners /\ pc[p] = "idle" /\ Go(p, "storing")
    /\ \E found, uncounted \in SUBSET Sessions :
         /\ Discovered(found, uncounted)
         /\ work' = [work EXCEPT ![p] = {[session |-> s, mtime |-> transcript[s]] :
                s \in {t \in found : (~TooShort(t) \/ t \in uncounted) /\ NeedsProcessing(t)}}]
    /\ UNCHANGED <<extractor, index, transcript, database, batch, job, history, runs, ends>>

\* process_session_by_id: the hook takes a session however short.
HookBegins(s) ==
    /\ pc["hook"] = "down" /\ runs < MaxRuns /\ runs' = runs + 1
    /\ CanStart("hook") /\ transcript[s] # 0 /\ Go("hook", "storing")
    /\ work' = [work EXCEPT !["hook"] = {[session |-> s, mtime |-> transcript[s]]}]
    /\ UNCHANGED <<extractor, index, transcript, database, batch, job, history, ends, errors>>

ToStore(k, content) == [step |-> "store", session |-> k.session,
                        mtime |-> k.mtime, content |-> content]

\* _parse_transcript: an error ends the reading and is only logged; with nothing
\* read the session counts as processed, and has no row.
Parse(p, k) ==
    /\ Free(p) /\ k \in work[p] /\ work' = [work EXCEPT ![p] = @ \ {k}]
    /\ \E content \in 0..transcript[k.session] :
         /\ IF content = transcript[k.session] THEN UNCHANGED <<misread, errors>>
            ELSE Fails /\ misread' = misread \cup {k.session}
         /\ job' = IF content = 0 THEN job ELSE [job EXCEPT ![p] = ToStore(k, content)]
    /\ UNCHANGED <<extractor, index, transcript, database, pc, batch, episodes, due, skimmed,
                   raced, overtaken, torn, runs, ends>>

At(s, Jobs) == \E q \in Processes : job[q] \in Jobs /\ job[q].session = s

\* Mutant: the time of modification is looked up when the transcript is stored.
TimedLater(row, j, columns) ==
    [row EXCEPT !.mtime = transcript[j.session], !.chunks = j.content,
                !.extracted = IF @ = "never" THEN "never" ELSE "before",
                !.embedded = columns]

\* The transaction replaces the chunks and writes the row.
Stored(row, j, columns) ==
    [row EXCEPT !.mtime = j.mtime, !.chunks = j.content,
                !.extracted = IF @ = "never" THEN "never" ELSE "before",
                !.embedded = IF Chunks(j.session, j.content) = {} THEN {} ELSE columns]

\* _generate_embeddings: a batch of chunks that fails three times, or a
\* statement that does: the session is left to the next scan.
StoreFails(p) ==
    /\ Fails /\ job' = [job EXCEPT ![p] = NoJob]
    /\ UNCHANGED <<extractor, index, transcript, database, pc, work, batch, history, runs, ends>>

\* The tools are read after the messages, from a transcript that may have grown, or
\* not to its end.  The chunks that a backfill was about to embed are gone.
StoreCommits(p) ==
    LET s == job[p].session
        inline == [step |-> "linking", session |-> s, content |-> job[p].content]
        unread(v) == v < job[p].content \/ v < job[p].mtime
    IN
    /\ log' = [log EXCEPT ![s] = Stored(@, job[p], Embeddings(p))]
    /\ \E v \in 0..transcript[s] :
         /\ IF unread(v) THEN Fails ELSE UNCHANGED errors
         /\ usage' = [usage EXCEPT ![s] = Recorded(@, CallsOf(s, v))]
         /\ torn' = IF unread(v) \/ At(s, UsageJob) THEN torn \cup {s} ELSE torn \ {s}
    /\ job' = [job EXCEPT ![p] = IF extractor = "inline" THEN inline ELSE NoJob]
    /\ batch' = [q \in Processes |->
                    IF pc[q] = "backfilling" THEN batch[q] \ {s} ELSE batch[q]]
    /\ due' = due \cup {s}
    /\ overtaken' = IF At(s, ExtractJob \cup LinkJob) THEN overtaken \cup {s}
                                                     ELSE overtaken \ {s}
    /\ skimmed' = skimmed \ {s}
    /\ UNCHANGED <<extractor, index, transcript, linked, pc, work, episodes, misread, raced,
                   runs, ends>>

\* process_session.
Store(p) == job[p] \in StoreJob /\ (StoreCommits(p) \/ StoreFails(p))

\* _extract_entities: a model names the entities of the first chunks, or fails.
\* It is the client of the embeddings that asks it: with Poly there is none.
ExtractEntities(p, ok) ==
    IF Setup[p].provider = "poly" THEN ~ok /\ UNCHANGED errors
    ELSE IF ok THEN UNCHANGED errors ELSE Fails

\* _call_ingest: the links of the session are replaced; an answer may be lost.
CallIngest(s, content) == linked' = [linked EXCEPT ![s] = content]

\* After a failure of either the links are as they were or new, and nothing
\* tries again.
Link(p) ==
    /\ job[p] \in LinkJob /\ job' = [job EXCEPT ![p] = NoJob]
    /\ LET s == job[p].session IN
       \/ /\ ExtractEntities(p, TRUE) /\ CallIngest(s, job[p].content)
          /\ due' = due \ {s}
       \/ /\ ExtractEntities(p, FALSE) /\ UNCHANGED <<linked, due>>
       \/ /\ Setup[p].provider = "openai" /\ Fails /\ CallIngest(s, job[p].content)
          /\ UNCHANGED due
    /\ UNCHANGED <<extractor, index, transcript, log, usage, pc, work, batch, episodes, misread,
                   skimmed, raced, overtaken, torn, runs, ends>>

HookEnds ==
    /\ pc["hook"] = "storing" /\ Free("hook") /\ work["hook"] = {} /\ Go("hook", "down")
    /\ UNCHANGED <<extractor, index, transcript, database, work, batch, job, history, bounds>>

-----------------------------------------------------------------------------
(* Phase 2: episodes are extracted.                                        *)

\* Mutant: what was stored again is not extracted again.
OnlyOnce(s) == HasRow(s) /\ log[s].extracted = "never" /\ log[s].attempts < MaxAttempts

Eligible(s) == HasRow(s) /\
    \/ log[s].extracted = "never" /\ log[s].attempts < MaxAttempts
    \/ log[s].extracted = "before"

InBatch(s) ==
    At(s, ExtractJob) \/ \E q \in Processes : pc[q] # "backfilling" /\ s \in batch[q]

\* _run_extraction_batch: the rows are read, not locked.
Select(p) ==
    /\ p \in Scanners /\ pc[p] = "storing" /\ Free(p) /\ work[p] = {}
    /\ extractor = "batch" /\ Go(p, "extracting")
    /\ \E B \in SUBSET {s \in Sessions : Eligible(s)} :
         /\ \/ B = {s \in Sessions : Eligible(s)} /\ Cardinality(B) <= BatchLimit
            \/ Cardinality(B) = BatchLimit
         /\ batch' = [batch EXCEPT ![p] = B]
         /\ raced' = raced \cup {s \in B : InBatch(s)}
    /\ UNCHANGED <<extractor, index, transcript, database, work, job, episodes, due, misread,
                   skimmed, overtaken, torn, bounds>>

\* _run_deep_extraction_batch: a program of its own extracts from the database,
\* or is not there; what becomes of it is not looked at.
DeepBatch(p) ==
    /\ p \in Scanners /\ pc[p] = "storing" /\ Free(p) /\ work[p] = {}
    /\ extractor = "inline" /\ Go(p, "extracted")
    /\ UNCHANGED <<extractor, index, transcript, database, work, batch, job, history, bounds>>

\* Mutant: an attempt that succeeds is only counted.
NeverMarks(row, ok) == [row EXCEPT !.attempts = @ + 1]

\* Mutant: an attempt that failed marks the session as well.
MarksAnyway(row, ok) == [row EXCEPT !.attempts = @ + 1, !.extracted = "after"]

Attempted(row, ok) ==
    [row EXCEPT !.attempts = @ + 1, !.extracted = IF ok THEN "after" ELSE @]

\* _extract_single_session, _build_extraction_text: the text is read from the
\* transcript, as far as that can be read or is there at all; without any text the
\* session is marked at once.  No attempt is counted if the prompt is not found or
\* a statement fails.
Extract(p, s) ==
    /\ pc[p] \in {"extracting", "extracted"}
    /\ Free(p) /\ s \in batch[p] /\ batch' = [batch EXCEPT ![p] = @ \ {s}]
    /\ Go(p, "extracted")
    /\ \/ Fails /\ UNCHANGED <<log, job, skimmed>>
       \/ \E v \in 0..transcript[s] :
            /\ IF v = transcript[s] THEN UNCHANGED <<skimmed, errors>>
               ELSE Fails /\ skimmed' = skimmed \cup {s}
            /\ IF Chunks(s, v) = {}
               THEN log' = [log EXCEPT ![s] = Attempted(@, TRUE)] /\ UNCHANGED job
               ELSE /\ job' = [job EXCEPT ![p] = [step |-> "asking", session |-> s,
                                                  content |-> v]]
                    /\ UNCHANGED log
    /\ UNCHANGED <<extractor, index, transcript, usage, linked, work, episodes, due, misread,
                   raced, overtaken, torn, runs, ends>>

\* The model answers, and the backend makes an episode of the answer.
PostEpisode(p) ==
    /\ job[p].step = "asking" /\ job' = [job EXCEPT ![p].step = "posted"]
    /\ episodes' = [episodes EXCEPT ![job[p].session] = @ \cup {job[p].content}]
    /\ due' = due \ {job[p].session}
    /\ UNCHANGED <<extractor, index, transcript, database, pc, work, batch, misread,
                   skimmed, raced, overtaken, torn, bounds>>

\* The entities are linked or refused, and the session is marked; or the model,
\* the answer of the backend or the links fail, or the statement that counts it.
Finish(p) ==
    /\ job[p] \in ExtractJob /\ job' = [job EXCEPT ![p] = NoJob]
    /\ LET s == job[p].session IN
       \/ /\ job[p].step = "posted" /\ log' = [log EXCEPT ![s] = Attempted(@, TRUE)]
          /\ UNCHANGED <<due, errors>>
       \/ /\ Fails /\ log' \in {log, [log EXCEPT ![s] = Attempted(@, FALSE)]}
          /\ due' = due \cup {s}
    /\ UNCHANGED <<extractor, index, transcript, usage, linked, pc, work, batch, episodes, misread,
                   skimmed, raced, overtaken, torn, runs, ends>>

\* The batch is over, or the time for it once a session has been tried; the
\* daemon goes on, the scan of the operator is over.
ScanEnds(p) ==
    /\ Free(p) /\ \/ pc[p] = "extracted"
                  \/ pc[p] = "extracting" /\ batch[p] = {}
    /\ batch' = [batch EXCEPT ![p] = {}]
    /\ Go(p, IF p = "daemon" THEN "idle" ELSE "down")
    /\ UNCHANGED <<extractor, index, transcript, database, work, job, history, bounds>>

-----------------------------------------------------------------------------
(* What an operator may do besides a scan.                                 *)

\* refresh_metadata: the calls of every stored session are read again.
RefreshBegins ==
    /\ pc["operator"] = "idle" /\ Go("operator", "refreshing")
    /\ batch' = [batch EXCEPT !["operator"] = {s \in Sessions : HasRow(s)}]
    /\ UNCHANGED <<extractor, index, transcript, database, work, job, history, bounds>>

\* The transcript is read, as far as it can be; sessions without any call are done
\* with.
RefreshReads(s) ==
    /\ pc["operator"] = "refreshing" /\ Free("operator") /\ s \in batch["operator"]
    /\ batch' = [batch EXCEPT !["operator"] = @ \ {s}]
    /\ \E v \in 0..transcript[s] :
         /\ IF v = transcript[s] THEN UNCHANGED <<torn, errors>>
            ELSE Fails /\ torn' = torn \cup {s}
         /\ LET calls == CallsOf(s, v) IN
            job' = IF calls = NoCalls THEN job
                   ELSE [job EXCEPT !["operator"] =
                            [step |-> "read", session |-> s, calls |-> calls,
                             left |-> {t \in Tools : calls[t] > 0}]]
    /\ UNCHANGED <<extractor, index, transcript, database, pc, work, episodes, due, misread,
                   skimmed, raced, overtaken, runs, ends>>

\* The rows are deleted, and inserted one by one, in no transaction.
RefreshDeletes ==
    /\ job["operator"] \in UsageJob /\ job["operator"].step = "read"
    /\ job' = [job EXCEPT !["operator"].step = "deleted"]
    /\ usage' = [usage EXCEPT ![job["operator"].session] = NoCalls]
    /\ UNCHANGED <<extractor, index, transcript, log, linked, pc, work, batch, history, bounds>>

\* A row that is there by now is an error, which ends the process.
RefreshInserts(t) ==
    /\ job["operator"] \in UsageJob /\ job["operator"].step = "deleted"
    /\ t \in job["operator"].left
    /\ LET s == job["operator"].session
           left == job["operator"].left \ {t}
       IN IF usage[s][t] = 0
          THEN /\ usage' = [usage EXCEPT ![s][t] = job["operator"].calls[t]]
               /\ job' = [job EXCEPT !["operator"] = IF left = {} THEN NoJob
                                                     ELSE [@ EXCEPT !.left = left]]
               /\ UNCHANGED <<pc, batch>>
          ELSE /\ Go("operator", "down") /\ job' = [job EXCEPT !["operator"] = NoJob]
               /\ batch' = [batch EXCEPT !["operator"] = {}] /\ UNCHANGED usage
    /\ UNCHANGED <<extractor, index, transcript, log, linked, work, history, bounds>>

\* backfill_embeddings: the chunks that have none of Poly's are looked up.
BackfillBegins ==
    /\ pc["operator"] = "idle" /\ Setup["operator"] = [provider |-> "poly", ready |-> TRUE]
    /\ Go("operator", "backfilling")
    /\ batch' = [batch EXCEPT !["operator"] =
           {s \in Sessions : Chunks(s, log[s].chunks) # {} /\ "poly" \notin log[s].embedded}]
    /\ UNCHANGED <<extractor, index, transcript, database, work, job, history, bounds>>

\* They are embedded and updated by their ids, unless the request fails.
Backfill(s) ==
    /\ pc["operator"] = "backfilling" /\ s \in batch["operator"]
    /\ \/ /\ log' = [log EXCEPT ![s].embedded = @ \cup {"poly"}]
          /\ batch' = [batch EXCEPT !["operator"] = @ \ {s}] /\ UNCHANGED errors
       \/ /\ Fails /\ batch' = [batch EXCEPT !["operator"] = {}] /\ UNCHANGED log
    /\ UNCHANGED <<extractor, index, transcript, usage, linked, pc, work, job, history, runs, ends>>

ErrandEnds ==
    /\ pc["operator"] \in {"refreshing", "backfilling"} /\ Free("operator")
    /\ batch["operator"] = {} /\ Go("operator", "down")
    /\ UNCHANGED <<extractor, index, transcript, database, work, batch, job, history, bounds>>

-----------------------------------------------------------------------------
(* The environment.                                                        *)

\* A message is added to a session.
Write(s) ==
    /\ transcript[s] < Len(Messages[s]) /\ transcript' = [transcript EXCEPT ![s] = @ + 1]
    /\ UNCHANGED <<extractor, index, database, process, history, bounds>>

\* The index is written now and then, by a program of its own.
WriteIndex(s) ==
    /\ index[s] # transcript[s] /\ index' = [index EXCEPT ![s] = transcript[s]]
    /\ UNCHANGED <<extractor, transcript, database, process, history, bounds>>

\* A process ends at any point; nothing of it survives but the database.
Ends(p) ==
    /\ pc[p] # "down" /\ ends < MaxEnds /\ ends' = ends + 1
    /\ Go(p, "down") /\ work' = [work EXCEPT ![p] = {}]
    /\ batch' = [batch EXCEPT ![p] = {}] /\ job' = [job EXCEPT ![p] = NoJob]
    /\ due' = IF job[p] \in ExtractJob THEN due \cup {job[p].session} ELSE due
    /\ torn' = IF job[p] \in UsageJob THEN torn \cup {job[p].session} ELSE torn
    /\ UNCHANGED <<extractor, index, transcript, database, episodes, misread,
                   skimmed, raced, overtaken, runs, errors>>

DaemonStarts ==
    /\ pc["daemon"] = "down" /\ CanStart("daemon") /\ Go("daemon", "idle")
    /\ UNCHANGED <<extractor, index, transcript, database, work, batch, job, history, bounds>>

OperatorBegins ==
    /\ pc["operator"] = "down" /\ CanStart("operator") /\ Go("operator", "idle")
    /\ runs < MaxRuns /\ runs' = runs + 1
    /\ UNCHANGED <<extractor, index, transcript, database, work, batch, job, history, ends, errors>>

ClaudeInit ==
    /\ extractor \in Extractors
    /\ transcript = [s \in Sessions |-> 0] /\ index = [s \in Listed |-> 0]
    /\ log = [s \in Sessions |-> NoRow]
    /\ usage = [s \in Sessions |-> NoCalls] /\ linked = [s \in Sessions |-> 0]
    /\ pc = [p \in Processes |-> "down"]
    /\ work = [p \in Processes |-> {}] /\ batch = [p \in Processes |-> {}]
    /\ job = [p \in Processes |-> NoJob]
    /\ episodes = [s \in Sessions |-> {}]
    /\ due = {} /\ misread = {} /\ skimmed = {} /\ raced = {} /\ overtaken = {} /\ torn = {}
    /\ runs = 0 /\ ends = 0 /\ errors = 0

Step(p) ==
    \/ ScanBegins(p) \/ Store(p) \/ Link(p) \/ Select(p) \/ DeepBatch(p)
    \/ PostEpisode(p) \/ Finish(p) \/ ScanEnds(p)
    \/ \E k \in work[p] : Parse(p, k)
    \/ \E s \in batch[p] : Extract(p, s)

Errand ==
    \/ RefreshBegins \/ RefreshDeletes \/ BackfillBegins \/ ErrandEnds
    \/ \E s \in Sessions : RefreshReads(s) \/ Backfill(s)
    \/ \E t \in Tools : RefreshInserts(t)

ClaudeNext ==
    \/ \E p \in Processes : Step(p) \/ Ends(p)
    \/ Errand \/ HookEnds \/ DaemonStarts \/ OperatorBegins
    \/ \E s \in Sessions : Write(s) \/ HookBegins(s)
    \/ \E s \in Listed : WriteIndex(s)

ClaudeSpec == ClaudeInit /\ [][ClaudeNext]_claudeVars

\* The processes go on, and the daemon is started again.
FairClaudeSpec == ClaudeSpec /\ WF_claudeVars(HookEnds) /\ WF_claudeVars(DaemonStarts)
                             /\ WF_claudeVars(Errand)
                             /\ \A p \in Processes : WF_claudeVars(Step(p))

-----------------------------------------------------------------------------
(* The time recorded for a session is never later than the chunks that     *)
(* are stored, whichever process stored them last, unless a transcript     *)
(* could not be read to its end: what is missing is found by the next scan.*)
(* (process_session; get_sessions_needing_processing)                      *)
RecordedTimeIsSafe ==
    \A s \in Sessions \ misread : log[s].mtime <= log[s].chunks

(* A session is marked as extracted only if an episode was made of all     *)
(* that is stored of it, or its transcript could not be read to its end    *)
(* when it was extracted; and the entities linked inline are those of what *)
(* is stored unless an extraction failed.  Either may be wrong for a       *)
(* session that was stored while it was being extracted: what is extracted *)
(* of the earlier chunks is then taken for the later ones.                 *)
(* (_extract_single_session, process_session)                              *)
MarkedIsExtracted == \A s \in Sessions \ overtaken :
    /\ log[s].extracted = "after" => \/ Chunks(s, log[s].chunks) = {}
                                     \/ \E v \in episodes[s] : v >= log[s].chunks
                                     \/ s \in skimmed
    /\ extractor = "inline" /\ s \notin due => linked[s] = log[s].chunks

(* A second episode of a session needs a reason: it was stored again, an   *)
(* attempt failed or ended, or two runs took it.                           *)
(* (_post_extraction: the backend makes an episode of every request)       *)
EpisodesAreExcused ==
    [][\A p \in Processes, s \in Sessions :
         PostEpisode(p) /\ job[p].session = s => s \in due \cup raced]_claudeVars

(* Every transcript that a scan does not take for too short is stored as   *)
(* it is in the end, whatever the hook, the operator and the daemon        *)
(* overwrite, unless it could not be read to its end; and so are the calls *)
(* of its tools, unless they were not counted to the end, or a refresh     *)
(* ended half-way, or wrote what it had read before.                       *)
(* (claude_sessions/README.md: the scan is a safety net; refresh_metadata) *)
EventuallyStored == \A s \in Sessions : <>[](
    transcript[s] # 0 /\ ~TooShort(s) /\ s \notin misread =>
        /\ log[s].chunks = transcript[s]
        /\ (s \in torn \/ usage[s] = CallsOf(s, transcript[s])))

(* Every session that is stored is extracted in the end, or has used up    *)
(* its attempts.  (_run_extraction_batch)                                  *)
EventuallyExtracted == \A s \in Sessions : <>[](
    HasRow(s) /\ extractor = "batch" =>
        \/ log[s].extracted = "after"
        \/ log[s].extracted = "never" /\ log[s].attempts >= MaxAttempts)

=============================================================================
