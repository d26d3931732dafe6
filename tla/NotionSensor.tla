------------------------------ MODULE NotionSensor ------------------------------
(***************************************************************************)
(* The notion sensor: it visits the pages of a workspace in turn, a few in *)
(* every poll, and on each page a few of the blocks that carry comments.   *)
(* What differs from what the coordinator acknowledged goes to an outbox   *)
(* in the state file, and is sent if it was seen in this poll.             *)
(*                                                                         *)
(* A document is a page or a comment.  Its content, as the digest of the   *)
(* code tells contents apart, is what is taken from a version of it, the   *)
(* time of its last edit, and what could not be had: the names of people,  *)
(* the words of a recording, the comments of some blocks of a page.        *)
(***************************************************************************)
EXTENDS Naturals, Sequences, FiniteSets, SequencesExt

CONSTANTS
    Pages, Comments,  \* the documents
    Blocks,           \* the comments of each page, in the order of its blocks
    PagesPerPoll,     \* max_pages_per_poll
    BlocksPerVisit,   \* max_comment_targets, without the page itself
    PollsPerQuery,    \* polls between two queries of the database
    Versions,         \* bound: the versions each document takes, 0 included if it may go
    Sheet,            \* the blocks and the properties of each version
    Contacts,         \* texts that are addresses or numbers of people
    Redacted,         \* what they are replaced by
    Transcribes,      \* transcribe_videos
    MaxEdits,         \* bound on the changes in the workspace
    MaxHalts,         \* bound on how often the process ends
    MaxFailures       \* bound on the reads and the requests that fail

ASSUME NotionAssumption ==
    /\ IsFiniteSet(Pages) /\ IsFiniteSet(Comments) /\ Pages \cap Comments = {}
    /\ Blocks \in [Pages -> Seq(Comments)]
    /\ {PagesPerPoll, BlocksPerVisit} \subseteq Nat \ {0}
    /\ Versions \in [Pages \cup Comments -> SUBSET Nat]
    /\ \A d \in DOMAIN Versions : 1 \in Versions[d]
    /\ \A d \in DOMAIN Versions : DOMAIN Sheet[d] = Versions[d] \ {0}
    /\ Transcribes \in BOOLEAN
    /\ {PollsPerQuery, MaxEdits, MaxHalts, MaxFailures} \subseteq Nat

VARIABLES
    shown,      \* the version of each document, 0: archived, resolved or none yet
    time,       \* last_edited_time of each document
    phase,      \* what the process is doing
    watch,      \* what the process found at its start: pages, and the database
    age,        \* polls since the database was queried
    memory,     \* the state: pages known, their queue, offsets, the recordings that
                \* were transcribed, outbox and hashes
    file,       \* the state file
    todo,       \* the pages this poll has yet to visit
    eligible,   \* the documents that were seen in this poll
    changes,    \* the documents this poll has yet to send
    asked,      \* the document whose answer is awaited, if any
    answered,   \* the coordinator has taken it
    late,       \* requests that were given up and may arrive yet
    last,       \* history: the content of each document that arrived last
    doubtful,   \* history: the documents one of whose requests arrived although given up
    since,      \* history: the versions shown since this poll began
    edits, halts, failures    \* counters of the bounds

poll == <<age, todo, eligible, changes>>
wire == <<asked, answered, late>>
history == <<last, doubtful>>
vars == <<shown, time, phase, watch, poll, memory, file, wire, history, since, edits, halts, failures>>

Docs == Pages \cup Comments
AllVersions == UNION {Versions[d] : d \in Docs} \cup {0}
AnyVersion == [text : AllVersions, time : Nat]
Content == [version : AnyVersion, missed : SUBSET ({"names", "words", "refused"} \cup Docs)]
Nothing == [version |-> [text |-> 0, time |-> 0], missed |-> {}]
NoWatch == [pages |-> {}, database |-> FALSE]
Request == [doc : Docs, content : Content]
State == [known : SUBSET Pages, queue : Seq(Pages), offset : [Pages -> Nat],
          heard : SUBSET Pages,
          outbox : [Docs -> Content \cup {Nothing}],
          hash : [Docs -> Content \cup {Nothing}]]
EmptyState == [known |-> {}, queue |-> <<>>, offset |-> [p \in Pages |-> 0],
               heard |-> {},
               outbox |-> [d \in Docs |-> Nothing], hash |-> [d \in Docs |-> Nothing]]

TypeOK ==
    /\ shown \in [Docs -> AllVersions] /\ time \in [Docs -> Nat]
    /\ phase \in {"down", "idle", "visiting", "sending", "waiting"}
    /\ watch \in [pages : SUBSET Pages, database : BOOLEAN]
    /\ age \in 0..PollsPerQuery
    /\ memory \in State /\ file \in State
    /\ IsInjective(memory.queue) /\ IsInjective(file.queue)
    /\ todo \in Seq(Pages) /\ Len(todo) <= PagesPerPoll
    /\ eligible \subseteq Docs /\ changes \subseteq Docs
    /\ asked \subseteq Request /\ Cardinality(asked) <= 1
    /\ answered \in BOOLEAN /\ late \subseteq Request
    /\ last \in [Docs -> Content \cup {Nothing}] /\ doubtful \subseteq Docs
    /\ since \in [Docs -> SUBSET AnyVersion]
    /\ edits \in 0..MaxEdits /\ halts \in 0..MaxHalts /\ failures \in 0..MaxFailures

NoPoll == [d \in Docs |-> {}]
FailTimes(n) == failures + n <= MaxFailures /\ failures' = failures + n
Fails == FailTimes(1)

-----------------------------------------------------------------------------
(* What is taken from a document.                                          *)

\* filter_content.
FilterContent(text) == IF text \in Contacts THEN Redacted ELSE text

\* should_skip_property.
SkipsProperty(type) == type \in {"email", "phone_number"}

\* extract_properties.
Properties(d, v) ==
    LET all == Sheet[d][v].properties IN
    [name \in {n \in DOMAIN all : ~SkipsProperty(all[n].type)} |-> FilterContent(all[name].value)]

\* get_blocks: what follows a heading that is excluded, up to the next one.
Headings == {"heading", "excluded", "transcript"}
Skipped(body, i) ==
    \E h \in 1..i : /\ body[h].kind = "excluded"
                    /\ \A k \in (h + 1)..i : body[k].kind \notin Headings

\* extract_text_from_block: not every kind of block has a text.
HasText(block) == block.kind # "other"

\* get_page_content: the text of the blocks, without the words of recordings.
PageText(d, v) ==
    LET body == Sheet[d][v].body
        kept == SelectSeq([i \in DOMAIN body |-> i],
                          LAMBDA i : ~Skipped(body, i) /\ HasText(body[i]))
    IN [k \in DOMAIN kept |-> FilterContent(body[kept[k]].text)]

Reading(d, v) == <<PageText(d, v), Properties(d, v)>>

\* The first of the versions that read like each one.
Same == [d \in Docs |-> [v \in Versions[d] \ {0} |->
    LET same == {w \in Versions[d] \ {0} : Reading(d, w) = Reading(d, v)}
    IN CHOOSE w \in same : \A u \in same : w <= u]]

\* What the digest has of a version: what is read of it, and when it was edited
\* last, also in what is not read.
Version(d) == [text |-> IF shown[d] = 0 THEN 0 ELSE Same[d][shown[d]], time |-> time[d]]

\* A recording is transcribed unless the page has a transcript.
HasRecording == [p \in Pages |-> {v \in Versions[p] \ {0} :
    LET body == Sheet[p][v].body IN
    /\ \A i \in DOMAIN body : body[i].kind # "transcript"
    /\ \E i \in DOMAIN body : body[i].kind = "recording" /\ ~Skipped(body, i)}]

Recorded(p) == Transcribes /\ shown[p] \in HasRecording[p]

\* _extract_video_with_transcription: the cache holds what was transcribed.
ToTranscribe(p) == {q \in {p} \ memory.heard : Recorded(q)}

\* _render_video_with_transcription: only a transcript is remembered.
Heard(p, lost) == memory.heard \cup {q \in ToTranscribe(p) : <<q, "words">> \notin lost}

\* transcribe_video_url: the recording is not had, also with an address asked for
\* anew, or holds no sound, or Whisper fails.
WordsLost(p) == ToTranscribe(p) \X {"words"}

\* get_user: a name that is not had is left out.
NamesLost(p, C) == ({p} \cup C) \X {"names"}

\* The comments that this visit reads: some blocks from the offset on.
Selected(p) ==
    LET n == Len(Blocks[p]) IN
    {Blocks[p][((memory.offset[p] + k) % n) + 1] :
        k \in 0..((IF BlocksPerVisit < n THEN BlocksPerVisit ELSE n) - 1)}

\* _comment_snapshot: the comments of a target cannot be read, or the page's are
\* refused and no block is asked for; the coverage names the targets.
CommentsLost(p) == {p} \X ({"refused", p} \cup Selected(p))

ReadBlocks(p, lost) ==
    IF <<p, "refused">> \in lost THEN {} ELSE {c \in Selected(p) : <<p, c>> \notin lost}

-----------------------------------------------------------------------------
(* check_for_changes.                                                      *)

\* The pages of this poll.
Turn(queue) == SubSeq(queue, 1, IF Len(queue) < PagesPerPoll THEN Len(queue) ELSE PagesPerPoll)

\* Mutant: the pages that are visited stay at the head.
KeepsTurn(queue) == queue

\* The pages that are visited go to the end of the queue.
NextTurn(queue) == SubSeq(queue, Len(Turn(queue)) + 1, Len(queue)) \o Turn(queue)

\* Pages that left the database leave the queue, new ones are appended.
Queue(ids) ==
    LET old == SelectSeq(memory.queue, LAMBDA p : p \in ids)
    IN old \o SetToSeq(ids \ Range(old))

\* query_database, _get_list: all pages or an error.
ReadDatabase(ids) ==
    \/ ids = {p \in Pages : shown[p] # 0} /\ age' = 0 /\ UNCHANGED failures
    \/ ids = memory.known /\ UNCHANGED age /\ Fails

\* The database is queried if that is due; a query that fails is due again.
Query(ids) ==
    IF watch.database /\ age = PollsPerQuery THEN ReadDatabase(ids)
    ELSE /\ ids = memory.known /\ UNCHANGED failures
         /\ age' = IF age < PollsPerQuery THEN age + 1 ELSE age

PollBegins ==
    /\ phase = "idle" /\ phase' = "visiting"
    /\ \E ids \in SUBSET Pages :
         /\ Query(ids)
         /\ LET queue == Queue(watch.pages \cup IF watch.database THEN ids ELSE {}) IN
              /\ memory' = [memory EXCEPT !.known = ids, !.queue = NextTurn(queue)]
              /\ todo' = Turn(queue)
    /\ eligible' = {} /\ since' = [d \in Docs |-> {Version(d)}]
    /\ UNCHANGED <<shown, time, watch, file, changes, wire, history, edits, halts>>

\* Mutant: what was acknowledged is queued again.
QueueAlways(state, d, content) == content

\* _queue_document: the outbox keeps the latest content that was seen; one that
\* was acknowledged takes what is queued out of it.
QueueDocument(state, d, content) == IF state.hash[d] = content THEN Nothing ELSE content

NextOffset(p) ==
    LET n == Len(Blocks[p]) IN
    IF n = 0 THEN 0 ELSE (memory.offset[p] + Cardinality(Selected(p))) % n

\* _page_snapshot: the comments C that were seen are queued, then the page.
Snapshot(p, C, lost) ==
    LET Content_(d) == [version |-> Version(d), missed |-> {x[2] : x \in {y \in lost : y[1] = d}}]
    IN [memory EXCEPT
          !.offset[p] = NextOffset(p), !.heard = Heard(p, lost),
          !.outbox = [d \in Docs |-> IF d \in C \cup {p} THEN QueueDocument(memory, d, Content_(d))
                                                       ELSE memory.outbox[d]]]

\* get_page, get_blocks, _complete_properties: a page that is not had, or a list
\* that is not read to its end, is an error.
BodyUnreadable == Fails

\* A page is visited: it is not there, or its body cannot be read, or it is read
\* without what is lost; comments whose block cannot be read are left out.
Visit ==
    /\ phase = "visiting" /\ todo # <<>> /\ todo' = Tail(todo)
    /\ LET p == Head(todo) IN
       \/ shown[p] = 0 /\ UNCHANGED <<memory, eligible, failures>>
       \/ shown[p] # 0 /\ BodyUnreadable /\ UNCHANGED <<memory, eligible>>
       \/ /\ shown[p] # 0
          /\ \E unread \in SUBSET CommentsLost(p) :
               LET C == {c \in ReadBlocks(p, unread) : shown[c] # 0} IN
               \E lost \in SUBSET (WordsLost(p) \cup NamesLost(p, C)) :
                 /\ FailTimes(Cardinality(unread) + Cardinality(lost))
                 /\ memory' = Snapshot(p, C, unread \cup lost)
                 /\ eligible' = eligible \cup C \cup {p}
    /\ UNCHANGED <<shown, time, phase, watch, age, file, changes, wire, history, since, edits, halts>>

\* Mutant: everything in the outbox is sent.
SendsAll(state) == {d \in Docs : state.outbox[d] # Nothing}

ToSend(state) == {d \in eligible : state.outbox[d] # Nothing}

\* The state is saved before anything is sent; what was seen is sent.
VisitsEnd ==
    /\ phase = "visiting" /\ todo = <<>> /\ phase' = "sending"
    /\ file' = memory /\ changes' = ToSend(memory) /\ eligible' = {}
    /\ UNCHANGED <<shown, time, watch, age, memory, todo, wire, history, since, edits,
                   halts, failures>>

-----------------------------------------------------------------------------
(* send_to_coordinator.                                                    *)

Emit(d) ==
    /\ phase = "sending" /\ d \in changes /\ phase' = "waiting"
    /\ changes' = changes \ {d}
    /\ asked' = {[doc |-> d, content |-> memory.outbox[d]]} /\ answered' = FALSE
    /\ UNCHANGED <<shown, time, watch, age, memory, file, todo, eligible, late, history, since,
                   edits, halts, failures>>

\* Mutant: what was sent is acknowledged whatever became of the request.
AcknowledgesAnyway(r, ok) == [memory EXCEPT !.hash[r.doc] = r.content, !.outbox[r.doc] = Nothing]

Acknowledge(r, ok) ==
    IF ok THEN [memory EXCEPT !.hash[r.doc] = r.content, !.outbox[r.doc] = Nothing]
          ELSE memory

Answer(r, ok) ==
    /\ phase = "waiting" /\ r \in asked /\ phase' = "sending"
    /\ asked' = {} /\ answered' = FALSE
    /\ memory' = Acknowledge(r, ok) /\ file' = memory'
    /\ \/ ok /\ answered /\ UNCHANGED <<late, doubtful, failures>>
       \/ /\ ~ok /\ Fails
          /\ late' = IF answered THEN late ELSE late \cup asked
          /\ doubtful' = IF answered THEN doubtful \cup {r.doc} ELSE doubtful
    /\ UNCHANGED <<shown, time, watch, poll, last, since, edits, halts>>

PollEnds ==
    /\ phase = "sending" /\ changes = {} /\ phase' = "idle" /\ since' = NoPoll
    /\ UNCHANGED <<shown, time, watch, poll, memory, file, wire, history, edits, halts, failures>>

-----------------------------------------------------------------------------
(* The environment.                                                        *)

\* An author changes, archives, restores, resolves or adds something; the time is
\* the same if the edit before was in the same minute, and is not read of what is
\* archived.
Edit(d, v, t) ==
    /\ v # shown[d] /\ edits < MaxEdits /\ edits' = edits + 1
    /\ v = 0 => t = time[d]
    /\ shown' = [shown EXCEPT ![d] = v] /\ time' = [time EXCEPT ![d] = t]
    /\ since' = IF phase \in {"idle", "down"} THEN since
                ELSE [since EXCEPT ![d] = @ \cup {Version(d)'}]
    /\ UNCHANGED <<phase, watch, poll, memory, file, wire, history, halts, failures>>

Arrive(r) ==
    /\ r \in asked /\ ~answered /\ answered' = TRUE
    /\ last' = [last EXCEPT ![r.doc] = r.content]
    /\ UNCHANGED <<shown, time, phase, watch, poll, memory, file, asked, late, doubtful, since,
                   edits, halts, failures>>

ArriveLate(r) ==
    /\ r \in late /\ late' = late \ {r}
    /\ last' = [last EXCEPT ![r.doc] = r.content]
    /\ doubtful' = doubtful \cup {r.doc}
    /\ UNCHANGED <<shown, time, phase, watch, poll, memory, file, asked, answered, since,
                   edits, halts, failures>>

\* The process ends; the file is replaced as a whole and never torn.
Halt ==
    /\ phase # "down" /\ halts < MaxHalts /\ halts' = halts + 1
    /\ phase' = "down" /\ watch' = NoWatch /\ memory' = EmptyState
    /\ age' = PollsPerQuery /\ todo' = <<>> /\ eligible' = {} /\ changes' = {}
    /\ asked' = {} /\ answered' = FALSE
    /\ late' = IF answered THEN late ELSE late \cup asked
    /\ doubtful' = IF answered THEN doubtful \cup {r.doc : r \in asked} ELSE doubtful
    /\ since' = NoPoll
    /\ UNCHANGED <<shown, time, file, last, edits, failures>>

\* search_workspace, get_database: a search that fails leaves out the rest, and a
\* database that is not had is not watched; a process that finds nothing ends.
Discover(found) ==
    LET all == [pages |-> {p \in Pages : shown[p] # 0}, database |-> TRUE] IN
    \/ found = all /\ UNCHANGED failures
    \/ found # all /\ found.pages \subseteq all.pages /\ Fails

Start ==
    /\ phase = "down"
    /\ \E found \in [pages : SUBSET Pages, database : BOOLEAN] :
         /\ Discover(found)
         /\ IF found = NoWatch THEN UNCHANGED <<phase, watch, memory>>
            ELSE phase' = "idle" /\ watch' = found /\ memory' = file
    /\ UNCHANGED <<shown, time, poll, file, wire, history, since, edits, halts>>

Init ==
    /\ shown = [d \in Docs |-> 1] /\ time = [d \in Docs |-> 0]
    /\ phase = "down" /\ watch = NoWatch /\ age = PollsPerQuery
    /\ memory = EmptyState /\ file = EmptyState
    /\ todo = <<>> /\ eligible = {} /\ changes = {}
    /\ asked = {} /\ answered = FALSE /\ late = {}
    /\ last = [d \in Docs |-> Nothing] /\ doubtful = {}
    /\ since = NoPoll
    /\ edits = 0 /\ halts = 0 /\ failures = 0

Process ==
    \/ PollBegins \/ Visit \/ VisitsEnd \/ PollEnds
    \/ \E d \in Docs : Emit(d)
    \/ \E r \in asked, ok \in BOOLEAN : Answer(r, ok)

Taken == \E r \in asked : Arrive(r)

Next ==
    \/ Process \/ Taken \/ Start \/ Halt
    \/ \E d \in Docs : \E v \in Versions[d], t \in {time[d], time[d] + 1} : Edit(d, v, t)
    \/ \E r \in late : ArriveLate(r)

Spec == Init /\ [][Next]_vars

\* The process goes on and is started again; the coordinator takes a request
\* unless it fails.
FairSpec == Spec /\ WF_vars(Process) /\ WF_vars(Taken) /\ WF_vars(Start)

-----------------------------------------------------------------------------
(* What the state file says the coordinator acknowledged is what it has    *)
(* last, for every document none of whose requests arrived after the       *)
(* sensor gave it up; what is under way is in the outbox of the file, so a *)
(* process that ends before the answer finds it again.                     *)
(* (notion/POLLING.md: the outbox is checkpointed before delivery, and     *)
(* the acknowledgement saved immediately)                                  *)
AcknowledgedIsLast ==
    /\ \A d \in Docs \ doubtful :
          (\A r \in asked : r.doc # d) => file.hash[d] = last[d]
    /\ \A r \in asked : file.outbox[r.doc] = r.content

(* What is sent was shown since this poll began: what is left in the       *)
(* outbox from an earlier one is withheld until it is seen again.          *)
(* (notion/POLLING.md: withheld until positively observed again)           *)
OnlyFreshIsSent ==
    [][\A r \in asked' \ asked : r.content.version \in since[r.doc]]_vars

(* A content that the coordinator has already as the last one of a         *)
(* document is sent again only if a request for it arrived that had been   *)
(* given up.  An edit of what is not read is another content: its time is. *)
(* (notion/POLLING.md: identical observations do not emit again)           *)
RepeatsAreExcused ==
    [][\A r \in asked' \ asked : last[r.doc] # r.content \/ r.doc \in doubtful]_vars

(* Every page, and every comment on a page, reaches the coordinator in the *)
(* version it keeps and with nothing missed, in spite of the turns that    *)
(* pages and blocks take and of what earlier visits could not read, unless *)
(* the page was not found when the process started and is in no database   *)
(* it watches, or a request that was given up had arrived all the same and *)
(* the document returned to what was acknowledged before: the queued       *)
(* update is dropped and the coordinator keeps the other content.          *)
(* (main, check_for_changes, _queue_document)                              *)
EventuallyCurrent == \A p \in Pages : \A d \in {p} \cup Range(Blocks[p]) : <>[](
    LET current == [version |-> Version(d), missed |-> {}] IN
    \/ shown[d] = 0 \/ shown[p] = 0
    \/ ~watch.database /\ p \notin watch.pages
    \/ last[d] = current
    \/ d \in doubtful /\ file.hash[d] = current)

=============================================================================
