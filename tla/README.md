# KOI sensor network: formal models

TLA+ models of the KOI sensor network of this repository, the TLC runs that
check them on small instances, and TLAPS proofs of properties of its core for
every value of the constants. Paths below are relative to `src/`.

    tlc -config EventQueue.cfg MCEventQueue      # a run
    tlapm EventQueueProofs.tla                   # proofs

`PROJECT.json` is the index: the components, the runs and what each checks, the
mutants, the source lines that each definition stands for, the hazards and the
theorems.

## 1. The system

Sensors watch a source each (a forum, a blog, a repository, a mailbox) and emit
*events* about *resources*: NEW or UPDATE with a *bundle* of contents and a
manifest, FORGET without. They post the events to the *coordinator*, one asyncio
process, which drops duplicates, caches the bundles, and queues the events for
whoever polls: koi-processor, the sensors themselves, and coordinators elsewhere
that have negotiated an *edge* with this one.

      sensor --POST /events/broadcast--> coordinator <--poll / confirm-- processor
        |                                 |  |   \                        peers
      state file              dedup file -+  |    +- queue, peers, registry files
      or database                       bundle files <-- prune and seed scripts

### Inventory

| Component | Where | State it keeps | Operations | Modelled by |
|---|---|---|---|---|
| Delivery queue | `koi_protocol/nodes/koi_node.py`, endpoints of `koi_protocol/coordinator/koi_coordinator.py` | `event_queue`, `pending_deliveries`, `event_subscribers`, the queue file | queue, poll (GET, POST, signed with edge filters), confirm, cleanup of confirmed and of expired events, save, load | `EventQueue`, `DeliveryContract` |
| Ingestion and deduplication | `koi_coordinator.py`, `koi_protocol/processor/` | `content_hashes`, `url_hashes`, their file; requests in progress | broadcast of a batch, the handler chain, duplicate check, receipts, emission | `Ingest` |
| Bundle cache | `koi_node.py`, `koi_protocol/core/persistent_cache.py`, fetch endpoints, `scripts/prune_bundle_cache.py`, `scripts/seed_bundle_cache.py` | a dictionary in the node, one in the persistent cache, one file per bundle, what the scripts loaded | cache, forget, list, fetch, restart; prune by age and by size; seed | `BundleCache` |
| Federation | `koi_coordinator.py`, `koi_protocol/protocol/` | peers, edges and their status, their file, keys learnt | handshake both ways, edge approval and roll-back, signed polls | `Federation` |
| Node identity | `koi_node.py`, `shared/koi_envelope.py` | key file, `.node_id`, its backup, the names in the peers file | resolution, migration | `NodeIdentity` |
| Sensor registry, adapters | `koi_coordinator.py`, `koi_protocol/integration/` | registry and its file, adapters | tracking, health checks, start and stop of adapters | `SensorRegistry`, `Heartbeats` |
| Discourse sensor | `sensors/discourse/`, `shared/persistent_state.py`, `scripts/reconcile-events.sh` | state file, the documents of a run | collect, compare, send, record, reset | `DiscourseSensor` |
| Twelve polling sensors and imports | `sensors/github`, `gitlab`, `github_activity`, `medium`, `rss`, `podcast`, `youtube`, `telegram`, `twitter`, `newsletters` | state file, watermarks, what only memory keeps | one cycle each, two newsletter imports | `SensorProcess`, `RepositorySensors`, `FeedSensors`, `MessageSensors`, `Sensors` |
| Website sensor | `sensors/websites/` | crawl queue, count, hashes and their file | crawl, triggered crawl, save | `WebsiteSensor` |
| Notion sensor | `sensors/notion/` | acknowledged hashes, outbox, cursors, their file | poll, visit of pages and blocks, send | `NotionSensor` |
| Claude sessions sensor | `sensors/claude_sessions/` | a database shared by daemon, operator and hook | scan, store, extract, refresh, backfill | `ClaudeSessions` |
| Mail sensors | `sensors/email/`, `scripts/backfill_ics.py` | cursor, tables of mails, calendar rows and their text index | scan, store, index, write a calendar, embed | `MailSensor`, `CalendarWriter`, `TextChunks`, `TextChunker` |
| Discord sensor | `sensors/discord/` | messages processed, in memory | events of the gateway, collections | `DiscordSensor` |
| Partial node | `koi_node.py` | session, cache | send, poll | sending: the sensors; polling: a node of `EventQueue` |
| Knowledge pipeline | `koi_protocol/processor/` | the list of handlers | run the chain | the chain there is, in `Ingest` |
| Scheduler, draft bot, knowledge graph tools, shell | `scheduler/`, `bots/`, `knowledge_graph/`, `scripts/` | | | not modelled, section 8 |

### How the parts interact

*Calls.* A sensor's `broadcast_event` is an HTTP POST with a timeout. A lost
answer looks like a lost request; the coordinator may have done everything.

*Awaits.* In the coordinator one event loop runs all handlers. A handler is
interrupted only where it awaits something that yields. The queue's operations
never do, so each is one step of `EventQueue`. The pipeline yields at the CAT
receipts only (`default_handlers.py:185`); `handshake_with` at its three
requests; `stop_sensor` when it closes a session. Sensors that run tasks of their
own (website, Discord) interleave at each request.

*Files.* Dedup table, queue, bundles, peers, registry and sensor states each have
a file, written by its own call. A crash between two calls leaves them at
different points, and those written in place may be torn. Between the two cache
scripts and the coordinator, the bundle files are shared memory without a lock.

*Databases.* The mail and Claude sensors share PostgreSQL with scripts, hooks
and operators. A transaction is a step; what is read in one transaction is used
in a later one.

### What is hard here

1. A poll marks events as delivered before the response exists, so the marks,
   limits, edge filters, two cleanups and a restart must together neither repeat
   nor reorder events, and the queue must drain even if nobody confirms.
2. The dedup file is written before the queue file, and the receipts give the
   event loop away between the duplicate check and the caching.
3. Two scripts rewrite and delete files of a running coordinator.
4. A sensor decides by its own record what the coordinator has, but the record
   is saved at another time than the one at which it sends, and answers get lost.
5. Two ends of an edge keep their own status of it; keys and names of a node change.
6. Turns and limits (pages per poll, blocks per visit, max_pages) decide what is
   looked at, over restarts and while the set changes.
7. Several writers of one row or session: sensor and backfill, daemon, hook and
   operator, tasks on one page or message.

`PROJECT.json` lists these and more as hazards with the line where each bites
and the properties that would catch it going wrong. Where the code does go wrong
there, a property makes an exception of the outcome and so does not catch it: the
hazard has a note that names the exception, and section 3 says what goes wrong.

## 2. The modules

In each component's module, constants are first the parameters of the system,
then the bounds (`Max...`); variables that only remember are marked *history*.
Definitions commented as *mutants* are a mapped definition with a plausible bug;
each property of each run has one that TLC finds it violated by, which shows that
the property depends on the code it is about. Actions carry the names of the
functions they stand for.

### The coordinator

**EventQueue.** Ids are given in the order of queueing and the list is only
appended to and filtered, so a set of ids stands for the list. `queue` and `file`
are records of the ids and, per id, the nodes marked *delivered* and *confirmed*;
`pending` is the second index the code keeps.

| Action | Code |
|---|---|
| `Start` | construction, `start`, `_load_event_queue` |
| `QueueEvent` | `broadcast_event`, `queue_event` |
| `Poll`, `KoiNetPoll` | `/events/poll`, `/koi-net/events/poll`, both through `get_queued_events_for_delivery` |
| `Confirm` | `/events/confirm`: `confirm_delivery` per id, then `_cleanup_confirmed_events` |
| `Cleanup` | one round of `_cleanup_loop`: confirmed, then expired |
| `Stop`, `Crash` | `stop()` saves first; a crash does not |
| `GrowOld` | an event passes `delivery_timeout_seconds` |

`Save` is `_save_event_queue`, which swallows exceptions: with `SavesCanFail` the
file may stay as it was. `DeliveryContract` is the abstract specification: events
that are published, offered, received, acknowledged and old. The mapping takes
*offered* from the **file**: then a crash is a stutter, and the contract says
that even over crashes nobody receives an event twice.

**Ingest.** One program counter per request handler: `check`, `save`, `receipt`,
`apply`, `queue`. `LoopFree` is the event loop. `receipts` says whether the
receipt service can be imported. `Crash` may come between any two steps, and with
`TornWrites` in the middle of the dedup file. `SaveDedup` truncates the file before it
writes and swallows errors: after a write that fails it is as it was, or cannot be read
and counts as empty. An event is its kind, rid, hash, url and whether it has contents:
what the duplicate check and the emission look at.

**BundleCache.** Versions are numbers, given to bundles as events bring them.
`node`, `memory` and `disk` are the three places of a bundle; `disk` also has the
time of the write. The prune script is a program with a phase, the files it loaded
and its age limit; the seed script holds the versions it has yet to write. `CachedRids`,
`Manifests`, `Bundles` and their payloads are what the list and fetch endpoints
answer; a fetch copies what the persistent cache holds into `node`. `NeverOutdated`
and `MissingWasPruned` are two halves of one claim about these answers: what is
served is current, and what is current is served, with the exact exceptions. As
`rids/fetch` lists `node.cache` alone, a bundle that the seed script wrote is not
listed until it is fetched or the process restarts.

**Federation.** The coordinator (`book` and `file`, `keys`, `call`), a peer that
comes to it, and the first contact that it goes to. `handshake_with` is cut at
its awaits, a request given up may still arrive, a save may fail, a restart keeps
edges and forgets keys, a peer may change from its short to its long RID. The
peer and the contact are other code; a peer does what `handshake_with` does.
`PeersBelieveRightly` and `ApprovedIsGranted` relate the statuses that the two
ends keep; their exceptions are the ways in which the ends can come to differ.

**NodeIdentity.** The resolution of a node's RID and the migration, one phase per
file that is written; a write may fail, and the process end at or within one. A
start may find `KOI_NODE_ID` or not and cryptography or not. A half written
`.node_id` is taken to read as empty, which is the outcome of a crash between
truncating and writing a text of this size; a half written key file cannot be
parsed, and then no start with cryptography succeeds until the operator removes
it (`KeyUnreadable`, `RemoveTornKey`).

**SensorRegistry**, with **Heartbeats.** The registry of those that broadcast,
their ages in health check intervals, the checks, the file written in place, and
the requests that start and stop adapters, cut where `stop_sensor` waits. Times
are scaled: idle, offline, hidden and beat are 10, 30, 60 and 30 minutes in the
code, 1, 2, 4 and 2 intervals in the run. Node ids, event counts and the lists
for the dashboard are left out. The sensors send heartbeats as bundles whose
contents are a JSON string, so `heartbeat_handler`, which looks for a dictionary,
never takes one: they are ingested like any event, and that is what keeps a quiet
sensor listed.

### The sensors

**DiscourseSensor.** The phases of `run()`: collecting, sending, waiting for an
answer, sleeping. The state is saved after each forum and not while sending, so
`file` is one run behind. `network` holds the requests that have not arrived; a
request that the sensor gave up may have been withdrawn, may still be on its way,
or may have arrived. `Reset` is an operator, or `reconcile-events.sh --fix`,
removing an entry from `processed`.

**SensorProcess** has what the polling sensors share: a source that shows
versions of items, one process that collects and sends one request at a time, the
state in memory and in its file, and a network that fails, loses answers or
delivers late. Its steps leave open what the sensors decide, and
**RepositorySensors** (GitHub, GitLab, GitHub activity), **FeedSensors** (Medium,
RSS, podcasts, YouTube) and **MessageSensors** (Telegram, Twitter, newsletters,
their mbox import and their archive import) close it: whether the outcome of a
request is looked at, what is recorded and when, what only memory keeps, whether a
changed item is sent again. Four of them raise before every request, and their
attempts end there (section 3). `Foreign` items are filtered by path, link or sender,
`Short` ones by content, and the page of a `Dated` article raises; `PerCheck` and
`HistoricalLimit` are the limits of Medium's checks. A reading may fail after items were marked
(`missed`), as the `gather` of the GitHub activity does. **Sensors** puts them
together: each behaviour is the life of one of them, so one run covers all twelve.

**WebsiteSensor.** The crawl of a domain by several tasks at a time, triggered
crawls beside that of the loop, the queue, the count of pages, the hashes and
their file. A page that is read in a browser is replaced by the paragraphs of its
text, without links (`_fetch_with_playwright`), so a domain of
`playwright_domains` is crawled no further than its start pages.

**NotionSensor.** Pages and blocks take turns; what differs from what was
acknowledged goes to an outbox in the state file and is sent if this poll saw it.
A document's content is what the code's digest covers: what is read of its version,
the time of its last edit, and what could not be had (a name, a transcript, the
comments of some blocks). So an edit of a section that is not read is sent again with
the same text, and so is a text that was set back, unless within the minute that times
are rounded to; a document with something missing is sent, and again when it can be read.

**ClaudeSessions.** Four kinds of process on one database: daemon, operator, hook,
and the operator's refresh or backfill. A transcript is the number of its messages; chunks,
linked entities, episodes, tool usage and embeddings are versions of it. Each reading
of it, for its chunks, its tools or its extraction, may fail or end early, which the
code only logs. A session that only an index lists (`Listed`) is judged by the number
of messages that the index gives, which may be out of date. Inline
and batch extraction are both modelled, with attempts, failures and the selection
of sessions without a lock.

**CalendarWriter** and **MailSensor.** `ics_writer` step by step: the marker, the
selection of the row under a lock, the upsert, and the statements of the text
index outside the transaction. Two writers, the sensor and the backfill script,
hold versions of one event. MailSensor adds the Maildir and IMAP scans, the cursor
with its UIDVALIDITY, and the backfill with its embed-only mode.

**TextChunks** and **TextChunker.** `SentenceAwareChunker`, which cuts all texts of
the mail sensors: `Pieces` as a function of a text's length and sentence ends, and
the same loop as a state machine to prove about. The instance of the mail run
takes the numbers of chunks from `Pieces` and evaluates an assumption about it for
all texts of up to 9 tokens.

**DiscordSensor.** Gateway events in tasks of their own beside collections; the
requests for one message reach the coordinator in any order. Nothing is persisted.

## 3. The runs

| Run | Question | Bounds | Distinct states |
|---|---|---|---|
| `event_queue` | order, the contract, draining | 3 events of 2 types, 2 peers, limits 0 and 1, 2 halts | 77 000 |
| `ingest` | are table, file, cache and queue consistent over interleaving, crashes and failed writes | 2 requests (symmetric), 2 rids, 1 url, 2 hashes, 4 batches, 1 crash, 1 failed write, torn files, with and without receipts | 3 484 000 |
| `coordinator` | what may be outdated, missing or pruned; does a type stay known, a beating sensor listed, a running adapter listed | bundles: 3 rids, one of each kind, 2 versions, 3 writes, 1 halt; registry: 2 types, 1 with heartbeats, 1 adapter, 2 requests, 1 fault, 2 starts | 1 050 000 |
| `federation` | do the ends of an edge agree, is every peer served | 1 peer with two names, the contact, 2 halts, 1 failure, 1 change of name | 200 000 |
| `discourse_sensor` | is the record right, are repeats excused, does all get processed | 2 items, 2 versions, 3 documents in a run, 1 halt, 1 failure, 1 reset | 170 000 |
| `sensors` | the same for twelve sensors and imports; do changes arrive, and articles beyond the limit of a check | 3 items, 2 versions of the first, 1 article whose page raises, 2 articles per check, 1 halt, 1 failure | 273 000 |
| `website_sensor` | are the hashes right, the limit kept, changes noticed | 2 pages, 2 versions, 2 tasks, limit 3 of 4, 1 trigger, 1 halt, 1 failure | 851 000 |
| `notion_sensor` | is the acknowledged the last, is only the fresh sent, are repeats excused, is all current in the end | 2 pages, 1 of them edited where it is not read, 2 blocks, 1 page and 1 block per turn, 2 edits, 1 halt, 1 failure | 814 000 |
| `claude_sessions` | does overwriting hide a version, do marks and episodes agree, is all stored and extracted | inline and batch extraction: 2 sessions, 1 of an index, 2 tools, 2 attempts, batches of 1, 1 run of each, 1 halt, 1 failure | 760 000 |
| `mail_sensor` | is what is done stored, the text that of the row, nothing passed unmet | 2 mails, 2 versions of 1 event, 2 writers, 1 fault, 1 backfill, 1 renumbering | 674 000 |
| `discord_sensor` | does the coordinator hold the current version, does a message arrive | 2 messages, 2 versions, 1 collection, 1 halt, 1 failure | 526 000 |

`coordinator` checks two modules that have nothing in common: each of its behaviours
is one of `BundleCache` or one of `SensorRegistry`.

One run refutes what the repository says of itself. `silent_sensors` checks
`FitItemsArrive`, that every fit item which is listed arrives (`README.md:271`, `:292`
and the READMEs of Twitter, YouTube and Medium), on one item with no failure and no
restart, so that nothing but the code is to blame: Twitter, Telegram, podcasts and
YouTube raise before every request, and Medium raises for a page with a `time` element
(`medium_sensor.py:652`). TLC finds it for each of the five alone.

*Why the bounds are enough.* In the queue, order needs two events of one type,
and a filter that separates them from a third; a limit of 1 splits any backlog;
two peers make one the peer that has not confirmed; two halts allow a crash
after a restart. In ingestion, every pair of steps of two requests meets, every
table has two values to disagree on, one batch fails at its second event, and
one event is looked up by a url. In the cache, one rid of each kind is pruned
differently, a size limit of one file makes pruning by size choose, and three
writes let the coordinator or the seed script write after the script loaded. In
the sensors, two versions and three documents let one item be read twice with an
edit between, which is where hashes go stale; an item that is never fit must not
block the others; one failure and one halt meet in either order. In federation
two halts allow a restart from a file of an unfinished approval and another
after it. On pages, sessions, mails and messages two workers meet, which is what
the hazards need; a turn of one page and one block makes everything wait for its
turn. Batches of one session make one wait for the other. Two articles per check, one
of which raises in every check, make the third wait for a later one. A page of Notion
is edited where it is not read, as that is where equal content meets another digest;
any other edit takes the same steps. In the registry a write fails or is cut short.

Each bound is a guard on an action of the environment (`MaxEvents`, `MaxHalts`,
`MaxFailures`, ...), none on the program's own steps, with three exceptions that
stand for finite memory or an operator's patience: `MaxWrites` stops further
bundle writes, `MaxDocs` stops reading within one run, `MaxRuns` limits how often
an operator calls the Claude script.

Deadlock is checked in every run.

### What the models show about the code

Exceptions in the properties are the ways in which the code can go wrong; TLC
finds each of them reachable. Those a maintainer would want to know:

- *Queue.* An event is kept until those who *were handed* it have confirmed it,
  not "until all subscribers confirm receipt" (docs/ADDING_A_SENSOR.md:170). If the
  first subscriber polls and confirms before the second polls, the event is gone.
  The sensors poll too and never confirm: whatever one of them was handed leaves
  the queue by age only.
- *Ingest.* The hash is on disk before the event is queued. After a crash in
  between, the sensor's retry is answered as a duplicate of an event nobody will see.
  A write of the dedup file that fails has truncated it first, and is only logged: a
  restart then forgets every hash, until the next event of each.
- *Cache.* The seed script skips FORGET events and so brings back the last bundle
  of a forgotten rid; pruning by age judges the file loaded at the start and may
  delete one written since.
- *Discourse.* Resetting an item as documented (docs/ADDING_A_SENSOR.md:955) leaves
  its hash on record, so it is marked processed and not sent
  (`discourse_sensor.py:812`). A processed post is not read again, so an edit is
  not noticed. The guard against endless fetching of a topic (`:236`) tests what
  cannot be at that place: where `posts_count` exceeds the posts shown, a batch of
  known posts repeats for ever.
- *Federation.* A handshake that was given up and arrives late puts an approved
  edge back to PROPOSED, and the peer polls in vain; a restart during an approval
  keeps the edge approved on one side.
- *Identity.* A crash while the key file is written leaves a node that cannot
  start until the file is removed. A node that ran under `KOI_NODE_ID` keeps that
  name in its peers file for ever.
- *Polling sensors.* Four never emit, and the cycle swallows the exception each time:
  the documents of Twitter (`twitter_sensor_koi.py:476`) and Telegram
  (`telegram_sensor.py:295`) have no `id`, so that `document_to_bundle` raises; the
  podcast sensor calls `to_orn` (`podcast_sensor.py:529`) and YouTube `to_string`
  (`youtube_sensor.py:317`) on an ORN of rid-lib, which has neither. Medium raises at
  each page with a `time` element, and articles that fail in every check use up its
  places. GitHub activity marks items as processed while listing them, and loses them if
  another of the three listings raises (`github_activity_sensor.py:250`). GitHub, GitLab
  and GitHub activity record a hash whatever became of the request; what failed is not
  sent again. The watermark of the newsletters passes messages that failed.
- *Website.* `pages_crawled` counts all pages ever sent: at `max_pages` no change
  is noticed until a restart or a trigger. A failed request counts as sent.
- *Notion.* A return to the acknowledged content drops the queued update; if its
  request had arrived after all, the coordinator keeps the other content. An edit of
  what is not read is sent as an update with the same text, as its time is part of the
  digest (`notion_sensor.py:954-956`). A search
  that fails at start leaves its pages unwatched until a restart.
- *Claude sessions.* The code comments "FOR UPDATE SKIP LOCKED"
  (`claude_session_sensor.py:1612`) over a SELECT without it: two runs make two
  episodes. Chunks stored during an extraction count as extracted. A transcript that
  is missing or cannot be read when it is extracted marks its session with no episode
  (`:1544`); one that ends early gives an episode of its beginning. Tools counted from
  part of a transcript are stored under the time of the whole. A low `messageCount` in
  an index (`:500`, `:593`) keeps a session that only the index lists out of every scan,
  though a comment says that a stale index cannot (`:400`). A failed inline
  extraction is not repeated, and a session that was extracted once has no limit of
  attempts: if it fails for ever, it keeps its place in the batches, which take the
  sessions stored last.
- *Mail.* The IMAP cursor passes a mail whose processing failed. An event of which
  some versions have a SEQUENCE and some do not may end in an older one than a mail
  that is done carries (section 5). A row written by two at once may end with the text
  of either. `SentenceAwareChunker` leaves up to a fifth of a piece and the least
  piece at the end of a text in no piece, so that the end of a text of 501 tokens
  cannot be searched for; the base class `EmailChunker.chunk_text`, which nothing
  uses, does not end for a text longer than a piece where the overlap is smaller than
  the least piece.
- *Registry.* A write of its file that fails has truncated it. A heartbeat is sent once;
  one that is lost takes a sensor off the list for a while. A start and a stop that cross leave an adapter that runs unlisted.
- *Discord.* Deletions are announced under another RID than the message's, so
  nothing is forgotten (sensors/discord/README.md:104 says otherwise). A message
  handled before `on_ready` counts as processed though its request cannot be made.

## 4. Fairness

- `EventQueue`: weak fairness of `Start` (`Restart=always` of the coordinator's
  unit in docs/DEPLOYMENT.md), of `Cleanup` (`_cleanup_loop` runs for as long as
  the process does) and of time. None of polls or confirmations: the queue drains
  without peers.
- `DiscourseSensor`: weak fairness of the steps of the loop that are never
  disabled by another (`Start`, `Wake`, the outcomes of a document) and of the
  network, strong fairness of collecting (`Read`, `EndForum`, `EndCollecting`).
  Collecting recurs in every run and a forum that shows a post will have it read;
  this takes `posts_count` to be what the forum shows, see above.
- `Federation`: weak fairness of `Start`, of the arrival of a peer's requests, and
  of the peer's own steps (it goes on polling and shaking hands). None of
  `handshake_with`: the coordinator tries its contact once and never again.
- `Sensors`, `WebsiteSensor`, `NotionSensor`, `ClaudeSessions`, `MailSensor`,
  `DiscordSensor`: weak fairness of the process's loop as one action, of the
  answers to its requests, and of being started again. In `ClaudeSessions`, of each
  process and of the hook's end; in `MailSensor`, of the arrival of mail and of a
  backfill that was begun; in `DiscordSensor`, of the tasks. A sensor that died is
  started by systemd or by its operator, whom `scripts/send-failure-alert.sh` alerts.
- Failures, halts, edits and resets are bounded, never fair: a liveness property
  says what happens once they stop.
- `Ingest`, `BundleCache`, `SensorRegistry`, `NodeIdentity` and `TextChunker` claim
  no liveness and assume no fairness. `SensorRegistry` needs none for
  `AliveIsListed`, because in it no interval ends before what was due in it.

## 5. What is proved

Every invariant and every action property that a run checks is also proved; the
liveness properties are not. All theorems are for any constants that satisfy the
modules' assumptions: any number of nodes, events, requests, resources, items,
tasks, and any bounds.

| Proofs | About |
|---|---|
| `EventQueueProofs`, `IngestProofs` | `EventQueue` and its contract, `Ingest` |
| `CoordinatorProofs` | `BundleCache`, `SensorRegistry` with `Heartbeats` |
| `FederationProofs` | `Federation`, `NodeIdentity` |
| `SensorsProofs` | `Sensors` and the modules it puts together |
| `ConversationSensorProofs` | `DiscourseSensor`, `ClaudeSessions` |
| `WebSensorProofs` | `WebsiteSensor`, `DiscordSensor` |
| `DocumentSensorProofs` | `NotionSensor`, `MailSensor` with `CalendarWriter`, `TextChunker` |

Where one module of proofs extends two specifications, the names of one of them say
whose they are (`RegistrySpec`, `IdentitySpec`, `ClaudeSpec`, `DiscordSpec`,
`MailSpec`, `ChunkingSpec`); the two share nothing else. Each proof has one step per
action and one lemma per part of the invariant.

*EventQueue.* `TypeCorrect`, then `Invariant`: `Spec => []IInv`. Delivery order
and at-most-once are not inductive by themselves: a restart takes the queue from
the file, so they must hold of the file as well, and the file's marks must say
who was handed what. `MarksTrackHandings` states this for memory and file.
`NothingBeforeQueueing` keeps marks of ids that are yet to be given empty,
`IdsGivenInOrder` bounds them, and `MemoryIsVolatile` makes `Start` safe. From it:
`DeliveredAtMostOnce` (per run of the process where saves fail), `DeliveryOrder`,
`FileNeverAhead`, `PendingIsQueue`, `EventsLeaveDone`, for saves that fail and that
do not, and for `SavesCanFail = FALSE` `Implementation`: each step is a step of the
contract or a stutter under the mapping.

*Ingest.* `HashesAccounted` is the core: every hash in the table or its file
belongs to content that was queued, is in flight, or was in flight when the
process died (`LossNeedsCrash`). `OneRuns` is the event loop and makes the table
agree with the request that runs; `EmissionInTwoHalves` says what the cache may
look like between caching and queueing (`CacheAgreesWithQueue`). `RecordedFirst`
and `MemoryCoversFile` give `ComparisonIsCurrent`, in memory and over restarts, and
`RestartKeepsKeys`: a key is missing from the file only between a write that failed or
was cut short (`unsaved`) and the next that succeeds, or, if a restart read such a file,
the next event of the key (`outdated`). `DedupAgreesWithQueue` is the two together.

*BundleCache.* `FilelessWasPruned` and `FirstRunRemembers` are needed for
`OnlyPrunedAreMissing`: the first says which current version has no file, the
second that memory makes up for it until the first halt. The memory of the
persistent cache must be current too (`CopiesCurrent`) for `NothingOutdated`,
since the fetch endpoints copy it; `HeldIsVersion` types what they answer.
`PrunerKnows`, that any file that the script has not loaded is younger than its
loading, gives `PruningSuffices`. `ProtectedAreKept` needs the types only.

*DiscourseSensor.* `AwaitedIsTheHead` and `AnswerIsForTheHead` tie the answer to
the document at the head, without which a version could be recorded that never
arrived (`OnlyArrivedIsRecorded`). `NoStrays` says that an item in no trouble has
no request on its way but the one waited for (`RecordedHashIsCurrent`).
`VersionsRise` orders the versions of an item along its whole way, from the forum
to the last one that arrived: `VersionsArriveInOrder`. `RepeatsHaveExcuses` is an
argument by accounts (`RepeatInv`). The debt of an item is its repeats so far, the
requests for it that nobody waits for (`Strays`), and one more if the version that
arrived last may be sent again (`MayRepeat`); requests given up and halts pay for
it. Each trouble pays for one repeat because it leaves a stray or a record that
prevents nothing, never both: a halt with a request on its way leaves a stray, and
as versions rise, what is read afterwards is newer than what arrived last, unless
the request was a repeat already.

*ClaudeSessions.* `Reading`: what any of the processes has in hand of a transcript
was in it, and a job records no later time than that of its content, unless lines
were misread: `RecordedTimes`. `Extracting`: what is extracted or linked is what is
stored, unless the session was stored again meanwhile, or its transcript was not read
to its end when it was extracted (`skimmed`): `MarkedSessions`. `OneWay`
separates inline from batch extraction, and `Excuses` says of a session outside of
any race that one process at most has it, in its batch or as its job, and that an
episode of it is due for as long as it can be selected: `SecondEpisodes`.

*Polling sensors.* One invariant for all twelve, the four that never send among them,
with the parts that differ by kind
(`ByItem`, `Paired`, `Careless`). `AnswersFit`: a request given up has failed or was
forgotten, so that what arrives late is excused. `NoneOlder`: nothing is sent that is
older than what was sent before, which makes a comparison with the last hash enough.
`ArrivedIsRecorded`: what arrived and could be sent again is recorded in the state
that counts, the file when the process is down. `FolderInOrder`: the newsletters take
the messages of a folder in order, or their watermark would pass some. The steps are
grouped by what they do (`Collects`, `Skips`, `Requests`, `Answers`, `Ends`), and each
sensor's steps are shown to be of these: `SensorsRecordWhatArrived`,
`SensorsRepeatWithExcuse`.

*WebsiteSensor.* A page is `Steady` if no request for it failed and no two tasks worked
on it at a time. Of these, a task that was answered holds the text that arrived last,
and so do the hash and, when the process is down, its file: `RecordedHashIsLast`.
`BatchFits`: pages counted, tasks that run and pages of the batch that are yet to begin
never exceed `max_pages` together: `CrawlKeepsLimit`. It counts, for any size of batch.

*DiscordSensor.* A message is `Clean` if nothing excuses it. What is under way of it,
in a request (`InFlightIsCurrent`) or in a collection that has read it
(`ReadIsCurrent`), is its current version, and one that counts as processed is held or
has an open request (`ProcessedIsSent`): `CoordinatorIsCurrent`.

*NotionSensor.* `Saved`: while a poll sends, memory and file are the same, and hashes
never differ. `HashFollows`: the hash on file is what the coordinator has last, or the
answer that would make it so is there. From these `NotionAcknowledged`, in whatever
step the process ends. `Fresh`, that whatever is to be sent was shown since the poll
began, gives `NotionSendsFresh`; `NewsOnly`, that the outbox never holds what was
acknowledged, gives `NotionRepeatsWithExcuse`. Content is that of the digest, with the
time of the last edit and with what is missing.

*Mail and calendar.* `FolderInv`: a scan goes through the numbers above the cursor from
below, so that all it has behind it were met (`ScanFits`): `CursorPassesNone`. It takes
the least of those left, and that there is one, for any folder, is proved by well-founded
induction. `CalendarInv`: what a writer has behind it is stored (`WriterFits`), and a
writer that was alone with its event since it selected it knows the row and how much of
the text is written (`Alone`). Steps of the other writer replace rows by newer ones only
(`Progress`): `DoneMailsAreStored`, `TextsAreOfRows`. The proof showed that the rule
which replaces versions, `_incoming_is_newer`, is no order: version 2 of DTSTAMP 1 gives
way to one without SEQUENCE of DTSTAMP 2, and that to version 1 of DTSTAMP 3. So a row
may end older than a mail that is done, for an event some of whose versions have a
SEQUENCE and some do not; `NotOlder` makes this exception.

*Federation.* Two invariants with nothing in common but the types. `ContactInv`:
what is new on the wire is what the call waits for (`WaitsForNew`), the call runs
only where there was no book (`CallsWithoutBook`), and an approval is marked in
memory or in the file only where the contact granted it (`UsesWasGranted`), with
the one gap during an approval: `ApprovedIsGranted`. `PeersInv`: each peer waits
for one request (`AsksOnce`), the file has the edges of the book unless a save
failed (`FileFollows`), and a peer that was told of its approval has the edge in
the book that counts, memory or, while the coordinator is down, the file
(`BelievedIsHeld`): `PeersBelieveRightly`, for any number of peers and names.

*SensorRegistry.* One invariant for each question. `KnownInv`: what is in the file
is in memory while the coordinator runs (`MemoryCoversFile`), so that a write that
fails loses no more than it says: `KnownTypesStay`. `AdapterInv`: unless requests
crossed, an adapter that is being closed is listed, stopped, and closed by one
request (`ClosingIsListed`): `RunningIsListed`. `AliveInv`: the age of a sensor's
entry and the time to its next heartbeat never exceed the time between two, in
memory or in the file, whichever counts: `AliveIsListed`, under the assumption that
heartbeats come more often than sensors are taken off the list.

*NodeIdentity.* `IdentityInvariant`: where the resolution has got to says what it
has found (`ResolvedSoFar`); `.node_id` has the key's RID from the time the node
runs under it (`KeyIdIsPersisted`); the peers file has no other name than that of
`.node_id`, to be rewritten by the next migration (`NamesAreKnown`), which is why
`.node_id` must be written last; a drawn RID is backed up before it is replaced
(`DrawnIsKept`). From it `MigrationIsCompleted`, `NoWayBack`, `OldIdIsBackedUp`,
over any number of starts and crashes.

*TextChunker.* `ChunkEndBounds` says where a piece ends, `DroppedAtTheEnd` that a
piece is left out only where it reaches to the end of the text: it rests on the
assumption that four fifths of a piece are no smaller than the least piece, which
the sizes in use (500 and 100) satisfy. From them `NothingButTheTailIsLost`,
`PiecesFit` and, for the end of the loop, `EveryPassMovesOn`.

Properties that are proved and in no run, to keep the runs to what is
distinct: the types of these modules, `AtMostOnce`, `PendingMatchesQueue`,
`FileKeepsUp`, `OnlyDoneEventsLeave`, `ProtectedStay`,
`OldNeverOvertakes`, `HashIsCurrent`, and all of `NodeIdentity` and `TextChunker`,
for which small instances were checked before they were proved, as were the
inductive invariants.

What the theorems assume is what the modules assume of their constants: bounds are
numbers, a set is finite or part of another, a value is none of some others.
Those that say more: `AliveSensorsAreListed` and `TextChunker`, above; `Implementation`
needs saves that do not fail; `CalendarAssumption` makes the calendar of a mail a
sequence. Transcripts, calendars and forums are arbitrary.

## 6. What is only checked

- Liveness: outside of what the prover does.
- `Pieces` as a function, which is recursive: for texts of up to 9 tokens. What the
  loop does, for all texts, is proved of `TextChunker`. `BestOf`, which is recursive
  too, is proved about by the least place at which it would go wrong.
- That the exceptions in the properties are needed: TLC shows each to be reachable.

## 7. What is next

1. A composition of a polling sensor, `Ingest`, `EventQueue` and a subscriber,
   with the end-to-end question which versions a subscriber can miss.
2. Abstract specifications of the sensors, as `DeliveryContract` is of the queue:
   what the sensors promise is the same for most of them, a record that follows
   what arrived, and could be stated once.

## 8. What is not modelled, and why

*Whole components.*

- Cryptography: signatures and hashes are opaque; a model of them would say what
  it assumes.
- Parsing and formatting of RIDs, HTML extraction, language models, embeddings:
  data without protocol. What the protocol sees of them (a rid that cannot be
  written, an item that cannot be converted) is a parameter.
- The job queue cannot be constructed: its CREATE TABLE has an inline INDEX that
  SQLite rejects (`scheduler/job_queue.py:117`). The daily scheduler imports
  koi_processor, which is not in the repository, and turns "0 12" into the time
  12:0. The ledger sensor asks for methods that do not exist and never emits. Nor do
  Twitter, Telegram, podcast and YouTube; these are modelled up to where they raise.
- The draft bot: its reviewer never opens the connection pool, so it acts on files
  alone, each decision writes a file of its own, and one operator works at a time.
- The knowledge graph tools: batch programs around language models.
- `_ping_sensors`, `_forward_to_processor`, `process_pending` of the mail
  watcher: never called. `collect_documents` of the adapters returns nothing.
- The receiving half of a partial node: it fills a cache that nothing reads.

*Simplifications within the models.*

- Disk writes of bundles that fail: only logged by the code, and memory and disk
  then differ until the next event.
- Polling sensors: the window of what a feed shows, the scraping fallback of the
  podcasts (other ids, and an UPDATE at each check), the scrolling fallback of the
  newsletters (posts without dates pass the cutoff and may get a second RID), a
  missing UIDVALIDITY. The twelve run alone, each in behaviours of its own.
- Website: one domain; a text that is too short is a failed read; transcripts of
  videos and metadata are left out.
- Notion: one database; a page's own comments, the kind of event (NEW or UPDATE),
  the order of emission, the limit of the cache of transcripts are left out;
  metadata are read at the visit, and are those of an edit: that a new title or parent
  of a page changes the digests of its comments too is left out; a page edit leaves the
  recording as it is.
  Transcription is on in the side scripts only, not in the sensor's `main`.
- Claude sessions: a transcript that shrinks or whose middle is unreadable, the mode
  of batches without a limit, redaction, size caps, the
  token_count strategy, two base paths and the dead letters are left out.
- Mail: mails that are skipped for their length, age or size
  (`proton_imap_fetcher.py:199-255`), which count as none; one folder, one attachment
  per mail; a row of the index is written in one
  step; the outcome of entity requests is ignored, as in the code; `--limit`,
  `--scan-all` and `--only-rid` are left out.
- Discord: one channel; filters by bot and guild and the local copies are left
  out; one collection in the run (two were checked apart).
- Dashboards and metrics: no effect on the modelled state.
