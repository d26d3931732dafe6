----------------------------- MODULE WebsiteSensor -----------------------------
(***************************************************************************)
(* The website sensor, for one domain.  It crawls the pages in its queue,  *)
(* several at a time, sends those whose content differs from the recorded  *)
(* hash, and queues the links it found for the next crawl.  An operator    *)
(* may have a page or the whole domain crawled while a crawl is under way. *)
(* The pages of some domains show all of their text in a browser only; the *)
(* sensor reads them through one, when it has one, and does without when   *)
(* that fails.                                                             *)
(*                                                                         *)
(* Of the state file only the hashes matter: start() replaces the queue    *)
(* and the count of crawled pages.  The file is written in place, and a    *)
(* process that ends while it writes leaves one that cannot be read.       *)
(***************************************************************************)
EXTENDS Integers, FiniteSets

CONSTANTS
    Pages,         \* the pages of the domain
    Home,          \* the page that a crawl starts from
    Links,         \* the pages that each page links to
    Scripted,      \* the domain is one of playwright_domains
    MaxPages,      \* max_pages of the site
    HardLimit,     \* the limit in process_page
    MaxConcurrent, \* the tasks that a crawl runs at a time
    MaxVersion,    \* bound on the contents of each page
    MaxTriggers,   \* bound on the crawls an operator asks for
    MaxHalts,      \* bound on how often the process ends
    MaxFailures    \* bound on the pages and the requests that fail

ASSUME WebsiteAssumption ==
    /\ IsFiniteSet(Pages) /\ Home \in Pages
    /\ Links \in [Pages -> SUBSET Pages]
    /\ Scripted \in BOOLEAN
    /\ {MaxPages, HardLimit, MaxConcurrent} \subseteq Nat \ {0}
    /\ MaxVersion \in [Pages -> Nat \ {0}]
    /\ {MaxTriggers, MaxHalts, MaxFailures} \subseteq Nat

VARIABLES
    site,       \* the content of each page
    up,         \* the process runs
    browser,    \* browser_context: there is a browser
    queue,      \* crawl_queues[domain]
    crawled,    \* pages_crawled[domain]
    hashes,     \* page_hashes, for each page the text it is of, or NoText
    file,       \* page_hashes in the state file
    crawls,     \* the crawls: of the monitoring loop and of an operator
    tasks,      \* process_page, of a crawl or of an operator
    late,       \* requests that were given up and may arrive yet
    last,       \* history: the text of each page that arrived last
    failed,     \* history: pages whose request failed or whose hash was not saved
    overlapped, \* history: pages that two tasks worked on at a time
    triggers, halts, failures    \* counters of the bounds

vars == <<site, up, browser, queue, crawled, hashes, file, crawls, tasks, late, last,
          failed, overlapped, triggers, halts, failures>>

Version == UNION {1..MaxVersion[p] : p \in Pages}
Text == [version : Version, whole : BOOLEAN]
NoText == [version |-> 0, whole |-> FALSE]
Crawlers == {"monitor", "domain"}
Idle == [running |-> FALSE, batch |-> {}, todo |-> {}, found |-> {}]
Task == [page : Pages, by : Crawlers \cup {"url"}, step : {"fetching", "emitting", "taken"},
         text : Text \cup {NoText}, links : SUBSET Pages]
Content == [page : Pages, text : Text]

TypeOK ==
    /\ site \in [Pages -> Version]
    /\ up \in BOOLEAN /\ browser \in BOOLEAN
    /\ queue \subseteq Pages
    /\ crawled \in Nat
    /\ hashes \in [Pages -> Text \cup {NoText}] /\ file \in [Pages -> Text \cup {NoText}]
    /\ crawls \in [Crawlers -> [running : BOOLEAN, batch : SUBSET Pages,
                                todo : SUBSET Pages, found : SUBSET Pages]]
    /\ tasks \subseteq Task
    /\ \A t \in tasks : t.by \in Crawlers => crawls[t.by].running
    /\ late \subseteq Content
    /\ last \in [Pages -> Text \cup {NoText}]
    /\ failed \subseteq Pages /\ overlapped \subseteq Pages
    /\ triggers \in 0..MaxTriggers /\ halts \in 0..MaxHalts
    /\ failures \in 0..MaxFailures

-----------------------------------------------------------------------------
TasksOf(c) == {t \in tasks : t.by = c}
Fetching(p, c) == [page |-> p, by |-> c, step |-> "fetching", text |-> NoText, links |-> {}]

\* Two tasks on one page.
Overlap(p) == overlapped' =
    IF \E t \in tasks : t.page = p THEN overlapped \cup {p} ELSE overlapped

\* Mutant: the limit is left to process_page.
BatchIsQueue(n) == n

\* urls_to_process[:batch_size] of a list of n, with batch_size = min(max_pages -
\* pages_crawled, n): a negative size takes off the end of the list.
BatchSize(n) ==
    LET room == MaxPages - crawled IN
    IF room >= n THEN n ELSE IF room >= 0 THEN room
    ELSE IF n + room > 0 THEN n + room ELSE 0

\* crawl_website takes a batch of the queue q; which part of it is arbitrary,
\* the queue being a set.
Batches(q) ==
    LET urls == IF q = {} THEN {Home} ELSE q
    IN {B \in SUBSET urls : Cardinality(B) = BatchSize(Cardinality(urls))}

Crawling(B) == [running |-> TRUE, batch |-> B, todo |-> B, found |-> {}]

\* monitor_website: the next crawl begins.
CrawlBegins ==
    /\ up /\ ~crawls["monitor"].running
    /\ \E B \in Batches(queue) : crawls' = [crawls EXCEPT !["monitor"] = Crawling(B)]
    /\ UNCHANGED <<site, up, browser, queue, crawled, hashes, file, tasks, late, last,
                   failed, overlapped, triggers, halts, failures>>

\* process_page begins; above the hard limit it returns at once.
PageBegins(c, p) ==
    /\ up /\ p \in crawls[c].todo
    /\ Cardinality(TasksOf(c)) < MaxConcurrent
    /\ crawls' = [crawls EXCEPT ![c].todo = @ \ {p}]
    /\ IF crawled >= HardLimit THEN UNCHANGED <<tasks, overlapped>>
       ELSE tasks' = tasks \cup {Fetching(p, c)} /\ Overlap(p)
    /\ UNCHANGED <<site, up, browser, queue, crawled, hashes, file, late, last,
                   failed, triggers, halts, failures>>

\* The links that a page was found to have go to the crawl that read it.
Discover(t, links) == crawls' =
    IF t.by \in Crawlers THEN [crawls EXCEPT ![t.by].found = @ \cup links] ELSE crawls

\* extract_clean_content: the text of the container of the page's own content.
Reading(p, whole, links) ==
    [text |-> [version |-> site[p], whole |-> whole], links |-> links]

\* extract_internal_urls.
LinksOf(p) == Links[p]

\* Without a browser the page is as the server sends it.
PlainPage(p) == Reading(p, ~Scripted, LinksOf(p))

\* What clicking on what looks collapsed shows: a second click hides it again,
\* and what is slow to load is not waited for.
Shown == BOOLEAN

\* _fetch_with_playwright replaces the page with paragraphs of its text, which
\* have no links.
Rendered(p) == Reading(p, TRUE, {})

\* Not all of the text was there in time, or it could not be taken out of the
\* page, or there was no page and it is read without the browser.
PoorlyRendered(p) ==
    {Reading(p, FALSE, {}), PlainPage(p)} \cup {Reading(p, whole, LinksOf(p)) : whole \in Shown}

\* _should_use_playwright.
UsesBrowser == browser /\ Scripted

Readings(p, well) ==
    IF ~UsesBrowser THEN IF well THEN {PlainPage(p)} ELSE {}
    ELSE IF well THEN {Rendered(p)} ELSE PoorlyRendered(p)

\* The page has been read, or could not be read or has too little text.  Its text
\* is compared with the hash, and sent if it differs.
Fetched(t) ==
    /\ up /\ t.step = "fetching"
    /\ \E well \in BOOLEAN :
        /\ IF well THEN UNCHANGED failures ELSE failures < MaxFailures /\ failures' = failures + 1
        /\ \/ ~well /\ tasks' = tasks \ {t} /\ UNCHANGED crawls
           \/ \E r \in Readings(t.page, well) :
                IF hashes[t.page] = r.text
                THEN tasks' = tasks \ {t} /\ Discover(t, r.links)
                ELSE /\ tasks' = (tasks \ {t}) \cup
                         {[t EXCEPT !.step = "emitting", !.text = r.text, !.links = r.links]}
                     /\ UNCHANGED crawls
    /\ UNCHANGED <<site, up, browser, queue, crawled, hashes, file, late, last,
                   failed, overlapped, triggers, halts>>

Sent(t) == [page |-> t.page, text |-> t.text]
Arrival(d) == last' = [last EXCEPT ![d.page] = d.text]

\* The coordinator takes the event.
Arrive(t) ==
    /\ t.step = "emitting" /\ Arrival(Sent(t))
    /\ tasks' = (tasks \ {t}) \cup {[t EXCEPT !.step = "taken"]}
    /\ UNCHANGED <<site, up, browser, queue, crawled, hashes, file, crawls, late, failed,
                   overlapped, triggers, halts, failures>>

ArriveLate(d) ==
    /\ d \in late /\ late' = late \ {d} /\ Arrival(d)
    /\ UNCHANGED <<site, up, browser, queue, crawled, hashes, file, crawls, tasks, failed,
                   overlapped, triggers, halts, failures>>

\* Mutant: the hash is that of the page as it is now.
RehashesPage(t) == [hashes EXCEPT ![t.page] = [t.text EXCEPT !.version = site[t.page]]]

\* The hash of what was read is recorded whatever became of the request.
RecordHash(t) == [hashes EXCEPT ![t.page] = t.text]

\* emit_page_event returns, whether or not the request succeeded.
Emitted(t) ==
    /\ up
    /\ hashes' = RecordHash(t)
    /\ \/ t.step = "taken" /\ UNCHANGED <<late, failed, failures>>
       \/ /\ t.step \in {"emitting", "taken"}
          /\ failures < MaxFailures /\ failures' = failures + 1
          /\ failed' = failed \cup {t.page}
          /\ late' = IF t.step = "taken" THEN late ELSE late \cup {Sent(t)}
    /\ crawled' = crawled + 1
    /\ tasks' = tasks \ {t} /\ Discover(t, t.links)
    /\ UNCHANGED <<site, up, browser, queue, file, last, overlapped, triggers, halts>>

CrawlIsOver(c) == up /\ crawls[c].running /\ crawls[c].todo = {} /\ TasksOf(c) = {}

\* Mutant: what was found is forgotten.
ForgetsFound(c) == queue \ crawls[c].batch

\* Pages that were discovered meanwhile stay in the queue.
QueueAfter(c) == (queue \ crawls[c].batch) \cup crawls[c].found

\* crawl_website ends: the batch leaves the queue, what was found enters it, and
\* the state is saved.
CrawlEnds(c) ==
    /\ CrawlIsOver(c)
    /\ queue' = QueueAfter(c)
    /\ crawls' = [crawls EXCEPT ![c] = Idle]
    /\ file' = hashes
    /\ UNCHANGED <<site, up, browser, crawled, hashes, tasks, late, last, failed,
                   overlapped, triggers, halts, failures>>

-----------------------------------------------------------------------------
\* POST /trigger with a url: its hash is deleted, and the page processed.
TriggerUrl(p) ==
    /\ up /\ triggers < MaxTriggers /\ triggers' = triggers + 1
    /\ hashes' = [hashes EXCEPT ![p] = NoText]
    /\ queue' = queue \cup {p}
    /\ IF crawled >= HardLimit THEN UNCHANGED <<tasks, overlapped>>
       ELSE tasks' = tasks \cup {Fetching(p, "url")} /\ Overlap(p)
    /\ UNCHANGED <<site, up, browser, crawled, file, crawls, late, last, failed,
                   halts, failures>>

\* POST /trigger with a domain: the queue is replaced, the count starts again,
\* and a crawl begins beside that of the monitoring loop.
TriggerDomain ==
    /\ up /\ triggers < MaxTriggers /\ triggers' = triggers + 1
    /\ ~crawls["domain"].running
    /\ queue' = {Home} /\ crawled' = 0
    /\ crawls' = [crawls EXCEPT !["domain"] = Crawling({Home})]
    /\ UNCHANGED <<site, up, browser, hashes, file, tasks, late, last, failed,
                   overlapped, halts, failures>>

\* An author changes a page.
Edit(p) ==
    /\ site[p] < MaxVersion[p] /\ site' = [site EXCEPT ![p] = @ + 1]
    /\ UNCHANGED <<up, browser, queue, crawled, hashes, file, crawls, tasks, late,
                   last, failed, overlapped, triggers, halts, failures>>

NoHashes == [p \in Pages |-> NoText]

\* The process ends; if it was writing the state, the file is torn.
Halt ==
    /\ up /\ halts < MaxHalts /\ halts' = halts + 1
    /\ up' = FALSE /\ browser' = FALSE
    /\ queue' = {} /\ crawled' = 0 /\ hashes' = NoHashes
    /\ crawls' = [c \in Crawlers |-> Idle] /\ tasks' = {}
    /\ late' = late \cup {Sent(t) : t \in {u \in tasks : u.step = "emitting"}}
    /\ \/ UNCHANGED file
       \/ file' = NoHashes /\ \E c \in Crawlers : CrawlIsOver(c)
    /\ failed' = failed \cup {t.page : t \in {u \in tasks : u.step # "fetching"}}
                        \cup {p \in Pages : hashes[p] # file[p]}
    /\ UNCHANGED <<site, last, overlapped, triggers, failures>>

\* _initialize_playwright: where there is no browser, or it does not start, the
\* sensor goes on without.
OpenBrowser == browser' \in {Scripted, FALSE}

\* _load_state, then start() with its queue of start pages.
Start ==
    /\ ~up /\ up' = TRUE /\ OpenBrowser
    /\ hashes' = file /\ queue' = {Home} /\ crawled' = 0
    /\ UNCHANGED <<site, file, crawls, tasks, late, last, failed,
                   overlapped, triggers, halts, failures>>

Init ==
    /\ site = [p \in Pages |-> 1]
    /\ up = FALSE /\ browser = FALSE
    /\ queue = {} /\ crawled = 0 /\ hashes = NoHashes /\ file = NoHashes
    /\ crawls = [c \in Crawlers |-> Idle] /\ tasks = {}
    /\ late = {} /\ last = NoHashes
    /\ failed = {} /\ overlapped = {}
    /\ triggers = 0 /\ halts = 0 /\ failures = 0

Step ==
    \/ CrawlBegins
    \/ \E c \in Crawlers : CrawlEnds(c) \/ \E p \in Pages : PageBegins(c, p)
    \/ \E t \in tasks : Fetched(t) \/ Arrive(t) \/ Emitted(t)

Next ==
    \/ Step \/ Start \/ Halt \/ TriggerDomain
    \/ \E p \in Pages : Edit(p) \/ TriggerUrl(p)
    \/ \E d \in late : ArriveLate(d)

Spec == Init /\ [][Next]_vars

\* The process goes on, requests are answered, and it is started again.
FairSpec == Spec /\ WF_vars(Step) /\ WF_vars(Start)

-----------------------------------------------------------------------------
(* While no task works on a page, the hash of the page is that of the      *)
(* content which reached the coordinator last, unless a request for it     *)
(* failed, two tasks worked on it at a time, or the process ended before   *)
(* the hash was saved: only then may a crawl find a page unchanged that    *)
(* the coordinator knows in another content.                               *)
(* (process_page; docs of the sensor: hash-based change detection)         *)
RecordedIsLast == up => \A p \in Pages \ (failed \cup overlapped) :
    (\A t \in tasks : t.page # p) /\ hashes[p] # NoText => hashes[p] = last[p]

(* As long as no operator triggers a crawl, the sensor sends no more pages *)
(* than max_pages.  (websites/README.md:68; crawl_website, batch_size)     *)
LimitWithoutTrigger == triggers = 0 => crawled <= MaxPages

\* A page found by no link, the pages before it having been read in a browser.
OutOfReach(p) == UsesBrowser /\ p # Home

(* Where every page links to the start page, every change of a page that   *)
(* is within reach is noticed, unless the count of pages has reached the   *)
(* limit: it counts all pages ever sent, and is set back only by a restart *)
(* or by an operator.                                                      *)
(* (crawl_website; websites/README.md: continuous monitoring)              *)
ChangesAreNoticed ==
    \A p \in Pages :
        []<>(hashes[p].version = site[p] \/ crawled >= MaxPages \/ OutOfReach(p))

=============================================================================
