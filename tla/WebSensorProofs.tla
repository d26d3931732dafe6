-------------------------- MODULE WebSensorProofs ---------------------------
(***************************************************************************)
(* Proofs about the sensors that many requests reach at a time: the crawler*)
(* of websites and the Discord bot.  Each part is about one of the two.    *)
(***************************************************************************)
EXTENDS WebsiteSensor, DiscordSensor, FiniteSetTheorems, TLAPS

-----------------------------------------------------------------------------
(***************************************************************************)
(* Proofs of the safety properties of WebsiteSensor, for any site, any     *)
(* limits and any interleaving of the crawls with the tasks, the requests  *)
(* and the operator.                                                       *)
(***************************************************************************)

(* The pages still to begin belong to a crawl that runs, and a task that   *)
(* sends its page has read it.                                             *)
CrawlsFit ==
    /\ \A c \in Crawlers : ~crawls[c].running => crawls[c].todo = {}
    /\ \A t \in tasks : t.step # "fetching" => t.text \in Text

(* What the coordinator was sent last of a page whose requests were all    *)
(* answered, and on which one task at a time worked.                       *)
Steady == Pages \ (failed \cup overlapped)

OneTask == \A t, u \in tasks : t.page = u.page /\ t.page \in Steady => t = u

TakenIsLast == \A t \in tasks : t.step = "taken" /\ t.page \in Steady => last[t.page] = t.text

HashIsLast ==
    \A p \in Steady : \/ hashes[p] \in {NoText, last[p]}
                      \/ \E t \in tasks : t.page = p /\ t.step = "taken"

LateIsFailed == \A d \in late : d.page \in failed

FileIsLast == ~up => tasks = {} /\ \A p \in Steady : file[p] \in {NoText, last[p]}

HashInv == OneTask /\ TakenIsLast /\ HashIsLast /\ LateIsFailed /\ FileIsLast

(* Every page of the batch, begun or not, is counted before it is sent.    *)
BatchFits == triggers = 0 =>
    /\ ~crawls["domain"].running
    /\ \A t \in tasks : t.by = "monitor"
    /\ IsFiniteSet(tasks)
    /\ crawled + Cardinality(tasks) + Cardinality(crawls["monitor"].todo) <= MaxPages

IInv == TypeOK /\ CrawlsFit /\ HashInv /\ BatchFits

-----------------------------------------------------------------------------
(* The values that the state of the site and of the crawls is made of.     *)
LEMMA SiteTypes ==
    /\ NoText \in Text \cup {NoText} /\ NoHashes \in [Pages -> Text \cup {NoText}]
    /\ Idle \in [running : BOOLEAN, batch : SUBSET Pages, todo : SUBSET Pages,
                 found : SUBSET Pages]
    /\ \A p \in Pages, c \in Crawlers \cup {"url"} : Fetching(p, c) \in Task
    /\ \A p \in Pages : NoHashes[p] = NoText
  BY DEF NoHashes, Idle, Fetching, Task

(* A page is read in a text of its own, with some of its links or none.    *)
LEMMA ReadingTypes ==
    ASSUME TypeOK, NEW p \in Pages, NEW well \in BOOLEAN, NEW r \in Readings(p, well)
    PROVE  r.text \in Text /\ r.links \in SUBSET Pages
  <1>1. site[p] \in Version /\ Links[p] \in SUBSET Pages /\ Scripted \in BOOLEAN
    BY WebsiteAssumption DEF TypeOK
  <1>2. \A whole \in BOOLEAN, links \in SUBSET Pages :
            /\ Reading(p, whole, links).text \in Text
            /\ Reading(p, whole, links).links = links
    BY <1>1 DEF Reading, Text
  <1>3. PICK whole \in BOOLEAN, links \in SUBSET Pages : r = Reading(p, whole, links)
    BY <1>1 DEF Readings, PlainPage, LinksOf, Rendered, PoorlyRendered, Shown
  <1> QED BY <1>2, <1>3

(* A task learns that the coordinator has its page.                        *)
LEMMA TaskIsTaken ==
    ASSUME NEW t \in Task, NEW u, u = [t EXCEPT !.step = "taken"]
    PROVE  /\ u \in Task /\ u.page = t.page /\ u.by = t.by
           /\ u.step = "taken" /\ u.text = t.text
  BY DEF Task

(* What a batch of the queue may be.                                       *)
LEMMA BatchTypes ==
    ASSUME TypeOK, NEW B \in Batches(queue)
    PROVE  B \in SUBSET Pages
  BY WebsiteAssumption DEF Batches, TypeOK

(* A crawl has the fields of a crawl.                                      *)
LEMMA CrawlTypes ==
    ASSUME NEW B \in SUBSET Pages
    PROVE  Crawling(B) \in [running : BOOLEAN, batch : SUBSET Pages, todo : SUBSET Pages,
                            found : SUBSET Pages]
  BY DEF Crawling

(* Finding links changes the list of what one crawl found alone.           *)
LEMMA DiscoverEffect ==
    ASSUME TypeOK, NEW t \in Task, NEW links \in SUBSET Pages, Discover(t, links)
    PROVE  /\ crawls' \in [Crawlers -> [running : BOOLEAN, batch : SUBSET Pages,
                                        todo : SUBSET Pages, found : SUBSET Pages]]
           /\ \A c \in Crawlers : /\ crawls'[c].running = crawls[c].running
                                  /\ crawls'[c].todo = crawls[c].todo
  <1>1. CASE t.by \in Crawlers
    BY <1>1, SMTT(30) DEF TypeOK, Discover
  <1>2. CASE t.by \notin Crawlers
    BY <1>2 DEF TypeOK, Discover
  <1> QED BY <1>1, <1>2

(* A page that was read leaves its task, or has it send what was read.     *)
LEMMA FetchedEffect ==
    ASSUME TypeOK, NEW t \in tasks, Fetched(t)
    PROVE  /\ failures' \in 0..MaxFailures
           /\ crawls' \in [Crawlers -> [running : BOOLEAN, batch : SUBSET Pages,
                                        todo : SUBSET Pages, found : SUBSET Pages]]
           /\ \A c \in Crawlers : /\ crawls'[c].running = crawls[c].running
                                  /\ crawls'[c].todo = crawls[c].todo
           /\ \/ tasks' = tasks \ {t}
              \/ \E u \in Task : /\ tasks' = (tasks \ {t}) \cup {u}
                                 /\ u.page = t.page /\ u.by = t.by
                                 /\ u.step = "emitting" /\ u.text \in Text
  <1>0. t \in Task /\ t.page \in Pages
    BY DEF TypeOK, Task
  <1>1. PICK well \in BOOLEAN :
          /\ IF well THEN UNCHANGED failures ELSE failures < MaxFailures /\ failures' = failures + 1
          /\ \/ ~well /\ tasks' = tasks \ {t} /\ UNCHANGED crawls
             \/ \E r \in Readings(t.page, well) :
                  IF hashes[t.page] = r.text
                  THEN tasks' = tasks \ {t} /\ Discover(t, r.links)
                  ELSE /\ tasks' = (tasks \ {t}) \cup
                           {[t EXCEPT !.step = "emitting", !.text = r.text, !.links = r.links]}
                       /\ UNCHANGED crawls
    BY DEF Fetched
  <1>2. failures' \in 0..MaxFailures
    <2>1. \/ UNCHANGED failures
          \/ failures < MaxFailures /\ failures' = failures + 1
      BY <1>1
    <2> QED BY <2>1, WebsiteAssumption DEF TypeOK
  <1>3. CASE ~well /\ tasks' = tasks \ {t} /\ UNCHANGED crawls
    BY <1>2, <1>3 DEF TypeOK
  <1>4. ASSUME NEW r \in Readings(t.page, well), tasks' = tasks \ {t}, Discover(t, r.links)
        PROVE  /\ crawls' \in [Crawlers -> [running : BOOLEAN, batch : SUBSET Pages,
                                            todo : SUBSET Pages, found : SUBSET Pages]]
               /\ \A c \in Crawlers : /\ crawls'[c].running = crawls[c].running
                                      /\ crawls'[c].todo = crawls[c].todo
    BY <1>0, <1>4, ReadingTypes, DiscoverEffect
  <1>5. ASSUME NEW r \in Readings(t.page, well), UNCHANGED crawls,
               tasks' = (tasks \ {t}) \cup
                 {[t EXCEPT !.step = "emitting", !.text = r.text, !.links = r.links]}
        PROVE  \E u \in Task : /\ tasks' = (tasks \ {t}) \cup {u}
                               /\ u.page = t.page /\ u.by = t.by
                               /\ u.step = "emitting" /\ u.text \in Text
    <2>1. r.text \in Text /\ r.links \in SUBSET Pages
      BY <1>0, ReadingTypes
    <2>2. PICK u : u = [t EXCEPT !.step = "emitting", !.text = r.text, !.links = r.links]
      OBVIOUS
    <2>3. u \in Task /\ u.page = t.page /\ u.by = t.by /\ u.step = "emitting" /\ u.text = r.text
      BY <1>0, <2>1, <2>2 DEF Task
    <2> QED BY <1>5, <2>1, <2>2, <2>3
  <1>6. UNCHANGED crawls => /\ crawls' \in [Crawlers -> [running : BOOLEAN, batch : SUBSET Pages,
                                                         todo : SUBSET Pages, found : SUBSET Pages]]
                            /\ \A c \in Crawlers : /\ crawls'[c].running = crawls[c].running
                                                   /\ crawls'[c].todo = crawls[c].todo
    BY DEF TypeOK
  <1> QED BY <1>1, <1>2, <1>3, <1>4, <1>5, <1>6

(* Every step keeps the types and what a crawl has yet to begin.           *)
LEMMA TypeStep == TypeOK /\ CrawlsFit /\ [Next]_vars => TypeOK' /\ CrawlsFit'
  <1> SUFFICES ASSUME TypeOK, CrawlsFit, [Next]_vars PROVE TypeOK' /\ CrawlsFit'
    OBVIOUS
  <1> USE SiteTypes, WebsiteAssumption DEF CrawlsFit
  <1>1. CASE CrawlBegins
    <2>1. PICK B \in Batches(queue) : crawls' = [crawls EXCEPT !["monitor"] = Crawling(B)]
      BY <1>1 DEF CrawlBegins
    <2>2. Crawling(B).running = TRUE
      BY DEF Crawling
    <2> QED BY <1>1, <2>1, <2>2, BatchTypes, CrawlTypes DEF TypeOK, CrawlBegins, Crawlers
  <1>2. ASSUME NEW c \in Crawlers, CrawlEnds(c) PROVE TypeOK' /\ CrawlsFit'
    <2>1. Idle.todo = {} /\ TasksOf(c) = {} /\ tasks' = tasks
      BY <1>2 DEF Idle, CrawlEnds, CrawlIsOver
    <2>2. \A t \in tasks : t.by # c
      BY <2>1 DEF TasksOf
    <2>3. QueueAfter(c) \in SUBSET Pages
      BY DEF TypeOK, QueueAfter
    <2> QED BY <1>2, <2>1, <2>2, <2>3 DEF TypeOK, CrawlEnds
  <1>3. ASSUME NEW c \in Crawlers, NEW p \in Pages, PageBegins(c, p) PROVE TypeOK' /\ CrawlsFit'
    <2>1. /\ Fetching(p, c).by = c /\ Fetching(p, c).step = "fetching"
          /\ crawls[c].running
      BY <1>3 DEF Fetching, PageBegins
    <2>2. /\ crawls' \in [Crawlers -> [running : BOOLEAN, batch : SUBSET Pages,
                                       todo : SUBSET Pages, found : SUBSET Pages]]
          /\ \A e \in Crawlers : /\ crawls'[e].running = crawls[e].running
                                 /\ crawls'[e].todo \subseteq crawls[e].todo
      BY <1>3 DEF PageBegins, TypeOK
    <2>3. overlapped' \subseteq Pages
      BY <1>3 DEF PageBegins, Overlap, TypeOK
    <2>4. tasks' \subseteq tasks \cup {Fetching(p, c)}
      BY <1>3 DEF PageBegins
    <2> QED BY <1>3, <2>1, <2>2, <2>3, <2>4, SMTT(30) DEF TypeOK, PageBegins
  <1>4. ASSUME NEW t \in tasks, Fetched(t) PROVE TypeOK' /\ CrawlsFit'
    <2>1. \A u \in tasks' \ tasks : /\ u \in Task /\ u.by = t.by
                                    /\ u.step = "emitting" /\ u.text \in Text
      BY <1>4, FetchedEffect
    <2> QED BY <1>4, <2>1, FetchedEffect, ZenonT(30) DEF TypeOK, Fetched
  <1>5. ASSUME NEW t \in tasks, Arrive(t) PROVE TypeOK' /\ CrawlsFit'
    <2> DEFINE u == [t EXCEPT !.step = "taken"]
    <2>1. t \in Task /\ u \in Task /\ u.by = t.by /\ u.text = t.text /\ t.text \in Text
      <3>1. t \in Task /\ t.text \in Text
        BY <1>5 DEF TypeOK, Arrive
      <3> QED BY <3>1, TaskIsTaken
    <2>2. last' \in [Pages -> Text \cup {NoText}]
      BY <1>5, <2>1 DEF Arrive, Arrival, Sent, Task, TypeOK
    <2>3. tasks' = (tasks \ {t}) \cup {u}
      BY <1>5 DEF Arrive
    <2> HIDE DEF u
    <2> QED BY <1>5, <2>1, <2>2, <2>3 DEF TypeOK, Arrive
  <1>6. ASSUME NEW t \in tasks, Emitted(t) PROVE TypeOK' /\ CrawlsFit'
    <2>1. t \in Task /\ t.page \in Pages /\ t.links \in SUBSET Pages
          /\ t.text \in Text \cup {NoText}
      BY DEF TypeOK, Task
    <2>2. late' \subseteq Content /\ failed' \subseteq Pages /\ failures' \in 0..MaxFailures
      <3>1. CASE t.step = "taken" /\ UNCHANGED <<late, failed, failures>>
        BY <3>1 DEF TypeOK
      <3>2. CASE /\ failures < MaxFailures /\ failures' = failures + 1
                 /\ failed' = failed \cup {t.page}
                 /\ late' = IF t.step = "taken" THEN late ELSE late \cup {Sent(t)}
        <4>1. failed' \subseteq Pages /\ failures' \in 0..MaxFailures
          BY <2>1, <3>2 DEF TypeOK
        <4>2. t.step # "taken" => Sent(t) \in Content
          BY <1>6, <2>1 DEF Emitted, Sent, Content
        <4> QED BY <3>2, <4>1, <4>2 DEF TypeOK
      <3> QED BY <1>6, <3>1, <3>2 DEF Emitted
    <2>3. hashes' \in [Pages -> Text \cup {NoText}] /\ crawled' \in Nat
      BY <1>6, <2>1 DEF Emitted, RecordHash, TypeOK
    <2> QED BY <1>6, <2>1, <2>2, <2>3, DiscoverEffect DEF TypeOK, Emitted
  <1>7. ASSUME NEW p \in Pages, TriggerUrl(p) PROVE TypeOK' /\ CrawlsFit'
    <2>1. /\ Fetching(p, "url") \in Task /\ Fetching(p, "url").by \notin Crawlers
          /\ Fetching(p, "url").step = "fetching"
      BY DEF Fetching, Crawlers
    <2>2. hashes' \in [Pages -> Text \cup {NoText}] /\ queue' \subseteq Pages
          /\ triggers' \in 0..MaxTriggers
      BY <1>7 DEF TriggerUrl, TypeOK
    <2>3. overlapped' \subseteq Pages /\ tasks' \subseteq tasks \cup {Fetching(p, "url")}
      BY <1>7 DEF TriggerUrl, Overlap, TypeOK
    <2> QED BY <1>7, <2>1, <2>2, <2>3 DEF TypeOK, TriggerUrl
  <1>8. CASE TriggerDomain
    <2>1. Crawling({Home}).running = TRUE /\ {Home} \in SUBSET Pages
      BY DEF Crawling
    <2>2. /\ crawls' \in [Crawlers -> [running : BOOLEAN, batch : SUBSET Pages,
                                       todo : SUBSET Pages, found : SUBSET Pages]]
          /\ \A c \in Crawlers : \/ crawls'[c] = crawls[c]
                                 \/ crawls'[c].running
      BY <1>8, <2>1, CrawlTypes DEF TypeOK, TriggerDomain, Crawlers
    <2>3. triggers' \in 0..MaxTriggers /\ queue' \subseteq Pages /\ crawled' \in Nat
      BY <1>8 DEF TypeOK, TriggerDomain
    <2> QED BY <1>8, <2>2, <2>3 DEF TypeOK, TriggerDomain
  <1>9. ASSUME NEW p \in Pages, Edit(p) PROVE TypeOK' /\ CrawlsFit'
    <2>1. site[p] + 1 \in Version
      BY <1>9 DEF Edit, TypeOK, Version
    <2> QED BY <1>9, <2>1 DEF TypeOK, Edit
  <1>10. CASE Halt
    <2>1. \A t \in tasks : t.step = "emitting" => Sent(t) \in Content
      BY DEF Sent, Content, TypeOK, Task
    <2>2. late' \subseteq Content
      BY <1>10, <2>1 DEF Halt, TypeOK
    <2>3. failed' \subseteq Pages
      BY <1>10 DEF Halt, TypeOK, Task
    <2>4. file' \in [Pages -> Text \cup {NoText}] /\ halts' \in 0..MaxHalts
      BY <1>10 DEF Halt, TypeOK
    <2>5. crawls' \in [Crawlers -> [running : BOOLEAN, batch : SUBSET Pages,
                                    todo : SUBSET Pages, found : SUBSET Pages]]
      BY <1>10 DEF Halt
    <2>6. \A c \in Crawlers : crawls'[c].todo = {}
      BY <1>10 DEF Halt, Idle
    <2> QED BY <1>10, <2>2, <2>3, <2>4, <2>5, <2>6 DEF TypeOK, Halt
  <1>11. CASE Start
    BY <1>11 DEF TypeOK, Start, OpenBrowser
  <1>12. ASSUME NEW d \in late, ArriveLate(d) PROVE TypeOK' /\ CrawlsFit'
    BY <1>12 DEF TypeOK, ArriveLate, Arrival, Content
  <1>13. CASE UNCHANGED vars
    BY <1>13 DEF TypeOK, vars
  <1> QED
    BY <1>1, <1>2, <1>3, <1>4, <1>5, <1>6, <1>7, <1>8, <1>9, <1>10, <1>11, <1>12, <1>13
    DEF Next, Step

-----------------------------------------------------------------------------
(* Failures and overlaps are never forgotten.                              *)
LEMMA SteadyShrinks == TypeOK /\ [Next]_vars => Steady' \subseteq Steady
  <1> SUFFICES ASSUME TypeOK, [Next]_vars
               PROVE  failed \subseteq failed' /\ overlapped \subseteq overlapped'
    BY DEF Steady
  <1>1. ASSUME NEW p \in Pages, Overlap(p) PROVE overlapped \subseteq overlapped'
    BY <1>1 DEF Overlap
  <1>2. ASSUME NEW t \in tasks, Emitted(t) PROVE failed \subseteq failed'
    BY <1>2 DEF Emitted
  <1>3. CASE CrawlBegins \/ Start \/ TriggerDomain \/ UNCHANGED vars
    BY <1>3 DEF CrawlBegins, Start, TriggerDomain, vars
  <1>4. CASE Halt
    BY <1>4 DEF Halt
  <1>5. CASE \E p \in Pages : Edit(p) \/ TriggerUrl(p)
    BY <1>1, <1>5 DEF Edit, TriggerUrl
  <1>6. CASE \E c \in Crawlers : CrawlEnds(c) \/ \E p \in Pages : PageBegins(c, p)
    BY <1>1, <1>6 DEF CrawlEnds, PageBegins
  <1>7. CASE \E t \in tasks : Fetched(t) \/ Arrive(t) \/ Emitted(t)
    BY <1>2, <1>7 DEF Fetched, Arrive, Emitted
  <1>8. CASE \E d \in late : ArriveLate(d)
    BY <1>8 DEF ArriveLate
  <1> QED BY <1>3, <1>4, <1>5, <1>6, <1>7, <1>8 DEF Next, Step

(* Of the page of a new task nothing is known unless it is the only one.   *)
LEMMA NewTask ==
    ASSUME TypeOK, HashInv, NEW p \in Pages, NEW c \in Crawlers \cup {"url"},
           tasks' = tasks \cup {Fetching(p, c)}, Overlap(p), UNCHANGED <<last, failed>>
    PROVE  OneTask' /\ TakenIsLast'
  <1>1. /\ Fetching(p, c).page = p /\ Fetching(p, c).step = "fetching"
    BY DEF Fetching
  <1>2. CASE \E t \in tasks : t.page = p
    BY <1>1, <1>2 DEF HashInv, OneTask, TakenIsLast, Overlap, Steady
  <1>3. CASE ~ \E t \in tasks : t.page = p
    BY <1>1, <1>3 DEF HashInv, OneTask, TakenIsLast, Overlap, Steady
  <1> QED BY <1>2, <1>3

(* Every step keeps what is said of the hashes.                            *)
LEMMA HashStep == TypeOK /\ CrawlsFit /\ HashInv /\ [Next]_vars => HashInv'
  <1> SUFFICES ASSUME TypeOK, CrawlsFit, HashInv, [Next]_vars PROVE HashInv'
    OBVIOUS
  <1>0. Steady' \subseteq Steady /\ Steady \subseteq Pages
    BY SteadyShrinks DEF Steady
  <1>1. CASE CrawlBegins
    BY <1>0, <1>1 DEF CrawlBegins, HashInv, OneTask, TakenIsLast, HashIsLast, LateIsFailed,
           FileIsLast, Steady
  <1>2. ASSUME NEW c \in Crawlers, CrawlEnds(c) PROVE HashInv'
    BY <1>0, <1>2 DEF CrawlEnds, CrawlIsOver, HashInv, OneTask, TakenIsLast, HashIsLast,
           LateIsFailed, FileIsLast, Steady
  <1>3. ASSUME NEW c \in Crawlers, NEW p \in Pages, PageBegins(c, p) PROVE HashInv'
    <2>1. OneTask' /\ TakenIsLast'
      <3>1. CASE crawled >= HardLimit
        BY <1>3, <3>1 DEF PageBegins, HashInv, OneTask, TakenIsLast, Steady
      <3>2. CASE ~(crawled >= HardLimit)
        BY <1>3, <3>2, NewTask DEF PageBegins
      <3> QED BY <3>1, <3>2
    <2>2. tasks \subseteq tasks'
      BY <1>3 DEF PageBegins
    <2> QED BY <1>0, <1>3, <2>1, <2>2 DEF PageBegins, HashInv, HashIsLast, LateIsFailed,
           FileIsLast
  <1>4. ASSUME NEW t \in tasks, Fetched(t) PROVE HashInv'
    <2>1. /\ t.step = "fetching" /\ up
          /\ UNCHANGED <<up, last, hashes, file, late, failed, overlapped>>
      BY <1>4 DEF Fetched
    <2>2. \/ tasks' = tasks \ {t}
          \/ \E u \in Task : /\ tasks' = (tasks \ {t}) \cup {u}
                             /\ u.page = t.page /\ u.step = "emitting"
      BY <1>4, FetchedEffect
    <2> QED BY <1>0, <2>1, <2>2 DEF HashInv, OneTask, TakenIsLast, HashIsLast,
           LateIsFailed, FileIsLast, Steady
  <1>5. ASSUME NEW t \in tasks, Arrive(t) PROVE HashInv'
    <2>0. t \in Task /\ t.page \in Pages
      BY DEF TypeOK, Task
    <2>1. PICK u : /\ tasks' = (tasks \ {t}) \cup {u} /\ u.page = t.page
                   /\ u.step = "taken" /\ u.text = t.text
      BY <1>5, <2>0, TaskIsTaken DEF Arrive
    <2>2. /\ last'[t.page] = t.text /\ \A p \in Pages \ {t.page} : last'[p] = last[p]
          /\ UNCHANGED <<up, hashes, file, late, failed, overlapped>>
      BY <1>5, <2>0 DEF Arrive, Arrival, Sent, TypeOK
    <2>3. t.page \in Steady => \A v \in tasks \ {t} : v.page # t.page
      BY DEF HashInv, OneTask
    <2>4. Steady' = Steady /\ up
      BY <2>2 DEF Steady, HashInv, FileIsLast
    <2>5. \A v \in tasks : v.page \in Pages
      BY DEF TypeOK, Task
    <2>6. OneTask'
      BY <2>1, <2>3, <2>4 DEF HashInv, OneTask
    <2>7. TakenIsLast'
      BY <2>1, <2>2, <2>3, <2>4, <2>5 DEF HashInv, TakenIsLast
    <2>8. HashIsLast'
      BY <1>0, <2>1, <2>2, <2>3, <2>4 DEF HashInv, HashIsLast
    <2> QED BY <2>2, <2>4, <2>6, <2>7, <2>8 DEF HashInv, LateIsFailed, FileIsLast
  <1>6. ASSUME NEW t \in tasks, Emitted(t) PROVE HashInv'
    <2>0. t \in Task /\ t.page \in Pages
      BY DEF TypeOK, Task
    <2>1. /\ tasks' = tasks \ {t} /\ up /\ UNCHANGED <<up, file, last, overlapped>>
          /\ hashes'[t.page] = t.text /\ \A p \in Pages \ {t.page} : hashes'[p] = hashes[p]
      BY <1>6, <2>0 DEF Emitted, RecordHash, TypeOK
    <2>2. \/ t.step = "taken" /\ UNCHANGED <<late, failed>>
          \/ t.page \in failed' /\ late' \subseteq late \cup {Sent(t)}
      BY <1>6 DEF Emitted
    <2>3. OneTask' /\ TakenIsLast'
      BY <1>0, <2>1 DEF HashInv, OneTask, TakenIsLast
    <2>4. LateIsFailed'
      BY <1>6, <2>2 DEF HashInv, LateIsFailed, Sent, Emitted
    <2>5. HashIsLast'
      <3>1. ASSUME NEW p \in Steady' \ {t.page}
            PROVE  \/ hashes'[p] \in {NoText, last'[p]}
                   \/ \E v \in tasks' : v.page = p /\ v.step = "taken"
        BY <1>0, <2>1 DEF HashInv, HashIsLast
      <3>2. t.page \in Steady' => hashes'[t.page] = last'[t.page]
        BY <1>0, <2>1, <2>2 DEF HashInv, TakenIsLast, Steady
      <3> QED BY <3>1, <3>2 DEF HashIsLast
    <2> QED BY <2>1, <2>3, <2>4, <2>5 DEF HashInv, FileIsLast
  <1>7. ASSUME NEW p \in Pages, TriggerUrl(p) PROVE HashInv'
    <2>1. OneTask' /\ TakenIsLast'
      <3>1. CASE crawled >= HardLimit
        BY <1>7, <3>1 DEF TriggerUrl, HashInv, OneTask, TakenIsLast, Steady
      <3>2. CASE ~(crawled >= HardLimit)
        BY <1>7, <3>2, NewTask DEF TriggerUrl
      <3> QED BY <3>1, <3>2
    <2>2. tasks \subseteq tasks' /\ up /\ UNCHANGED <<up, last, late, failed>>
      BY <1>7 DEF TriggerUrl
    <2>3. \A q \in Pages : hashes'[q] \in {NoText, hashes[q]}
      BY <1>7 DEF TriggerUrl, TypeOK
    <2> QED BY <1>0, <2>1, <2>2, <2>3 DEF HashInv, HashIsLast, LateIsFailed, FileIsLast
  <1>8. CASE TriggerDomain
    BY <1>0, <1>8 DEF TriggerDomain, HashInv, OneTask, TakenIsLast, HashIsLast,
           LateIsFailed, FileIsLast, Steady
  <1>9. ASSUME NEW p \in Pages, Edit(p) PROVE HashInv'
    BY <1>0, <1>9 DEF Edit, HashInv, OneTask, TakenIsLast, HashIsLast,
           LateIsFailed, FileIsLast, Steady
  <1>10. CASE Halt
    <2>1. tasks' = {} /\ ~up' /\ UNCHANGED last
      BY <1>10 DEF Halt
    <2>2. OneTask' /\ TakenIsLast'
      BY <2>1 DEF OneTask, TakenIsLast
    <2>3. LateIsFailed'
      BY <1>10 DEF Halt, HashInv, LateIsFailed, Sent
    <2>4. \A p \in Pages : hashes'[p] = NoText
      BY <1>10 DEF Halt, NoHashes
    <2>5. \A p \in Steady' : hashes[p] \in {NoText, last[p]} /\ hashes[p] = file[p]
      <3>1. ASSUME NEW p \in Steady' PROVE hashes[p] = file[p]
        BY <1>0, <1>10, <3>1 DEF Halt, Steady
      <3>2. ASSUME NEW p \in Steady', NEW t \in tasks, t.page = p, t.step = "taken"
            PROVE  FALSE
        BY <1>10, <3>2 DEF Halt, Steady
      <3> QED BY <1>0, <3>1, <3>2 DEF HashInv, HashIsLast
    <2>6. \A p \in Pages : file'[p] \in {NoText, file[p]}
      BY <1>10 DEF Halt, NoHashes
    <2> QED BY <1>0, <2>1, <2>2, <2>3, <2>4, <2>5, <2>6 DEF HashInv, HashIsLast, FileIsLast
  <1>11. CASE Start
    BY <1>0, <1>11 DEF Start, HashInv, OneTask, TakenIsLast, HashIsLast, LateIsFailed,
           FileIsLast, Steady
  <1>12. ASSUME NEW d \in late, ArriveLate(d) PROVE HashInv'
    <2>1. d.page \in failed /\ d.page \in Pages
      BY DEF HashInv, LateIsFailed, TypeOK, Content
    <2>2. /\ \A p \in Steady : last'[p] = last[p]
          /\ UNCHANGED <<up, hashes, file, tasks, failed, overlapped>> /\ late' \subseteq late
      BY <1>12, <2>1 DEF ArriveLate, Arrival, TypeOK, Steady
    <2> QED BY <1>0, <2>2 DEF HashInv, OneTask, TakenIsLast, HashIsLast, LateIsFailed,
           FileIsLast, Steady
  <1>13. CASE UNCHANGED vars
    BY <1>0, <1>13 DEF vars, HashInv, OneTask, TakenIsLast, HashIsLast, LateIsFailed,
           FileIsLast, Steady
  <1> QED
    BY <1>1, <1>2, <1>3, <1>4, <1>5, <1>6, <1>7, <1>8, <1>9, <1>10, <1>11, <1>12, <1>13
    DEF Next, Step

-----------------------------------------------------------------------------
(* A batch has room for all its pages.                                     *)
LEMMA BatchHasRoom ==
    ASSUME TypeOK, crawled <= MaxPages, NEW B \in Batches(queue)
    PROVE  IsFiniteSet(B) /\ Cardinality(B) \in Nat /\ crawled + Cardinality(B) <= MaxPages
  <1> DEFINE urls == IF queue = {} THEN {Home} ELSE queue
  <1>1. B \subseteq urls /\ Cardinality(B) = BatchSize(Cardinality(urls))
    BY DEF Batches
  <1>2. urls \subseteq Pages
    BY WebsiteAssumption DEF TypeOK
  <1>3. IsFiniteSet(B) /\ IsFiniteSet(urls)
    BY <1>1, <1>2, FS_Subset, WebsiteAssumption
  <1>4. Cardinality(urls) \in Nat /\ Cardinality(B) \in Nat
    BY <1>3, FS_CardinalityType
  <1>5. BatchSize(Cardinality(urls)) <= MaxPages - crawled
    BY <1>4, WebsiteAssumption DEF BatchSize, TypeOK
  <1> QED BY <1>1, <1>3, <1>4, <1>5, WebsiteAssumption DEF TypeOK

(* A task in the place of another one makes no more of them.               *)
LEMMA TaskReplaced ==
    ASSUME NEW T, IsFiniteSet(T), NEW t \in T, NEW u
    PROVE  /\ IsFiniteSet(T \ {t}) /\ IsFiniteSet((T \ {t}) \cup {u})
           /\ Cardinality(T \ {t}) \in Nat /\ Cardinality((T \ {t}) \cup {u}) \in Nat
           /\ Cardinality(T \ {t}) <= Cardinality(T)
           /\ Cardinality((T \ {t}) \cup {u}) <= Cardinality(T)
  <1>1. IsFiniteSet(T \ {t}) /\ Cardinality(T \ {t}) = Cardinality(T) - 1
    BY FS_RemoveElement
  <1>2. IsFiniteSet((T \ {t}) \cup {u})
        /\ Cardinality((T \ {t}) \cup {u}) =
             IF u \in T \ {t} THEN Cardinality(T \ {t}) ELSE Cardinality(T \ {t}) + 1
    BY <1>1, FS_AddElement
  <1>3. Cardinality(T) \in Nat /\ Cardinality(T \ {t}) \in Nat
        /\ Cardinality((T \ {t}) \cup {u}) \in Nat
    BY <1>1, <1>2, FS_CardinalityType
  <1> QED BY <1>1, <1>2, <1>3

(* No step lets a crawl, until a first trigger, have more than its room.   *)
LEMMA BatchStep == TypeOK /\ CrawlsFit /\ BatchFits /\ [Next]_vars => BatchFits'
  <1> SUFFICES ASSUME TypeOK, CrawlsFit, BatchFits, [Next]_vars, triggers' = 0
               PROVE  /\ ~crawls'["domain"].running
                      /\ \A t \in tasks' : t.by = "monitor"
                      /\ IsFiniteSet(tasks')
                      /\ crawled' + Cardinality(tasks') + Cardinality(crawls'["monitor"].todo)
                           <= MaxPages
    BY DEF BatchFits
  <1> DEFINE todo == crawls["monitor"].todo
             Goal == /\ ~crawls'["domain"].running
                     /\ \A t \in tasks' : t.by = "monitor"
                     /\ IsFiniteSet(tasks')
                     /\ crawled' + Cardinality(tasks') + Cardinality(crawls'["monitor"].todo)
                          <= MaxPages
  <1> USE WebsiteAssumption
  <1>0. \/ triggers' = triggers
        \/ triggers' = triggers + 1 /\ TriggerDomain
        \/ triggers' = triggers + 1 /\ \E p \in Pages : TriggerUrl(p)
    BY DEF Next, Step, CrawlBegins, CrawlEnds, PageBegins, Fetched, Arrive, Emitted, Edit,
           Halt, Start, ArriveLate, TriggerDomain, TriggerUrl, vars
  <1>1. triggers' = triggers /\ triggers = 0
    BY <1>0 DEF TypeOK
  <1>2. /\ ~crawls["domain"].running /\ crawls["domain"].todo = {}
        /\ \A t \in tasks : t.by = "monitor"
        /\ IsFiniteSet(tasks) /\ Cardinality(tasks) \in Nat
        /\ crawled + Cardinality(tasks) + Cardinality(todo) <= MaxPages
        /\ IsFiniteSet(todo) /\ Cardinality(todo) \in Nat
        /\ crawled \in Nat /\ "monitor" # "domain" /\ {"monitor", "domain"} = Crawlers
    <2>1. todo \subseteq Pages
      BY DEF TypeOK, Crawlers
    <2> QED BY <1>1, <2>1, FS_CardinalityType, FS_Subset DEF BatchFits, CrawlsFit, Crawlers, TypeOK
  <1>3. Cardinality({}) = 0 /\ IsFiniteSet({})
    BY FS_EmptySet
  <1>4. CASE CrawlBegins
    <2>1. PICK B \in Batches(queue) : crawls' = [crawls EXCEPT !["monitor"] = Crawling(B)]
      BY <1>4 DEF CrawlBegins
    <2>2. crawls'["monitor"].todo = B /\ crawls'["domain"] = crawls["domain"]
      BY <1>2, <2>1 DEF Crawling, TypeOK
    <2>3. tasks = {} /\ UNCHANGED <<tasks, crawled>>
      BY <1>2, <1>4 DEF CrawlBegins, TypeOK
    <2> QED BY <1>2, <1>3, <2>2, <2>3, BatchHasRoom
  <1>5. ASSUME NEW c \in Crawlers, CrawlEnds(c) PROVE Goal
    <2>1. /\ crawls'[c] = Idle /\ \A e \in Crawlers \ {c} : crawls'[e] = crawls[e]
          /\ UNCHANGED <<tasks, crawled>> /\ crawls[c].todo = {}
      <3>1. crawls' = [crawls EXCEPT ![c] = Idle] /\ crawls[c].todo = {}
            /\ UNCHANGED <<tasks, crawled>>
        BY <1>5 DEF CrawlEnds, CrawlIsOver
      <3> QED BY <3>1 DEF TypeOK
    <2>2. ~crawls'["domain"].running /\ crawls'["monitor"].todo = todo
      <3>1. Idle.running = FALSE /\ Idle.todo = {}
        BY DEF Idle
      <3>2. CASE c = "monitor"
        BY <1>2, <2>1, <3>1, <3>2
      <3>3. CASE c = "domain"
        BY <1>2, <2>1, <3>1, <3>3
      <3> QED BY <1>2, <3>2, <3>3
    <2> QED BY <1>2, <2>1, <2>2
  <1>6. ASSUME NEW c \in Crawlers, NEW p \in Pages, PageBegins(c, p) PROVE Goal
    <2>1. c = "monitor" /\ p \in todo /\ crawled' = crawled
      BY <1>2, <1>6 DEF PageBegins
    <2>2. /\ crawls'["domain"] = crawls["domain"]
          /\ crawls'["monitor"].todo = todo \ {p}
      BY <1>2, <1>6, <2>1 DEF PageBegins, TypeOK
    <2>3. Cardinality(todo \ {p}) = Cardinality(todo) - 1
      BY <1>2, <2>1, FS_RemoveElement, ZenonT(30)
    <2>4. tasks' = tasks \/ tasks' = tasks \cup {Fetching(p, "monitor")}
      BY <1>6, <2>1 DEF PageBegins
    <2>5. /\ IsFiniteSet(tasks')
          /\ Cardinality(tasks') \in {Cardinality(tasks), Cardinality(tasks) + 1}
      BY <1>2, <2>4, FS_AddElement
    <2>6. \A t \in tasks' : t.by = "monitor"
      BY <1>2, <2>4 DEF Fetching
    <2> QED BY <1>2, <2>1, <2>2, <2>3, <2>5, <2>6
  <1>7. ASSUME NEW t \in tasks, Fetched(t) PROVE Goal
    <2>1. /\ crawls'["domain"].running = crawls["domain"].running
          /\ crawls'["monitor"].todo = todo
          /\ \/ tasks' = tasks \ {t}
             \/ \E u \in Task : tasks' = (tasks \ {t}) \cup {u} /\ u.by = t.by
      BY <1>2, <1>7, FetchedEffect
    <2>2. IsFiniteSet(tasks') /\ Cardinality(tasks') \in Nat
          /\ Cardinality(tasks') <= Cardinality(tasks)
      <3>1. PICK u : tasks' \in {tasks \ {t}, (tasks \ {t}) \cup {u}}
        BY <2>1
      <3>2. /\ IsFiniteSet(tasks \ {t}) /\ IsFiniteSet((tasks \ {t}) \cup {u})
            /\ Cardinality(tasks \ {t}) \in Nat /\ Cardinality((tasks \ {t}) \cup {u}) \in Nat
            /\ Cardinality(tasks \ {t}) <= Cardinality(tasks)
            /\ Cardinality((tasks \ {t}) \cup {u}) <= Cardinality(tasks)
        BY <1>2, TaskReplaced
      <3> QED BY <3>1, <3>2
    <2>3. crawled' = crawled /\ \A u \in tasks' : u.by = "monitor"
      BY <1>2, <1>7, <2>1 DEF Fetched
    <2> QED BY <1>2, <2>1, <2>2, <2>3
  <1>8. ASSUME NEW t \in tasks, Arrive(t) PROVE Goal
    <2>0. t \in Task
      BY DEF TypeOK
    <2>1. \E u : tasks' = (tasks \ {t}) \cup {u} /\ u.by = t.by
      BY <1>8, <2>0, TaskIsTaken DEF Arrive
    <2>2. IsFiniteSet(tasks') /\ Cardinality(tasks') \in Nat
          /\ Cardinality(tasks') <= Cardinality(tasks)
      <3>1. PICK u : tasks' \in {tasks \ {t}, (tasks \ {t}) \cup {u}}
        BY <2>1
      <3>2. /\ IsFiniteSet(tasks \ {t}) /\ IsFiniteSet((tasks \ {t}) \cup {u})
            /\ Cardinality(tasks \ {t}) \in Nat /\ Cardinality((tasks \ {t}) \cup {u}) \in Nat
            /\ Cardinality(tasks \ {t}) <= Cardinality(tasks)
            /\ Cardinality((tasks \ {t}) \cup {u}) <= Cardinality(tasks)
        BY <1>2, TaskReplaced
      <3> QED BY <3>1, <3>2
    <2>3. crawled' = crawled /\ crawls' = crawls /\ \A u \in tasks' : u.by = "monitor"
      BY <1>2, <1>8, <2>1 DEF Arrive
    <2> QED BY <1>2, <2>2, <2>3
  <1>9. ASSUME NEW t \in tasks, Emitted(t) PROVE Goal
    <2>1. t \in Task /\ t.links \in SUBSET Pages
      BY DEF TypeOK, Task
    <2>2. /\ tasks' = tasks \ {t} /\ crawled' = crawled + 1
          /\ crawls'["domain"].running = crawls["domain"].running
          /\ crawls'["monitor"].todo = todo
      BY <1>2, <1>9, <2>1, DiscoverEffect DEF Emitted
    <2>3. IsFiniteSet(tasks') /\ Cardinality(tasks') = Cardinality(tasks) - 1
      BY <1>2, <2>2, FS_RemoveElement
    <2> QED BY <1>2, <2>2, <2>3
  <1>10. CASE Halt
    <2>1. tasks' = {} /\ crawled' = 0 /\ crawls'["monitor"] = Idle /\ crawls'["domain"] = Idle
      BY <1>2, <1>10 DEF Halt
    <2> QED BY <1>2, <1>3, <2>1 DEF Idle
  <1>11. CASE Start
    BY <1>2, <1>11 DEF Start
  <1>12. CASE \/ \E p \in Pages : Edit(p)
              \/ \E d \in late : ArriveLate(d)
              \/ UNCHANGED vars
    BY <1>2, <1>12 DEF Edit, ArriveLate, vars
  <1>13. ~TriggerDomain /\ \A p \in Pages : ~TriggerUrl(p)
    BY <1>1 DEF TriggerDomain, TriggerUrl
  <1> QED
    BY <1>4, <1>5, <1>6, <1>7, <1>8, <1>9, <1>10, <1>11, <1>12, <1>13
    DEF Next, Step

-----------------------------------------------------------------------------
(* It holds before the first crawl.                                        *)
LEMMA InitInvariant == Init => IInv
  <1> SUFFICES ASSUME Init PROVE IInv
    OBVIOUS
  <1> USE SiteTypes, WebsiteAssumption DEF Init
  <1>1. [p \in Pages |-> 1] \in [Pages -> Version]
    <2>1. MaxVersion[Home] \in Nat \ {0} /\ Home \in Pages
      OBVIOUS
    <2>2. 1 \in 1..MaxVersion[Home]
      BY <2>1
    <2>3. 1 \in Version
      BY <2>1, <2>2 DEF Version
    <2> QED BY <2>3
  <1>2. TypeOK
    <2>1. /\ site \in [Pages -> Version] /\ queue \subseteq Pages /\ tasks \subseteq Task
          /\ crawls \in [Crawlers -> [running : BOOLEAN, batch : SUBSET Pages,
                                     todo : SUBSET Pages, found : SUBSET Pages]]
          /\ late \subseteq Content /\ failed \subseteq Pages /\ overlapped \subseteq Pages
      BY <1>1
    <2>2. /\ hashes \in [Pages -> Text \cup {NoText}] /\ file \in [Pages -> Text \cup {NoText}]
          /\ last \in [Pages -> Text \cup {NoText}]
      OBVIOUS
    <2>3. /\ up \in BOOLEAN /\ browser \in BOOLEAN /\ crawled \in Nat
          /\ \A t \in tasks : t.by \in Crawlers => crawls[t.by].running
      OBVIOUS
    <2>4. triggers \in 0..MaxTriggers /\ halts \in 0..MaxHalts /\ failures \in 0..MaxFailures
      <3>1. \A n \in Nat : 0 \in 0..n
        OBVIOUS
      <3> QED BY <3>1
    <2> QED BY <2>1, <2>2, <2>3, <2>4 DEF TypeOK
  <1>3. CrawlsFit
    BY DEF CrawlsFit, Idle
  <1>4. HashInv
    <2>1. OneTask /\ TakenIsLast /\ LateIsFailed
      BY DEF OneTask, TakenIsLast, LateIsFailed
    <2>2. \A p \in Steady : hashes[p] = NoText /\ file[p] = NoText
      BY DEF Steady
    <2> QED BY <2>1, <2>2 DEF HashInv, HashIsLast, FileIsLast
  <1>5. BatchFits
    <2>1. crawls["domain"] = Idle /\ crawls["monitor"] = Idle
      BY DEF Crawlers
    <2>2. ~Idle.running /\ Idle.todo = {}
      BY DEF Idle
    <2>3. Cardinality({}) = 0 /\ IsFiniteSet({})
      BY FS_EmptySet
    <2>4. 0 + Cardinality({}) + Cardinality({}) <= MaxPages
      BY <2>3
    <2>5. /\ ~crawls["domain"].running /\ crawls["monitor"].todo = {}
          /\ tasks = {} /\ crawled = 0
      BY <2>1, <2>2
    <2>6. crawled + Cardinality(tasks) + Cardinality(crawls["monitor"].todo) <= MaxPages
      BY <2>4, <2>5, Zenon
    <2>7. IsFiniteSet(tasks) /\ \A t \in tasks : t.by = "monitor"
      BY <2>3, <2>5
    <2> QED BY <2>5, <2>6, <2>7, Zenon DEF BatchFits
  <1> QED BY <1>2, <1>3, <1>4, <1>5 DEF IInv

(* The invariants hold always: of the tasks, of the hashes and of the      *)
(* count of pages.                                                         *)
THEOREM WebsiteInvariant == Spec => []IInv
  <1>1. IInv /\ [Next]_vars => IInv'
    BY TypeStep, HashStep, BatchStep DEF IInv
  <1> QED BY <1>1, InitInvariant, PTL DEF Spec

(* process_page: the hash of a page on which nothing works is that of the  *)
(* text the coordinator received last, unless a request for it failed, two *)
(* tasks worked on it at a time, or the process ended before it was saved. *)
THEOREM RecordedHashIsLast == Spec => []RecordedIsLast
  <1>1. IInv => RecordedIsLast
    BY DEF IInv, HashInv, HashIsLast, RecordedIsLast, Steady
  <1> QED BY <1>1, WebsiteInvariant, PTL

(* crawl_website: until an operator triggers a crawl, no more than         *)
(* max_pages pages are sent, whatever the order in which tasks end.        *)
THEOREM CrawlKeepsLimit == Spec => []LimitWithoutTrigger
  <1>1. IInv => LimitWithoutTrigger
    <2> SUFFICES ASSUME IInv, triggers = 0 PROVE crawled <= MaxPages
      BY DEF LimitWithoutTrigger
    <2>1. crawls["monitor"].todo \subseteq Pages
      BY DEF IInv, TypeOK, Crawlers
    <2>2. Cardinality(tasks) \in Nat /\ Cardinality(crawls["monitor"].todo) \in Nat
      BY <2>1, FS_Subset, FS_CardinalityType, WebsiteAssumption DEF IInv, BatchFits
    <2> QED BY <2>2, WebsiteAssumption DEF IInv, BatchFits, TypeOK
  <1> QED BY <1>1, WebsiteInvariant, PTL

-----------------------------------------------------------------------------
(***************************************************************************)
(* Proofs of the safety properties of DiscordSensor, for any messages and  *)
(* any interleaving of the gateway's events with the collections and with  *)
(* the requests that arrive, fail or are given up.                         *)
(***************************************************************************)

(* What is read or sent was posted.                                        *)
OnlyPosted ==
    /\ \A r \in requests : shown[r.msg] # 0
    /\ \A c \in Collectors : \A d \in batch[c] : shown[d.msg] # 0

(* A process that has ended knows nothing and waits for no answer.         *)
DownIsQuiet ==
    /\ ready => connected
    /\ ~connected => processed = {} /\ \A r \in requests : r.state = "given up"

DiscordTypes == DiscordTypeOK /\ OnlyPosted /\ DownIsQuiet

(* The messages without an excuse.                                         *)
Clean == Messages \ (deleted \cup missed \cup refused \cup crossed)

(* Of these, what is under way is the current version, and the coordinator *)
(* has it once a request was taken, ...                                    *)
InFlightIsCurrent ==
    \A r \in requests : r.msg \in Clean =>
        /\ r.version = shown[r.msg] /\ r.kind # "FORGET" /\ r.state # "given up"
        /\ r.state = "taken" => held[MessageRid(r.msg)] = shown[r.msg]

(* ... so is what a collection has read and will send, ...                 *)
ReadIsCurrent ==
    \A c \in Collectors : \A d \in batch[c] :
        d.msg \in Clean \ processed => d.version = shown[d.msg]

(* ... and of a processed message the coordinator has it, or is sent it.   *)
ProcessedIsSent ==
    \A m \in processed \cap Clean :
        \/ held[MessageRid(m)] = shown[m]
        \/ \E r \in InFlight(m) : r.state = "open"

DiscordInv == DiscordTypes /\ InFlightIsCurrent /\ ReadIsCurrent /\ ProcessedIsSent

-----------------------------------------------------------------------------
(* A request that is taken or given up is the same otherwise.              *)
LEMMA StateChanges ==
    ASSUME NEW r \in Request, NEW x \in {"open", "taken", "given up"},
           NEW q, q = [r EXCEPT !.state = x]
    PROVE  /\ q \in Request /\ q.state = x
           /\ q.msg = r.msg /\ q.version = r.version /\ q.kind = r.kind
  BY DEF Request

(* The RIDs of two messages, and the two RIDs of one, are different.       *)
LEMMA RidsDiffer ==
    \A m, n \in Messages : /\ MessageRid(m) \in Rids /\ ForgetRid(m) \in Rids
                           /\ MessageRid(m) # ForgetRid(n)
                           /\ m # n => MessageRid(m) # MessageRid(n)
  BY DEF MessageRid, ForgetRid, Rids

(* A request is sent or fails at once, and crosses what else is under way. *)
LEMMA EmitEffect ==
    ASSUME DiscordTypeOK, NEW kind \in {"NEW", "UPDATE", "FORGET"}, NEW m \in Messages,
           NEW v \in Versions, NEW by \in Collectors \cup {"live"}, Emit(kind, m, v, by)
    PROVE  /\ crossed \subseteq crossed' /\ crossed' \subseteq crossed \cup {m}
           /\ Crosses(m, v) => m \in crossed'
           /\ \/ /\ UNCHANGED <<processed, refused>> /\ ready
                 /\ \E q \in Request : /\ requests' = requests \cup {q}
                                       /\ q.kind = kind /\ q.msg = m /\ q.version = v
                                       /\ q.state = "open"
              \/ /\ UNCHANGED requests
                 /\ refused' = refused \cup {m}
                 /\ processed \subseteq processed' /\ processed' \subseteq processed \cup {m}
  <1>1. /\ crossed \subseteq crossed' /\ crossed' \subseteq crossed \cup {m}
        /\ Crosses(m, v) => m \in crossed'
    BY DEF Emit
  <1>2. CASE ready
    <2> DEFINE q == [kind |-> kind, msg |-> m, version |-> v, by |-> by, state |-> "open"]
    <2>1. q \in Request
      BY DEF Request
    <2> QED BY <1>1, <1>2, <2>1 DEF Emit
  <1>3. CASE ~ready
    BY <1>1, <1>3 DEF Emit
  <1> QED BY <1>2, <1>3

(* An event is dispatched, or it is missed by a process that runs.         *)
LEMMA DispatchEffect ==
    ASSUME DiscordTypeOK, NEW kind \in {"NEW", "UPDATE", "FORGET"}, NEW m \in Messages,
           NEW v \in Versions, Dispatch(kind, m, v)
    PROVE  /\ crossed \subseteq crossed' /\ crossed' \subseteq crossed \cup {m}
           /\ missed \subseteq missed' /\ missed' \subseteq missed \cup {m}
           /\ refused \subseteq refused' /\ refused' \subseteq refused \cup {m}
           /\ errors' \in 0..MaxErrors
           /\ Crosses(m, v) => m \in crossed'
           /\ \/ /\ UNCHANGED processed /\ connected
                 /\ \E q \in Request : /\ requests' = requests \cup {q}
                                       /\ q.kind = kind /\ q.msg = m /\ q.version = v
                                       /\ q.state = "open"
              \/ /\ UNCHANGED requests /\ m \in refused' /\ connected
                 /\ processed \subseteq processed' /\ processed' \subseteq processed \cup {m}
              \/ UNCHANGED <<requests, processed>> /\ (connected => m \in missed')
  <1>1. CASE connected /\ Emit(kind, m, v, "live") /\ UNCHANGED <<missed, errors>>
    <2>1. errors' \in 0..MaxErrors
      BY <1>1 DEF DiscordTypeOK
    <2> QED BY <1>1, <2>1, EmitEffect
  <1>2. CASE /\ IF connected THEN /\ errors < MaxErrors /\ errors' = errors + 1
                                  /\ missed' = missed \cup {m}
                     ELSE UNCHANGED <<missed, errors>>
             /\ crossed' = IF Crosses(m, v) THEN crossed \cup {m} ELSE crossed
             /\ UNCHANGED <<requests, processed, refused>>
    <2>1. errors' \in 0..MaxErrors
      <3>1. \/ errors' = errors
            \/ errors < MaxErrors /\ errors' = errors + 1
        BY <1>2
      <3> QED BY <3>1, DiscordAssumption DEF DiscordTypeOK
    <2> QED BY <1>2, <2>1
  <1> QED BY <1>1, <1>2 DEF Dispatch

(* The three events of the channel as one.                                 *)
LEMMA EventEffect ==
    ASSUME DiscordTypes, NEW m \in Messages,
           OnMessage(m) \/ OnMessageEdit(m) \/ OnMessageDelete(m)
    PROVE  /\ shown' \in [Messages -> Versions \cup {0}] /\ shown'[m] \in Versions
           /\ \A n \in Messages : n # m => shown'[n] = shown[n]
           /\ \/ m \notin processed /\ shown[m] = 0 /\ UNCHANGED deleted
              \/ shown'[m] # shown[m] /\ shown[m] # 0 /\ UNCHANGED deleted
              \/ shown'[m] = shown[m] /\ shown[m] # 0 /\ deleted' = deleted \cup {m}
           /\ \E kind \in {"NEW", "UPDATE", "FORGET"}, v \in Versions :
                /\ v = shown'[m] /\ Dispatch(kind, m, v)
                /\ kind = "FORGET" => m \in deleted'
           /\ UNCHANGED quiet
  <1> USE DiscordAssumption
  <1>1. CASE OnMessage(m)
    <2>1. 1 \in Versions
      BY DEF Versions
    <2>2. shown' = [shown EXCEPT ![m] = 1] /\ shown[m] = 0 /\ Dispatch("NEW", m, 1)
          /\ UNCHANGED <<deleted, quiet>>
      BY <1>1 DEF OnMessage
    <2>3. m \notin processed
      BY <2>2 DEF DiscordTypes, DiscordTypeOK, Posted
    <2>4. shown'[m] = 1 /\ \A n \in Messages : n # m => shown'[n] = shown[n]
      BY <2>2 DEF DiscordTypes, DiscordTypeOK
    <2>5. shown' \in [Messages -> Versions \cup {0}]
      BY <2>1, <2>2 DEF DiscordTypes, DiscordTypeOK
    <2> QED BY <2>1, <2>2, <2>3, <2>4, <2>5
  <1>2. CASE OnMessageEdit(m)
    <2>1. /\ shown[m] # 0 /\ shown[m] < LastVersion /\ shown' = [shown EXCEPT ![m] = @ + 1]
          /\ Dispatch("UPDATE", m, shown'[m]) /\ UNCHANGED <<deleted, quiet>>
      BY <1>2 DEF OnMessageEdit, Posted
    <2>2. shown[m] + 1 \in Versions /\ shown[m] + 1 # shown[m]
      BY <2>1 DEF DiscordTypes, DiscordTypeOK, Versions
    <2>3. shown'[m] = shown[m] + 1 /\ \A n \in Messages : n # m => shown'[n] = shown[n]
      BY <2>1 DEF DiscordTypes, DiscordTypeOK
    <2>4. shown' \in [Messages -> Versions \cup {0}]
      BY <2>1, <2>2 DEF DiscordTypes, DiscordTypeOK
    <2> QED BY <2>1, <2>2, <2>3, <2>4
  <1>3. CASE OnMessageDelete(m)
    BY <1>3 DEF OnMessageDelete, Posted, DiscordTypes, DiscordTypeOK
  <1> QED BY <1>1, <1>2, <1>3

-----------------------------------------------------------------------------
(* An event of the channel keeps the types.                                *)
LEMMA EventTypes ==
    ASSUME DiscordTypes, NEW m \in Messages,
           OnMessage(m) \/ OnMessageEdit(m) \/ OnMessageDelete(m)
    PROVE  DiscordTypes'
  <1>1. PICK kind \in {"NEW", "UPDATE", "FORGET"}, v \in Versions :
          v = shown'[m] /\ Dispatch(kind, m, v)
    BY EventEffect
  <1>2. /\ shown' \in [Messages -> Versions \cup {0}] /\ shown'[m] \in Versions
        /\ \A n \in Messages : n # m => shown'[n] = shown[n]
        /\ deleted' \subseteq deleted \cup {m}
        /\ UNCHANGED <<connected, ready, since, batch, held, stops>>
    BY EventEffect DEF quiet
  <1>3. \A n \in Messages : shown[n] # 0 => shown'[n] # 0
    BY <1>2, DiscordAssumption DEF Versions
  <1>4. shown'[m] # 0
    BY <1>2 DEF Versions
  <1>0. /\ crossed \subseteq crossed' /\ crossed' \subseteq crossed \cup {m}
        /\ missed \subseteq missed' /\ missed' \subseteq missed \cup {m}
        /\ refused \subseteq refused' /\ refused' \subseteq refused \cup {m}
        /\ errors' \in 0..MaxErrors
        /\ \/ /\ UNCHANGED processed /\ connected
              /\ \E q \in Request : requests' = requests \cup {q} /\ q.msg = m
           \/ /\ UNCHANGED requests /\ connected
              /\ processed \subseteq processed' /\ processed' \subseteq processed \cup {m}
           \/ UNCHANGED <<requests, processed>>
    <2>1. DiscordTypeOK
      BY DEF DiscordTypes
    <2>2. Dispatch(kind, m, v)
      BY <1>1
    <2> QED BY <2>1, <2>2, DispatchEffect
  <1>5. /\ missed' \cup refused' \cup crossed' \subseteq Messages
        /\ errors' \in 0..MaxErrors
        /\ processed' \subseteq processed \cup {m} /\ (~connected => processed' = processed)
    BY <1>0 DEF DiscordTypes, DiscordTypeOK
  <1>6. requests' \subseteq requests \cup {q \in Request : q.msg = m}
        /\ (~connected => requests' = requests)
    BY <1>0
  <1>7. processed' \subseteq Posted' /\ deleted' \subseteq Posted'
    BY <1>2, <1>3, <1>4, <1>5 DEF DiscordTypes, DiscordTypeOK, Posted
  <1>8. DiscordTypeOK'
    BY <1>2, <1>5, <1>6, <1>7 DEF DiscordTypes, DiscordTypeOK
  <1>9. OnlyPosted'
    <2>1. \A r \in requests : r.msg \in Messages
      BY DEF DiscordTypes, DiscordTypeOK, Request
    <2>2. \A c \in Collectors : \A d \in batch[c] : d.msg \in Messages
      BY DEF DiscordTypes, DiscordTypeOK, Doc
    <2> QED BY <1>2, <1>3, <1>4, <1>6, <2>1, <2>2 DEF DiscordTypes, OnlyPosted
  <1>10. DownIsQuiet'
    BY <1>2, <1>5, <1>6 DEF DiscordTypes, DownIsQuiet
  <1> QED BY <1>8, <1>9, <1>10 DEF DiscordTypes

(* What a collection reads.                                                *)
LEMMA HistoryTypes ==
    ASSUME DiscordTypes,
           NEW B, B = {[msg |-> m, version |-> shown[m]] : m \in History}
    PROVE  /\ B \in SUBSET Doc
           /\ \A d \in B : shown[d.msg] # 0 /\ d.version = shown[d.msg]
  <1>1. \A m \in History : m \in Messages /\ shown[m] \in Versions /\ shown[m] # 0
    BY DEF History, Recent, Posted, DiscordTypes, DiscordTypeOK
  <1> QED BY <1>1 DEF Doc

(* Dealing with a message that was read takes it off the batch.            *)
LEMMA HistoricalEffect ==
    ASSUME DiscordTypes, NEW c \in Collectors, ProcessHistorical(c)
    PROVE  \E d \in batch[c] :
             /\ d \in Doc /\ batch' \in [Collectors -> SUBSET Doc]
             /\ \A e \in Collectors : batch'[e] \subseteq batch[e]
             /\ \/ d.msg \in processed /\ UNCHANGED <<requests, processed, refused, crossed>>
                \/ d.msg \notin processed /\ Emit("NEW", d.msg, d.version, c)
  <1>1. PICK d \in batch[c] :
          /\ batch' = [batch EXCEPT ![c] = @ \ {d}]
          /\ IF d.msg \in processed THEN UNCHANGED <<requests, processed, refused, crossed>>
                                    ELSE Emit("NEW", d.msg, d.version, c)
    BY DEF ProcessHistorical
  <1> QED BY <1>1 DEF DiscordTypes, DiscordTypeOK

(* Every step keeps the types.                                             *)
LEMMA DiscordTypeStep == DiscordTypes /\ [DiscordNext]_discordVars => DiscordTypes'
  <1> SUFFICES ASSUME DiscordTypes, [DiscordNext]_discordVars PROVE DiscordTypes'
    OBVIOUS
  <1> USE DiscordAssumption
  <1>1. ASSUME NEW m \in Messages, OnMessage(m) \/ OnMessageEdit(m) \/ OnMessageDelete(m)
        PROVE  DiscordTypes'
    BY <1>1, EventTypes
  <1>2. ASSUME NEW c \in Collectors, CollectRecent(c) PROVE DiscordTypes'
    <2>1. errors' \in 0..MaxErrors
      <3>1. \/ errors' = errors
            \/ errors < MaxErrors /\ errors' = errors + 1
        BY <1>2 DEF CollectRecent
      <3> QED BY <3>1 DEF DiscordTypes, DiscordTypeOK
    <2>2. /\ batch' \in [Collectors -> SUBSET Doc]
          /\ \A e \in Collectors : \A d \in batch'[e] : shown[d.msg] # 0
      BY <1>2, HistoryTypes DEF CollectRecent, DiscordTypes, DiscordTypeOK, OnlyPosted
    <2>3. UNCHANGED <<connected, ready, channel, requests, processed, held, excuses, stops>>
      BY <1>2 DEF CollectRecent
    <2> QED BY <2>1, <2>2, <2>3
            DEF DiscordTypes, DiscordTypeOK, OnlyPosted, DownIsQuiet, channel, excuses, Posted
  <1>3. ASSUME NEW c \in Collectors, ProcessHistorical(c) PROVE DiscordTypes'
    <2>1. PICK d \in batch[c] :
             /\ d \in Doc /\ batch' \in [Collectors -> SUBSET Doc]
             /\ \A e \in Collectors : batch'[e] \subseteq batch[e]
             /\ \/ d.msg \in processed /\ UNCHANGED <<requests, processed, refused, crossed>>
                \/ d.msg \notin processed /\ Emit("NEW", d.msg, d.version, c)
      BY <1>3, HistoricalEffect
    <2>2. /\ d.msg \in Messages /\ d.version \in Versions /\ shown[d.msg] # 0
          /\ c \in Collectors \cup {"live"}
      BY <2>1 DEF Doc, DiscordTypes, OnlyPosted
    <2>3. /\ ready /\ UNCHANGED <<connected, ready, channel, held, missed, stops, errors>>
      BY <1>3 DEF ProcessHistorical
    <2>4. /\ requests' \subseteq requests \cup {q \in Request : q.msg = d.msg}
          /\ processed' \subseteq processed \cup {d.msg}
          /\ refused' \subseteq Messages /\ crossed' \subseteq Messages
      <3>1. CASE UNCHANGED <<requests, processed, refused, crossed>>
        BY <3>1 DEF DiscordTypes, DiscordTypeOK
      <3>2. CASE Emit("NEW", d.msg, d.version, c)
        <4>1. PICK m \in Messages, v \in Versions : m = d.msg /\ v = d.version
          BY <2>2
        <4>2. Emit("NEW", m, v, c)
          BY <3>2, <4>1, Zenon
        <4>3. /\ crossed' \subseteq crossed \cup {m} /\ refused' \subseteq refused \cup {m}
              /\ processed' \subseteq processed \cup {m}
              /\ requests' \subseteq requests \cup {q \in Request : q.msg = m}
          BY <2>2, <4>2, EmitEffect DEF DiscordTypes
        <4> QED BY <4>1, <4>3 DEF DiscordTypes, DiscordTypeOK
      <3> QED BY <2>1, <3>1, <3>2
    <2>5. DiscordTypeOK'
      BY <2>1, <2>2, <2>3, <2>4 DEF DiscordTypes, DiscordTypeOK, channel, Posted
    <2>6. OnlyPosted' /\ DownIsQuiet'
      BY <2>1, <2>2, <2>3, <2>4 DEF DiscordTypes, OnlyPosted, DownIsQuiet, channel
    <2> QED BY <2>5, <2>6 DEF DiscordTypes
  <1>4. ASSUME NEW r \in requests, Reaches(r) PROVE DiscordTypes'
    <2>0. r \in Request /\ r.msg \in Messages /\ r.version \in Versions
      BY DEF DiscordTypes, DiscordTypeOK, Request
    <2>1. PICK q : q = [r EXCEPT !.state = "taken"]
      OBVIOUS
    <2>2. q \in Request /\ q.msg = r.msg
      BY <2>0, <2>1, StateChanges
    <2>3. requests' \subseteq requests \cup {q} /\ (r.state = "given up" => requests' \subseteq requests)
      BY <1>4, <2>1 DEF Reaches
    <2>4. held' \in [Rids -> Versions \cup {0}]
      BY <1>4, <2>0, RidsDiffer DEF Reaches, DiscordTypes, DiscordTypeOK
    <2>5. UNCHANGED <<connected, ready, channel, batch, processed, excuses, stops, errors>>
      BY <1>4 DEF Reaches
    <2> QED BY <2>0, <2>2, <2>3, <2>4, <2>5
            DEF DiscordTypes, DiscordTypeOK, OnlyPosted, DownIsQuiet, channel, excuses, Posted
  <1>5. ASSUME NEW r \in requests, Answered(r) PROVE DiscordTypes'
    <2>0. r.msg \in Messages /\ shown[r.msg] # 0 /\ r.state # "given up"
      BY <1>5 DEF DiscordTypes, DiscordTypeOK, Request, OnlyPosted, Answered
    <2>1. /\ processed' \subseteq processed \cup {r.msg} /\ requests' \subseteq requests
          /\ UNCHANGED <<connected, ready, channel, batch, held, excuses, stops, errors>>
      BY <1>5 DEF Answered, MarkProcessed
    <2> QED BY <2>0, <2>1
            DEF DiscordTypes, DiscordTypeOK, OnlyPosted, DownIsQuiet, channel, excuses, Posted
  <1>6. ASSUME NEW r \in requests, GivenUp(r) PROVE DiscordTypes'
    <2>0. r \in Request /\ r.msg \in Messages /\ shown[r.msg] # 0 /\ r.state # "given up"
      BY <1>6 DEF DiscordTypes, DiscordTypeOK, Request, OnlyPosted, GivenUp
    <2>1. PICK q : q = [r EXCEPT !.state = "given up"]
      OBVIOUS
    <2>2. q \in Request /\ q.msg = r.msg
      BY <2>0, <2>1, StateChanges, ZenonT(30)
    <2>3. /\ requests' \subseteq requests \cup {q} /\ processed' \subseteq processed \cup {r.msg}
          /\ refused' = refused \cup {r.msg} /\ errors < MaxErrors /\ errors' = errors + 1
          /\ UNCHANGED <<connected, ready, channel, batch, held, missed, crossed, stops>>
      BY <1>6, <2>1 DEF GivenUp, MarkProcessed
    <2>4. errors' \in 0..MaxErrors
      BY <2>3 DEF DiscordTypes, DiscordTypeOK
    <2>5. DiscordTypeOK'
      BY <2>0, <2>2, <2>3, <2>4 DEF DiscordTypes, DiscordTypeOK, channel, Posted
    <2>6. OnlyPosted' /\ DownIsQuiet'
      BY <2>0, <2>2, <2>3 DEF DiscordTypes, OnlyPosted, DownIsQuiet, channel
    <2> QED BY <2>5, <2>6 DEF DiscordTypes
  <1>7. CASE AgeOut
    <2>1. since' \in Nat
      BY <1>7 DEF AgeOut, DiscordTypes, DiscordTypeOK
    <2> QED BY <1>7, <2>1 DEF AgeOut, DiscordTypes, DiscordTypeOK, OnlyPosted, DownIsQuiet, excuses, Posted
  <1>8. CASE Run \/ OnReady
    <2>1. /\ connected' = TRUE /\ ready' \in BOOLEAN
          /\ UNCHANGED <<channel, batch, requests, processed, held, excuses, stops, errors>>
      BY <1>8 DEF Run, OnReady, DiscordTypes, DiscordTypeOK
    <2> QED BY <2>1 DEF DiscordTypes, DiscordTypeOK, OnlyPosted, DownIsQuiet, channel, excuses, Posted
  <1>9. CASE Stops
    <2>1. \A q \in requests' : \E r \in requests : q = [r EXCEPT !.state = "given up"]
      BY <1>9 DEF Stops
    <2>2. \A q \in requests' : /\ q \in Request /\ q.state = "given up" /\ shown[q.msg] # 0
                               /\ q.msg \in Messages
      <3> TAKE q \in requests'
      <3>1. PICK r \in requests : q = [r EXCEPT !.state = "given up"]
        BY <2>1
      <3>2. r \in Request /\ shown[r.msg] # 0 /\ r.msg \in Messages
        BY DEF DiscordTypes, DiscordTypeOK, OnlyPosted, Request
      <3> QED BY <3>1, <3>2, StateChanges, ZenonT(30)
    <2>3. /\ connected' = FALSE /\ ready' = FALSE /\ batch' = [c \in Collectors |-> {}] /\ processed' = {}
          /\ missed' = {} /\ refused' = {} /\ crossed' = {r.msg : r \in requests'}
          /\ stops < MaxStops /\ stops' = stops + 1
          /\ UNCHANGED <<channel, held, errors>>
      BY <1>9 DEF Stops
    <2>4. stops' \in 0..MaxStops /\ batch' \in [Collectors -> SUBSET Doc]
          /\ crossed' \subseteq Messages
      <3>1. stops \in 0..MaxStops /\ MaxStops \in Nat
        BY DEF DiscordTypes, DiscordTypeOK
      <3>2. stops' \in 0..MaxStops
        BY <2>3, <3>1
      <3>3. crossed' \subseteq Messages
        BY <2>2, <2>3
      <3> QED BY <2>3, <3>2, <3>3
    <2>5. DiscordTypeOK'
      BY <2>2, <2>3, <2>4 DEF DiscordTypes, DiscordTypeOK, channel, Posted
    <2>6. OnlyPosted' /\ DownIsQuiet'
      BY <2>2, <2>3 DEF OnlyPosted, DownIsQuiet, channel
    <2> QED BY <2>5, <2>6 DEF DiscordTypes
  <1>10. CASE UNCHANGED discordVars
    BY <1>10 DEF discordVars, channel, excuses, DiscordTypes, DiscordTypeOK, OnlyPosted, DownIsQuiet, Posted
  <1> QED
    BY <1>1, <1>2, <1>3, <1>4, <1>5, <1>6, <1>7, <1>8, <1>9, <1>10 DEF DiscordNext

-----------------------------------------------------------------------------
(* An event with another version finds nothing under way of a message that *)
(* stays without excuse.                                                   *)
LEMMA EventStep ==
    ASSUME DiscordInv, NEW m \in Messages,
           OnMessage(m) \/ OnMessageEdit(m) \/ OnMessageDelete(m)
    PROVE  InFlightIsCurrent' /\ ReadIsCurrent' /\ ProcessedIsSent'
  <1>0. DiscordTypeOK /\ DiscordTypes
    BY DEF DiscordInv, DiscordTypes
  <1>1. PICK kind \in {"NEW", "UPDATE", "FORGET"}, v \in Versions :
          /\ v = shown'[m] /\ Dispatch(kind, m, v)
          /\ kind = "FORGET" => m \in deleted'
    BY <1>0, EventEffect
  <1>2. /\ \A n \in Messages : n # m => shown'[n] = shown[n]
        /\ shown'[m] # shown[m] \/ m \in deleted'
        /\ deleted \subseteq deleted' /\ deleted' \subseteq deleted \cup {m}
        /\ UNCHANGED <<connected, ready, since, batch, held, stops>>
    BY <1>0, <1>1, EventEffect DEF quiet, DiscordTypes, DiscordTypeOK, Versions
  <1>3. /\ crossed \subseteq crossed' /\ crossed' \subseteq crossed \cup {m}
        /\ missed \subseteq missed' /\ missed' \subseteq missed \cup {m}
        /\ refused \subseteq refused' /\ refused' \subseteq refused \cup {m}
        /\ Crosses(m, v) => m \in crossed'
        /\ \/ /\ UNCHANGED processed /\ connected
              /\ \E q \in Request : /\ requests' = requests \cup {q}
                                    /\ q.kind = kind /\ q.msg = m /\ q.version = v
                                    /\ q.state = "open"
           \/ /\ UNCHANGED requests /\ m \in refused' /\ connected
              /\ processed \subseteq processed' /\ processed' \subseteq processed \cup {m}
           \/ UNCHANGED <<requests, processed>> /\ (connected => m \in missed')
    BY <1>0, <1>1, DispatchEffect
  <1>4. Clean' \subseteq Clean
    BY <1>2, <1>3 DEF Clean
  <1>5. ASSUME m \in Clean'
        PROVE  /\ \A r \in requests : r.msg # m
               /\ m \notin processed => \A c \in Collectors : \A d \in batch[c] :
                                         d.msg = m => d.version = v
    <2>1. ~Crosses(m, v) /\ shown'[m] # shown[m]
      BY <1>2, <1>3, <1>5 DEF Clean
    <2>2. \A r \in requests : r.msg = m => r.version = v /\ r.version = shown[m]
      BY <1>4, <1>5, <2>1 DEF Crosses, InFlight, DiscordInv, InFlightIsCurrent
    <2> QED BY <1>1, <2>1, <2>2 DEF Crosses
  <1>6. \A r \in requests' : \/ r \in requests
                             \/ /\ r.kind = kind /\ r.msg = m /\ r.version = v
                                /\ r.state = "open"
    BY <1>3
  <1>7. requests \subseteq requests'
    BY <1>3
  <1>8. InFlightIsCurrent'
    <2> SUFFICES ASSUME NEW r \in requests', r.msg \in Clean'
                 PROVE  /\ r.version = shown'[r.msg] /\ r.kind # "FORGET" /\ r.state # "given up"
                        /\ r.state = "taken" => held'[MessageRid(r.msg)] = shown'[r.msg]
      BY DEF InFlightIsCurrent
    <2>1. CASE r.msg = m
      BY <1>1, <1>5, <1>6, <2>1 DEF Clean
    <2>2. CASE r.msg # m
      <3>1. r \in requests /\ shown'[r.msg] = shown[r.msg] /\ held' = held /\ r.msg \in Clean
        BY <1>2, <1>4, <1>6, <2>2 DEF Clean
      <3> QED BY <3>1 DEF DiscordInv, InFlightIsCurrent
    <2> QED BY <2>1, <2>2
  <1>9. ReadIsCurrent'
    <2> SUFFICES ASSUME NEW c \in Collectors, NEW d \in batch[c], d.msg \in Clean' \ processed'
                 PROVE  d.version = shown'[d.msg]
      BY <1>2 DEF ReadIsCurrent
    <2>1. d.msg \notin processed
      BY <1>3
    <2>2. CASE d.msg = m
      <3>1. m \in Clean'
        BY <2>2
      <3>2. d.version = v
        BY <1>5, <2>1, <2>2, <3>1
      <3> QED BY <1>1, <2>2, <3>2
    <2>3. CASE d.msg # m
      BY <1>2, <1>4, <2>1, <2>3 DEF DiscordInv, ReadIsCurrent, Clean
    <2> QED BY <2>2, <2>3
  <1>10. ProcessedIsSent'
    <2> SUFFICES ASSUME NEW n \in processed' \cap Clean'
                 PROVE  \/ held'[MessageRid(n)] = shown'[n]
                        \/ \E r \in requests' : r.msg = n /\ r.state = "open"
      BY DEF ProcessedIsSent, InFlight
    <2>1. CASE n = m
      <3>1. connected
        BY <1>3, <2>1 DEF DiscordInv, DiscordTypes, DownIsQuiet
      <3>2. m \notin refused' /\ m \notin missed'
        BY <2>1 DEF Clean
      <3> QED BY <1>3, <2>1, <3>1, <3>2
    <2>2. CASE n # m
      <3>1. n \in processed \cap Clean /\ n \in Messages
        BY <1>3, <1>4, <2>2 DEF Clean
      <3>2. \/ held[MessageRid(n)] = shown[n]
            \/ \E r \in requests : r.msg = n /\ r.state = "open"
        BY <3>1 DEF DiscordInv, ProcessedIsSent, InFlight
      <3> QED BY <1>2, <1>7, <2>2, <3>1, <3>2
    <2> QED BY <2>1, <2>2
  <1> QED BY <1>8, <1>9, <1>10

(* A message that a collection read is sent as it was read.                *)
LEMMA HistoricalStep ==
    ASSUME DiscordInv, NEW c \in Collectors, ProcessHistorical(c)
    PROVE  InFlightIsCurrent' /\ ReadIsCurrent' /\ ProcessedIsSent'
  <1>0. DiscordTypeOK /\ DiscordTypes
    BY DEF DiscordInv, DiscordTypes
  <1>1. PICK d \in batch[c] :
             /\ d \in Doc /\ batch' \in [Collectors -> SUBSET Doc]
             /\ \A e \in Collectors : batch'[e] \subseteq batch[e]
             /\ \/ d.msg \in processed /\ UNCHANGED <<requests, processed, refused, crossed>>
                \/ d.msg \notin processed /\ Emit("NEW", d.msg, d.version, c)
    BY <1>0, HistoricalEffect
  <1>2. UNCHANGED <<shown, deleted, held, missed>>
    BY DEF ProcessHistorical, channel
  <1>3. CASE UNCHANGED <<requests, processed, refused, crossed>>
    BY <1>1, <1>2, <1>3 DEF DiscordInv, InFlightIsCurrent, ReadIsCurrent, ProcessedIsSent,
                            InFlight, Clean
  <1>4. CASE d.msg \notin processed /\ Emit("NEW", d.msg, d.version, c)
    <2>1. PICK m \in Messages, v \in Versions : m = d.msg /\ v = d.version
      BY <1>1 DEF Doc
    <2>2. Emit("NEW", m, v, c)
      BY <1>4, <2>1, Zenon
    <2>3. /\ crossed \subseteq crossed' /\ crossed' \subseteq crossed \cup {m}
          /\ \/ /\ UNCHANGED <<processed, refused>>
                /\ \E q \in Request : /\ requests' = requests \cup {q}
                                      /\ q.kind = "NEW" /\ q.msg = m /\ q.version = v
                                      /\ q.state = "open"
             \/ /\ UNCHANGED requests
                /\ refused' = refused \cup {m}
                /\ processed \subseteq processed' /\ processed' \subseteq processed \cup {m}
      BY <1>0, <2>2, EmitEffect
    <2>4. Clean' \subseteq Clean /\ requests \subseteq requests'
      BY <1>2, <2>3 DEF Clean
    <2>5. m \in Clean' => v = shown[m] /\ m \notin refused'
      BY <1>4, <2>1, <2>4 DEF DiscordInv, ReadIsCurrent, Clean
    <2>6. InFlightIsCurrent'
      <3>1. \A r \in requests' : \/ r \in requests
                                 \/ /\ r.kind = "NEW" /\ r.msg = m /\ r.version = v
                                    /\ r.state = "open"
        BY <2>3
      <3> QED BY <1>2, <2>4, <2>5, <3>1 DEF DiscordInv, InFlightIsCurrent
    <2>7. ReadIsCurrent'
      BY <1>1, <1>2, <2>3, <2>4 DEF DiscordInv, ReadIsCurrent
    <2>8. ProcessedIsSent'
      <3>1. processed' \cap Clean' \subseteq processed \cap Clean
        BY <2>3, <2>4, <2>5
      <3> QED BY <1>2, <2>4, <3>1 DEF DiscordInv, ProcessedIsSent, InFlight
    <2> QED BY <2>6, <2>7, <2>8
  <1> QED BY <1>1, <1>3, <1>4

(* The coordinator keeps what came last.                                   *)
LEMMA ArriveStep ==
    ASSUME DiscordInv, NEW r \in requests, Reaches(r)
    PROVE  InFlightIsCurrent' /\ ReadIsCurrent' /\ ProcessedIsSent'
  <1>0. /\ r \in Request /\ r.msg \in Messages /\ held \in [Rids -> Versions \cup {0}]
        /\ \A q \in requests : q.msg \in Messages
    BY DEF DiscordInv, DiscordTypes, DiscordTypeOK, Request
  <1>1. PICK q : q = [r EXCEPT !.state = "taken"]
    OBVIOUS
  <1>2. q.state = "taken" /\ q.msg = r.msg /\ q.version = r.version /\ q.kind = r.kind
    BY <1>0, <1>1, StateChanges, ZenonT(30)
  <1>3. /\ requests' \subseteq requests \cup {q} /\ requests \ {r} \subseteq requests'
        /\ r.state = "open" \/ requests' \subseteq requests
        /\ UNCHANGED <<shown, deleted, batch, processed, missed, refused, crossed>>
    BY <1>1 DEF Reaches, channel, excuses
  <1>4. Clean' = Clean
    BY <1>3 DEF Clean
  <1>5. \A m \in Messages : m # r.msg => held'[MessageRid(m)] = held[MessageRid(m)]
    BY <1>0, RidsDiffer DEF Reaches
  <1>6. ASSUME r.msg \in Clean
        PROVE  held'[MessageRid(r.msg)] = shown[r.msg] /\ r.version = shown[r.msg]
               /\ r.kind # "FORGET"
    <2>1. r.version = shown[r.msg] /\ r.kind # "FORGET"
      BY <1>6 DEF DiscordInv, InFlightIsCurrent
    <2> QED BY <1>0, <2>1, RidsDiffer DEF Reaches
  <1>7. InFlightIsCurrent'
    <2> SUFFICES ASSUME NEW p \in requests', p.msg \in Clean
                 PROVE  /\ p.version = shown[p.msg] /\ p.kind # "FORGET" /\ p.state # "given up"
                        /\ p.state = "taken" => held'[MessageRid(p.msg)] = shown[p.msg]
      BY <1>3, <1>4 DEF InFlightIsCurrent
    <2>1. CASE p = q
      BY <1>2, <1>6, <2>1
    <2>2. CASE p # q
      <3>1. /\ p \in requests /\ p.version = shown[p.msg] /\ p.kind # "FORGET"
            /\ p.state # "given up" /\ p.msg \in Messages
            /\ p.state = "taken" => held[MessageRid(p.msg)] = shown[p.msg]
        BY <1>0, <1>3, <2>2 DEF DiscordInv, InFlightIsCurrent
      <3> QED BY <1>5, <1>6, <3>1
    <2> QED BY <2>1, <2>2
  <1>8. ReadIsCurrent'
    BY <1>3, <1>4 DEF DiscordInv, ReadIsCurrent
  <1>9. ProcessedIsSent'
    <2> SUFFICES ASSUME NEW m \in processed \cap Clean
                 PROVE  \/ held'[MessageRid(m)] = shown[m]
                        \/ \E p \in requests' : p.msg = m /\ p.state = "open"
      BY <1>3, <1>4 DEF ProcessedIsSent, InFlight
    <2>1. \/ held[MessageRid(m)] = shown[m]
          \/ \E p \in requests : p.msg = m /\ p.state = "open"
      BY DEF DiscordInv, ProcessedIsSent, InFlight
    <2>2. CASE m = r.msg
      BY <1>6, <2>2
    <2>3. CASE m # r.msg
      BY <1>3, <1>5, <2>1, <2>3 DEF Clean
    <2> QED BY <2>2, <2>3
  <1> QED BY <1>7, <1>8, <1>9

(* Every step keeps what is said of the requests and of what was read.     *)
LEMMA DiscordStep ==
    DiscordInv /\ [DiscordNext]_discordVars => InFlightIsCurrent' /\ ReadIsCurrent' /\ ProcessedIsSent'
  <1> DEFINE Goal == InFlightIsCurrent' /\ ReadIsCurrent' /\ ProcessedIsSent'
  <1> SUFFICES ASSUME DiscordInv, [DiscordNext]_discordVars PROVE Goal
    OBVIOUS
  <1>1. ASSUME NEW m \in Messages, OnMessage(m) \/ OnMessageEdit(m) \/ OnMessageDelete(m)
        PROVE  Goal
    BY <1>1, EventStep
  <1>2. ASSUME NEW c \in Collectors, CollectRecent(c) PROVE Goal
    <2>1. UNCHANGED <<shown, deleted, requests, processed, held, missed, refused, crossed>>
      BY <1>2 DEF CollectRecent, channel, excuses
    <2>2. /\ batch \in [Collectors -> SUBSET Doc]
          /\ \/ UNCHANGED batch
             \/ batch' = [batch EXCEPT ![c] = {[msg |-> m, version |-> shown[m]] : m \in History}]
      BY <1>2 DEF CollectRecent, DiscordInv, DiscordTypes, DiscordTypeOK
    <2>3. PICK B : B = {[msg |-> m, version |-> shown[m]] : m \in History}
      OBVIOUS
    <2>4. \A d \in B : d.version = shown[d.msg]
      BY <2>3, HistoryTypes DEF DiscordInv
    <2>5. \A e \in Collectors : batch'[e] = batch[e] \/ batch'[e] = B
      BY <2>2, <2>3
    <2> QED BY <2>1, <2>4, <2>5, ZenonT(30) DEF DiscordInv, InFlightIsCurrent, ReadIsCurrent,
            ProcessedIsSent, InFlight, Clean
  <1>3. ASSUME NEW c \in Collectors, ProcessHistorical(c) PROVE Goal
    BY <1>3, HistoricalStep
  <1>4. ASSUME NEW r \in requests, Reaches(r) PROVE Goal
    BY <1>4, ArriveStep
  <1>5. ASSUME NEW r \in requests, Answered(r) PROVE Goal
    <2>1. /\ r.state = "taken" /\ requests' = requests \ {r}
          /\ processed' \subseteq processed \cup {r.msg} /\ processed \subseteq processed'
          /\ UNCHANGED <<shown, deleted, batch, held, missed, refused, crossed>>
      BY <1>5 DEF Answered, MarkProcessed, channel, excuses
    <2>2. Clean' = Clean
      BY <2>1 DEF Clean
    <2>3. r.msg \in Clean => held[MessageRid(r.msg)] = shown[r.msg]
      BY <2>1 DEF DiscordInv, InFlightIsCurrent
    <2>4. InFlightIsCurrent' /\ ReadIsCurrent'
      BY <2>1, <2>2 DEF DiscordInv, InFlightIsCurrent, ReadIsCurrent
    <2>5. ProcessedIsSent'
      BY <2>1, <2>2, <2>3 DEF DiscordInv, ProcessedIsSent, InFlight
    <2> QED BY <2>4, <2>5
  <1>6. ASSUME NEW r \in requests, GivenUp(r) PROVE Goal
    <2>0. r \in Request
      BY DEF DiscordInv, DiscordTypes, DiscordTypeOK
    <2>1. PICK q : q = [r EXCEPT !.state = "given up"]
      OBVIOUS
    <2>2. q.msg = r.msg
      BY <2>0, <2>1, StateChanges
    <2>3. /\ requests' \subseteq requests \cup {q} /\ requests \ {r} \subseteq requests'
          /\ processed' \subseteq processed \cup {r.msg} /\ processed \subseteq processed'
          /\ refused' = refused \cup {r.msg}
          /\ UNCHANGED <<shown, deleted, batch, held, missed, crossed>>
      BY <1>6, <2>1 DEF GivenUp, MarkProcessed, channel
    <2>4. Clean' \subseteq Clean \ {r.msg}
      BY <2>3 DEF Clean
    <2>5. InFlightIsCurrent' /\ ReadIsCurrent'
      BY <2>2, <2>3, <2>4 DEF DiscordInv, InFlightIsCurrent, ReadIsCurrent
    <2>6. ProcessedIsSent'
      <3>1. processed' \cap Clean' \subseteq processed \cap Clean
        BY <2>3, <2>4
      <3>2. \A m \in Clean', p \in requests : p.msg = m => p \in requests'
        BY <2>3, <2>4
      <3> QED BY <2>3, <3>1, <3>2 DEF DiscordInv, ProcessedIsSent, InFlight
    <2> QED BY <2>5, <2>6
  <1>7. CASE AgeOut \/ Run \/ OnReady \/ UNCHANGED discordVars
    <2>1. UNCHANGED <<shown, deleted, batch, requests, processed, held, missed, refused, crossed>>
      BY <1>7 DEF AgeOut, Run, OnReady, discordVars, channel, excuses
    <2> QED BY <2>1 DEF DiscordInv, InFlightIsCurrent, ReadIsCurrent, ProcessedIsSent,
            InFlight, Clean
  <1>8. CASE Stops
    <2>1. /\ crossed' = {r.msg : r \in requests'} /\ processed' = {}
          /\ batch' = [c \in Collectors |-> {}]
      BY <1>8 DEF Stops
    <2> QED BY <2>1 DEF InFlightIsCurrent, ReadIsCurrent, ProcessedIsSent, Clean
  <1> QED
    BY <1>1, <1>2, <1>3, <1>4, <1>5, <1>6, <1>7, <1>8 DEF DiscordNext

-----------------------------------------------------------------------------
(* The invariant of the types, of what is under way and of what counts as  *)
(* processed holds always.                                                 *)
THEOREM DiscordInvariant == DiscordSpec => []DiscordInv
  <1>1. DiscordInit => DiscordInv
    <2> SUFFICES ASSUME DiscordInit PROVE DiscordInv
      OBVIOUS
    <2>1. DiscordTypeOK
      <3>1. /\ stops \in 0..MaxStops /\ errors \in 0..MaxErrors /\ since \in Nat
            /\ {connected, ready} \subseteq BOOLEAN
        <4>1. \A n \in Nat : 0 \in 0..n
          OBVIOUS
        <4>2. MaxStops \in Nat /\ MaxErrors \in Nat
          BY DiscordAssumption
        <4> QED BY <4>1, <4>2 DEF DiscordInit
      <3>2. /\ shown \in [Messages -> Versions \cup {0}] /\ held \in [Rids -> Versions \cup {0}]
            /\ batch \in [Collectors -> SUBSET Doc]
        BY DEF DiscordInit
      <3>3. /\ deleted \subseteq Posted /\ requests \subseteq Request /\ processed \subseteq Posted
            /\ missed \cup refused \cup crossed \subseteq Messages
        BY DEF DiscordInit
      <3> QED BY <3>1, <3>2, <3>3 DEF DiscordTypeOK
    <2>2. OnlyPosted /\ DownIsQuiet
      BY DEF DiscordInit, OnlyPosted, DownIsQuiet
    <2>3. InFlightIsCurrent /\ ReadIsCurrent /\ ProcessedIsSent
      BY DEF DiscordInit, InFlightIsCurrent, ReadIsCurrent, ProcessedIsSent
    <2> QED BY <2>1, <2>2, <2>3 DEF DiscordInv, DiscordTypes
  <1>2. DiscordInv /\ [DiscordNext]_discordVars => DiscordInv'
    BY DiscordTypeStep, DiscordStep DEF DiscordInv
  <1> QED BY <1>1, <1>2, PTL DEF DiscordSpec

(* process_message and on_message_edit: the coordinator has the current    *)
(* version of a message that counts as processed, in whatever order its    *)
(* events, the collections and the requests come, unless an event was      *)
(* missed, a request failed or two versions were under way at once.        *)
THEOREM CoordinatorIsCurrent == DiscordSpec => []HeldIsCurrent
  <1>1. DiscordInv => HeldIsCurrent
    <2> SUFFICES ASSUME DiscordInv,
                        NEW m \in processed \ (deleted \cup missed \cup refused \cup crossed),
                        InFlight(m) = {}
                 PROVE  held[MessageRid(m)] = shown[m]
      BY DEF HeldIsCurrent
    <2>1. m \in processed \cap Clean
      BY DEF DiscordInv, DiscordTypes, DiscordTypeOK, Posted, Clean
    <2> QED BY <2>1 DEF DiscordInv, ProcessedIsSent
  <1> QED BY <1>1, DiscordInvariant, PTL

=============================================================================
