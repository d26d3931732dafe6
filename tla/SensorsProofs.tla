---------------------------- MODULE SensorsProofs ----------------------------
(***************************************************************************)
(* Proofs of the safety properties of the polling sensors, for any source, *)
(* any of the sensors and any loss, delay or failure of its requests.      *)
(***************************************************************************)
EXTENDS Sensors, FiniteSetTheorems, WellFoundedInduction, TLAPS

(* The sensors that note the items they have sent, those that note the     *)
(* hash with the item, and those that look at hashes.                      *)
ByItem == {"rss", "newsletters", "mbox", "substack"}
Paired == {"medium"}

(* Items appear in their order.                                            *)
InOrder == \A i \in Visible, j \in Items : j < i => j \in Visible

(* A process waits for the answer to one request, and one that has ended   *)
(* or sleeps has nothing to deal with.                                     *)
PhaseFits ==
    /\ phase # "waiting" => asked = {} /\ ~answered
    /\ phase = "waiting" => \E e \in Doc \cup Listed : asked = {e}
    /\ phase \in {"down", "idle"} => docs = {}

(* What was collected is of different items, which the source shows.       *)
Known(d) == d.item \in Visible /\ d.version <= shown[d.item]

DocsFit ==
    /\ \A d \in docs \cup asked \cup late \cup arrived : Known(d)
    /\ \A d, e \in docs : d.item = e.item => d = e
    /\ \A d \in docs, e \in asked : d.item # e.item
    /\ sensor = "medium" => \A d \in docs : d.version = 0
    /\ sensor # "medium" => \A d \in docs : d.version # 0
    /\ \A d \in asked \cup late \cup arrived : d.version # 0

(* An answer is of a request that arrived; one that was given up counts as *)
(* failed or, when the process ended, as forgotten.                        *)
AnswersFit ==
    /\ answered => asked \subseteq arrived
    /\ late \subseteq failed \cup forgotten

(* No item is sent in a version older than one that was sent before.       *)
NoneOlder == sensor \notin ByItem =>
    \A d \in arrived \cup late :
        /\ \A e \in asked : d.item = e.item => d.version <= e.version
        /\ sensor # "medium" => \A e \in docs : d.item = e.item => d.version <= e.version

(* What the sensors keep in their state.                                   *)
Shaped(state) ==
    /\ sensor \in ByItem => \A i \in Items : state.hash[i] = 0
    /\ sensor \in Careless => state.done = {}
    /\ sensor \in Paired => \A i \in Items : i \in state.done <=> state.hash[i] # 0
    /\ state.mark # 0 => state.mark \in Visible

StatesFit == Shaped(memory) /\ Shaped(file)

(* RecordsOnlyWhatArrived, of a state in memory or in the file.            *)
Accounted(state, i) == i \in state.done \cup Unfit \cup missed \cup gone \/ HasFailed(i)

Truthful(state) == \A i \in Items :
    /\ state.hash[i] # 0 =>
         \/ Of(i, state.hash[i]) \in arrived
         \/ sensor \in Careless /\ Of(i, state.hash[i]) \in failed
    /\ i \in state.done => HasArrived(i)
    /\ i \in Visible /\ i <= state.mark => Accounted(state, i)

(* The newsletters deal with the messages of a folder in their order: what *)
(* comes before one of those still to send was sent or has failed.         *)
FolderInOrder == sensor = "newsletters" =>
    /\ \A d \in docs, e \in asked : e.item <= d.item
    /\ \A d \in docs \cup asked, i \in Visible :
         i < d.item => Accounted(memory, i) \/ \E e \in docs \cup asked : e.item = i

(* The state that counts: the one in memory, or the one it is read from.   *)
Kept == IF phase = "down" THEN file ELSE memory

(* What arrived is recorded, if it could be sent again.                    *)
Again(d) == sensor \in ByItem \/ d \in docs \/ d = Current(d.item)

ArrivedIsRecorded ==
    \A d \in arrived \ (failed \cup forgotten \cup asked) : Again(d) => Recorded(Kept, d)

(* What is sent was not sent before, or is excused.                        *)
SentOnce == ~answered => asked \cap arrived \subseteq failed \cup forgotten

SensorTypes == ProcessTypeOK /\ InOrder /\ PhaseFits
SensorInv ==
    /\ SensorTypes /\ DocsFit /\ AnswersFit /\ NoneOlder /\ StatesFit
    /\ Truthful(memory) /\ Truthful(file) /\ FolderInOrder
    /\ ArrivedIsRecorded /\ SentOnce /\ RepeatsAreExcused

-----------------------------------------------------------------------------
(* What the steps of all these sensors have in common.                     *)

\* What a cycle collects is what the source shows now; the newsletters leave out
\* what is below the watermark.
Fresh(D) ==
    /\ \A d \in D : d.item \in Visible /\ d.version = IF sensor = "medium" THEN 0
                                                       ELSE shown[d.item]
    /\ sensor = "newsletters" => D = {} \/
         \A i \in Offered : i > memory.mark => \E d \in D : d.item = i

Collects == \E D \in SUBSET (Doc \cup Listed) :
    /\ Collect(D) /\ Fresh(D)
    /\ taken' \subseteq Items /\ failed' = failed /\ failures' \in 0..MaxFailures
    /\ missed \subseteq missed' /\ missed' \subseteq Items

First(d) == sensor = "newsletters" => \A e \in docs : d.item <= e.item

\* A document is skipped: the newsletters pass it, or miss it if it cannot be
\* read.
Skips == \E d \in docs :
    /\ Skip(d) /\ First(d)
    /\ failed' = failed /\ failures' \in 0..MaxFailures
    /\ missed \subseteq missed' /\ missed' \subseteq missed \cup {d.item}
    /\ \/ memory' = memory /\ (sensor = "newsletters" => d.item \in missed')
       \/ /\ sensor = "newsletters" /\ d.item \in Unfit \cup memory.done
          /\ memory' = WithMark(memory, d.item)

\* What is sent is not recorded: the document that was collected, or what medium
\* has read of it.
Requests == \E d \in docs, e \in Doc \cup Listed :
    /\ Emit(d, e) /\ First(d) /\ ~Recorded(memory, e)
    /\ IF sensor = "medium" THEN e = Current(d.item) ELSE e = d

\* What is recorded of a request, whose outcome some sensors do not look at.
Noted(d, ok) ==
    IF sensor \in Careless THEN WithHash(d)
    ELSE IF sensor = "newsletters" THEN MarkAnyway(d, ok)
    ELSE IF ~ok THEN memory
    ELSE IF sensor \in Paired THEN Record(d) ELSE WithDone(d)

Answers == \E ok \in BOOLEAN, d \in asked :
    /\ sensor \in ByItem \cup Careless \cup Paired
    /\ Answer(ok) /\ memory' = Noted(d, ok) /\ file' \in {file, memory'}

Ends == (CycleEnds /\ file' \in {file, memory}) \/ ImportEnds

Steps == Collects \/ Skips \/ Requests \/ Answers \/ Ends

-----------------------------------------------------------------------------
(* Documents and their versions.                                           *)
LEMMA Versions == AllVersions \subseteq Nat \ {0}
  BY ProcessAssumption DEF AllVersions

(* A version within the bound of its item is a version.                    *)
LEMMA VersionOf == \A i \in Items : 1..MaxVersions[i] \subseteq AllVersions
  BY ProcessAssumption DEF AllVersions

(* A document is its item and its version.                                 *)
LEMMA Documents ==
    /\ \A d \in Doc \cup Listed : /\ d.item \in Items /\ d.version \in AllVersions \cup {0}
                                  /\ d.version \in Nat /\ d = Of(d.item, d.version)
    /\ \A i \in Items, v \in AllVersions \cup {0} :
         Of(i, v) \in Doc \cup Listed /\ Of(i, v).item = i /\ Of(i, v).version = v
<1>1. ASSUME NEW d \in Doc \cup Listed
      PROVE  /\ d.item \in Items /\ d.version \in AllVersions \cup {0}
             /\ d = Of(d.item, d.version)
  <2>1. CASE d \in Doc
    BY <2>1 DEF Doc, Of
  <2>2. CASE d \in Listed
    BY <2>2 DEF Listed, Of
  <2> QED
    BY <2>1, <2>2
<1>2. ASSUME NEW i \in Items, NEW v \in AllVersions \cup {0}
      PROVE  Of(i, v) \in Doc \cup Listed /\ Of(i, v).item = i /\ Of(i, v).version = v
  <2>1. CASE v \in AllVersions
    BY <2>1 DEF Doc, Of
  <2>2. CASE v = 0
    BY <2>2 DEF Listed, Of
  <2> QED
    BY <2>1, <2>2
<1>3. AllVersions \cup {0} \subseteq Nat
  BY Versions
<1> QED
  BY <1>1, <1>2, <1>3

(* The documents of what the source shows.                                 *)
LEMMA CurrentIs ==
    ASSUME ProcessTypeOK, NEW i \in Visible
    PROVE  /\ i \in Items /\ i \in Nat \ {0} /\ Current(i) \in Doc \cup Listed
           /\ shown[i] \in AllVersions /\ shown[i] \in Nat \ {0}
           /\ Current(i).item = i /\ Current(i).version = shown[i]
           /\ Of(i, 0) \in Doc \cup Listed /\ Of(i, 0).item = i /\ Of(i, 0).version = 0
  BY Documents, Versions, ProcessAssumption DEF ProcessTypeOK, Visible, Current

(* The fields of a state.                                                  *)
LEMMA Fields ==
    ASSUME NEW s \in State
    PROVE  /\ s.hash \in [Items -> AllVersions \cup {0}] /\ s.done \subseteq Items
           /\ s.mark \in Items \cup {0} /\ s.mark \in Nat
           /\ \A i \in Items : s.hash[i] \in Nat
<1>1. /\ s.hash \in [Items -> AllVersions \cup {0}] /\ s.done \subseteq Items
      /\ s.mark \in Items \cup {0}
  BY DEF State
<1>2. Items \cup {0} \subseteq Nat /\ AllVersions \cup {0} \subseteq Nat
  BY ProcessAssumption, Versions
<1> QED
  BY <1>1, <1>2

(* The updates of the state, field by field.                               *)
LEMMA HashUpdate ==
    ASSUME NEW s \in State, NEW i \in Items, NEW v \in AllVersions \cup {0},
           NEW u, u = [s EXCEPT !.hash[i] = v]
    PROVE  /\ u \in State /\ u.hash = [s.hash EXCEPT ![i] = v]
           /\ u.done = s.done /\ u.mark = s.mark
  BY DEF State

(* An item is added to those that are done.                                *)
LEMMA DoneUpdate ==
    ASSUME NEW s \in State, NEW i \in Items, NEW u, u = [s EXCEPT !.done = @ \cup {i}]
    PROVE  /\ u \in State /\ u.done = s.done \cup {i}
           /\ u.hash = s.hash /\ u.mark = s.mark
  BY DEF State

(* The watermark passes an item.                                           *)
LEMMA MarkUpdate ==
    ASSUME NEW s \in State, NEW i \in Items, NEW u, u = WithMark(s, i)
    PROVE  /\ u \in State /\ u.mark = IF i > s.mark THEN i ELSE s.mark
           /\ u.hash = s.hash /\ u.done = s.done
<1>1. PICK n : n = IF i > s.mark THEN i ELSE s.mark  OBVIOUS
<1>2. n \in Items \cup {0}
  BY <1>1, Fields
<1>3. u = [s EXCEPT !.mark = n]
  BY <1>1 DEF WithMark
<1> QED
  BY <1>1, <1>2, <1>3 DEF State

(* A state that is empty.                                                  *)
LEMMA Empty ==
    /\ EmptyState \in State /\ \A i \in Items : EmptyState.hash[i] = 0
    /\ EmptyState.done = {} /\ EmptyState.mark = 0
  BY DEF EmptyState, State

\* What the answer changes in the state.
Noting(m, d, ok) ==
    /\ m \in State
    /\ \A i \in Items : i # d.item => /\ m.hash[i] = memory.hash[i]
                                      /\ i \in m.done <=> i \in memory.done
    /\ m.hash[d.item] \in {memory.hash[d.item], d.version}
    /\ memory.done \subseteq m.done
    /\ sensor \in Careless => m.hash[d.item] = d.version /\ m.done = memory.done
    /\ sensor \notin Careless /\ ok => d.item \in m.done
    /\ sensor \notin Careless /\ ~ok => m.done = memory.done
    /\ sensor \in Paired /\ ok => m.hash[d.item] = d.version
    /\ sensor \in Paired /\ ~ok => m = memory
    /\ sensor \in ByItem => m.hash = memory.hash
    /\ m.mark = IF sensor = "newsletters" /\ d.item > memory.mark THEN d.item
                ELSE memory.mark

(* The record of an answer changes the state of its item only.             *)
LEMMA NotedIs ==
    ASSUME memory \in State, NEW d \in Doc \cup Listed, NEW ok \in BOOLEAN,
           NEW m, m = Noted(d, ok)
    PROVE  Noting(m, d, ok)
<1> USE DEF Noting
<1> DEFINE h == WithHash(d)  e == WithDone(d)  r == Record(d)
<1>1. d.item \in Items /\ d.version \in AllVersions \cup {0}
  BY Documents
<1>2. /\ h \in State /\ h.hash = [memory.hash EXCEPT ![d.item] = d.version]
      /\ h.done = memory.done /\ h.mark = memory.mark
  BY <1>1 DEF WithHash, State
<1>3. /\ e \in State /\ e.done = memory.done \cup {d.item}
      /\ e.hash = memory.hash /\ e.mark = memory.mark
  BY <1>1, DoneUpdate DEF WithDone
<1>4. /\ r \in State /\ r.done = h.done \cup {d.item}
      /\ r.hash = h.hash /\ r.mark = h.mark
  BY <1>1, <1>2, DoneUpdate DEF Record
<1>5. /\ memory.hash \in [Items -> AllVersions \cup {0}] /\ memory.done \subseteq Items
      /\ memory.mark \in Nat
  BY Fields
<1> HIDE DEF h, e, r
<1>6. CASE sensor \in Careless
  BY <1>1, <1>2, <1>5, <1>6 DEF Noted, Careless, ByItem, Paired, h
<1>8. CASE sensor = "newsletters"
  <2>1. PICK s : s = IF ok THEN e ELSE memory
    OBVIOUS
  <2>2. s \in State /\ m = WithMark(s, d.item)
    BY <1>3, <1>8, <2>1 DEF Noted, MarkAnyway, Careless, e
  <2>3. /\ m \in State /\ m.mark = IF d.item > s.mark THEN d.item ELSE s.mark
        /\ m.hash = s.hash /\ m.done = s.done
    BY <1>1, <2>2, MarkUpdate
  <2> QED
    BY <1>1, <1>3, <1>5, <1>8, <2>1, <2>3 DEF Careless, ByItem, Paired
<1>9. CASE sensor \in Paired
  BY <1>1, <1>2, <1>4, <1>5, <1>9 DEF Noted, Careless, ByItem, Paired, h, r
<1>10. CASE sensor \notin Careless \cup Paired \cup {"newsletters"}
  BY <1>1, <1>3, <1>5, <1>10 DEF Noted, Careless, ByItem, Paired, e
<1> QED
  BY <1>6, <1>8, <1>9, <1>10

-----------------------------------------------------------------------------
(* A reading that may fail.                                                *)
LEMMA Reading ==
    ASSUME ProcessTypeOK, NEW S \in SUBSET Items, NEW R, NEW L,
           ReadableBut(S, R, L)
    PROVE  /\ R \subseteq S /\ L \subseteq S /\ failed' = failed
           /\ failures' \in 0..MaxFailures
           /\ missed \subseteq missed' /\ missed' \subseteq Items
<1>1. failures \in 0..MaxFailures /\ MaxFailures \in Nat /\ missed \subseteq Items
  BY ProcessAssumption DEF ProcessTypeOK
<1> QED
  BY <1>1 DEF ReadableBut, ReadingFails, trouble

(* The documents of some of the items that the source shows are fresh.     *)
LEMMA FreshOf ==
    ASSUME ProcessTypeOK, NEW R \in SUBSET Visible, sensor # "medium",
           sensor = "newsletters" =>
             R = {} \/ \A i \in Offered : i > memory.mark => i \in R
    PROVE  /\ {Current(i) : i \in R} \in SUBSET (Doc \cup Listed)
           /\ Fresh({Current(i) : i \in R})
<1>1. \A i \in R : /\ i \in Visible /\ Current(i) \in Doc \cup Listed
                   /\ Current(i).item = i /\ Current(i).version = shown[i]
  BY CurrentIs
<1>2. PICK D : D = {Current(i) : i \in R}
  OBVIOUS
<1>3. /\ \A d \in D : \E i \in R : d = Current(i)
      /\ \A i \in R : Current(i) \in D
      /\ R = {} => D = {}
  BY <1>2
<1>4. D \in SUBSET (Doc \cup Listed)
  BY <1>1, <1>3
<1>5. \A d \in D : d.item \in R /\ d.version = shown[d.item]
  BY <1>1, <1>3
<1>6. R # {} => \A i \in R : \E d \in D : d.item = i
  BY <1>1, <1>3
<1>7. Fresh(D)
  BY <1>3, <1>5, <1>6, Zenon DEF Fresh
<1> QED
  BY <1>2, <1>4, <1>7

(* What a cycle collects: the documents of items that the source lists.    *)
LEMMA CollectOf ==
    ASSUME ProcessTypeOK, NEW R \in SUBSET Offered, sensor # "medium",
           sensor = "newsletters" =>
             R = {} \/ \A i \in Offered : i > memory.mark => i \in R,
           Collect({Current(i) : i \in R}),
           taken' \subseteq Items, failed' = failed, failures' \in 0..MaxFailures,
           missed \subseteq missed', missed' \subseteq Items
    PROVE  Collects
<1>1. R \in SUBSET Visible
  BY DEF Offered
<1> QED
  BY <1>1, FreshOf DEF Collects

(* The same, of items of which some could not be read.                     *)
LEMMA CollectSome ==
    ASSUME ProcessTypeOK, NEW S \in SUBSET Offered, NEW T, NEW R \in SUBSET Offered,
           T \subseteq S, Readable(S, T), sensor \notin {"medium", "newsletters"},
           Collect({Current(i) : i \in R}), taken' \subseteq Items
    PROVE  Collects
<1>1. S \in SUBSET Items
  BY DEF Offered, Visible
<1> QED
  BY <1>1, Reading, CollectOf DEF Readable

(* What the sensors collect in a cycle.                                    *)
LEMMA CollectCases ==
    ASSUME ProcessTypeOK,
           \/ GithubCollectAllRepos \/ GitlabCollectAllRepos \/ ActivityCollect
           \/ MediumCollect \/ RssPollFeed \/ PodcastCollect \/ YoutubeFetch
           \/ TelegramCollect \/ TwitterCollect \/ NewslettersPollFolder
           \/ MboxIngest \/ SubstackCollect
    PROVE  Collects
<1>0. Offered \subseteq Items /\ taken \subseteq Items /\ missed \subseteq Items
      /\ failures \in 0..MaxFailures
  BY DEF Offered, Visible, ProcessTypeOK
<1>1. CASE GithubCollectAllRepos
  <2>1. PICK R \in SUBSET Offered :
          /\ sensor = "github" /\ Readable(Offered, R)
          /\ Collect({Current(i) : i \in (R \ Foreign[sensor]) \ Short[sensor]})
          /\ taken' = taken
    BY <1>1 DEF GithubCollectAllRepos, GithubProcessFiles, GithubFindFiles
  <2> QED
    BY <1>0, <2>1, CollectSome
<1>2. CASE GitlabCollectAllRepos
  <2>1. PICK R \in SUBSET (Offered \ taken) :
          /\ sensor = "gitlab" /\ Readable(Offered \ taken, R)
          /\ Collect({Current(i) : i \in (R \ Foreign[sensor]) \ Short[sensor]})
          /\ taken' = taken \cup ((R \ Foreign[sensor]) \ Short[sensor])
    BY <1>2 DEF GitlabCollectAllRepos, GitlabProcessFiles, GitlabFindFiles
  <2>2. taken' \subseteq Items
    BY <1>0, <2>1
  <2> QED
    BY <1>0, <2>1, <2>2, CollectSome
<1>3. CASE ActivityCollect
  <2>1. PICK R \in SUBSET (Offered \ taken) :
          \E lost \in SUBSET ((Offered \ taken) \ R) :
            /\ sensor = "github_activity" /\ ReadableBut(Offered \ taken, R, lost)
            /\ Collect({Current(i) : i \in R}) /\ taken' = taken \cup R \cup lost
    BY <1>3 DEF ActivityCollect, ActivityDocuments
  <2>2. PICK lost \in SUBSET ((Offered \ taken) \ R) :
          /\ sensor = "github_activity" /\ ReadableBut(Offered \ taken, R, lost)
          /\ Collect({Current(i) : i \in R}) /\ taken' = taken \cup R \cup lost
    BY <2>1
  <2>3. taken' \subseteq Items /\ Offered \ taken \in SUBSET Items
    BY <1>0, <2>2
  <2>4. /\ failed' = failed /\ failures' \in 0..MaxFailures
        /\ missed \subseteq missed' /\ missed' \subseteq Items
    BY <2>2, <2>3, Reading
  <2> QED
    BY <2>2, <2>3, <2>4, CollectOf
<1>4. CASE MediumCollect
  <2>1. PICK R \in SUBSET ArticleLinks(Offered) :
          /\ sensor = "medium" /\ Readable(ArticleLinks(Offered), R)
          /\ \E A \in MediumArticles(R) : Collect({Of(i, 0) : i \in A})
          /\ taken' = taken
    BY <1>4 DEF MediumCollect
  <2>2. PICK A \in MediumArticles(R) : Collect({Of(i, 0) : i \in A})
    BY <2>1
  <2>3. A \subseteq R
    BY <2>2 DEF MediumArticles, Slices
  <2>4. R \subseteq Visible /\ ArticleLinks(Offered) \in SUBSET Items
    BY <1>0, <2>1 DEF ArticleLinks, Offered
  <2>5. PICK D : D = {Of(i, 0) : i \in A}
    OBVIOUS
  <2>6. D \in SUBSET (Doc \cup Listed) /\ \A d \in D : d.item \in Visible /\ d.version = 0
    BY <1>0, <2>3, <2>4, <2>5, Documents DEF Visible
  <2>7. Fresh(D)
    BY <2>1, <2>6 DEF Fresh
  <2>8. /\ failed' = failed /\ failures' \in 0..MaxFailures
        /\ missed \subseteq missed' /\ missed' \subseteq Items
    BY <2>1, <2>4, Reading DEF Readable
  <2> QED
    BY <1>0, <2>1, <2>2, <2>5, <2>6, <2>7, <2>8 DEF Collects
<1>5. CASE RssPollFeed \/ PodcastCollect \/ YoutubeFetch
  <2>1. PICK R \in SUBSET Offered :
          /\ sensor \in {"rss", "podcast", "youtube"} /\ Readable(Offered, R)
          /\ Collect({Current(i) : i \in R}) /\ taken' = taken
    BY <1>5 DEF RssPollFeed, PodcastCollect, YoutubeFetch
  <2> QED
    BY <1>0, <2>1, CollectSome
<1>6. CASE TelegramCollect
  <2>1. PICK R \in SUBSET Offered :
          /\ sensor = "telegram" /\ Readable(Offered, R)
          /\ Collect({Current(i) : i \in R \ (memory.done \cup Short[sensor])})
          /\ taken' = taken
    BY <1>6 DEF TelegramCollect, TelegramDocuments
  <2> QED
    BY <1>0, <2>1, CollectSome
<1>7. CASE TwitterCollect
  <2>1. PICK R \in SUBSET Offered :
          /\ sensor = "twitter" /\ Readable(Offered, R)
          /\ Collect({Current(i) : i \in R \ memory.done}) /\ taken' = taken
    BY <1>7 DEF TwitterCollect, TwitterDocuments
  <2> QED
    BY <1>0, <2>1, CollectSome
<1>8. CASE NewslettersPollFolder
  <2> DEFINE New == {i \in Offered : i > memory.mark}
  <2>1. PICK R \in {New, {}} :
          /\ sensor = "newsletters" /\ Readable(New, R)
          /\ Collect({Current(i) : i \in R}) /\ taken' = taken
    BY <1>8 DEF NewslettersPollFolder, Opened
  <2>2. New \in SUBSET Items /\ R \in SUBSET Offered
    BY <1>0, <2>1
  <2>3. /\ failed' = failed /\ failures' \in 0..MaxFailures
        /\ missed \subseteq missed' /\ missed' \subseteq Items
    BY <2>1, <2>2, Reading DEF Readable
  <2> QED
    BY <1>0, <2>1, <2>2, <2>3, CollectOf
<1>9. CASE MboxIngest
  <2>1. /\ sensor = "mbox" /\ Collect({Current(i) : i \in Offered}) /\ taken' = taken
        /\ failed' = failed /\ failures' = failures /\ missed' = missed
    BY <1>9 DEF MboxIngest, trouble
  <2> QED
    BY <1>0, <2>1, CollectOf
<1>10. CASE SubstackCollect
  <2>1. PICK R \in SUBSET Offered :
          /\ sensor = "substack" /\ Readable(Offered, R)
          /\ Collect({Current(i) : i \in R \cap BeforeCutoff}) /\ taken' = taken
    BY <1>10 DEF SubstackCollect, ArchiveListings
  <2> QED
    BY <1>0, <2>1, CollectSome
<1> QED
  BY <1>1, <1>2, <1>3, <1>4, <1>5, <1>6, <1>7, <1>8, <1>9, <1>10

(* A set of numbers that is not empty has a least one.                     *)
LEMMA LeastNumber ==
    ASSUME NEW T, T \subseteq Nat, T # {}
    PROVE  \E x \in T : \A y \in T : x <= y
<1> DEFINE R == {ss \in Nat \X Nat : ss[1] < ss[2]}
<1>1. IsWellFoundedOn(R, Nat)
  BY NatLessThanWellFounded DEF OpToRel
<1>2. \A x, y \in Nat : <<y, x>> \in R <=> y < x
  OBVIOUS
<1> HIDE DEF R
<1>3. PICK x \in T : \A y \in T : ~ (<<y, x>> \in R)
  BY <1>1, WFMin
<1>4. \A y \in T : ~ (y < x)
  BY <1>2, <1>3
<1> QED
  BY <1>4, SMT

(* The message that the newsletters deal with is the lowest of the folder. *)
LEMMA LowestIs ==
    ASSUME ProcessTypeOK, docs # {}
    PROVE  Lowest(docs) \in docs /\ \A e \in docs : Lowest(docs).item <= e.item
<1> DEFINE T == {d.item : d \in docs}
<1>1. \A d \in docs : d.item \in Nat
  BY Documents, ProcessAssumption DEF ProcessTypeOK
<1>2. T \subseteq Nat /\ T # {}
  BY <1>1
<1>3. PICK x \in T : \A y \in T : x <= y
  BY <1>2, LeastNumber
<1>4. \E d \in docs : \A e \in docs : d.item <= e.item
  BY <1>3
<1> QED
  BY <1>4 DEF Lowest

(* A document that is skipped and nothing else.                            *)
LEMMA PlainSkip ==
    ASSUME ProcessTypeOK, sensor # "newsletters", NEW d \in docs, Skip(d),
           memory' = memory, failed' = failed, missed' \in {missed, missed \cup {d.item}},
           failures' \in 0..MaxFailures
    PROVE  Skips
  BY DEF Skips, First

(* What a reading that fails, or none that does, leaves of the counters.   *)
LEMMA Troubles ==
    ASSUME ProcessTypeOK
    PROVE  /\ UNCHANGED trouble =>
                failed' = failed /\ missed' = missed /\ failures' \in 0..MaxFailures
           /\ \A L : ReadingFails(L) => /\ failed' = failed /\ missed' = missed \cup L
                                        /\ failures' \in 0..MaxFailures
  BY ProcessAssumption DEF ProcessTypeOK, trouble, ReadingFails

(* An exception ends what is done for a document.                          *)
LEMMA RaisesSkips ==
    ASSUME ProcessTypeOK, sensor # "newsletters", NEW d \in docs, Raises(d)
    PROVE  Skips
  BY Troubles, PlainSkip DEF Raises

(* A document that is sent.                                                *)
LEMMA PlainEmit ==
    ASSUME ProcessTypeOK, NEW d \in docs, Emit(d, d), sensor # "medium",
           First(d), ~Recorded(memory, d)
    PROVE  Requests
<1>1. d \in Doc \cup Listed
  BY DEF ProcessTypeOK
<1> QED
  BY <1>1 DEF Requests

(* What a sensor does with a document it has collected.                    *)
LEMMA DealCases ==
    ASSUME ProcessTypeOK, DocsFit, StatesFit, NEW d \in docs,
           \/ sensor \in Careless /\ SendChanged(d)
           \/ /\ sensor \in {"rss", "mbox", "substack"}
              /\ \/ Skip(d) /\ UNCHANGED <<memory, trouble>>
                 \/ Skip(d) /\ ReadingFails({d.item}) /\ UNCHANGED memory
                 \/ d.item \notin memory.done /\ Emit(d, d)
    PROVE  Skips \/ Requests
<1>0. d.item \in Items
  BY DEF DocsFit, Known, Visible
<1>1. CASE sensor \in Careless /\ SendChanged(d)
  <2>1. sensor \notin {"newsletters", "medium"} /\ memory.done = {}
    BY <1>1 DEF Careless, StatesFit, Shaped
  <2>2. CASE memory.hash[d.item] = d.version
    <3>1. Skip(d) /\ memory' = memory /\ UNCHANGED trouble
      BY <1>1, <2>2 DEF SendChanged
    <3> QED
      BY <2>1, <3>1, Troubles, PlainSkip
  <2>3. CASE memory.hash[d.item] # d.version
    <3>1. Emit(d, d)
      BY <1>1, <2>3 DEF SendChanged
    <3>2. ~Recorded(memory, d) /\ First(d)
      BY <2>1, <2>3 DEF Recorded, First
    <3> QED
      BY <2>1, <3>1, <3>2, PlainEmit
  <2> QED
    BY <2>2, <2>3
<1>2. CASE /\ sensor \in {"rss", "mbox", "substack"}
           /\ \/ Skip(d) /\ UNCHANGED <<memory, trouble>>
              \/ Skip(d) /\ ReadingFails({d.item}) /\ UNCHANGED memory
              \/ d.item \notin memory.done /\ Emit(d, d)
  <2>1. sensor \notin {"newsletters", "medium"} /\ sensor \in ByItem
    BY <1>2 DEF ByItem
  <2>2. CASE Skip(d) /\ UNCHANGED <<memory, trouble>>
    BY <2>1, <2>2, Troubles, PlainSkip
  <2>3. CASE Skip(d) /\ ReadingFails({d.item}) /\ UNCHANGED memory
    BY <2>1, <2>3, Troubles, PlainSkip
  <2>4. CASE d.item \notin memory.done /\ Emit(d, d)
    <3>1. memory.hash[d.item] = 0
      BY <1>0, <2>1 DEF StatesFit, Shaped
    <3>2. ~Recorded(memory, d) /\ First(d)
      BY <2>1, <2>4, <3>1 DEF Recorded, First
    <3> QED
      BY <2>1, <2>4, <3>2, PlainEmit
  <2> QED
    BY <1>2, <2>2, <2>3, <2>4
<1> QED
  BY <1>1, <1>2

(* medium reads the article when it comes to it.                           *)
LEMMA MediumCases ==
    ASSUME ProcessTypeOK, DocsFit, StatesFit, MediumProcessArticle
    PROVE  Skips \/ Requests
<1>1. PICK d \in docs :
        /\ sensor = "medium"
        /\ \/ Skip(d) /\ ReadingFails({}) /\ UNCHANGED memory
           \/ PageRaises(d.item) /\ Raises(d)
           \/ /\ ~PageRaises(d.item)
              /\ IF ArticleText(d.item) \in {0, memory.hash[d.item]}
                 THEN Skip(d) /\ UNCHANGED <<memory, trouble>>
                 ELSE Emit(d, Current(d.item))
  BY DEF MediumProcessArticle
<1>2. d.item \in Visible /\ d.item \in Items
  BY DEF DocsFit, Known, Visible
<1>3. CASE Skip(d) /\ ReadingFails({}) /\ UNCHANGED memory
  <2>1. failed' = failed /\ missed' = missed /\ failures' \in 0..MaxFailures
    BY <1>3, Troubles
  <2> QED
    BY <1>1, <1>3, <2>1, PlainSkip
<1>4. CASE Raises(d)
  BY <1>1, <1>4, RaisesSkips
<1>5. CASE Skip(d) /\ UNCHANGED <<memory, trouble>>
  BY <1>1, <1>5, Troubles, PlainSkip
<1>6. CASE ArticleText(d.item) \notin {0, memory.hash[d.item]} /\ Emit(d, Current(d.item))
  <2>1. PICK e : e = Current(d.item)
    OBVIOUS
  <2>2. /\ e \in Doc \cup Listed /\ e.item = d.item /\ e.version = shown[d.item]
        /\ shown[d.item] # 0
    BY <1>2, <2>1, CurrentIs DEF Visible
  <2>3. e.version # memory.hash[d.item]
    BY <1>6, <2>2 DEF ArticleText
  <2>4. d.item \in memory.done <=> memory.hash[d.item] # 0
    BY <1>1, <1>2 DEF StatesFit, Shaped, Paired
  <2>5. ~Recorded(memory, e) /\ First(d)
    BY <1>1, <2>2, <2>3, <2>4 DEF Recorded, First
  <2>6. Emit(d, e)
    BY <1>6, <2>1
  <2> QED
    BY <1>1, <2>1, <2>2, <2>5, <2>6 DEF Requests
<1> QED
  BY <1>1, <1>3, <1>4, <1>5, <1>6

(* The newsletters pass a message or send it.                              *)
LEMMA NewslettersCases ==
    ASSUME ProcessTypeOK, DocsFit, StatesFit, NewslettersFetch
    PROVE  Skips \/ Requests
<1>1. PICK d : d = Lowest(docs)
  OBVIOUS
<1>2. /\ sensor = "newsletters" /\ docs # {}
      /\ \/ Skip(d) /\ ReadingFails({d.item}) /\ UNCHANGED memory
         \/ IF ~Routed(d.item) \/ ~HasBody(d.item) \/ d.item \in memory.done
            THEN Skip(d) /\ memory' = WithMark(memory, d.item) /\ UNCHANGED trouble
            ELSE Emit(d, d)
  BY <1>1 DEF NewslettersFetch
<1>3. d \in docs /\ First(d)
  BY <1>1, <1>2, LowestIs DEF First
<1>4. CASE Skip(d) /\ ReadingFails({d.item}) /\ UNCHANGED memory
  <2>1. failed' = failed /\ missed' = missed \cup {d.item} /\ failures' \in 0..MaxFailures
    BY <1>4, Troubles
  <2> QED
    BY <1>2, <1>3, <1>4, <2>1 DEF Skips
<1>5. CASE /\ ~Routed(d.item) \/ ~HasBody(d.item) \/ d.item \in memory.done
           /\ Skip(d) /\ memory' = WithMark(memory, d.item) /\ UNCHANGED trouble
  <2>1. d.item \in Unfit \cup memory.done
    BY <1>5 DEF Routed, HasBody, Unfit
  <2>2. failed' = failed /\ missed' = missed /\ failures' \in 0..MaxFailures
    BY <1>5, Troubles
  <2> QED
    BY <1>2, <1>3, <1>5, <2>1, <2>2 DEF Skips
<1>6. CASE d.item \notin memory.done /\ Emit(d, d)
  <2>1. d.item \in Items
    BY <1>3 DEF DocsFit, Known, Visible
  <2>2. memory.hash[d.item] = 0
    BY <1>2, <2>1 DEF StatesFit, Shaped, ByItem
  <2> QED
    BY <1>2, <1>3, <1>6, <2>2, PlainEmit DEF Recorded
<1> QED
  BY <1>2, <1>4, <1>5, <1>6

(* Every step of a sensor is a step of one of the five kinds.              *)
LEMMA ProcessCases ==
    ASSUME ProcessTypeOK, DocsFit, StatesFit, Process
    PROVE  Steps
<1>1. CASE \/ GithubCollectAllRepos \/ GitlabCollectAllRepos \/ ActivityCollect
           \/ MediumCollect \/ RssPollFeed \/ PodcastCollect \/ YoutubeFetch
           \/ TelegramCollect \/ TwitterCollect \/ NewslettersPollFolder
           \/ MboxIngest \/ SubstackCollect
  BY <1>1, CollectCases DEF Steps
<1>2. CASE /\ sensor \in Careless
           /\ HashWhatever \/ \E d \in docs : SendChanged(d)
  <2>1. CASE \E d \in docs : SendChanged(d)
    BY <1>2, <2>1, DealCases DEF Steps
  <2>2. CASE HashWhatever
    BY <1>2, <2>2 DEF HashWhatever, Steps, Answers, Noted
  <2> QED
    BY <1>2, <2>1, <2>2
<1>3. CASE MediumProcessArticle
  BY <1>3, MediumCases DEF Steps
<1>4. CASE \/ TwitterSendToKoi \/ TelegramSendToKoi
           \/ PodcastProcessEpisode \/ YoutubeProcessVideo
  <2>1. PICK d \in docs : sensor # "newsletters" /\ Raises(d)
    BY <1>4 DEF TwitterSendToKoi, TelegramSendToKoi, PodcastProcessEpisode,
                YoutubeProcessVideo
  <2> QED
    BY <2>1, RaisesSkips DEF Steps
<1>5. CASE NewslettersFetch
  BY <1>5, NewslettersCases DEF Steps
<1>6. CASE RssProcessEntry \/ MboxProcessMessage
  <2>1. PICK d \in docs :
          /\ sensor \in {"rss", "mbox"}
          /\ \/ Skip(d) /\ UNCHANGED <<memory, trouble>>
             \/ d.item \notin memory.done /\ Emit(d, d)
    BY <1>6 DEF RssProcessEntry, MboxProcessMessage
  <2> QED
    BY <2>1, DealCases DEF Steps
<1>9. CASE SubstackExtractPost
  <2>1. PICK d : d = Newest(docs)
    OBVIOUS
  <2>2. /\ sensor = "substack"
        /\ \/ Skip(d) /\ UNCHANGED <<memory, trouble>>
           \/ Skip(d) /\ ReadingFails({d.item}) /\ UNCHANGED memory
           \/ d.item \notin memory.done /\ Emit(d, d)
    <3>1. sensor = "substack" /\ \E body \in PostBodies(d.item) :
            CASE body = "none" -> Skip(d) /\ ReadingFails({d.item}) /\ UNCHANGED memory
              [] body = "short" \/ d.item \in memory.done ->
                   Skip(d) /\ UNCHANGED <<memory, trouble>>
              [] OTHER -> Emit(d, d)
      BY <1>9, <2>1 DEF SubstackExtractPost
    <3> QED
      BY <3>1, Zenon
  <2>3. d \in docs
    BY <2>2 DEF Skip, Emit
  <2> QED
    BY <2>2, <2>3, DealCases DEF Steps
<1>10. CASE MediumEmitArticleEvent
  BY <1>10 DEF MediumEmitArticleEvent, Steps, Answers, Noted, Careless, Paired
<1>11. CASE RssEntrySent \/ MboxMessageSent \/ SubstackPostSent
  BY <1>11 DEF RssEntrySent, MboxMessageSent, SubstackPostSent, Steps, Answers, Noted,
               Careless, Paired, ByItem
<1>13. CASE NewslettersMessageSent
  BY <1>13 DEF NewslettersMessageSent, Steps, Answers, Noted, Careless, ByItem
<1>14. CASE \/ GithubCycleEnds \/ GitlabCycleEnds \/ ActivityCycleEnds
            \/ MediumCycleEnds \/ RssCycleEnds \/ PodcastCycleEnds \/ YoutubeCycleEnds
            \/ TelegramRunOnceEnds \/ TwitterCycleEnds \/ NewslettersPollEnds
  BY <1>14 DEF GithubCycleEnds, GitlabCycleEnds, ActivityCycleEnds, MediumCycleEnds,
       RssCycleEnds, PodcastCycleEnds, YoutubeCycleEnds, TelegramRunOnceEnds,
       TwitterCycleEnds, NewslettersPollEnds, Save, Ends, Steps
<1>15. CASE MboxEnds \/ SubstackEnds
  BY <1>15 DEF MboxEnds, SubstackEnds, Ends, Steps
<1>16. GithubSendToKoi \/ GitlabSendToKoi \/ ActivitySend =>
         /\ sensor \in Careless
         /\ HashWhatever \/ \E d \in docs : SendChanged(d)
  BY DEF GithubSendToKoi, GitlabSendToKoi, ActivitySend, Careless
<1> QED
  BY <1>1, <1>2, <1>3, <1>4, <1>5, <1>6, <1>9, <1>10, <1>11, <1>13,
     <1>14, <1>15, <1>16, Zenon
     DEF Process, RepositorySensor, FeedSensor, MessageSensor

-----------------------------------------------------------------------------
(* What is true of a state stays true while more arrives and more fails.   *)
LEMMA TruthfulStays ==
    ASSUME NEW s, Truthful(s), UNCHANGED <<sensor, shown>>, gone \subseteq gone',
           arrived \subseteq arrived', failed \subseteq failed', missed \subseteq missed'
    PROVE  Truthful(s)'
  BY DEF Truthful, Accounted, HasArrived, HasFailed, Visible, Unfit, Of, Careless

(* A cycle starts.                                                         *)
LEMMA CollectsStep ==
    ASSUME SensorInv, Collects
    PROVE  SensorInv'
<1> USE DEF SensorInv, SensorTypes
<1>1. PICK D \in SUBSET (Doc \cup Listed) :
        /\ Collect(D) /\ Fresh(D)
        /\ taken' \subseteq Items /\ failed' = failed /\ failures' \in 0..MaxFailures
        /\ missed \subseteq missed' /\ missed' \subseteq Items
  BY DEF Collects
<1>2. /\ phase = "idle" /\ phase' = "sending" /\ docs' = D
      /\ sensor' = sensor /\ shown' = shown /\ gone' = gone /\ started' = started
      /\ memory' = memory /\ file' = file /\ asked' = asked /\ answered' = answered
      /\ late' = late /\ arrived' = arrived /\ last' = last /\ twice' = twice
      /\ forgotten' = forgotten /\ halts' = halts
  BY <1>1 DEF Collect, wire, others, record
<1>3. asked = {} /\ ~answered
  BY <1>2 DEF PhaseFits
<1>4. \A d \in D : /\ d \in Doc \cup Listed /\ d.item \in Visible /\ d.item \in Items
                   /\ d.item \in Nat /\ d.version \in Nat /\ d = Of(d.item, d.version)
                   /\ shown[d.item] \in Nat \ {0}
                   /\ sensor = "medium" => d.version = 0
                   /\ sensor # "medium" => d.version = shown[d.item]
  BY <1>1, CurrentIs, Documents DEF Fresh
<1>5. ProcessTypeOK'
  BY <1>1, <1>2 DEF ProcessTypeOK, Visible
<1>6. InOrder' /\ PhaseFits'
  BY <1>2, <1>3 DEF InOrder, PhaseFits, Visible
<1>7. DocsFit'
  BY <1>2, <1>3, <1>4 DEF DocsFit, Known, Visible
<1>8. AnswersFit'
  BY <1>1, <1>2 DEF AnswersFit
<1>9. NoneOlder'
  BY <1>2, <1>3, <1>4 DEF NoneOlder, DocsFit, Known, ByItem
<1>10. StatesFit'
  BY <1>1, <1>2, <1>3 DEF StatesFit, Shaped, Fresh, Visible
<1>11. Truthful(memory)' /\ Truthful(file)'
  BY <1>1, <1>2 DEF Truthful, Accounted, HasArrived, HasFailed, Visible, Unfit, Of, Careless
<1>12. FolderInOrder'
  <2>1. SUFFICES ASSUME sensor = "newsletters", NEW d \in D, NEW i \in Visible, i < d.item
                 PROVE  Accounted(memory, i) \/ \E e \in D : e.item = i
    BY <1>1, <1>2, <1>3 DEF FolderInOrder, Visible, Accounted, HasFailed, Unfit
  <2>2. CASE i > memory.mark
    BY <1>1, <2>1, <2>2 DEF Fresh, Offered, Accounted
  <2>3. CASE i <= memory.mark
    BY <2>1, <2>3 DEF Truthful, Visible
  <2>4. i \in Nat /\ memory.mark \in Nat
    BY CurrentIs, Fields DEF ProcessTypeOK
  <2> QED
    BY <2>2, <2>3, <2>4
<1>13. ArrivedIsRecorded'
  <2>1. SUFFICES ASSUME NEW d \in arrived \ (failed \cup forgotten), Again(d)'
                 PROVE  Recorded(memory, d)
    BY <1>1, <1>2, <1>3 DEF ArrivedIsRecorded, Kept, Recorded
  <2>2. Again(d)
    BY <1>2, <1>4, <2>1 DEF Again, ByItem, Current, DocsFit
  <2> QED
    BY <1>2, <1>3, <2>1, <2>2 DEF ArrivedIsRecorded, Kept
<1>14. SentOnce' /\ RepeatsAreExcused'
  BY <1>1, <1>2, <1>3 DEF SentOnce, RepeatsAreExcused
<1> QED
  BY <1>5, <1>6, <1>7, <1>8, <1>9, <1>10, <1>11, <1>12, <1>13, <1>14

(* A document is skipped.                                                  *)
LEMMA SkipsStep ==
    ASSUME SensorInv, Skips
    PROVE  SensorInv'
<1> USE DEF SensorInv, SensorTypes
<1>1. PICK d \in docs :
        /\ Skip(d) /\ First(d)
        /\ failed' = failed /\ failures' \in 0..MaxFailures
        /\ missed \subseteq missed' /\ missed' \subseteq missed \cup {d.item}
        /\ \/ memory' = memory /\ (sensor = "newsletters" => d.item \in missed')
           \/ /\ sensor = "newsletters" /\ d.item \in Unfit \cup memory.done
              /\ memory' = WithMark(memory, d.item)
  BY DEF Skips
<1>2. /\ phase = "sending" /\ phase' = phase /\ docs' = docs \ {d} /\ taken' = taken
      /\ sensor' = sensor /\ shown' = shown /\ gone' = gone /\ started' = started
      /\ file' = file /\ asked' = asked /\ answered' = answered
      /\ late' = late /\ arrived' = arrived /\ last' = last /\ twice' = twice
      /\ forgotten' = forgotten /\ halts' = halts
  BY <1>1 DEF Skip, wire, others, record
<1>3. asked = {} /\ ~answered
  BY <1>2 DEF PhaseFits
<1>4. /\ d \in Doc \cup Listed /\ d.item \in Items /\ d.item \in Visible
      /\ d = Of(d.item, d.version) /\ d.version \in Nat
      /\ memory \in State
  BY Documents DEF ProcessTypeOK, DocsFit, Known, Visible
\* What the record of a skipped document changes.
<1>5. /\ memory' \in State /\ memory'.hash = memory.hash /\ memory'.done = memory.done
      /\ \/ memory'.mark = memory.mark
         \/ /\ memory'.mark = d.item /\ sensor = "newsletters"
            /\ d.item \in Unfit \cup memory.done
  <2>1. CASE memory' = memory
    BY <1>4, <2>1
  <2>2. CASE /\ sensor = "newsletters" /\ d.item \in Unfit \cup memory.done
             /\ memory' = WithMark(memory, d.item)
    BY <1>4, <2>2, MarkUpdate
  <2> QED
    BY <1>1, <2>1, <2>2
<1>6. ProcessTypeOK'
  BY <1>1, <1>2, <1>4, <1>5 DEF ProcessTypeOK, Visible
<1>7. InOrder' /\ PhaseFits'
  BY <1>2, <1>3 DEF InOrder, PhaseFits, Visible
<1>8. DocsFit' /\ NoneOlder'
  BY <1>2, <1>3 DEF DocsFit, Known, Visible, NoneOlder, ByItem
<1>9. AnswersFit' /\ SentOnce' /\ RepeatsAreExcused'
  BY <1>1, <1>2, <1>3 DEF AnswersFit, SentOnce, RepeatsAreExcused
<1>11. StatesFit'
  <2>1. Shaped(file)'
    BY <1>2 DEF StatesFit, Shaped, ByItem, Careless, Paired, Visible
  <2>2. memory'.mark # 0 => memory'.mark \in Visible
    BY <1>4, <1>5 DEF StatesFit, Shaped
  <2>3. Shaped(memory)'
    BY <1>2, <1>5, <2>2 DEF StatesFit, Shaped, ByItem, Careless, Paired, Visible
  <2> QED
    BY <2>1, <2>3 DEF StatesFit
<1>12. Truthful(file)'
  BY <1>1, <1>2 DEF Truthful, Accounted, HasArrived, HasFailed, Visible, Unfit, Of, Careless
<1>13. Truthful(memory)'
  <2>1. ASSUME NEW i \in Items, memory'.hash[i] # 0
        PROVE  \/ Of(i, memory'.hash[i]) \in arrived'
               \/ sensor \in Careless /\ Of(i, memory'.hash[i]) \in failed'
    BY <1>1, <1>2, <1>5, <2>1 DEF Truthful
  <2>2. ASSUME NEW i \in Items, i \in memory'.done
        PROVE  \E e \in arrived' : e.item = i
    BY <1>1, <1>2, <1>5, <2>2 DEF Truthful, HasArrived
  <2>3. ASSUME NEW i \in Items, i \in Visible, i <= memory'.mark
        PROVE  i \in memory'.done \cup Unfit \cup missed' \cup gone \/ \E e \in failed' : e.item = i
    <3>1. CASE memory'.mark = memory.mark
      BY <1>1, <1>5, <2>3, <3>1 DEF Truthful, Accounted, HasFailed
    <3>2. CASE memory'.mark = d.item /\ sensor = "newsletters"
                 /\ d.item \in Unfit \cup memory.done
      <4>1. i \in Nat /\ d.item \in Nat
        BY <1>4, ProcessAssumption
      <4>2. CASE i = d.item
        BY <1>5, <3>2, <4>2
      <4>3. CASE i < d.item
        <5>1. Accounted(memory, i) \/ \E e \in docs : e.item = i
          BY <1>3, <2>3, <3>2, <4>3 DEF FolderInOrder
        <5>2. \A e \in docs : d.item <= e.item /\ e.item \in Nat
          BY <1>1, <3>2, Documents, ProcessAssumption DEF First, ProcessTypeOK
        <5>3. Accounted(memory, i)
          BY <4>1, <4>3, <5>1, <5>2
        <5> QED
          BY <1>1, <1>5, <5>3 DEF Accounted, HasFailed
      <4> QED
        BY <2>3, <3>2, <4>1, <4>2, <4>3
    <3> QED
      BY <1>5, <3>1, <3>2
  <2> QED
    BY <1>2, <2>1, <2>2, <2>3
       DEF Truthful, Accounted, HasArrived, HasFailed, Visible, Unfit, Of, Careless
<1>14. FolderInOrder'
  <2>1. SUFFICES ASSUME sensor = "newsletters", NEW c \in docs \ {d}, NEW i \in Visible,
                        i < c.item
                 PROVE  \/ i \in memory'.done \cup Unfit \cup missed' \cup gone
                        \/ \E e \in failed' : e.item = i
                        \/ \E e \in docs \ {d} : e.item = i
    BY <1>2, <1>3 DEF FolderInOrder, Accounted, HasFailed, Visible, Unfit
  <2>2. CASE Accounted(memory, i)
    BY <1>1, <1>5, <2>2 DEF Accounted, HasFailed
  <2>3. CASE i = d.item
    <3>1. d.item \in missed' \cup Unfit \cup memory.done
      BY <1>1, <2>1
    <3> QED
      BY <1>5, <2>3, <3>1
  <2>4. CASE \E e \in docs \ {d} : e.item = i
    BY <2>4
  <2> QED
    BY <1>3, <2>1, <2>2, <2>3, <2>4 DEF FolderInOrder
<1>15. ArrivedIsRecorded'
  <2>1. SUFFICES ASSUME NEW e \in arrived \ (failed \cup forgotten), Again(e)
                 PROVE  Recorded(memory, e)'
    BY <1>1, <1>2, <1>3 DEF ArrivedIsRecorded, Kept, Recorded, Again, ByItem, Current, Of
  <2>2. Recorded(memory, e)
    BY <1>2, <1>3, <2>1 DEF ArrivedIsRecorded, Kept
  <2>3. memory'.hash[e.item] = memory.hash[e.item] /\ memory'.done = memory.done
    BY <1>5
  <2> QED
    BY <2>2, <2>3 DEF Recorded
<1> QED
  BY <1>6, <1>7, <1>8, <1>9, <1>11, <1>12, <1>13, <1>14, <1>15

(* A request is sent.                                                      *)
LEMMA RequestsStep ==
    ASSUME SensorInv, Requests
    PROVE  SensorInv'
<1> USE DEF SensorInv, SensorTypes
<1>1. PICK d \in docs, e \in Doc \cup Listed :
        /\ Emit(d, e) /\ First(d) /\ ~Recorded(memory, e)
        /\ IF sensor = "medium" THEN e = Current(d.item) ELSE e = d
  BY DEF Requests
<1>2. /\ phase = "sending" /\ phase' = "waiting" /\ docs' = docs \ {d} /\ taken' = taken
      /\ sensor' = sensor /\ shown' = shown /\ gone' = gone /\ started' = started
      /\ memory' = memory /\ file' = file /\ asked' = {e} /\ answered' = FALSE
      /\ late' = late /\ arrived' = arrived /\ last' = last /\ twice' = twice
      /\ forgotten' = forgotten /\ halts' = halts
      /\ failed' = failed /\ missed' = missed /\ failures' = failures
  BY <1>1 DEF Emit, others, record, trouble
<1>3. asked = {} /\ ~answered
  BY <1>2 DEF PhaseFits
<1>4. /\ d \in Doc \cup Listed /\ d.item \in Items /\ d.item \in Visible
      /\ d.item \in Nat /\ shown[d.item] \in Nat \ {0}
      /\ d.version \in Nat /\ d.version <= shown[d.item]
      /\ e.version \in Nat
  BY Documents, CurrentIs DEF ProcessTypeOK, DocsFit, Known
<1>5. /\ e.item = d.item /\ Known(e) /\ e.version # 0
      /\ sensor = "medium" => e.version = shown[d.item]
      /\ sensor # "medium" => e = d
  <2>1. CASE sensor = "medium"
    <3>1. e = Current(d.item)
      BY <1>1, <2>1
    <3>2. e.item = d.item /\ e.version = shown[d.item]
      BY <1>4, <3>1, CurrentIs
    <3> QED
      BY <1>4, <2>1, <3>2 DEF Known
  <2>2. CASE sensor # "medium"
    BY <1>1, <1>4, <2>2 DEF Known, DocsFit
  <2> QED
    BY <2>1, <2>2
<1>6. ProcessTypeOK'
  <2>1. Cardinality({e}) <= 1
    BY FS_Singleton
  <2> QED
    BY <1>1, <1>2, <2>1 DEF ProcessTypeOK, Visible
<1>7. InOrder' /\ PhaseFits'
  BY <1>1, <1>2 DEF InOrder, PhaseFits, Visible
<1>8. DocsFit'
  <2>1. \A c \in docs \ {d} : c.item # e.item
    BY <1>5 DEF DocsFit
  <2> QED
    BY <1>2, <1>5, <2>1 DEF DocsFit, Known, Visible
<1>9. NoneOlder'
  <2>1. SUFFICES ASSUME sensor \notin ByItem, NEW c \in arrived \cup late, c.item = e.item
                 PROVE  c.version <= e.version
    BY <1>2 DEF NoneOlder, ByItem
  <2>2. CASE sensor = "medium"
    BY <1>5, <2>1, <2>2 DEF DocsFit, Known
  <2>3. CASE sensor # "medium"
    BY <1>5, <2>1, <2>3 DEF NoneOlder
  <2> QED
    BY <2>2, <2>3
<1>10. AnswersFit' /\ RepeatsAreExcused'
  BY <1>1, <1>2 DEF AnswersFit, RepeatsAreExcused
<1>11. StatesFit'
  BY <1>2, <1>5 DEF StatesFit, Shaped, ByItem, Careless, Paired, Visible
<1>12. Truthful(memory)' /\ Truthful(file)'
  BY <1>1, <1>2 DEF Truthful, Accounted, HasArrived, HasFailed, Visible, Unfit, Of, Careless
<1>13. FolderInOrder'
  <2>1. SUFFICES ASSUME sensor = "newsletters"
                 PROVE  /\ \A c \in docs \ {d} : e.item <= c.item
                        /\ \A c \in (docs \ {d}) \cup {e}, i \in Visible : i < c.item =>
                             Accounted(memory, i) \/ \E b \in (docs \ {d}) \cup {e} : b.item = i
    BY <1>1, <1>2 DEF FolderInOrder, Accounted, HasFailed, Visible, Unfit
  <2>2. e = d
    BY <1>5, <2>1
  <2> QED
    BY <1>1, <1>3, <2>1, <2>2 DEF First, FolderInOrder
<1>14. ArrivedIsRecorded'
  <2>1. SUFFICES ASSUME NEW c \in arrived \ (failed \cup forgotten), Again(c)
                 PROVE  Recorded(memory, c)
    BY <1>1, <1>2, <1>3 DEF ArrivedIsRecorded, Kept, Recorded, Again, ByItem, Current, Of
  <2> QED
    BY <1>2, <1>3, <2>1 DEF ArrivedIsRecorded, Kept
<1>15. SentOnce'
  <2>1. SUFFICES ASSUME e \in arrived, e \notin failed \cup forgotten
                 PROVE  FALSE
    BY <1>1, <1>2 DEF SentOnce
  <2>2. Again(e)
    BY <1>1, <1>5 DEF Again, ByItem
  <2> QED
    BY <1>1, <1>2, <1>3, <2>1, <2>2 DEF ArrivedIsRecorded, Kept
<1> QED
  BY <1>6, <1>7, <1>8, <1>9, <1>10, <1>11, <1>12, <1>13, <1>14, <1>15

(* The answer to a request, or none, comes in.                             *)
LEMMA AnswersStep ==
    ASSUME SensorInv, Answers
    PROVE  SensorInv'
<1> USE DEF SensorInv, SensorTypes
<1>1. PICK ok \in BOOLEAN, d \in asked :
        /\ sensor \in ByItem \cup Careless \cup Paired
        /\ Answer(ok) /\ memory' = Noted(d, ok) /\ file' \in {file, memory'}
  BY DEF Answers
<1>2. /\ phase = "waiting" /\ phase' = "sending" /\ docs' = docs /\ taken' = taken
      /\ sensor' = sensor /\ shown' = shown /\ gone' = gone /\ started' = started
      /\ asked' = {} /\ answered' = FALSE
      /\ arrived' = arrived /\ last' = last /\ twice' = twice
      /\ forgotten' = forgotten /\ halts' = halts
  BY <1>1 DEF Answer, others, record
<1>3. asked = {d}
  BY <1>1, <1>2 DEF PhaseFits
<1>4. /\ \/ ok /\ d \in arrived /\ failed' = failed
         \/ ~ok /\ failed' = failed \cup {d}
      /\ late \subseteq late' /\ late' \subseteq late \cup {d}
      /\ late' \subseteq failed' \cup forgotten
      /\ failures' \in 0..MaxFailures /\ missed' = missed
  <2>1. failures \in 0..MaxFailures /\ MaxFailures \in Nat
    BY ProcessAssumption DEF ProcessTypeOK
  <2>2. CASE ok /\ answered /\ UNCHANGED <<late, trouble>>
    BY <1>3, <2>1, <2>2 DEF AnswersFit, trouble
  <2>3. CASE /\ ~ok /\ failures < MaxFailures
             /\ late' = IF answered THEN late ELSE late \cup asked
             /\ failed' = failed \cup asked /\ failures' = failures + 1
             /\ missed' = missed
    BY <1>3, <2>1, <2>3 DEF AnswersFit
  <2> QED
    BY <1>1, <2>2, <2>3 DEF Answer
<1>5. /\ d \in Doc \cup Listed /\ d.item \in Items /\ d.item \in Visible
      /\ d = Of(d.item, d.version) /\ d.version \in Nat /\ d.item \in Nat \ {0}
      /\ memory \in State /\ Known(d)
  BY <1>3, Documents, ProcessAssumption DEF ProcessTypeOK, DocsFit, Known
<1>6. d.version # 0
  BY <1>3 DEF DocsFit
<1>7. Noting(memory', d, ok)
  <2>1. PICK m : m = Noted(d, ok)
    OBVIOUS
  <2>2. m = memory'
    BY <1>1, <2>1
  <2>3. Noting(m, d, ok)
    BY <1>5, <2>1, NotedIs
  <2> QED
    BY <2>2, <2>3
<1> USE DEF Noting
<1> DEFINE Good(s) ==
      /\ \A i \in Items : s.hash[i] # 0 =>
           \/ Of(i, s.hash[i]) \in arrived
           \/ sensor \in Careless /\ Of(i, s.hash[i]) \in failed'
      /\ \A i \in Items : i \in s.done =>
           \E e \in arrived : e.item = i
      /\ \A i \in Visible : i <= s.mark =>
           i \in s.done \cup Unfit \cup missed \cup gone \/ \E e \in failed' : e.item = i
<1>8. Good(memory')
  <2>1. ASSUME NEW i \in Items, memory'.hash[i] # 0
        PROVE  \/ Of(i, memory'.hash[i]) \in arrived
               \/ sensor \in Careless /\ Of(i, memory'.hash[i]) \in failed'
    <3>1. CASE memory'.hash[i] = memory.hash[i]
      BY <1>4, <2>1, <3>1 DEF Truthful
    <3>2. CASE memory'.hash[i] # memory.hash[i]
      <4>1. i = d.item /\ memory'.hash[i] = d.version /\ Of(i, memory'.hash[i]) = d
        BY <1>5, <1>7, <3>2
      <4>2. ~ok => sensor \in Careless
        <5>1. SUFFICES ASSUME ~ok, sensor \notin Careless
                       PROVE  FALSE
          OBVIOUS
        <5>2. sensor \in Sensors /\ memory'.hash[i] = d.version /\ i = d.item
          BY <4>1 DEF ProcessTypeOK
        <5>3. memory' = Noted(d, ok)
          BY <1>1
        <5>4. sensor # "newsletters" => memory' = memory
          BY <5>1, <5>3 DEF Noted
        <5>5. sensor = "newsletters" => memory'.hash = memory.hash
          BY <1>7 DEF ByItem
        <5> QED
          BY <3>2, <5>4, <5>5
      <4> QED
        BY <1>4, <4>1, <4>2
    <3> QED
      BY <3>1, <3>2
  <2>2. ASSUME NEW i \in Items, i \in memory'.done
        PROVE  \E e \in arrived : e.item = i
    <3>1. CASE i \in memory.done
      BY <1>4, <3>1 DEF Truthful, HasArrived, HasFailed
    <3>2. CASE i \notin memory.done
      <4>1. i = d.item /\ ok
        BY <1>7, <2>2, <3>2
      <4> QED
        BY <1>4, <4>1
    <3> QED
      BY <3>1, <3>2
  <2>3. ASSUME NEW i \in Visible, i <= memory'.mark
        PROVE  i \in memory'.done \cup Unfit \cup missed \cup gone \/ \E e \in failed' : e.item = i
    <3>0. i \in Items /\ i \in Nat
      BY CurrentIs
    <3>1. CASE i <= memory.mark
      BY <1>4, <1>7, <3>0, <3>1 DEF Truthful, Accounted, HasFailed
    <3>2. CASE ~(i <= memory.mark)
      <4>1. sensor = "newsletters" /\ i <= d.item
        BY <1>7, <2>3, <3>2
      <4>2. CASE i = d.item
        BY <1>4, <1>7, <4>1, <4>2 DEF Careless
      <4>3. CASE i < d.item
        <5>1. Accounted(memory, i) \/ \E e \in docs \cup {d} : e.item = i
          BY <1>3, <4>1, <4>3 DEF FolderInOrder
        <5>2. \A e \in docs : d.item <= e.item /\ e.item \in Nat
          BY <1>3, <4>1, Documents, ProcessAssumption DEF FolderInOrder, ProcessTypeOK
        <5>3. Accounted(memory, i)
          BY <1>5, <3>0, <4>3, <5>1, <5>2
        <5> QED
          BY <1>4, <1>7, <5>3 DEF Accounted, HasFailed
      <4> QED
        BY <1>5, <3>0, <4>1, <4>2, <4>3
    <3> QED
      BY <3>1, <3>2
  <2> QED
    BY <2>1, <2>2, <2>3
<1>9. Good(file)
  BY <1>4 DEF Truthful, Accounted, HasArrived, HasFailed, Visible
<1>10. Truthful(memory)' /\ Truthful(file)'
  <2>1. Good(file')
    BY <1>1, <1>8, <1>9
  <2>2. \A i \in Items : memory'.hash[i] = memory'.hash[i]
    OBVIOUS
  <2> QED
    BY <1>2, <1>4, <1>8, <2>1
       DEF Truthful, Accounted, HasArrived, HasFailed, Visible, Unfit, Of, Careless
<1> HIDE DEF Good
<1>11. ProcessTypeOK'
  <2>1. Cardinality({}) <= 1
    BY FS_EmptySet
  <2> QED
    BY <1>1, <1>2, <1>3, <1>4, <1>7, <2>1 DEF ProcessTypeOK, Visible
<1>12. InOrder' /\ PhaseFits'
  BY <1>2 DEF InOrder, PhaseFits, Visible
<1>13. DocsFit'
  BY <1>2, <1>3, <1>4 DEF DocsFit, Known, Visible
<1>14. AnswersFit' /\ SentOnce'
  BY <1>2, <1>4 DEF AnswersFit, SentOnce
<1>15. RepeatsAreExcused'
  BY <1>2, <1>4 DEF RepeatsAreExcused
<1>16. NoneOlder'
  BY <1>2, <1>3, <1>4 DEF NoneOlder, DocsFit, ByItem
<1> DEFINE Fit(s) ==
      /\ sensor \in ByItem => \A i \in Items : s.hash[i] = 0
      /\ sensor \in Careless => s.done = {}
      /\ sensor \in Paired => \A i \in Items : i \in s.done <=> s.hash[i] # 0
      /\ s.mark # 0 => s.mark \in Visible
<1>17. Fit(memory) /\ Fit(file)
  BY DEF StatesFit, Shaped
<1>18. Fit(memory')
  <2>1. /\ sensor \in ByItem => \A i \in Items : memory'.hash[i] = 0
        /\ sensor \in Careless => memory'.done = {}
        /\ memory'.mark # 0 => memory'.mark \in Visible
    BY <1>5, <1>7, <1>17
  <2>2. ASSUME sensor \in Paired, NEW i \in Items
        PROVE  i \in memory'.done <=> memory'.hash[i] # 0
    <3>1. sensor \notin Careless
      BY <2>2 DEF Paired, Careless
    <3> QED
      BY <1>1, <1>6, <1>7, <1>17, <2>2, <3>1
  <2> QED
    BY <2>1, <2>2
<1>19. StatesFit'
  <2>1. Fit(file')
    BY <1>1, <1>17, <1>18
  <2> QED
    BY <1>2, <1>18, <2>1 DEF StatesFit, Shaped, ByItem, Careless, Paired, Visible
<1>20. FolderInOrder'
  <2>1. SUFFICES ASSUME sensor = "newsletters", NEW c \in docs, NEW i \in Visible,
                        i < c.item
                 PROVE  \/ i \in memory'.done \cup Unfit \cup missed \cup gone \/ \E e \in failed' : e.item = i
                        \/ \E e \in docs : e.item = i
    BY <1>2, <1>4 DEF FolderInOrder, Accounted, HasFailed, Visible, Unfit
  <2>2. CASE Accounted(memory, i)
    BY <1>4, <1>7, <2>2 DEF Accounted, HasFailed
  <2>3. CASE i = d.item
    BY <1>4, <1>7, <2>1, <2>3 DEF Careless
  <2>4. CASE \E e \in docs : e.item = i
    BY <2>4
  <2> QED
    BY <1>3, <2>1, <2>2, <2>3, <2>4 DEF FolderInOrder
<1>21. ArrivedIsRecorded'
  <2>1. SUFFICES ASSUME NEW e \in arrived \ (failed' \cup forgotten), Again(e)
                 PROVE  Recorded(memory, e)'
    BY <1>2 DEF ArrivedIsRecorded, Kept, Recorded, Again, ByItem, Current, Of
  <2>2. /\ e.item \in Items /\ e.version \in Nat /\ e \notin failed /\ Known(e)
        /\ e = Of(e.item, e.version) /\ e \in Doc \cup Listed
    BY <1>4, <2>1, Documents DEF ProcessTypeOK, DocsFit
  <2>3. CASE e = d
    <3>1. ok
      BY <1>4, <2>1, <2>3
    <3>2. sensor \in Careless \cup Paired => memory'.hash[d.item] = d.version
      BY <1>7, <3>1
    <3>3. sensor \notin Careless => d.item \in memory'.done
      BY <1>7, <3>1
    <3>4. sensor \in ByItem => memory'.hash[d.item] = 0
      BY <1>5, <1>18
    <3>5. sensor \in ByItem => sensor \notin Careless
      BY DEF ByItem, Careless
    <3>7. CASE sensor \in ByItem
      BY <2>3, <3>3, <3>4, <3>5, <3>7 DEF Recorded
    <3>8. CASE sensor \notin ByItem /\ memory'.hash[d.item] = d.version
      BY <1>6, <2>3, <3>8 DEF Recorded
    <3> QED
      BY <1>1, <3>2, <3>7, <3>8
  <2>4. CASE e # d
    <3>1. Recorded(memory, e)
      BY <1>2, <1>3, <2>1, <2>2, <2>4 DEF ArrivedIsRecorded, Kept
    <3>2. CASE e.item # d.item
      BY <1>7, <2>2, <3>1, <3>2 DEF Recorded
    <3>3. CASE e.item = d.item /\ sensor \in ByItem
      BY <1>7, <3>1, <3>3 DEF Recorded
    <3>4. CASE e.item = d.item /\ sensor \notin ByItem
      <4>1. e.version <= d.version
        BY <1>3, <2>1, <3>4 DEF NoneOlder
      <4>2. e \notin docs
        BY <1>3, <3>4 DEF DocsFit
      <4>3. e.version = shown[e.item]
        BY <2>1, <2>2, <3>4, <4>2, CurrentIs DEF Again, Known
      <4>4. d.version <= shown[d.item]
        BY <1>5 DEF Known
      <4>5. e.version = d.version
        BY <1>5, <2>2, <3>4, <4>1, <4>3, <4>4
      <4> QED
        BY <1>5, <2>2, <2>4, <3>4, <4>5
    <3> QED
      BY <3>2, <3>3, <3>4
  <2> QED
    BY <2>3, <2>4
<1> QED
  BY <1>10, <1>11, <1>12, <1>13, <1>14, <1>15, <1>16, <1>19, <1>20, <1>21

(* A cycle ends, or an import and its process.                             *)
LEMMA EndsStep ==
    ASSUME SensorInv, Ends
    PROVE  SensorInv'
<1> USE DEF SensorInv, SensorTypes
<1>1. /\ phase = "sending" /\ docs = {} /\ docs' = {} /\ taken' = taken
      /\ sensor' = sensor /\ shown' = shown /\ gone' = gone /\ started' \in BOOLEAN
      /\ asked' = asked /\ answered' = answered /\ late' = late
      /\ arrived' = arrived /\ last' = last /\ twice' = twice
      /\ forgotten' = forgotten /\ halts' = halts /\ failed' = failed /\ failures' = failures
      /\ missed' = missed
      /\ \/ phase' = "idle" /\ memory' = memory /\ file' \in {file, memory}
         \/ phase' = "down" /\ memory' = EmptyState /\ file' = memory
  BY DEF Ends, CycleEnds, ImportEnds, Save, wire, others, record, trouble, ProcessTypeOK
<1>2. asked = {} /\ ~answered
  BY <1>1 DEF PhaseFits
<1>3. ProcessTypeOK'
  BY <1>1, Empty DEF ProcessTypeOK, Visible
<1>4. InOrder' /\ PhaseFits'
  BY <1>1, <1>2 DEF InOrder, PhaseFits, Visible
<1>5. DocsFit' /\ NoneOlder' /\ FolderInOrder'
  BY <1>1, <1>2 DEF DocsFit, Known, Visible, NoneOlder, ByItem, FolderInOrder
<1>6. AnswersFit' /\ SentOnce' /\ RepeatsAreExcused'
  BY <1>1, <1>2 DEF AnswersFit, SentOnce, RepeatsAreExcused
<1> DEFINE Fit(s) ==
      /\ sensor \in ByItem => \A i \in Items : s.hash[i] = 0
      /\ sensor \in Careless => s.done = {}
      /\ sensor \in Paired => \A i \in Items : i \in s.done <=> s.hash[i] # 0
      /\ s.mark # 0 => s.mark \in Visible
<1>7. Fit(memory) /\ Fit(file) /\ Fit(EmptyState)
  BY Empty DEF StatesFit, Shaped
<1>8. StatesFit'
  <2>1. Fit(memory') /\ Fit(file')
    BY <1>1, <1>7
  <2> QED
    BY <1>1, <1>2, <2>1 DEF StatesFit, Shaped, ByItem, Careless, Paired, Visible
<1> DEFINE Good(s) ==
      /\ \A i \in Items : s.hash[i] # 0 =>
           \/ Of(i, s.hash[i]) \in arrived
           \/ sensor \in Careless /\ Of(i, s.hash[i]) \in failed
      /\ \A i \in Items : i \in s.done =>
           \E e \in arrived : e.item = i
      /\ \A i \in Visible : i <= s.mark =>
           i \in s.done \cup Unfit \cup missed \cup gone \/ \E e \in failed : e.item = i
<1>9. Good(memory) /\ Good(file)
  BY DEF Truthful, Accounted, HasArrived, HasFailed, Visible
<1>10. Good(EmptyState)
  <2>1. \A i \in Visible : i \in Nat /\ i # 0
    BY CurrentIs
  <2>2. \A i \in Visible : ~ (i <= 0)
    BY <2>1
  <2> QED
    BY <2>2, Empty
<1>11. Truthful(memory)' /\ Truthful(file)'
  <2>1. Good(memory') /\ Good(file')
    BY <1>1, <1>9, <1>10
  <2> QED
    BY <1>1, <2>1
       DEF Truthful, Accounted, HasArrived, HasFailed, Visible, Unfit, Of, Careless
<1>12. ArrivedIsRecorded'
  <2>1. SUFFICES ASSUME NEW d \in arrived \ (failed \cup forgotten), Again(d)
                 PROVE  Recorded(memory, d)
    BY <1>1 DEF ArrivedIsRecorded, Kept, Recorded, Again, ByItem, Current, Of
  <2> QED
    BY <1>1, <1>2, <2>1 DEF ArrivedIsRecorded, Kept
<1> QED
  BY <1>3, <1>4, <1>5, <1>6, <1>8, <1>11, <1>12

(* Every step of the process.                                              *)
LEMMA ProcessStep ==
    ASSUME SensorInv, Process
    PROVE  SensorInv'
<1>1. Steps
  BY ProcessCases DEF SensorInv, SensorTypes
<1> QED
  BY <1>1, CollectsStep, SkipsStep, RequestsStep, AnswersStep, EndsStep DEF Steps

(* The source shows an item, or a new version of one.                      *)
LEMMA PublishStep ==
    ASSUME SensorInv, NEW i \in Items, Publish(i)
    PROVE  SensorInv'
<1> USE DEF SensorInv, SensorTypes
<1>1. /\ shown[i] < MaxVersions[i] /\ \A j \in Items : j < i => j \in Visible
      /\ shown' = [shown EXCEPT ![i] = shown[i] + 1]
      /\ phase' = phase /\ docs' = docs /\ taken' = taken
      /\ sensor' = sensor /\ gone' = gone /\ started' = started /\ memory' = memory
      /\ file' = file
      /\ asked' = asked /\ answered' = answered /\ late' = late
      /\ arrived' = arrived /\ last' = last /\ twice' = twice
      /\ forgotten' = forgotten /\ halts' = halts /\ failed' = failed /\ failures' = failures
      /\ missed' = missed
  BY DEF Publish, work, wire, record, trouble
<1>2. \A j \in Items : shown[j] \in Nat /\ j \in Nat
  <2>1. \A j \in Items : shown[j] \in AllVersions \cup {0}
    BY DEF ProcessTypeOK
  <2>2. AllVersions \cup {0} \subseteq Nat /\ Items \subseteq Nat
    BY Versions, ProcessAssumption
  <2> QED
    BY <2>1, <2>2
<1>3. \A j \in Items : shown'[j] = IF j = i THEN shown[j] + 1 ELSE shown[j]
  BY <1>1 DEF ProcessTypeOK
<1>4. /\ \A j \in Visible : j \in Visible' /\ shown'[j] >= shown[j]
      /\ \A j \in Visible' : j \in Visible \/ j = i
  BY <1>2, <1>3 DEF Visible
<1>5. ProcessTypeOK'
  <2>1. shown[i] + 1 \in AllVersions
    BY <1>1, <1>2, VersionOf, ProcessAssumption
  <2>2. shown' \in [Items -> AllVersions \cup {0}]
    BY <1>1, <2>1 DEF ProcessTypeOK
  <2>3. gone' \subseteq Visible'
    BY <1>1, <1>4 DEF ProcessTypeOK
  <2> QED
    BY <1>1, <2>2, <2>3 DEF ProcessTypeOK
<1>6. InOrder'
  BY <1>1, <1>4 DEF InOrder
<1>7. PhaseFits'
  BY <1>1 DEF PhaseFits
<1>8. ASSUME NEW d \in docs \cup asked \cup late \cup arrived
      PROVE  /\ Known(d) /\ d.item \in Visible' /\ d.version <= shown'[d.item]
             /\ d.version \in Nat /\ shown[d.item] \in Nat /\ shown'[d.item] \in Nat
             /\ d.version = shown'[d.item] => d.version = shown[d.item]
             /\ d.item \in Items /\ d = Of(d.item, d.version)
  <2>1. /\ Known(d) /\ d.version \in Nat /\ d.item \in Items
        /\ d = Of(d.item, d.version)
    BY Documents DEF ProcessTypeOK, DocsFit
  <2> QED
    BY <1>2, <1>3, <1>4, <2>1 DEF Known
<1>9. DocsFit'
  BY <1>1, <1>8 DEF DocsFit, Known
<1>10. AnswersFit' /\ SentOnce' /\ RepeatsAreExcused' /\ NoneOlder'
  BY <1>1 DEF AnswersFit, SentOnce, RepeatsAreExcused, NoneOlder, ByItem
<1>11. StatesFit'
  BY <1>1, <1>4 DEF StatesFit, Shaped, ByItem, Careless, Paired
<1>12. ASSUME NEW s \in {memory, file}, NEW j \in Visible', j <= s.mark
       PROVE  Accounted(s, j)
  <2>1. s \in State /\ (s.mark # 0 => s.mark \in Visible) /\ Truthful(s)
    BY DEF ProcessTypeOK, StatesFit, Shaped
  <2>2. s.mark \in Nat /\ j \in Nat \ {0} /\ j \in Items
    BY <2>1, Fields, ProcessAssumption DEF Visible
  <2>3. s.mark \in Visible
    BY <1>12, <2>1, <2>2
  <2>4. j \in Visible
    BY <1>12, <2>2, <2>3 DEF InOrder
  <2> QED
    BY <1>12, <2>1, <2>2, <2>4 DEF Truthful
<1>13. Truthful(memory)' /\ Truthful(file)'
  BY <1>1, <1>12 DEF Truthful, Accounted, HasArrived, HasFailed, Unfit, Of, Careless
<1>14. FolderInOrder'
  <2>1. ASSUME sensor = "newsletters", NEW d \in docs \cup asked, NEW j \in Visible',
               j < d.item
        PROVE  Accounted(memory, j) \/ \E e \in docs \cup asked : e.item = j
    <3>1. d.item \in Visible /\ j \in Items
      BY <1>8 DEF Known, Visible
    <3>2. j \in Visible
      BY <2>1, <3>1 DEF InOrder
    <3> QED
      BY <2>1, <3>2 DEF FolderInOrder
  <2> QED
    BY <1>1, <2>1 DEF FolderInOrder, Accounted, HasFailed, Unfit
<1>15. ArrivedIsRecorded'
  <2>1. SUFFICES ASSUME NEW d \in arrived \ (failed \cup forgotten \cup asked), Again(d)'
                 PROVE  Recorded(Kept, d)
    BY <1>1 DEF ArrivedIsRecorded, Kept, Recorded
  <2>2. Again(d)
    <3>1. CASE d = Of(d.item, shown'[d.item])
      <4>1. d.version = shown'[d.item]
        BY <1>8, <3>1 DEF Of
      <4> QED
        BY <1>8, <4>1 DEF Again, Current
    <3>2. CASE sensor \in ByItem \/ d \in docs
      BY <3>2 DEF Again
    <3> QED
      BY <1>1, <2>1, <3>1, <3>2 DEF Again, ByItem, Current, Of
  <2> QED
    BY <2>1, <2>2 DEF ArrivedIsRecorded
<1> QED
  BY <1>5, <1>6, <1>7, <1>9, <1>10, <1>11, <1>13, <1>14, <1>15

(* The source stops listing an item.                                       *)
LEMMA WithdrawStep ==
    ASSUME SensorInv, NEW i \in Items, Withdraw(i)
    PROVE  SensorInv'
<1> USE DEF SensorInv, SensorTypes
<1>1. /\ i \in Visible /\ gone' = gone \cup {i}
      /\ phase' = phase /\ docs' = docs /\ taken' = taken
      /\ sensor' = sensor /\ shown' = shown /\ started' = started
      /\ memory' = memory /\ file' = file
      /\ asked' = asked /\ answered' = answered /\ late' = late
      /\ arrived' = arrived /\ last' = last /\ twice' = twice
      /\ forgotten' = forgotten /\ halts' = halts /\ failed' = failed
      /\ failures' = failures /\ missed' = missed
  BY DEF Withdraw, Offered, work, wire, record, trouble
<1>2. ProcessTypeOK'
  BY <1>1 DEF ProcessTypeOK, Visible
<1>3. InOrder' /\ PhaseFits' /\ DocsFit' /\ AnswersFit' /\ NoneOlder'
  BY <1>1 DEF InOrder, PhaseFits, DocsFit, Known, Visible, AnswersFit, NoneOlder, ByItem
<1>4. StatesFit' /\ SentOnce' /\ RepeatsAreExcused'
  BY <1>1 DEF StatesFit, Shaped, ByItem, Careless, Paired, Visible, SentOnce,
              RepeatsAreExcused
<1>5. Truthful(memory)' /\ Truthful(file)'
  BY <1>1 DEF Truthful, Accounted, HasArrived, HasFailed, Visible, Unfit, Of, Careless
<1>6. FolderInOrder'
  BY <1>1 DEF FolderInOrder, Accounted, HasFailed, Visible, Unfit
<1>7. ArrivedIsRecorded'
  BY <1>1 DEF ArrivedIsRecorded, Kept, Recorded, Again, ByItem, Current, Of
<1> QED
  BY <1>2, <1>3, <1>4, <1>5, <1>6, <1>7

(* A document reaches the coordinator: one whose answer is awaited and     *)
(* that was not sent before without excuse, or one that came late.         *)
LEMMA ArrivalStep ==
    ASSUME SensorInv, NEW d \in Doc \cup Listed, Arrival(d),
           d \in asked \/ d \in late,
           d \in arrived => d \in failed \cup forgotten,
           late' \subseteq late, answered' \in BOOLEAN,
           phase # "waiting" => ~answered',
           answered' => asked \subseteq arrived \cup {d},
           ~answered' => ~answered /\ d \in late
    PROVE  SensorInv'
<1> USE DEF SensorInv, SensorTypes
<1>1. /\ phase' = phase /\ docs' = docs /\ taken' = taken
      /\ sensor' = sensor /\ shown' = shown /\ gone' = gone /\ started' = started
      /\ memory' = memory /\ file' = file /\ asked' = asked
      /\ arrived' = arrived \cup {d} /\ last' = [last EXCEPT ![d.item] = d.version]
      /\ twice' = IF d \in arrived THEN twice \cup {d} ELSE twice
      /\ forgotten' = forgotten /\ halts' = halts /\ failed' = failed /\ failures' = failures
      /\ missed' = missed
  BY DEF Arrival, work, trouble
<1>2. /\ d.item \in Items /\ d.version \in AllVersions \cup {0} /\ d.version \in Nat
      /\ Known(d) /\ d.version # 0
  BY Documents DEF DocsFit
<1>3. ProcessTypeOK'
  <2>1. last' \in [Items -> AllVersions \cup {0}]
    BY <1>1, <1>2 DEF ProcessTypeOK
  <2> QED
    BY <1>1, <2>1 DEF ProcessTypeOK, Visible
<1>4. InOrder' /\ PhaseFits'
  BY <1>1 DEF InOrder, PhaseFits, Visible
<1>5. DocsFit'
  BY <1>1, <1>2 DEF DocsFit, Known, Visible
<1>6. AnswersFit' /\ RepeatsAreExcused'
  BY <1>1 DEF AnswersFit, RepeatsAreExcused
<1>7. NoneOlder'
  <2>1. SUFFICES ASSUME sensor \notin ByItem
                 PROVE  /\ \A e \in asked : d.item = e.item => d.version <= e.version
                        /\ sensor # "medium" =>
                             \A e \in docs : d.item = e.item => d.version <= e.version
    BY <1>1 DEF NoneOlder, ByItem
  <2>2. CASE d \in late
    BY <2>1, <2>2 DEF NoneOlder
  <2>3. CASE d \in asked
    <3>1. asked = {d}
      BY <2>3 DEF PhaseFits
    <3> QED
      BY <1>2, <3>1 DEF DocsFit
  <2> QED
    BY <2>2, <2>3
<1>8. StatesFit' /\ FolderInOrder'
  BY <1>1 DEF StatesFit, Shaped, ByItem, Careless, Paired, Visible, FolderInOrder, Accounted,
              HasFailed, Unfit
<1>9. Truthful(memory)' /\ Truthful(file)'
  BY <1>1 DEF Truthful, Accounted, HasArrived, HasFailed, Visible, Unfit, Of, Careless
<1>10. ArrivedIsRecorded'
  <2>1. SUFFICES ASSUME NEW e \in (arrived \cup {d}) \ (failed \cup forgotten \cup asked),
                        Again(e)
                 PROVE  Recorded(Kept, e)
    BY <1>1 DEF ArrivedIsRecorded, Kept, Recorded, Again, ByItem, Current, Of
  <2>2. e \in arrived
    BY <2>1 DEF AnswersFit
  <2> QED
    BY <2>1, <2>2 DEF ArrivedIsRecorded
<1>11. SentOnce'
  BY <1>1 DEF SentOnce, AnswersFit
<1> QED
  BY <1>3, <1>4, <1>5, <1>6, <1>7, <1>8, <1>9, <1>10, <1>11

(* Both ways a request can arrive.                                         *)
LEMMA ArrivalsStep ==
    ASSUME SensorInv, Arrive \/ \E d \in late : ArriveLate(d)
    PROVE  SensorInv'
<1> USE DEF SensorInv, SensorTypes
<1>1. CASE Arrive
  <2>1. PICK d \in asked : Arrival(d)
    BY <1>1 DEF Arrive
  <2>2. phase = "waiting" /\ ~answered /\ answered' = TRUE /\ late' = late
    BY <1>1 DEF Arrive
  <2>3. asked = {d} /\ d \in Doc \cup Listed
    BY <2>1 DEF PhaseFits, ProcessTypeOK
  <2>4. d \in arrived => d \in failed \cup forgotten
    BY <2>1, <2>2 DEF SentOnce
  <2> QED
    BY <2>1, <2>2, <2>3, <2>4, ArrivalStep
<1>2. CASE \E d \in late : ArriveLate(d)
  <2>1. PICK d \in late : late' = late \ {d} /\ Arrival(d) /\ answered' = answered
    BY <1>2 DEF ArriveLate
  <2>2. /\ d \in Doc \cup Listed /\ d \in failed \cup forgotten /\ answered \in BOOLEAN
        /\ phase # "waiting" => ~answered
        /\ answered => asked \subseteq arrived
    BY <2>1 DEF ProcessTypeOK, AnswersFit, PhaseFits
  <2> QED
    BY <2>1, <2>2, ArrivalStep
<1> QED
  BY <1>1, <1>2

(* The process ends.                                                       *)
LEMMA HaltStep ==
    ASSUME SensorInv, Halt
    PROVE  SensorInv'
<1> USE DEF SensorInv, SensorTypes
<1>1. /\ phase # "down" /\ halts < MaxHalts /\ halts' = halts + 1
      /\ phase' = "down" /\ docs' = {} /\ started' = FALSE /\ taken' = {}
      /\ memory' = EmptyState /\ asked' = {} /\ answered' = FALSE
      /\ late' = IF answered THEN late ELSE late \cup asked
      /\ forgotten' = forgotten \cup asked \cup
           {d \in arrived : Recorded(memory, d) /\ ~Recorded(file, d)}
      /\ sensor' = sensor /\ shown' = shown /\ gone' = gone /\ file' = file
      /\ arrived' = arrived /\ last' = last /\ twice' = twice
      /\ failed' = failed /\ failures' = failures
      /\ missed' = missed
  BY DEF Halt, record, trouble
<1>2. ProcessTypeOK'
  <2>1. Cardinality({}) <= 1
    BY FS_EmptySet
  <2>2. halts' \in 0..MaxHalts
    BY <1>1, ProcessAssumption DEF ProcessTypeOK
  <2>3. late' \subseteq Doc \cup Listed /\ forgotten' \subseteq Doc \cup Listed
    BY <1>1 DEF ProcessTypeOK
  <2> QED
    BY <1>1, <2>1, <2>2, <2>3, Empty DEF ProcessTypeOK, Visible
<1>3. InOrder' /\ PhaseFits'
  BY <1>1 DEF InOrder, PhaseFits, Visible
<1>4. DocsFit' /\ NoneOlder' /\ FolderInOrder'
  BY <1>1 DEF DocsFit, Known, Visible, NoneOlder, ByItem, FolderInOrder
<1>5. AnswersFit' /\ SentOnce' /\ RepeatsAreExcused'
  BY <1>1 DEF AnswersFit, SentOnce, RepeatsAreExcused
<1>6. StatesFit'
  BY <1>1, Empty DEF StatesFit, Shaped, ByItem, Careless, Paired, Visible
<1>7. Truthful(file)'
  BY <1>1 DEF Truthful, Accounted, HasArrived, HasFailed, Visible, Unfit, Of, Careless
<1>8. Truthful(memory)'
  <2>1. \A i \in Items : i \in Nat /\ ~ (i <= 0)
    BY ProcessAssumption
  <2> QED
    BY <1>1, <2>1, Empty
       DEF Truthful, Accounted, HasArrived, HasFailed, Visible, Unfit, Of, Careless
<1>9. ArrivedIsRecorded'
  <2>1. SUFFICES ASSUME NEW d \in arrived \ (failed \cup forgotten'), Again(d)'
                 PROVE  Recorded(file, d)
    BY <1>1 DEF ArrivedIsRecorded, Kept, Recorded
  <2>2. Again(d)
    BY <1>1, <2>1 DEF Again, ByItem, Current, Of
  <2>3. Recorded(memory, d)
    BY <1>1, <2>1, <2>2 DEF ArrivedIsRecorded, Kept
  <2> QED
    BY <1>1, <2>1, <2>3
<1> QED
  BY <1>2, <1>3, <1>4, <1>5, <1>6, <1>7, <1>8, <1>9

(* It is started again, with what the file says.                           *)
LEMMA StartStep ==
    ASSUME SensorInv, Start
    PROVE  SensorInv'
<1> USE DEF SensorInv, SensorTypes
<1>1. /\ phase = "down" /\ phase' = "idle" /\ memory' = file
      /\ docs' = docs /\ taken' = taken /\ sensor' = sensor /\ shown' = shown /\ gone' = gone
      /\ started' = started /\ file' = file /\ asked' = asked /\ answered' = answered
      /\ late' = late /\ arrived' = arrived /\ last' = last /\ twice' = twice
      /\ forgotten' = forgotten /\ halts' = halts /\ failed' = failed /\ failures' = failures
      /\ missed' = missed
  BY DEF Start, wire, record, trouble
<1>2. docs = {} /\ asked = {} /\ ~answered
  BY <1>1 DEF PhaseFits
<1>3. ProcessTypeOK'
  BY <1>1 DEF ProcessTypeOK, Visible
<1>4. InOrder' /\ PhaseFits'
  BY <1>1, <1>2 DEF InOrder, PhaseFits, Visible
<1>5. DocsFit' /\ NoneOlder' /\ FolderInOrder'
  BY <1>1, <1>2 DEF DocsFit, Known, Visible, NoneOlder, ByItem, FolderInOrder
<1>6. AnswersFit' /\ SentOnce' /\ RepeatsAreExcused'
  BY <1>1, <1>2 DEF AnswersFit, SentOnce, RepeatsAreExcused
<1>7. StatesFit'
  BY <1>1, <1>2 DEF StatesFit, Shaped, ByItem, Careless, Paired, Visible
<1>8. Truthful(memory)' /\ Truthful(file)'
  BY <1>1 DEF Truthful, Accounted, HasArrived, HasFailed, Visible, Unfit, Of, Careless
<1>9. ArrivedIsRecorded'
  BY <1>1, <1>2 DEF ArrivedIsRecorded, Kept, Recorded, Again, ByItem, Current, Of
<1> QED
  BY <1>3, <1>4, <1>5, <1>6, <1>7, <1>8, <1>9

-----------------------------------------------------------------------------
(* Nothing is shown, sent or recorded at first.                            *)
LEMMA SensorStarts == ProcessInit => SensorInv
<1> SUFFICES ASSUME ProcessInit PROVE SensorInv
  OBVIOUS
<1>1. /\ sensor \in Sensors /\ shown = [i \in Items |-> 0]
      /\ phase = "down" /\ started = FALSE /\ docs = {}
      /\ memory = EmptyState /\ file = EmptyState /\ taken = {}
      /\ asked = {} /\ answered = FALSE /\ late = {}
      /\ arrived = {} /\ twice = {} /\ last = [i \in Items |-> 0]
      /\ failed = {} /\ missed = {} /\ forgotten = {} /\ halts = 0 /\ failures = 0
      /\ gone = {}
  BY DEF ProcessInit
<1>2. Visible = {}
  BY <1>1 DEF Visible
<1>3. ProcessTypeOK
  <2>1. Cardinality({}) <= 1
    BY FS_EmptySet
  <2>2. \A n \in Nat : 0 \in 0..n
    OBVIOUS
  <2>3. 0 \in 0..MaxHalts /\ 0 \in 0..MaxFailures
    BY <2>2, ProcessAssumption
  <2>4. shown \in [Items -> AllVersions \cup {0}] /\ last \in [Items -> AllVersions \cup {0}]
    BY <1>1
  <2> QED
    BY <1>1, <2>1, <2>3, <2>4, Empty DEF ProcessTypeOK
<1>4. InOrder /\ PhaseFits /\ DocsFit /\ AnswersFit /\ NoneOlder
  BY <1>1, <1>2 DEF InOrder, PhaseFits, DocsFit, AnswersFit, NoneOlder
<1>5. StatesFit /\ FolderInOrder
  BY <1>1, Empty DEF StatesFit, Shaped, FolderInOrder
<1>6. Truthful(memory) /\ Truthful(file)
  BY <1>1, <1>2, Empty DEF Truthful
<1>7. ArrivedIsRecorded /\ SentOnce /\ RepeatsAreExcused
  BY <1>1 DEF ArrivedIsRecorded, SentOnce, RepeatsAreExcused
<1> QED
  BY <1>3, <1>4, <1>5, <1>6, <1>7 DEF SensorInv, SensorTypes

(* Every step keeps the invariant.                                         *)
LEMMA SensorStep == SensorInv /\ [Next]_vars => SensorInv'
<1> SUFFICES ASSUME SensorInv, [Next]_vars PROVE SensorInv'
  OBVIOUS
<1>1. CASE Process
  BY <1>1, ProcessStep
<1>2. CASE \E i \in Items : Publish(i) \/ Withdraw(i)
  BY <1>2, PublishStep, WithdrawStep
<1>3. CASE Arrive \/ \E d \in late : ArriveLate(d)
  BY <1>3, ArrivalsStep
<1>4. CASE Halt
  BY <1>4, HaltStep
<1>5. CASE Start
  BY <1>5, StartStep
<1>6. CASE UNCHANGED vars
  BY <1>6 DEF vars, SensorInv, SensorTypes, ProcessTypeOK, InOrder, PhaseFits, DocsFit, Known,
       AnswersFit, NoneOlder, StatesFit, Shaped, Truthful, Accounted, FolderInOrder,
       ArrivedIsRecorded, Kept, Again, Recorded, SentOnce, RepeatsAreExcused, HasArrived,
       HasFailed, Visible, Unfit, Current, Of, ByItem, Careless, Paired
<1> QED
  BY <1>1, <1>2, <1>3, <1>4, <1>5, <1>6 DEF Next, Environment

(* The states of the polling sensors, whatever the source shows and        *)
(* whatever becomes of the requests.                                       *)
THEOREM SensorsInvariant == Spec => []SensorInv
<1>1. ProcessInit => SensorInv
  BY SensorStarts
<1>2. SensorInv /\ [Next]_vars => SensorInv'
  BY SensorStep
<1> QED
  BY <1>1, <1>2, PTL DEF Spec

(* A polling sensor records as done only what reached the coordinator, or, *)
(* where it does not look at the outcome, what it has sent in vain; the    *)
(* watermark of the newsletters passes no message that is to be sent.      *)
THEOREM SensorsRecordWhatArrived == Spec => []RecordsOnlyWhatArrived
<1>1. SensorInv => RecordsOnlyWhatArrived
  BY DEF SensorInv, Truthful, Accounted, RecordsOnlyWhatArrived
<1> QED
  BY <1>1, SensorsInvariant, PTL

(* No polling sensor sends a document twice without an excuse.             *)
THEOREM SensorsRepeatWithExcuse == Spec => []RepeatsAreExcused
<1>1. SensorInv => RepeatsAreExcused
  BY DEF SensorInv
<1> QED
  BY <1>1, SensorsInvariant, PTL

=============================================================================
