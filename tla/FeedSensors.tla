------------------------------ MODULE FeedSensors ------------------------------
(***************************************************************************)
(* The sensors of feeds: medium, rss, podcast and youtube.  The first two  *)
(* record an item as processed when the request for it succeeded, and      *)
(* leave it for the next cycle when it failed.  The other two raise before *)
(* the request: podcast calls to_orn and youtube to_string of an ORN of    *)
(* rid-lib, which has neither, and their handlers of one item catch that.  *)
(***************************************************************************)
EXTENDS SensorProcess

-----------------------------------------------------------------------------
\* The links to articles that the feed, the main page and the pages of the
\* archive show together; each of them may fail.  (_is_article_url)
ArticleLinks(R) == R \ Foreign[sensor]

\* list(...)[:n] of a set, whose order is arbitrary.
Slices(S, n) == {A \in SUBSET S :
    Cardinality(A) = IF Cardinality(S) < n THEN Cardinality(S) ELSE n}

\* collect_historical_articles, once in the life of the process, takes a slice
\* and leaves out what is processed; collect_recent_articles leaves that out
\* and takes a slice.
MediumArticles(R) ==
    IF started THEN Slices(R \ memory.done, PerCheck)
    ELSE {A \ memory.done : A \in Slices(R, HistoricalLimit)}

\* medium lists the articles first and reads each when it comes to it.
MediumCollect == sensor = "medium" /\ \E R \in SUBSET ArticleLinks(Offered) :
    /\ Readable(ArticleLinks(Offered), R)
    /\ \E A \in MediumArticles(R) : Collect({Of(i, 0) : i \in A})
    /\ UNCHANGED taken

\* extract_article_data raises for a page with a time element: the imports of
\* its other branch make re and datetime local names, which then have no value.
PageRaises(i) == i \in Dated

\* The text of any other page, 0 if it is too short.
ArticleText(i) == IF i \in Short[sensor] THEN 0 ELSE shown[i]

\* process_article: reads the page, and sends it unless it is short or its hash
\* is the recorded one.
MediumProcessArticle == sensor = "medium" /\ \E d \in docs :
    \/ Skip(d) /\ ReadingFails({}) /\ UNCHANGED memory
    \/ PageRaises(d.item) /\ Raises(d)
    \/ /\ ~PageRaises(d.item)
       /\ IF ArticleText(d.item) \in {0, memory.hash[d.item]}
          THEN Skip(d) /\ UNCHANGED <<memory, trouble>>
          ELSE Emit(d, Current(d.item))

\* emit_article_event returns; the hash is set by process_article.
MediumEmitArticleEvent == sensor = "medium" /\ \E ok \in BOOLEAN, d \in asked :
    Answer(ok) /\ memory' = (IF ok THEN Record(d) ELSE memory) /\ UNCHANGED file

\* monitor_medium_source saves after a check, not after the historical ones.
MediumCycleEnds == sensor = "medium" /\ CycleEnds /\
    IF started THEN Save ELSE UNCHANGED file

-----------------------------------------------------------------------------
\* rss: poll_feed reads the feed, _process_entry takes one entry after the other.
RssPollFeed == sensor = "rss" /\ \E R \in {Offered, {}} :
    Readable(Offered, R) /\ Collect({Current(i) : i \in R}) /\ UNCHANGED taken

RssProcessEntry == sensor = "rss" /\ \E d \in docs :
    IF d.item \in memory.done \cup Short[sensor]
    THEN Skip(d) /\ UNCHANGED <<memory, trouble>>
    ELSE Emit(d, d)

\* Mutant: an entry counts as processed whatever became of the request.
RssMarksAnyway == sensor = "rss" /\ \E ok \in BOOLEAN, d \in asked :
    Answer(ok) /\ memory' = WithDone(d) /\ UNCHANGED file

RssEntrySent == sensor = "rss" /\ \E ok \in BOOLEAN, d \in asked :
    Answer(ok) /\ memory' = (IF ok THEN WithDone(d) ELSE memory) /\ UNCHANGED file

RssCycleEnds == sensor = "rss" /\ CycleEnds /\ Save

-----------------------------------------------------------------------------
\* podcast: collect_soundcloud_episodes, then process_episode for each.
PodcastCollect == sensor = "podcast" /\ \E R \in SUBSET Offered :
    Readable(Offered, R) /\ Collect({Current(i) : i \in R}) /\ UNCHANGED taken

\* The RID of an episode has no to_orn: what comes after it, the request and
\* the record, is never reached.
PodcastProcessEpisode == sensor = "podcast" /\ \E d \in docs : Raises(d)

PodcastCycleEnds == sensor = "podcast" /\ CycleEnds /\ Save

-----------------------------------------------------------------------------
\* youtube: fetch_channel_videos, then process_video for each.
YoutubeFetch == sensor = "youtube" /\ \E R \in SUBSET Offered :
    Readable(Offered, R) /\ Collect({Current(i) : i \in R}) /\ UNCHANGED taken

\* process_video_to_document: the RID of a video has no to_string, so that each
\* video that is not processed, and none ever is, raises after its transcription.
YoutubeProcessVideo == sensor = "youtube" /\ \E d \in docs : Raises(d)

YoutubeCycleEnds == sensor = "youtube" /\ CycleEnds /\ UNCHANGED file

FeedSensor ==
    \/ MediumCollect \/ MediumProcessArticle \/ MediumEmitArticleEvent \/ MediumCycleEnds
    \/ RssPollFeed \/ RssProcessEntry \/ RssEntrySent \/ RssCycleEnds
    \/ PodcastCollect \/ PodcastProcessEpisode \/ PodcastCycleEnds
    \/ YoutubeFetch \/ YoutubeProcessVideo \/ YoutubeCycleEnds

=============================================================================
