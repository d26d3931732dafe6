---------------------------- MODULE MessageSensors ----------------------------
(***************************************************************************)
(* The sensors of messages: telegram, twitter and newsletters, the latter  *)
(* with its two imports, of a mailbox file (mbox) and of the archive of a  *)
(* publication (substack).  telegram and twitter raise before any request. *)
(***************************************************************************)
EXTENDS SensorProcess

Lowest(D) == CHOOSE d \in D : \A e \in D : d.item <= e.item
Newest(D) == CHOOSE d \in D : \A e \in D : d.item >= e.item

-----------------------------------------------------------------------------
\* telegram: what was processed is not collected again.  run_once saves only
\* if there was anything to send; the state has not changed otherwise.
\* create_message_document
TelegramDocuments(R) == {Current(i) : i \in R \ (memory.done \cup Short[sensor])}

TelegramCollect == sensor = "telegram" /\ \E R \in SUBSET Offered :
    Readable(Offered, R) /\ Collect(TelegramDocuments(R)) /\ UNCHANGED taken

\* send_to_koi: a document without an "id" has no RID for document_to_bundle,
\* which raises before the request.
TelegramSendToKoi == sensor = "telegram" /\ \E d \in docs : Raises(d)

TelegramRunOnceEnds == sensor = "telegram" /\ CycleEnds /\ Save

-----------------------------------------------------------------------------
\* twitter: process_tweet_to_document drops what was processed.
TwitterDocuments(R) == {Current(i) : i \in R \ memory.done}

TwitterCollect == sensor = "twitter" /\ \E R \in SUBSET Offered :
    Readable(Offered, R) /\ Collect(TwitterDocuments(R)) /\ UNCHANGED taken

\* The same, for want of an "id" or an author_id: neither the hash nor the tweet
\* is recorded.
TwitterSendToKoi == sensor = "twitter" /\ \E d \in docs : Raises(d)

TwitterCycleEnds == sensor = "twitter" /\ CycleEnds /\ Save

-----------------------------------------------------------------------------
\* newsletters: nothing is listed if the server or the folder does not open.
\* _imap_connect, _select_folder
Opened(S) == {S, {}}

\* _poll_folder takes the messages above the watermark in their order.
NewslettersPollFolder == sensor = "newsletters" /\
    LET New == {i \in Offered : i > memory.mark} IN \E R \in Opened(New) :
        /\ Readable(New, R)
        /\ Collect({Current(i) : i \in R}) /\ UNCHANGED taken

\* _set_max_uid
WithMark(state, i) == [state EXCEPT !.mark = IF i > @ THEN i ELSE @]

\* _match_sender: a route of the configuration fits the sender, or a default does.
Routed(i) == i \notin Foreign[sensor]

\* _extract_body: the text of the HTML part, or of the plain one where the former
\* is too short.
HasBody(i) == i \notin Short[sensor]

\* A message that cannot be fetched leaves the watermark; one that is too large,
\* too short or of an unknown sender is passed, as is a processed one, and any
\* other is sent.
NewslettersFetch == sensor = "newsletters" /\ docs # {} /\ LET d == Lowest(docs) IN
    \/ Skip(d) /\ ReadingFails({d.item}) /\ UNCHANGED memory
    \/ IF ~Routed(d.item) \/ ~HasBody(d.item) \/ d.item \in memory.done
       THEN Skip(d) /\ memory' = WithMark(memory, d.item) /\ UNCHANGED trouble
       ELSE Emit(d, d)

\* The watermark passes the message whatever became of the request.
MarkAnyway(d, ok) == WithMark(IF ok THEN WithDone(d) ELSE memory, d.item)

NewslettersMessageSent == sensor = "newsletters" /\ \E ok \in BOOLEAN, d \in asked :
    Answer(ok) /\ memory' = MarkAnyway(d, ok) /\ UNCHANGED file

NewslettersPollEnds == sensor = "newsletters" /\ CycleEnds /\ Save

-----------------------------------------------------------------------------
\* main: an import ends its process, and the operator may start it again.
ImportEnds ==
    /\ phase = "sending" /\ docs = {} /\ phase' = "down"
    /\ Save /\ memory' = EmptyState
    /\ UNCHANGED <<docs, started, taken, wire, trouble, others>>

\* ingest_mbox passes all messages of the file to _process_message.
MboxIngest == sensor = "mbox" /\ phase = "idle" /\
    Collect({Current(i) : i \in Offered}) /\ UNCHANGED <<taken, trouble>>

MboxProcessMessage == sensor = "mbox" /\ \E d \in docs :
    IF ~Routed(d.item) \/ ~HasBody(d.item) \/ d.item \in memory.done
    THEN Skip(d) /\ UNCHANGED <<memory, trouble>>
    ELSE Emit(d, d)

\* The state is saved after every 25th message.
MboxMessageSent == sensor = "mbox" /\ \E ok \in BOOLEAN, d \in asked :
    /\ Answer(ok) /\ memory' = (IF ok THEN WithDone(d) ELSE memory)
    /\ file' \in {file, memory'}

MboxEnds == sensor = "mbox" /\ ImportEnds

\* _get_scrape_cutoff: the posts that are older than all that were ingested.
BeforeCutoff == {i \in Offered : \A d \in arrived : i < d.item}

\* _substack_collect_archive_posts reads page after page, the newest posts first,
\* until there are no more or a page fails; what it scrolls through when the
\* first one fails is left out.
ArchiveListings == {R \in SUBSET Offered : \A i \in R, j \in Offered \ R : j < i}

SubstackCollect == sensor = "substack" /\ \E R \in ArchiveListings :
    /\ Readable(Offered, R)
    /\ Collect({Current(i) : i \in R \cap BeforeCutoff}) /\ UNCHANGED taken

\* _substack_extract_post, tried twice: no page comes, or one that asks for a
\* subscription, or the body of the post.
PostBodies(i) == {"none", IF HasBody(i) THEN "text" ELSE "short"}

\* A post whose page does not come is an error, a processed one is passed.
SubstackExtractPost == sensor = "substack" /\ docs # {} /\ LET d == Newest(docs) IN
    \E body \in PostBodies(d.item) :
      CASE body = "none" -> Skip(d) /\ ReadingFails({d.item}) /\ UNCHANGED memory
        [] body = "short" \/ d.item \in memory.done ->
             Skip(d) /\ UNCHANGED <<memory, trouble>>
        [] OTHER -> Emit(d, d)

SubstackPostSent == sensor = "substack" /\ \E ok \in BOOLEAN, d \in asked :
    /\ Answer(ok) /\ memory' = (IF ok THEN WithDone(d) ELSE memory)
    /\ file' \in {file, memory'}

SubstackEnds == sensor = "substack" /\ ImportEnds

MessageSensor ==
    \/ TelegramCollect \/ TelegramSendToKoi \/ TelegramRunOnceEnds
    \/ TwitterCollect \/ TwitterSendToKoi \/ TwitterCycleEnds
    \/ NewslettersPollFolder \/ NewslettersFetch \/ NewslettersMessageSent
    \/ NewslettersPollEnds
    \/ MboxIngest \/ MboxProcessMessage \/ MboxMessageSent \/ MboxEnds
    \/ SubstackCollect \/ SubstackExtractPost \/ SubstackPostSent \/ SubstackEnds

=============================================================================
