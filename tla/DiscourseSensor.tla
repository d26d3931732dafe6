---------------------------- MODULE DiscourseSensor ----------------------------
(***************************************************************************)
(* The Discourse sensor: it reads the topics and posts of a forum, sends   *)
(* those it has not processed to the coordinator, one request at a time,   *)
(* and keeps what it has processed in a state file that survives restarts. *)
(*                                                                         *)
(* The state is saved while the sensor collects and not while it sends, so *)
(* the file is always one run behind; a request may be lost, may reach the *)
(* coordinator after the sensor stopped waiting for it, and its answer may *)
(* be lost.  Authors edit posts, and an operator resets entries of the     *)
(* state file to have them sent again (reconcile-events.sh --fix).         *)
(*                                                                         *)
(* The coordinator takes every request that reaches it: each conversion of *)
(* a document stamps it with the time, so no two of them are equal.        *)
(***************************************************************************)
EXTENDS Naturals, Sequences, FiniteSets

CONSTANTS
    Items,         \* posts, and topics under one title: a state key and an RID
    Convertible,   \* those that document_to_bundle can convert
    MaxVersions,   \* bound on the edits of an item: versions 1..MaxVersions
    MaxDocs,       \* bound on the documents collected in one run
    MaxHalts,      \* bound on how often the sensor ends
    MaxFailures,   \* bound on the requests and the collections that fail
    MaxResets      \* bound on the operator's resets

ASSUME ConstantsAssumption ==
    /\ Convertible \subseteq Items
    /\ MaxVersions \in Nat \ {0}
    /\ {MaxDocs, MaxHalts, MaxFailures, MaxResets} \subseteq Nat

VARIABLES
    posted,     \* the forum: the version of each item that it shows
    phase,      \* what run() is doing
    state,      \* PersistentSensorState in memory
    file,       \* its file
    found,      \* the documents of the forum being read
    docs,       \* the documents of the run that are still to be sent
    sent,       \* how many requests were made: the number of the newest
    network,    \* the requests that have not reached the coordinator
    answered,   \* the coordinator has taken the request that is waited for
    seen,       \* history: the versions of each item that reached the coordinator
    last,       \* history: the last of them, 0 for none
    repeats,    \* history: how often a version reached it twice in a row
    backwards,  \* history: how often a version reached it after a newer one
    lost,       \* history: how often a request for the item was given up
                \* although it reached the coordinator or still may
    halts, failures, resets    \* counters of the bounds

sensor == <<phase, state, found, docs>>
wire == <<sent, network, answered>>
record == <<seen, last, repeats, backwards>>
vars == <<posted, phase, state, file, found, docs, sent, network, answered, seen,
          last, repeats, backwards, lost, halts, failures, resets>>

Version == 1..MaxVersions
Doc == [item : Items, version : Version]
Request == [item : Items, version : Version, number : Nat]
State == [processed : SUBSET Items, pending : SUBSET Items,
          hash : [Items -> 0..MaxVersions]]
EmptyState == [processed |-> {}, pending |-> {}, hash |-> [i \in Items |-> 0]]

TypeOK ==
    /\ posted \in [Items -> Version]
    /\ phase \in {"down", "collecting", "sending", "waiting", "sleeping"}
    /\ state \in State /\ file \in State
    /\ found \in Seq(Doc) /\ docs \in Seq(Doc)
    /\ sent \in Nat
    /\ network \subseteq Request
    /\ answered \in BOOLEAN
    /\ seen \in [Items -> SUBSET Version]
    /\ last \in [Items -> 0..MaxVersions]
    /\ repeats \in [Items -> Nat] /\ backwards \in [Items -> Nat]
    /\ lost \in [Items -> Nat]
    /\ halts \in 0..MaxHalts /\ failures \in 0..MaxFailures /\ resets \in 0..MaxResets

-----------------------------------------------------------------------------
Init ==
    /\ posted = [i \in Items |-> 1]
    /\ phase = "down"
    /\ state = EmptyState /\ file = EmptyState
    /\ found = <<>> /\ docs = <<>>
    /\ sent = 0 /\ network = {} /\ answered = FALSE
    /\ seen = [i \in Items |-> {}]
    /\ last = [i \in Items |-> 0]
    /\ repeats = [i \in Items |-> 0] /\ backwards = [i \in Items |-> 0]
    /\ lost = [i \in Items |-> 0]
    /\ halts = 0 /\ failures = 0 /\ resets = 0

(* An author edits a topic or a post.                                      *)
Edit(i) ==
    /\ posted[i] < MaxVersions
    /\ posted' = [posted EXCEPT ![i] = @ + 1]
    /\ UNCHANGED <<sensor, file, wire, record, lost, halts, failures, resets>>

(* The process begins: PersistentSensorState loads the file.               *)
Start ==
    /\ phase = "down"
    /\ phase' = "collecting"
    /\ state' = file
    /\ UNCHANGED <<posted, file, found, docs, wire, record, lost, halts,
                   failures, resets>>

(* process_posts_as_documents reads an item that is not processed.  A      *)
(* topic that several categories list is read several times.               *)
Read(i) ==
    /\ phase = "collecting"
    /\ i \notin state.processed
    /\ Len(found) + Len(docs) < MaxDocs
    /\ found' = Append(found, [item |-> i, version |-> posted[i]])
    /\ UNCHANGED <<posted, phase, state, file, docs, wire, record, lost,
                   halts, failures, resets>>

(* collect_forum returns and run() saves the state.                        *)
EndForum ==
    /\ phase = "collecting"
    /\ docs' = docs \o found
    /\ found' = <<>>
    /\ file' = state
    /\ UNCHANGED <<posted, phase, state, wire, record, lost, halts,
                   failures, resets>>

(* collect_forum raises: what it had read is dropped, nothing is saved.    *)
ForumFails ==
    /\ phase = "collecting"
    /\ found # <<>>
    /\ failures < MaxFailures
    /\ failures' = failures + 1
    /\ found' = <<>>
    /\ UNCHANGED <<posted, phase, state, file, docs, wire, record, lost,
                   halts, resets>>

(* All forums have been visited.                                           *)
EndCollecting ==
    /\ phase = "collecting"
    /\ found = <<>>
    /\ phase' = IF docs = <<>> THEN "sleeping" ELSE "sending"
    /\ UNCHANGED <<posted, state, file, found, docs, wire, record, lost,
                   halts, failures, resets>>

(* The documents cannot be written to the output file, or the first        *)
(* heartbeat raises: none of them is sent in this run.                     *)
NotSent ==
    /\ phase = "collecting"
    /\ found = <<>> /\ docs # <<>>
    /\ failures < MaxFailures
    /\ failures' = failures + 1
    /\ docs' = <<>>
    /\ phase' = "sleeping"
    /\ UNCHANGED <<posted, state, file, found, wire, record, lost, halts, resets>>

-----------------------------------------------------------------------------
Marked(s, i) == [s EXCEPT !.processed = @ \cup {i}, !.pending = @ \ {i}]
NextDoc == /\ docs' = Tail(docs)
           /\ phase' = IF Tail(docs) = <<>> THEN "sleeping" ELSE "sending"

\* Mutant: the document is tried again at once.
MalformedRetried ==
    /\ phase = "sending"
    /\ Head(docs).item \notin Convertible
    /\ state' = [state EXCEPT !.pending = @ \cup {Head(docs).item}]
    /\ UNCHANGED <<posted, phase, file, found, docs, wire, record, lost,
                   halts, failures, resets>>

(* document_to_bundle raises, and the item stays pending.                  *)
Malformed ==
    /\ phase = "sending"
    /\ Head(docs).item \notin Convertible
    /\ state' = [state EXCEPT !.pending = @ \cup {Head(docs).item}]
    /\ NextDoc
    /\ UNCHANGED <<posted, file, found, wire, record, lost, halts, failures,
                   resets>>

(* The content has the hash that is on record for the RID: the item counts *)
(* as processed and nothing is sent.                                       *)
Unchanged ==
    /\ phase = "sending"
    /\ Head(docs).item \in Convertible
    /\ state.hash[Head(docs).item] = Head(docs).version
    /\ state' = Marked(state, Head(docs).item)
    /\ NextDoc
    /\ UNCHANGED <<posted, file, found, wire, record, lost, halts, failures,
                   resets>>

\* Mutant: the hashes are not compared.
SendAnyway ==
    /\ phase = "sending"
    /\ Head(docs).item \in Convertible
    /\ state' = [state EXCEPT !.pending = @ \cup {Head(docs).item}]
    /\ sent' = sent + 1
    /\ network' = network \cup {[item |-> Head(docs).item, version |-> Head(docs).version,
                                 number |-> sent + 1]}
    /\ answered' = FALSE
    /\ phase' = "waiting"
    /\ UNCHANGED <<posted, file, found, docs, record, lost, halts, failures,
                   resets>>

(* emit_new_event, or emit_update_event if another hash is on record: the  *)
(* request leaves, and send_to_koi waits for its answer.                   *)
Send ==
    /\ phase = "sending"
    /\ Head(docs).item \in Convertible
    /\ state.hash[Head(docs).item] # Head(docs).version
    /\ state' = [state EXCEPT !.pending = @ \cup {Head(docs).item}]
    /\ sent' = sent + 1
    /\ network' = network \cup {[item |-> Head(docs).item, version |-> Head(docs).version,
                                 number |-> sent + 1]}
    /\ answered' = FALSE
    /\ phase' = "waiting"
    /\ UNCHANGED <<posted, file, found, docs, record, lost, halts, failures,
                   resets>>

(* A request reaches the coordinator, perhaps one that is no longer waited *)
(* for.                                                                    *)
Arrive(q) ==
    LET i == q.item  v == q.version IN
    /\ q \in network
    /\ network' = network \ {q}
    /\ answered' = (answered \/ (phase = "waiting" /\ q.number = sent))
    /\ seen' = [seen EXCEPT ![i] = @ \cup {v}]
    /\ last' = [last EXCEPT ![i] = v]
    /\ repeats' = [repeats EXCEPT ![i] = IF v = last[i] THEN @ + 1 ELSE @]
    /\ backwards' = [backwards EXCEPT ![i] = IF v < last[i] THEN @ + 1 ELSE @]
    /\ UNCHANGED <<posted, sensor, file, sent, lost, halts, failures, resets>>

(* The answer comes back with status 200.                                  *)
Confirmed ==
    /\ phase = "waiting" /\ answered
    /\ state' = [Marked(state, Head(docs).item) EXCEPT
                    !.hash[Head(docs).item] = Head(docs).version]
    /\ answered' = FALSE
    /\ NextDoc
    /\ UNCHANGED <<posted, file, found, sent, network, record, lost, halts,
                   failures, resets>>

Newest == {q \in network : q.number = sent}

\* Mutant: an answer that does not come is taken for a success.
FailedIsFine(withdrawn) ==
    /\ phase = "waiting"
    /\ failures < MaxFailures
    /\ failures' = failures + 1
    /\ state' = [Marked(state, Head(docs).item) EXCEPT
                    !.hash[Head(docs).item] = Head(docs).version]
    /\ network' = IF withdrawn THEN network \ Newest ELSE network
    /\ lost' = IF withdrawn /\ ~answered THEN lost
               ELSE [lost EXCEPT ![Head(docs).item] = @ + 1]
    /\ answered' = FALSE
    /\ NextDoc
    /\ UNCHANGED <<posted, file, found, sent, record, halts, resets>>

(* No answer within the timeout, another status, or no connection.  The    *)
(* request may have been withdrawn, may be on its way, or may have arrived. *)
Failed(withdrawn) ==
    /\ phase = "waiting"
    /\ failures < MaxFailures
    /\ failures' = failures + 1
    /\ state' = [state EXCEPT !.pending = @ \ {Head(docs).item}]
    /\ network' = IF withdrawn THEN network \ Newest ELSE network
    /\ lost' = IF withdrawn /\ ~answered THEN lost
               ELSE [lost EXCEPT ![Head(docs).item] = @ + 1]
    /\ answered' = FALSE
    /\ NextDoc
    /\ UNCHANGED <<posted, file, found, sent, record, halts, resets>>

(* The polling interval is over and run() is called again.                 *)
Wake ==
    /\ phase = "sleeping"
    /\ phase' = "collecting"
    /\ UNCHANGED <<posted, state, file, found, docs, wire, record, lost,
                   halts, failures, resets>>

-----------------------------------------------------------------------------
(* The process ends, at any point.  The request that it waited for is      *)
(* withdrawn or stays on its way.                                          *)
Halt(withdrawn) ==
    /\ phase # "down"
    /\ halts < MaxHalts
    /\ halts' = halts + 1
    /\ phase' = "down"
    /\ state' = EmptyState
    /\ found' = <<>> /\ docs' = <<>>
    /\ answered' = FALSE
    /\ network' = IF withdrawn /\ phase = "waiting" THEN network \ Newest ELSE network
    /\ UNCHANGED <<posted, file, sent, record, lost, failures, resets>>

(* The operator takes an entry out of the processed ones of the file, with *)
(* the sensor down, or up as in reconcile-events.sh --fix.                 *)
Reset(i) ==
    /\ i \in file.processed
    /\ resets < MaxResets
    /\ resets' = resets + 1
    /\ file' = [file EXCEPT !.processed = @ \ {i}]
    /\ UNCHANGED <<posted, sensor, wire, record, lost, halts, failures>>

Next ==
    \/ \E i \in Items : Edit(i)
    \/ Start
    \/ \E i \in Items : Read(i)
    \/ EndForum
    \/ ForumFails
    \/ EndCollecting
    \/ NotSent
    \/ Malformed
    \/ Unchanged
    \/ Send
    \/ \E q \in network : Arrive(q)
    \/ Confirmed
    \/ \E withdrawn \in BOOLEAN : Failed(withdrawn)
    \/ Wake
    \/ \E withdrawn \in BOOLEAN : Halt(withdrawn)
    \/ \E i \in Items : Reset(i)

Spec == Init /\ [][Next]_vars

(* The process is started again, its loop runs on, what a forum shows is   *)
(* read sooner or later, and the network delivers or lets the request fail. *)
Fairness ==
    /\ WF_vars(Start) /\ WF_vars(Wake)
    /\ WF_vars(Malformed) /\ WF_vars(Unchanged) /\ WF_vars(Send) /\ WF_vars(Confirmed)
    /\ WF_vars(\E q \in network : Arrive(q))
    /\ SF_vars(EndForum /\ found # <<>>) /\ SF_vars(EndCollecting)
    /\ \A i \in Items : SF_vars(Read(i))

FairSpec == Spec /\ Fairness

-----------------------------------------------------------------------------
(* What the sensor holds as sent was sent.  A hash on record, in memory or *)
(* in the file, is of a version that reached the coordinator, and an item  *)
(* that counts as processed reached it: no answer that failed to come, no  *)
(* crash and no reset makes the sensor pass over something it never got in *)
(* (the success branch of send_to_koi, and state.save in run).             *)
SentIsSeen(s) ==
    \A i \in Items :
        /\ s.hash[i] # 0 => s.hash[i] \in seen[i]
        /\ i \in s.processed => seen[i] # {}

RecordsOnlyWhatArrived == SentIsSeen(state) /\ SentIsSeen(file)

(* The price of a trouble is a repetition, and it is paid once: a version  *)
(* reaches the coordinator twice in a row no more often than a request for *)
(* that item was given up too early or the sensor lost its memory.         *)
RepeatsAreExcused == \A i \in Items : repeats[i] =< lost[i] + halts

(* The coordinator gets the versions of an item in the order of the edits, *)
(* except for requests that arrive after the sensor gave them up: for an   *)
(* item none of whose requests was given up, by a sensor that never went   *)
(* down, no version arrives behind a newer one.                            *)
OldNeverOvertakes ==
    \A i \in Items : lost[i] = 0 /\ halts = 0 => backwards[i] = 0

(* While nothing goes wrong, the hash on record is of the very version the *)
(* coordinator got last, so the choice between NEW, UPDATE and nothing is  *)
(* made against what the coordinator has.                                  *)
HashIsCurrent ==
    \A i \in Items :
        lost[i] = 0 /\ halts = 0 /\ ~(answered /\ Head(docs).item = i) =>
            state.hash[i] = last[i]

-----------------------------------------------------------------------------
(* What makes the above inductive.                                         *)
SendsADocument == phase \in {"sending", "waiting"} => docs # <<>>

\* The request that is waited for carries the document at the head.
AwaitedIsTheHead ==
    \A q \in network :
        /\ q.number =< sent
        /\ phase = "waiting" /\ q.number = sent =>
               q.item = Head(docs).item /\ q.version = Head(docs).version

\* An answer is about the document at the head, which arrived.
AnswerIsForTheHead ==
    answered => /\ phase = "waiting"
                /\ Head(docs).version \in seen[Head(docs).item]
                /\ (lost[Head(docs).item] = 0 /\ halts = 0 =>
                       last[Head(docs).item] = Head(docs).version)

\* For an item in no trouble, the only request on its way is waited for.
NoStrays ==
    \A q \in network :
        lost[q.item] = 0 /\ halts = 0 =>
            phase = "waiting" /\ q.number = sent /\ ~answered

\* The first run of the sensor begins with nothing on record.
FirstRunIsFresh == halts = 0 /\ phase = "down" => state = EmptyState /\ file = EmptyState

\* The documents of the run, in the order in which they will be sent.
ToSend == docs \o found
InOrder(s) ==
    \A a, b \in DOMAIN s :
        a < b /\ s[a].item = s[b].item => s[a].version =< s[b].version
AheadOf(s, i, v) == \A a \in DOMAIN s : s[a].item = i => v =< s[a].version

\* The versions of an item rise along its way: from what the forum shows, over
\* the documents to be sent, to the requests on their way and the last one that
\* arrived.
VersionsRise ==
    /\ InOrder(ToSend)
    /\ \A a \in DOMAIN ToSend : ToSend[a].version =< posted[ToSend[a].item]
    /\ \A i \in Items : AheadOf(ToSend, i, last[i]) /\ last[i] =< posted[i]
    /\ \A q \in network : AheadOf(ToSend, q.item, q.version)
                          /\ q.version =< posted[q.item]

\* Documents of a forum are held only while it is read.
FoundWhileCollecting == phase # "collecting" => found = <<>>

IInv ==
    /\ TypeOK
    /\ RecordsOnlyWhatArrived
    /\ SendsADocument
    /\ AwaitedIsTheHead
    /\ AnswerIsForTheHead
    /\ NoStrays
    /\ FirstRunIsFresh
    /\ HashIsCurrent
    /\ FoundWhileCollecting
    /\ VersionsRise
    /\ OldNeverOvertakes

-----------------------------------------------------------------------------
(* What makes RepeatsAreExcused inductive: a trouble pays for one request  *)
(* that nobody waits for, or for one that the record no longer prevents.   *)

\* What is sent is not what is on record, and what was answered has arrived.
SentIsNews ==
    phase = "waiting" => state.hash[Head(docs).item] # Head(docs).version
AnsweredIsGone == answered => \A q \in network : q.number # sent

\* A sensor that is down has nothing in memory.
DownIsEmpty == phase = "down" => state = EmptyState

\* The requests for an item that may still arrive although nobody waits for them.
Strays(i) == {q \in network : q.item = i /\ ~(phase = "waiting" /\ q.number = sent)}

\* The version on record, or to be on record when the answer is read.
OnRecord(i) == IF answered /\ Head(docs).item = i THEN Head(docs).version
                                                  ELSE state.hash[i]

\* The version that arrived last may be sent again: there is, or will be read, a
\* document with it, and the record does not prevent it.
MayRepeat(i) ==
    /\ OnRecord(i) # last[i]
    /\ \/ posted[i] = last[i]
       \/ \E a \in DOMAIN ToSend : ToSend[a] = [item |-> i, version |-> last[i]]

Debt(i) == repeats[i] + Cardinality(Strays(i)) + (IF MayRepeat(i) THEN 1 ELSE 0)

RepeatsAccounted ==
    /\ IsFiniteSet(network)
    /\ \A i \in Items : Debt(i) =< lost[i] + halts

RepeatInv == SentIsNews /\ AnsweredIsGone /\ DownIsEmpty /\ RepeatsAccounted

-----------------------------------------------------------------------------
(* docs/ADDING_A_SENSOR.md:170: every document that can be converted is    *)
(* processed in the end, whatever was lost, however often the sensor or    *)
(* the forum failed and whatever an operator reset.                        *)
EventuallyProcessed == \A i \in Convertible : <>[](i \in state.processed)

=============================================================================
