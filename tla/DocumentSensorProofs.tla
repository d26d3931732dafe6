------------------------ MODULE DocumentSensorProofs ------------------------
(***************************************************************************)
(* Proofs about the sensors of documents: Notion pages, mails with their   *)
(* calendars, and the pieces that texts are cut into.  Each part is about  *)
(* one of them.                                                            *)
(***************************************************************************)
EXTENDS NotionSensor, MailSensor, TextChunker, FiniteSetTheorems, WellFoundedInduction,
        TLAPS

-----------------------------------------------------------------------------
(***************************************************************************)
(* Proofs of the safety properties of NotionSensor, for any workspace, any *)
(* limits of a poll, any number of edits, failures and ends of the process.*)
(***************************************************************************)

(* A state has the fields that the operations write, with an entry for     *)
(* every document.                                                         *)
Well(s) ==
    /\ DOMAIN s = DOMAIN EmptyState /\ s = [x \in DOMAIN s |-> s[x]]
    /\ s.hash = [d \in Docs |-> s.hash[d]]
    /\ s.outbox = [d \in Docs |-> s.outbox[d]]

Shape ==
    /\ Well(memory) /\ Well(file)
    /\ shown = [d \in Docs |-> shown[d]] /\ time = [d \in Docs |-> time[d]]
    /\ last = [d \in Docs |-> last[d]] /\ since = [d \in Docs |-> since[d]]

(* The hashes are saved as soon as they change, and while a poll sends,    *)
(* the whole state is the one on file.                                     *)
Saved ==
    /\ phase # "down" => memory.hash = file.hash
    /\ phase \in {"sending", "waiting"} => memory = file

(* One request is out while an answer is awaited, for what the outbox has. *)
Asking ==
    /\ phase = "waiting" => \E r \in asked : /\ asked = {r} /\ r.doc \in Docs \ changes
                                             /\ r.content = file.outbox[r.doc]
    /\ phase # "waiting" => asked = {}

(* What the coordinator was sent last of a document none of whose requests *)
(* arrived after it was given up: the answer to the one that is out makes  *)
(* it the hash on file.                                                    *)
HashFollows ==
    \A d \in Docs \ doubtful :
        \/ \E r \in asked : r.doc = d /\ answered /\ last[d] = r.content
        \/ file.hash[d] = last[d] /\ (\A r \in asked : r.doc = d => ~answered)

(* The outbox never keeps what was acknowledged.                           *)
NewsOnly ==
    /\ \A d \in Docs : memory.outbox[d] \in {Nothing} \/ memory.outbox[d] # memory.hash[d]
    /\ \A d \in Docs : file.outbox[d] \in {Nothing} \/ file.outbox[d] # file.hash[d]

(* What this poll queued, and what it has yet to send, was shown since it  *)
(* began.                                                                  *)
Polling == phase \in {"visiting", "sending", "waiting"}

Fresh ==
    /\ Polling => \A d \in Docs : Version(d) \in since[d]
    /\ phase = "visiting" => \A d \in Docs \cap eligible :
         memory.outbox[d] # Nothing => memory.outbox[d].version \in since[d]
    /\ phase \in {"sending", "waiting"} => \A d \in Docs \cap changes :
         memory.outbox[d] # Nothing /\ memory.outbox[d].version \in since[d]
    /\ ~Polling => changes = {}

IInv == Shape /\ Saved /\ Asking /\ HashFollows /\ NewsOnly /\ Fresh

-----------------------------------------------------------------------------
(* The state that a process begins with.                                   *)
LEMMA EmptyIsWell ==
    /\ Well(EmptyState)
    /\ \A d \in Docs : EmptyState.outbox[d] = Nothing /\ EmptyState.hash[d] = Nothing
  BY DEF Well, EmptyState

(* A visit queues what it saw, or takes out what was acknowledged.         *)
LEMMA SnapshotState ==
    ASSUME Well(memory), NEW p, NEW C, NEW lost, NEW u, u = Snapshot(p, C, lost)
    PROVE  /\ Well(u) /\ u.hash = memory.hash
           /\ \A d \in Docs :
                \/ d \notin C \cup {p} /\ u.outbox[d] = memory.outbox[d]
                \/ u.outbox[d] = Nothing
                \/ u.outbox[d].version = Version(d) /\ u.outbox[d] # memory.hash[d]
  <1> DEFINE Found(d) == [version |-> Version(d),
                         missed |-> {x[2] : x \in {y \in lost : y[1] = d}}]
             outbox == [d \in Docs |-> IF d \in C \cup {p} THEN QueueDocument(memory, d, Found(d))
                                                          ELSE memory.outbox[d]]
  <1>1. PICK offset, heard : u = [memory EXCEPT !.offset[p] = offset, !.heard = heard,
                                                !.outbox = outbox]
    BY DEF Snapshot
  <1>2. DOMAIN memory = {"known", "queue", "offset", "heard", "outbox", "hash"}
    BY DEF Well, EmptyState
  <1>3. outbox = [d \in Docs |-> outbox[d]]
    OBVIOUS
  <1>4. \A d \in Docs : \/ d \notin C \cup {p} /\ outbox[d] = memory.outbox[d]
                        \/ outbox[d] = Nothing
                        \/ outbox[d] = Found(d) /\ outbox[d] # memory.hash[d]
    BY DEF QueueDocument
  <1>5. \A d \in Docs : Found(d).version = Version(d)
    OBVIOUS
  <1> HIDE DEF outbox, Found
  <1>6. /\ DOMAIN u = DOMAIN memory /\ u = [x \in DOMAIN u |-> u[x]]
        /\ u.hash = memory.hash /\ u.outbox = outbox
    BY <1>1, <1>2 DEF Well
  <1> QED BY <1>3, <1>4, <1>5, <1>6 DEF Well

-----------------------------------------------------------------------------
(* It holds before anything has been read.                                 *)
LEMMA NotionInit == Init => IInv
  <1> SUFFICES ASSUME Init PROVE IInv
    OBVIOUS
  <1>1. Shape
    BY EmptyIsWell DEF Init, Shape, NoPoll
  <1>2. Saved /\ Asking /\ NewsOnly
    BY EmptyIsWell DEF Init, Saved, Asking, NewsOnly
  <1>3. HashFollows /\ Fresh
    BY EmptyIsWell DEF Init, HashFollows, Fresh, Polling
  <1> QED BY <1>1, <1>2, <1>3 DEF IInv

(* A poll begins with the turn of some pages; nothing was seen yet.        *)
LEMMA PollBeginsKeeps == IInv /\ PollBegins => IInv'
  <1> SUFFICES ASSUME IInv, PollBegins PROVE IInv'
    OBVIOUS
  <1>1. PICK known, queue : memory' = [memory EXCEPT !.known = known, !.queue = queue]
    BY DEF PollBegins
  <1>2. /\ phase = "idle" /\ phase' = "visiting" /\ eligible' = {}
        /\ since' = [d \in Docs |-> {Version(d)}]
        /\ UNCHANGED <<shown, time, file, changes, asked, answered, last, doubtful>>
    BY DEF PollBegins, wire, history
  <1>3. PICK u : u = [memory EXCEPT !.known = known, !.queue = queue]
    OBVIOUS
  <1>4. Well(u) /\ u.hash = memory.hash /\ u.outbox = memory.outbox
    <2>1. DOMAIN memory = {"known", "queue", "offset", "heard", "outbox", "hash"} /\ Well(memory)
      BY DEF IInv, Shape, Well, EmptyState
    <2> QED BY <1>3, <2>1 DEF Well
  <1>5. memory' = u
    BY <1>1, <1>3
  <1>6. Shape'
    BY <1>2, <1>4, <1>5 DEF IInv, Shape, Well
  <1>7. Saved' /\ NewsOnly' /\ Asking' /\ HashFollows'
    BY <1>2, <1>4, <1>5 DEF IInv, Saved, NewsOnly, Asking, HashFollows
  <1>8. Fresh'
    BY <1>2 DEF IInv, Fresh, Polling, Version
  <1> QED BY <1>6, <1>7, <1>8 DEF IInv

(* A visit: what it saw becomes eligible in the version that is shown.     *)
LEMMA VisitKeeps == IInv /\ Visit => IInv'
  <1> SUFFICES ASSUME IInv, Visit PROVE IInv'
    OBVIOUS
  <1>1. /\ phase = "visiting"
        /\ UNCHANGED <<shown, time, phase, file, changes, asked, answered, last, doubtful, since>>
    BY DEF Visit, wire, history
  <1>2. CASE UNCHANGED <<memory, eligible>>
    BY <1>1, <1>2 DEF IInv, Shape, Well, Saved, Asking, HashFollows, NewsOnly, Fresh, Polling, Version
  <1>3. ASSUME NEW p, NEW C, NEW lost, memory' = Snapshot(p, C, lost),
               eligible' = eligible \cup C \cup {p}
        PROVE  IInv'
    <2>1. PICK u : u = Snapshot(p, C, lost)
      OBVIOUS
    <2>2. Well(memory)
      BY DEF IInv, Shape
    <2>3. /\ Well(u) /\ u.hash = memory.hash
          /\ \A d \in Docs :
                \/ d \notin C \cup {p} /\ u.outbox[d] = memory.outbox[d]
                \/ u.outbox[d] = Nothing
                \/ u.outbox[d].version = Version(d) /\ u.outbox[d] # memory.hash[d]
      BY <2>1, <2>2, SnapshotState
    <2>4. memory' = u
      BY <1>3, <2>1
    <2>5. Shape'
      BY <1>1, <1>3, <2>3, <2>4 DEF IInv, Shape, Well
    <2>6. Saved' /\ Asking' /\ HashFollows'
      BY <1>1, <2>3, <2>4 DEF IInv, Saved, Asking, HashFollows
    <2>7. NewsOnly'
      BY <1>1, <2>3, <2>4 DEF IInv, NewsOnly
    <2>8. Fresh'
      <3>1. \A d \in Docs : Version(d) \in since[d] /\ Version(d)' = Version(d)
        BY <1>1 DEF IInv, Fresh, Polling, Version
      <3>2. \A d \in Docs \cap eligible' : u.outbox[d] # Nothing => u.outbox[d].version \in since[d]
        BY <1>1, <1>3, <2>3, <3>1 DEF IInv, Fresh
      <3> QED BY <1>1, <2>4, <3>1, <3>2 DEF IInv, Fresh, Polling
    <2> QED BY <2>5, <2>6, <2>7, <2>8 DEF IInv
  <1>4. \/ UNCHANGED <<memory, eligible>>
        \/ \E p, C, lost : /\ memory' = Snapshot(p, C, lost)
                           /\ eligible' = eligible \cup C \cup {p}
    BY DEF Visit
  <1> QED BY <1>2, <1>3, <1>4

(* What is saved and sent is what was seen in this poll.                   *)
LEMMA VisitsEndKeeps == IInv /\ VisitsEnd => IInv'
  <1> SUFFICES ASSUME IInv, VisitsEnd PROVE IInv'
    OBVIOUS
  <1>1. /\ phase = "visiting" /\ phase' = "sending" /\ file' = memory
        /\ changes' = {d \in eligible : memory.outbox[d] # Nothing}
        /\ UNCHANGED <<shown, time, memory, asked, answered, last, doubtful, since>>
    BY DEF VisitsEnd, ToSend, wire, history
  <1>2. memory.hash = file.hash
    BY <1>1 DEF IInv, Saved
  <1>3. Shape' /\ Saved' /\ Asking' /\ NewsOnly'
    BY <1>1 DEF IInv, Shape, Well, Saved, Asking, NewsOnly
  <1>4. HashFollows'
    BY <1>1, <1>2 DEF IInv, HashFollows
  <1>5. Fresh'
    BY <1>1 DEF IInv, Fresh, Polling, Version
  <1> QED BY <1>3, <1>4, <1>5 DEF IInv

(* A request is for what the outbox of the file has.                       *)
LEMMA EmitKeeps == ASSUME IInv, NEW d \in Docs, Emit(d) PROVE IInv'
  <1>1. PICK r : r = [doc |-> d, content |-> memory.outbox[d]]
    OBVIOUS
  <1>2. /\ phase = "sending" /\ d \in changes /\ phase' = "waiting"
        /\ changes' = changes \ {d} /\ asked' = {r} /\ answered' = FALSE
        /\ r.doc = d /\ r.content = memory.outbox[d]
        /\ UNCHANGED <<shown, time, memory, file, eligible, last, doubtful, since>>
    BY <1>1 DEF Emit, history
  <1>3. Shape' /\ Saved' /\ NewsOnly'
    BY <1>2 DEF IInv, Shape, Well, Saved, NewsOnly
  <1>4. Asking'
    BY <1>2 DEF IInv, Asking, Saved
  <1>5. HashFollows'
    BY <1>2 DEF IInv, HashFollows, Asking
  <1>6. Fresh'
    BY <1>2 DEF IInv, Fresh, Polling, Version
  <1> QED BY <1>3, <1>4, <1>5, <1>6 DEF IInv

(* The state is saved with the acknowledgement; a request that failed      *)
(* leaves it, and the document is doubtful if it had arrived.              *)
LEMMA AnswerKeeps == ASSUME IInv, NEW r \in asked, NEW ok \in BOOLEAN, Answer(r, ok) PROVE IInv'
  <1>1. /\ phase = "waiting" /\ phase' = "sending" /\ asked' = {} /\ answered' = FALSE
        /\ memory' = Acknowledge(r, ok) /\ file' = memory'
        /\ \/ ok /\ answered /\ doubtful' = doubtful
           \/ ~ok /\ doubtful' = IF answered THEN doubtful \cup {r.doc} ELSE doubtful
        /\ UNCHANGED <<shown, time, eligible, changes, last, since>>
    BY DEF Answer, poll
  <1>2. asked = {r} /\ r.doc \in Docs \ changes /\ memory = file
    BY <1>1 DEF IInv, Asking, Saved
  <1>3. Asking' /\ Saved'
    BY <1>1 DEF Asking, Saved
  <1>4. CASE ok
    <2>1. PICK u : u = [memory EXCEPT !.hash[r.doc] = r.content, !.outbox[r.doc] = Nothing]
      OBVIOUS
    <2>2. Well(memory)
      BY DEF IInv, Shape
    <2>3. /\ Well(u) /\ u.hash = [memory.hash EXCEPT ![r.doc] = r.content]
          /\ u.outbox = [memory.outbox EXCEPT ![r.doc] = Nothing]
      <3>1. r.doc \in Docs
        BY <1>2
      <3>2. DOMAIN memory = {"known", "queue", "offset", "heard", "outbox", "hash"}
        BY <2>2 DEF Well, EmptyState
      <3>3. /\ u.hash = [memory.hash EXCEPT ![r.doc] = r.content]
            /\ u.outbox = [memory.outbox EXCEPT ![r.doc] = Nothing]
        BY <2>1, <3>2
      <3>4. DOMAIN u = DOMAIN memory /\ u = [x \in DOMAIN u |-> u[x]]
        BY <2>1
      <3> QED BY <2>2, <3>1, <3>3, <3>4 DEF Well
    <2>4. memory' = u /\ file' = u
      BY <1>1, <1>4, <2>1 DEF Acknowledge
    <2>5. /\ \A d \in Docs : u.hash[d] = IF d = r.doc THEN r.content ELSE memory.hash[d]
          /\ \A d \in Docs : u.outbox[d] = IF d = r.doc THEN Nothing ELSE memory.outbox[d]
      BY <2>2, <2>3 DEF Well
    <2>6. Shape'
      <3>1. Well(memory)' /\ Well(file)'
        BY <2>3, <2>4 DEF Well
      <3>2. UNCHANGED <<shown, time, last, since>>
        BY <1>1
      <3>3. /\ shown = [d \in Docs |-> shown[d]] /\ time = [d \in Docs |-> time[d]]
            /\ last = [d \in Docs |-> last[d]] /\ since = [d \in Docs |-> since[d]]
        BY DEF IInv, Shape
      <3> QED BY <3>1, <3>2, <3>3 DEF Shape
    <2>7. HashFollows'
      <3>1. ASSUME NEW d \in Docs \ doubtful PROVE u.hash[d] = last[d]
        <4>1. \/ d = r.doc /\ last[d] = r.content
              \/ d # r.doc /\ file.hash[d] = last[d]
          BY <1>1, <1>2, <1>4 DEF IInv, HashFollows
        <4> QED BY <1>2, <2>5, <4>1
      <3>2. UNCHANGED <<last, doubtful>> /\ asked' = {}
        BY <1>1, <1>4
      <3> QED BY <2>4, <3>1, <3>2 DEF HashFollows
    <2>8. NewsOnly'
      BY <2>4, <2>5 DEF IInv, NewsOnly
    <2>9. Fresh'
      BY <1>1, <1>2, <2>4, <2>5 DEF IInv, Fresh, Polling, Version
    <2> QED BY <1>3, <2>6, <2>7, <2>8, <2>9 DEF IInv
  <1>5. CASE ~ok
    <2>1. memory' = memory /\ file' = file
      BY <1>1, <1>2, <1>5 DEF Acknowledge
    <2>2. Shape' /\ NewsOnly'
      BY <1>1, <2>1 DEF IInv, Shape, Well, NewsOnly
    <2>3. HashFollows'
      BY <1>1, <1>2, <1>5, <2>1 DEF IInv, HashFollows
    <2>4. Fresh'
      BY <1>1, <2>1 DEF IInv, Fresh, Polling, Version
    <2> QED BY <1>3, <2>2, <2>3, <2>4 DEF IInv
  <1> QED BY <1>4, <1>5

(* A poll ends when it has nothing left to send.                           *)
LEMMA PollEndsKeeps == IInv /\ PollEnds => IInv'
  <1> SUFFICES ASSUME IInv, PollEnds PROVE IInv'
    OBVIOUS
  <1>1. /\ phase = "sending" /\ changes = {} /\ phase' = "idle" /\ since' = [d \in Docs |-> {}]
        /\ UNCHANGED <<shown, time, memory, file, eligible, changes, asked, answered, last, doubtful>>
    BY DEF PollEnds, NoPoll, poll, wire, history
  <1>2. Shape' /\ Saved' /\ Asking' /\ HashFollows' /\ NewsOnly' /\ Fresh'
    BY <1>1 DEF IInv, Shape, Well, Saved, Asking, HashFollows, NewsOnly, Fresh, Polling
  <1> QED BY <1>2 DEF IInv

(* A version that is shown while a poll runs is one it may have seen.      *)
LEMMA EditKeeps == ASSUME IInv, NEW e \in Docs, NEW v, NEW t, Edit(e, v, t) PROVE IInv'
  <1>1. /\ shown' = [shown EXCEPT ![e] = v] /\ time' = [time EXCEPT ![e] = t]
        /\ since' = IF phase \in {"idle", "down"} THEN since
                    ELSE [since EXCEPT ![e] = @ \cup {Version(e)'}]
        /\ UNCHANGED <<phase, memory, file, eligible, changes, asked, answered, last, doubtful>>
    BY DEF Edit, poll, wire, history
  <1>2. Shape'
    BY <1>1 DEF IInv, Shape, Well
  <1>3. Saved' /\ Asking' /\ HashFollows' /\ NewsOnly'
    BY <1>1 DEF IInv, Saved, Asking, HashFollows, NewsOnly
  <1>4. ASSUME Polling PROVE \A d \in Docs : since[d] \subseteq since'[d] /\ Version(d)' \in since'[d]
    <2>1. since' = [since EXCEPT ![e] = @ \cup {Version(e)'}]
      BY <1>1, <1>4 DEF Polling
    <2>2. \A d \in Docs : Version(d) \in since[d]
      BY <1>4 DEF IInv, Fresh
    <2>3. ASSUME NEW d \in Docs, d # e PROVE Version(d)' = Version(d)
      BY <1>1, <2>3 DEF IInv, Shape, Version
    <2> QED BY <2>1, <2>2, <2>3 DEF IInv, Shape
  <1>5. Fresh'
    <2>1. Polling' = Polling
      BY <1>1 DEF Polling
    <2> QED BY <1>1, <1>4, <2>1 DEF IInv, Fresh, Polling
  <1> QED BY <1>2, <1>3, <1>5 DEF IInv

(* The request that arrives is the one that is waited for.                 *)
LEMMA ArriveKeeps == ASSUME IInv, NEW r \in asked, Arrive(r) PROVE IInv'
  <1>1. /\ ~answered /\ answered' = TRUE /\ last' = [last EXCEPT ![r.doc] = r.content]
        /\ UNCHANGED <<shown, time, phase, memory, file, eligible, changes, asked, doubtful, since>>
    BY DEF Arrive, poll
  <1>2. asked = {r} /\ r.doc \in Docs
    BY DEF IInv, Asking
  <1>3. Shape' /\ Saved' /\ Asking' /\ NewsOnly'
    BY <1>1 DEF IInv, Shape, Well, Saved, Asking, NewsOnly
  <1>4. HashFollows'
    BY <1>1, <1>2 DEF IInv, HashFollows, Shape
  <1>5. Fresh'
    BY <1>1 DEF IInv, Fresh, Polling, Version
  <1> QED BY <1>3, <1>4, <1>5 DEF IInv

(* One that arrives after its answer was given up makes its page doubtful. *)
LEMMA ArriveLateKeeps == ASSUME IInv, NEW r \in late, ArriveLate(r) PROVE IInv'
  <1>1. /\ last' = [last EXCEPT ![r.doc] = r.content] /\ doubtful' = doubtful \cup {r.doc}
        /\ UNCHANGED <<shown, time, phase, memory, file, eligible, changes, asked, answered, since>>
    BY DEF ArriveLate, poll
  <1>2. Shape' /\ Saved' /\ Asking' /\ NewsOnly'
    BY <1>1 DEF IInv, Shape, Well, Saved, Asking, NewsOnly
  <1>3. HashFollows'
    BY <1>1 DEF IInv, HashFollows, Shape
  <1>4. Fresh'
    BY <1>1 DEF IInv, Fresh, Polling, Version
  <1> QED BY <1>2, <1>3, <1>4 DEF IInv

(* A process that ends leaves the file, and what it waited for is doubtful *)
(* if it had arrived.                                                      *)
LEMMA HaltKeeps == IInv /\ Halt => IInv'
  <1> SUFFICES ASSUME IInv, Halt PROVE IInv'
    OBVIOUS
  <1>1. /\ phase' = "down" /\ memory' = EmptyState /\ eligible' = {} /\ changes' = {}
        /\ asked' = {} /\ answered' = FALSE /\ since' = [d \in Docs |-> {}]
        /\ doubtful' = IF answered THEN doubtful \cup {r.doc : r \in asked} ELSE doubtful
        /\ UNCHANGED <<shown, time, file, last>>
    BY DEF Halt, NoPoll
  <1>2. Shape'
    BY <1>1, EmptyIsWell DEF IInv, Shape, Well
  <1>3. Saved' /\ Asking' /\ NewsOnly'
    BY <1>1, EmptyIsWell DEF IInv, Saved, Asking, NewsOnly
  <1>4. HashFollows'
    BY <1>1 DEF IInv, HashFollows, Asking
  <1>5. Fresh'
    BY <1>1 DEF Fresh, Polling
  <1> QED BY <1>2, <1>3, <1>4, <1>5 DEF IInv

(* A start reads the state file back.                                      *)
LEMMA StartKeeps == IInv /\ Start => IInv'
  <1> SUFFICES ASSUME IInv, Start PROVE IInv'
    OBVIOUS
  <1>1. /\ phase = "down"
        /\ \/ UNCHANGED <<phase, memory>>
           \/ phase' = "idle" /\ memory' = file
        /\ UNCHANGED <<shown, time, file, eligible, changes, asked, answered, last, doubtful, since>>
    BY DEF Start, poll, wire, history
  <1>2. Shape' /\ Saved' /\ Asking' /\ NewsOnly'
    BY <1>1 DEF IInv, Shape, Well, Saved, Asking, NewsOnly
  <1>3. HashFollows' /\ Fresh'
    BY <1>1 DEF IInv, HashFollows, Fresh, Polling
  <1> QED BY <1>2, <1>3 DEF IInv

-----------------------------------------------------------------------------
(* Every step keeps the invariant.                                         *)
LEMMA NotionStep == IInv /\ [Next]_vars => IInv'
  <1> SUFFICES ASSUME IInv, [Next]_vars PROVE IInv'
    OBVIOUS
  <1>1. CASE PollBegins BY <1>1, PollBeginsKeeps
  <1>2. CASE Visit BY <1>2, VisitKeeps
  <1>3. CASE VisitsEnd BY <1>3, VisitsEndKeeps
  <1>4. CASE PollEnds BY <1>4, PollEndsKeeps
  <1>5. ASSUME NEW d \in Docs, Emit(d) PROVE IInv' BY <1>5, EmitKeeps
  <1>6. ASSUME NEW r \in asked, NEW ok \in BOOLEAN, Answer(r, ok) PROVE IInv' BY <1>6, AnswerKeeps
  <1>7. ASSUME NEW r \in asked, Arrive(r) PROVE IInv' BY <1>7, ArriveKeeps
  <1>8. ASSUME NEW r \in late, ArriveLate(r) PROVE IInv' BY <1>8, ArriveLateKeeps
  <1>9. ASSUME NEW d \in Docs, NEW v \in Versions[d], NEW t \in {time[d], time[d] + 1}, Edit(d, v, t)
        PROVE  IInv' BY <1>9, EditKeeps
  <1>10. CASE Start BY <1>10, StartKeeps
  <1>11. CASE Halt BY <1>11, HaltKeeps
  <1>12. CASE UNCHANGED vars
    <2>1. UNCHANGED <<shown, time, phase, memory, file, eligible, changes, asked, answered, last,
                      doubtful, since>>
      BY <1>12 DEF vars, poll, wire, history
    <2> QED BY <2>1 DEF IInv, Shape, Well, Saved, Asking, HashFollows, NewsOnly, Fresh, Polling,
                        Version
  <1> QED
    BY <1>1, <1>2, <1>3, <1>4, <1>5, <1>6, <1>7, <1>8, <1>9, <1>10, <1>11, <1>12
    DEF Next, Process, Taken

(* The invariant holds in every state of every behavior.                   *)
THEOREM NotionInvariant == Spec => []IInv
  BY NotionInit, NotionStep, PTL DEF Spec

(* What the state file says the coordinator acknowledged is what it has    *)
(* last, for every document none of whose requests arrived after it was    *)
(* given up, and what is under way is in the outbox of the file: whenever  *)
(* the process ends (send_to_coordinator, _queue_document).                *)
THEOREM NotionAcknowledged == Spec => []AcknowledgedIsLast
  <1>1. IInv => AcknowledgedIsLast
    <2> SUFFICES ASSUME IInv PROVE AcknowledgedIsLast
      OBVIOUS
    <2>1. \A r \in asked : file.outbox[r.doc] = r.content
      BY DEF IInv, Asking
    <2>2. \A d \in Docs \ doubtful : (\A r \in asked : r.doc # d) => file.hash[d] = last[d]
      BY DEF IInv, HashFollows
    <2> QED BY <2>1, <2>2 DEF AcknowledgedIsLast
  <1> QED BY <1>1, NotionInvariant, PTL

(* Only a step that sends has a new request, and it is for what the outbox *)
(* has of a document that this poll has yet to send.                       *)
LEMMA OnlyEmitAsks ==
    ASSUME IInv, [Next]_vars, NEW r \in asked' \ asked
    PROVE  /\ phase = "sending" /\ r.doc \in Docs /\ r.doc \in changes
           /\ r.content = memory.outbox[r.doc]
  <1>1. ASSUME NEW d \in Docs, Emit(d)
        PROVE  /\ phase = "sending" /\ r.doc \in Docs /\ r.doc \in changes
               /\ r.content = memory.outbox[r.doc]
    BY <1>1 DEF Emit
  <1>2. CASE PollBegins \/ Visit \/ VisitsEnd \/ PollEnds \/ Start
    BY <1>2 DEF PollBegins, Visit, VisitsEnd, PollEnds, Start, wire
  <1>3. ASSUME NEW q \in asked, NEW ok \in BOOLEAN, Answer(q, ok) PROVE asked' = {}
    BY <1>3 DEF Answer
  <1>4. ASSUME NEW q \in asked, Arrive(q) PROVE asked' = asked
    BY <1>4 DEF Arrive
  <1>5. ASSUME NEW q \in late, ArriveLate(q) PROVE asked' = asked
    BY <1>5 DEF ArriveLate
  <1>6. ASSUME NEW d \in Docs, NEW v \in Versions[d], NEW t \in {time[d], time[d] + 1}, Edit(d, v, t)
        PROVE  asked' = asked
    BY <1>6 DEF Edit, wire
  <1>7. CASE Halt
    BY <1>7 DEF Halt
  <1>8. CASE UNCHANGED vars
    BY <1>8 DEF vars, wire
  <1> QED BY <1>1, <1>2, <1>3, <1>4, <1>5, <1>6, <1>7, <1>8 DEF Next, Process, Taken

(* Nothing is sent that was not seen since the poll began: what an earlier *)
(* poll or process left in the outbox waits (check_for_changes, POLLING.md).*)
THEOREM NotionSendsFresh == Spec => OnlyFreshIsSent
  <1>1. IInv /\ [Next]_vars => \A r \in asked' \ asked : r.content.version \in since[r.doc]
    BY OnlyEmitAsks DEF IInv, Fresh
  <1> QED BY <1>1, NotionInvariant, PTL DEF Spec, OnlyFreshIsSent

(* What the coordinator has as the last content of a document is not sent  *)
(* again, unless a request arrived that had been given up.                 *)
THEOREM NotionRepeatsWithExcuse == Spec => RepeatsAreExcused
  <1>1. ASSUME IInv, [Next]_vars, NEW r \in asked' \ asked
        PROVE  last[r.doc] # r.content \/ r.doc \in doubtful
    <2>1. /\ phase = "sending" /\ r.doc \in Docs /\ r.doc \in changes
          /\ r.content = memory.outbox[r.doc]
      BY <1>1, OnlyEmitAsks
    <2>2. r.content # Nothing
      BY <1>1, <2>1 DEF IInv, Fresh
    <2>3. memory = file /\ asked = {}
      BY <1>1, <2>1 DEF IInv, Saved, Asking
    <2>4. r.content # file.hash[r.doc]
      BY <1>1, <2>1, <2>2, <2>3 DEF IInv, NewsOnly
    <2> QED BY <1>1, <2>1, <2>3, <2>4 DEF IInv, HashFollows
  <1>2. IInv /\ [Next]_vars => \A r \in asked' \ asked : last[r.doc] # r.content \/ r.doc \in doubtful
    BY <1>1
  <1> QED BY <1>2, NotionInvariant, PTL DEF Spec, RepeatsAreExcused

-----------------------------------------------------------------------------
(***************************************************************************)
(* Proofs of the safety properties of MailSensor and of CalendarWriter, as *)
(* the sensors and the script run it: for any mails, calendars and number  *)
(* of failures.                                                            *)
(***************************************************************************)

(* What the mailbox, the state file and the scan are.                      *)
FolderTypes ==
    /\ provider \in Providers
    /\ uid \in [Mails -> Nat] /\ validity \in Nat \ {0}
    /\ cursor \in [uid : Nat, validity : Nat] /\ cursor.validity <= validity
    /\ scan \in [at : {"waiting", "fetching", "storing", "indexing", "describing", "calendar",
                       "finishing"},
                 mail : Mails \cup {None}, left : SUBSET Mails, from : Nat, seen : Nat,
                 validity : Nat]
    /\ slipped \in BOOLEAN

(* No two mails of the folder have the same number.                        *)
Numbered == \A m, k \in Present : uid[m] = uid[k] => m = k

(* A cursor of the folder as it is numbered now is the number of a mail.   *)
CursorIsUid ==
    cursor.validity = validity /\ ~slipped =>
        cursor.uid = 0 \/ \E m \in Present : uid[m] = cursor.uid

Met == processed \cup failed

(* A scan of an IMAP folder goes through the mails above the cursor in the *)
(* order of their numbers: those it has behind it were processed or failed,*)
(* and what arrived since is above all it has yet to look at.              *)
ScanFits ==
    /\ scan.validity \in {0, validity} /\ scan.from = LastUid(scan.validity)
    /\ scan.seen >= scan.from
    /\ scan.seen = scan.from \/ \E m \in Present : uid[m] = scan.seen
    /\ \A m \in scan.left : m \in Present /\ uid[m] > scan.seen
    /\ \A k \in Present : uid[k] > scan.from /\ uid[k] <= scan.seen => k \in Met
    /\ \A k \in Present \ scan.left :
         uid[k] > scan.from => k \in Met \/ \A m \in scan.left : uid[k] > uid[m]
    /\ scan.at # "fetching" =>
         scan.mail \in scan.left /\ \A k \in scan.left : uid[scan.mail] <= uid[k]

FolderInv ==
    /\ FolderTypes /\ Numbered /\ CursorIsUid /\ PassedIsMet
    /\ provider = "maildir" => cursor.validity = 0
    /\ scan.at \notin {"waiting", "fetching"} => scan.mail \in Mails
    /\ provider = "imap" /\ scan.at # "waiting" => ScanFits

-----------------------------------------------------------------------------
(* A set of numbers has a least one.                                       *)
LEMMA LeastNumber ==
    ASSUME NEW T, T \subseteq Nat, T # {}
    PROVE  \E x \in T : \A y \in T : x <= y
  <1> DEFINE R == {ss \in Nat \X Nat : ss[1] < ss[2]}
  <1>1. IsWellFoundedOn(R, Nat)
    BY NatLessThanWellFounded DEF OpToRel
  <1>2. \A x, y \in Nat : <<y, x>> \in R <=> y < x
    OBVIOUS
  <1> HIDE DEF R
  <1>3. PICK x \in T : \A y \in T : ~ (<<y, x>> \in R)
    BY <1>1, WFMin
  <1>4. \A y \in T : ~ (y < x)
    BY <1>2, <1>3
  <1> QED BY <1>4, SMT

(* Of finitely many one has the greatest number: a least set that had none *)
(* would have one without one of its elements, and so have one.            *)
LEMMA GreatestOf ==
    ASSUME NEW M, IsFiniteSet(M), M # {}, NEW f, \A m \in M : f[m] \in Nat
    PROVE  \E m \in M : \A k \in M : f[k] <= f[m]
  <1> DEFINE Has(S) == \E m \in S : \A k \in S : f[k] <= f[m]
             T == {n \in Nat : \E S \in SUBSET M : S # {} /\ Cardinality(S) = n /\ ~Has(S)}
  <1> SUFFICES ASSUME ~Has(M) PROVE FALSE
    OBVIOUS
  <1>1. Cardinality(M) \in T
    BY FS_CardinalityType
  <1>2. PICK n \in T : \A y \in T : n <= y
    <2>1. T \subseteq Nat /\ T # {}
      BY <1>1
    <2> HIDE DEF T
    <2> QED BY <2>1, LeastNumber
  <1>3. PICK S \in SUBSET M : S # {} /\ Cardinality(S) = n /\ ~Has(S)
    BY <1>2
  <1>4. PICK x : x \in S
    BY <1>3
  <1>5. IsFiniteSet(S) /\ IsFiniteSet(S \ {x})
    BY <1>3, FS_Subset
  <1>6. Cardinality(S \ {x}) \in Nat /\ Cardinality(S \ {x}) = n - 1
    BY <1>3, <1>4, <1>5, FS_RemoveElement, FS_CardinalityType
  <1>7. n \in Nat
    BY <1>2
  <1>8. CASE S \ {x} = {}
    <2>1. \A k \in S : k = x
      BY <1>8
    <2>2. f[x] \in Nat
      BY <1>3, <1>4
    <2> QED BY <1>3, <1>4, <2>1, <2>2
  <1>9. CASE S \ {x} # {}
    <2>1. Has(S \ {x})
      <3>1. SUFFICES ASSUME ~Has(S \ {x}) PROVE FALSE
        OBVIOUS
      <3>2. Cardinality(S \ {x}) \in T
        BY <1>3, <1>6, <1>9, <3>1
      <3> HIDE DEF T
      <3> QED BY <1>2, <1>6, <1>7, <3>2
    <2>2. PICK m \in S \ {x} : \A k \in S \ {x} : f[k] <= f[m]
      BY <2>1
    <2>3. f[x] \in Nat /\ f[m] \in Nat /\ \A k \in S : f[k] \in Nat
      BY <1>3, <1>4, <2>2
    <2>4. CASE f[x] <= f[m]
      BY <1>3, <2>2, <2>3, <2>4
    <2>5. CASE f[m] <= f[x]
      <3>1. \A k \in S : f[k] <= f[x]
        BY <2>2, <2>3, <2>5
      <3> QED BY <1>3, <1>4, <3>1
    <2> QED BY <2>3, <2>4, <2>5
  <1> QED BY <1>8, <1>9

(* The larger of two numbers.                                              *)
LEMMA MaxOfTwo ==
    ASSUME NEW a \in Nat, NEW b \in Nat
    PROVE  /\ Max({a, b}) = IF a >= b THEN a ELSE b
  <1> DEFINE m == IF a >= b THEN a ELSE b
  <1>1. m \in {a, b} /\ \A y \in {a, b} : m >= y
    OBVIOUS
  <1>2. \A x \in {a, b} : (\A y \in {a, b} : x >= y) => x = m
    OBVIOUS
  <1> QED BY <1>1, <1>2 DEF Max

(* A mail that arrives gets a number above all others.                     *)
LEMMA HighestIs ==
    ASSUME FolderTypes, NEW m \in Mails
    PROVE  HighestUid \in Nat /\ \A k \in Mails : uid[k] <= HighestUid
  <1> DEFINE S == {uid[k] : k \in Mails}
  <1>1. uid \in [Mails -> Nat] /\ IsFiniteSet(Mails)
    BY CalendarAssumption DEF FolderTypes
  <1>2. PICK x \in Mails : \A k \in Mails : uid[k] <= uid[x]
    BY <1>1, GreatestOf
  <1>3. \E u \in S : \A y \in S : u >= y
    BY <1>1, <1>2
  <1>4. HighestUid \in S /\ \A y \in S : HighestUid >= y
    BY <1>3 DEF HighestUid, Max
  <1> QED BY <1>1, <1>4

-----------------------------------------------------------------------------
(* A scan that waits has the fields of a scan.                             *)
LEMMA WaitingTypes ==
    /\ Waiting.at = "waiting"
    /\ Waiting \in [at : {"waiting", "fetching", "storing", "indexing", "describing", "calendar",
                          "finishing"},
                    mail : Mails \cup {None}, left : SUBSET Mails, from : Nat, seen : Nat,
                    validity : Nat]
  BY DEF Waiting

(* The folder is empty, and no scan runs.                                  *)
LEMMA FolderInit == MailInit => FolderInv
  <1> SUFFICES ASSUME MailInit PROVE FolderInv
    OBVIOUS
  <1>1. PICK c : c = [uid |-> 0, validity |-> 0]
    OBVIOUS
  <1>2. /\ uid = [m \in Mails |-> 0] /\ validity = 1 /\ cursor = c /\ scan = Waiting
        /\ provider \in Providers /\ slipped = FALSE
    BY <1>1 DEF MailInit
  <1>3. c.uid = 0 /\ c.validity = 0 /\ c \in [uid : Nat, validity : Nat]
    BY <1>1
  <1>4. FolderTypes
    <2>1. slipped \in BOOLEAN
      BY <1>2
    <2>2. uid \in [Mails -> Nat] /\ validity \in Nat \ {0}
      BY <1>2
    <2>3. cursor \in [uid : Nat, validity : Nat] /\ cursor.validity <= validity
      BY <1>2, <1>3
    <2> QED BY <1>2, <2>1, <2>2, <2>3, WaitingTypes DEF FolderTypes
  <1>5. Numbered /\ CursorIsUid /\ PassedIsMet
    BY <1>2, <1>3 DEF Numbered, CursorIsUid, PassedIsMet, Present
  <1> QED BY <1>2, <1>3, <1>4, <1>5, WaitingTypes DEF FolderInv

(* What the other steps leave alone.                                       *)
folder == <<provider, uid, validity, processed, cursor, scan, failed, slipped>>

(* Steps that touch neither the folder nor the scan.                       *)
LEMMA FolderStays == FolderInv /\ UNCHANGED folder => FolderInv'
  BY DEF folder, FolderInv, FolderTypes, Numbered, CursorIsUid, PassedIsMet, ScanFits, Met, LastUid,
         Present

(* A mail arrives above all others.                                        *)
LEMMA ArriveKeepsFolder == ASSUME FolderInv, NEW m \in Mails, MailArrives(m) PROVE FolderInv'
  <1>1. /\ uid[m] = 0 /\ uid' = [uid EXCEPT ![m] = HighestUid + 1]
        /\ UNCHANGED <<provider, validity, processed, cursor, scan, failed, slipped>>
    BY DEF MailArrives, stateFile, mailHistory
  <1>2. /\ HighestUid \in Nat /\ \A k \in Mails : uid[k] <= HighestUid
        /\ uid \in [Mails -> Nat] /\ FolderTypes
    BY HighestIs DEF FolderInv, FolderTypes
  <1>3. \A k \in Mails : /\ uid'[k] = IF k = m THEN HighestUid + 1 ELSE uid[k]
                         /\ k \in Present => k # m
                         /\ k \in Present' => k \in Present \/ k = m
                         /\ k \in Present => k \in Present'
    BY <1>1, <1>2 DEF Present
  <1>4. FolderTypes' /\ uid' \in [Mails -> Nat]
    BY <1>1, <1>2 DEF FolderTypes
  <1>5. Numbered'
    BY <1>2, <1>3 DEF FolderInv, Numbered, Present
  <1>6. CursorIsUid'
    BY <1>1, <1>3 DEF FolderInv, CursorIsUid, Present
  <1>7. PassedIsMet'
    <2>1. ASSUME cursor.validity = validity, ~slipped, NEW k \in Present, uid'[m] <= cursor.uid
          PROVE  FALSE
      BY <1>2, <1>3, <2>1 DEF FolderInv, CursorIsUid, FolderTypes, Present
    <2>2. ASSUME cursor.validity = validity, ~slipped PROVE cursor.uid < uid'[m]
      <3>1. cursor.uid \in Nat
        BY <1>2 DEF FolderTypes
      <3> QED BY <1>2, <1>3, <2>2, <3>1 DEF FolderInv, CursorIsUid, Present
    <2>3. cursor.uid \in Nat
      BY <1>2 DEF FolderTypes
    <2> QED BY <1>1, <1>2, <1>3, <2>2, <2>3 DEF FolderInv, PassedIsMet, Present
  <1>8. ASSUME provider = "imap", scan.at # "waiting" PROVE ScanFits'
    <2>1. ScanFits
      BY <1>8 DEF FolderInv
    <2>2. scan.from \in Nat /\ scan.seen \in Nat /\ scan.left \subseteq Mails
      BY <1>2 DEF FolderTypes
    <2>3. /\ scan.validity \in {0, validity} /\ scan.from = LastUid(scan.validity)
          /\ scan.seen >= scan.from
          /\ scan.seen = scan.from \/ \E k \in Present : uid[k] = scan.seen
      BY <2>1 DEF ScanFits
    <2>4. (scan.seen = scan.from \/ \E k \in Present : uid[k] = scan.seen)'
      BY <1>1, <1>3, <2>3 DEF Present
    <2>5. \A k \in scan.left : k # m /\ k \in Present /\ k \in Present' /\ uid'[k] = uid[k] /\ uid[k] > scan.seen
      BY <1>3, <2>1, <2>2 DEF ScanFits
    <2>6. uid'[m] > scan.seen \/ scan.seen = scan.from
      BY <1>2, <1>3, <2>2, <2>3 DEF Present
    <2>7. \A k \in Present' : uid'[k] > scan.from /\ uid'[k] <= scan.seen => k \in Met
      <3> SUFFICES ASSUME NEW k \in Present', uid'[k] > scan.from, uid'[k] <= scan.seen
                   PROVE  k \in Met
        OBVIOUS
      <3>1. k # m
        BY <1>2, <1>3, <2>2, <2>6
      <3> QED BY <1>3, <2>1, <3>1 DEF ScanFits, Present
    <2>8. \A k \in Present' \ scan.left :
            uid'[k] > scan.from => k \in Met \/ \A x \in scan.left : uid'[k] > uid'[x]
      <3> SUFFICES ASSUME NEW k \in Present' \ scan.left, uid'[k] > scan.from
                   PROVE  k \in Met \/ \A x \in scan.left : uid'[k] > uid'[x]
        OBVIOUS
      <3>1. CASE k = m
        BY <1>2, <1>3, <2>2, <2>5, <3>1
      <3>2. CASE k # m
        BY <1>3, <2>1, <2>5, <3>2 DEF ScanFits, Present
      <3> QED BY <3>1, <3>2
    <2>9. scan.at # "fetching" =>
            scan.mail \in scan.left /\ \A k \in scan.left : uid'[scan.mail] <= uid'[k]
      BY <1>3, <2>1, <2>5 DEF ScanFits
    <2>10. Met' = Met /\ LastUid(scan.validity)' = LastUid(scan.validity)
      BY <1>1 DEF Met, LastUid
    <2> QED BY <1>1, <2>3, <2>4, <2>5, <2>7, <2>8, <2>9, <2>10 DEF ScanFits, LastUid
  <1>9. (provider = "maildir" => cursor.validity = 0)'
    BY <1>1 DEF FolderInv
  <1> QED BY <1>1, <1>4, <1>5, <1>6, <1>7, <1>8, <1>9 DEF FolderInv

(* The mails of a rebuilt folder have their ranks as numbers.              *)
LEMMA RebuildKeepsFolder == FolderInv /\ Rebuild => FolderInv'
  <1> SUFFICES ASSUME FolderInv, Rebuild PROVE FolderInv'
    OBVIOUS
  <1> DEFINE Upto(m) == {k \in Present : uid[k] <= uid[m]}
  <1>1. /\ provider = "imap" /\ scan.at = "waiting" /\ validity' = validity + 1
        /\ uid' = [m \in Mails |-> IF uid[m] = 0 THEN 0 ELSE Cardinality(Upto(m))]
        /\ UNCHANGED <<provider, processed, cursor, scan, failed, slipped>>
    BY DEF Rebuild, stateFile, mailHistory
  <1>2. FolderTypes /\ uid \in [Mails -> Nat] /\ validity \in Nat /\ cursor.validity <= validity
    BY DEF FolderInv, FolderTypes
  <1>3. IsFiniteSet(Present) /\ Present \subseteq Mails
    BY CalendarAssumption, FS_Subset DEF Present
  <1>4. \A m \in Mails : IsFiniteSet(Upto(m)) /\ Cardinality(Upto(m)) \in Nat
    BY <1>3, FS_Subset, FS_CardinalityType
  <1>5. ASSUME NEW m \in Present, NEW k \in Present, uid[m] < uid[k]
        PROVE  Cardinality(Upto(m)) < Cardinality(Upto(k))
    <2>1. uid[m] \in Nat /\ uid[k] \in Nat /\ m \in Mails /\ k \in Mails
      BY <1>2, <1>3
    <2>2. Upto(m) \subseteq Upto(k)
      BY <1>2, <1>3, <1>5, <2>1
    <2>3. k \in Upto(k) /\ k \notin Upto(m)
      BY <1>5, <2>1
    <2> HIDE DEF Upto
    <2> QED BY <1>4, <2>1, <2>2, <2>3, FS_Subset
  <1>6. FolderTypes'
    <2>1. uid' \in [Mails -> Nat]
      BY <1>1, <1>4
    <2>2. cursor.validity \in Nat
      BY <1>2 DEF FolderTypes
    <2> QED BY <1>1, <1>2, <2>1, <2>2 DEF FolderTypes
  <1>7. Numbered'
    <2> SUFFICES ASSUME NEW m \in Present', NEW k \in Present', uid'[m] = uid'[k] PROVE m = k
      BY DEF Numbered
    <2>1. m \in Present /\ k \in Present /\ m \in Mails /\ k \in Mails
      BY <1>1 DEF Present
    <2>2. Cardinality(Upto(m)) = Cardinality(Upto(k))
      BY <1>1, <2>1 DEF Present
    <2>3. uid[m] \in Nat /\ uid[k] \in Nat /\ Cardinality(Upto(m)) \in Nat
      BY <1>2, <1>4, <2>1
    <2> HIDE DEF Upto
    <2>4. uid[m] = uid[k]
      BY <1>4, <1>5, <2>1, <2>2, <2>3
    <2> QED BY <2>1, <2>4 DEF FolderInv, Numbered
  <1>8. cursor' = cursor /\ cursor.validity # validity'
    BY <1>1, <1>2 DEF FolderTypes
  <1>9. CursorIsUid' /\ PassedIsMet'
    BY <1>8 DEF CursorIsUid, PassedIsMet
  <1> QED BY <1>1, <1>6, <1>7, <1>9 DEF FolderInv

(* The folder, the state file and the history are as they were, and more   *)
(* mails may have been met.                                                *)
Steady ==
    /\ UNCHANGED <<provider, uid, validity, cursor, slipped>>
    /\ processed \subseteq processed' /\ failed \subseteq failed'

(* All that a step of a scan has to show.                                  *)
LEMMA ScanStepKeeps ==
    ASSUME FolderInv, Steady, NEW u, scan' = u,
           u \in [at : {"waiting", "fetching", "storing", "indexing", "describing", "calendar",
                        "finishing"},
                  mail : Mails \cup {None}, left : SUBSET Mails, from : Nat, seen : Nat,
                  validity : Nat],
           u.at \notin {"waiting", "fetching"} => u.mail \in Mails,
           provider = "imap" /\ u.at # "waiting" => ScanFits'
    PROVE  FolderInv'
  <1>1. FolderTypes' /\ Numbered' /\ CursorIsUid'
    BY DEF FolderInv, FolderTypes, Numbered, CursorIsUid, Steady, Present
  <1>2. PassedIsMet'
    BY DEF FolderInv, PassedIsMet, Steady, Present
  <1> QED BY <1>1, <1>2 DEF FolderInv, Steady

(* A scan that begins has met nothing yet.                                 *)
LEMMA ScanBegins ==
    ASSUME FolderInv, NEW from \in Nat, NEW v \in Nat, NEW M \in SUBSET Mails,
           Scanning(from, v, M)
    PROVE  /\ scan'.at = "fetching" /\ scan'.from = from /\ scan'.seen = from
           /\ scan'.validity = v /\ scan'.left = M
           /\ scan' \in [at : {"waiting", "fetching", "storing", "indexing", "describing",
                               "calendar", "finishing"},
                         mail : Mails \cup {None}, left : SUBSET Mails, from : Nat, seen : Nat,
                         validity : Nat]
  <1>1. PICK u : u = [at |-> "fetching", mail |-> None, from |-> from, seen |-> from,
                      validity |-> v, left |-> M]
    OBVIOUS
  <1>2. scan' = u
    BY <1>1 DEF Scanning
  <1>3. /\ u.at = "fetching" /\ u.from = from /\ u.seen = from
        /\ u.validity = v /\ u.left = M
        /\ u \in [at : {"waiting", "fetching", "storing", "indexing", "describing",
                        "calendar", "finishing"},
                  mail : Mails \cup {None}, left : SUBSET Mails, from : Nat, seen : Nat,
                  validity : Nat]
    BY <1>1
  <1> QED BY <1>2, <1>3

(* A scan of a mail directory passes no mail over.                         *)
LEMMA StartMaildirKeepsFolder == FolderInv /\ StartMaildirScan => FolderInv'
  <1> SUFFICES ASSUME FolderInv, StartMaildirScan PROVE FolderInv'
    OBVIOUS
  <1>1. provider = "maildir" /\ Scanning(0, 0, Present) /\ Steady
    BY DEF StartMaildirScan, Steady, stateFile, mailHistory
  <1>2. Present \in SUBSET Mails /\ 0 \in Nat
    BY DEF Present
  <1>3. PICK M \in SUBSET Mails, n \in Nat : M = Present /\ n = 0
    BY <1>2
  <1>4. Scanning(n, n, M)
    BY <1>1, <1>3, Zenon
  <1> QED BY <1>1, <1>4, ScanBegins, ScanStepKeeps

(* A scan starts from the cursor, or from the start of a folder that is    *)
(* numbered anew, with all mails above or, when the search fails, none.    *)
LEMMA StartImapKeepsFolder == FolderInv /\ StartImapScan => FolderInv'
  <1> SUFFICES ASSUME FolderInv, StartImapScan PROVE FolderInv'
    OBVIOUS
  <1>1. PICK v \in {validity, 0}, found \in BOOLEAN :
          Scanning(LastUid(v), v, IF found THEN NewUids(LastUid(v)) ELSE {})
    BY DEF StartImapScan
  <1>2. UNCHANGED <<provider, uid, validity, processed, cursor, failed, slipped>>
    BY DEF StartImapScan, stateFile, mailHistory
  <1>3. LastUid(v) \in Nat /\ v \in Nat /\ uid \in [Mails -> Nat]
    BY DEF FolderInv, FolderTypes, LastUid
  <1>4. PICK from \in Nat, M \in SUBSET Mails :
          /\ from = LastUid(v) /\ M = IF found THEN NewUids(LastUid(v)) ELSE {}
          /\ M = {m \in Present : uid[m] > from} \/ M = {}
    BY <1>3 DEF NewUids, Present
  <1>5. Scanning(from, v, M)
    BY <1>1, <1>4, Zenon
  <1>6. /\ scan'.at = "fetching" /\ scan'.from = from /\ scan'.seen = from
        /\ scan'.validity = v /\ scan'.left = M
        /\ scan' \in [at : {"waiting", "fetching", "storing", "indexing", "describing",
                            "calendar", "finishing"},
                      mail : Mails \cup {None}, left : SUBSET Mails, from : Nat, seen : Nat,
                      validity : Nat]
    BY <1>3, <1>5, ScanBegins
  <1>7. ScanFits'
    <2>1. LastUid(v)' = from /\ Present' = Present /\ Present \subseteq Mails
      BY <1>2, <1>4 DEF LastUid, Present
    <2>2. (scan.validity \in {0, validity} /\ scan.from = LastUid(scan.validity))'
      BY <1>2, <1>6, <2>1 DEF LastUid
    <2>3. \A m \in Present : uid[m] \in Nat
      BY <1>3, <2>1
    <2>4. \A m \in M : m \in Present /\ uid[m] > from
      BY <1>4
    <2>5. \A k \in Present \ M : uid[k] > from => \A m \in M : uid[k] > uid[m]
      BY <1>4
    <2>6. ~ \E k \in Present : uid[k] > from /\ uid[k] <= from
      BY <2>3
    <2> QED BY <1>2, <1>6, <2>1, <2>2, <2>3, <2>4, <2>5, <2>6 DEF ScanFits
  <1>8. Steady
    BY <1>2 DEF Steady
  <1> QED BY <1>6, <1>7, <1>8, ScanStepKeeps

(* A mail that is done with leaves the scan, which has seen it.            *)
LEMMA AdvanceEffect ==
    ASSUME FolderTypes, NEW m \in Mails, Advance(m)
    PROVE  /\ scan'.at = "fetching" /\ scan'.from = scan.from
           /\ scan'.seen = (IF scan.seen >= uid[m] THEN scan.seen ELSE uid[m])
           /\ scan'.validity = scan.validity /\ scan'.left = scan.left \ {m}
           /\ scan' \in [at : {"waiting", "fetching", "storing", "indexing", "describing",
                               "calendar", "finishing"},
                         mail : Mails \cup {None}, left : SUBSET Mails, from : Nat, seen : Nat,
                         validity : Nat]
  <1>1. scan.seen \in Nat /\ uid[m] \in Nat
    BY DEF FolderTypes
  <1>2. PICK seen \in Nat : seen = Seen(m) /\ seen = IF scan.seen >= uid[m] THEN scan.seen ELSE uid[m]
    BY <1>1, MaxOfTwo DEF Seen
  <1>3. PICK u : u = [scan EXCEPT !.at = "fetching", !.mail = None, !.left = @ \ {m}, !.seen = seen]
    OBVIOUS
  <1>4. scan' = u
    BY <1>2, <1>3 DEF Advance
  <1>5. /\ u.at = "fetching" /\ u.from = scan.from
        /\ u.seen = seen
        /\ u.validity = scan.validity /\ u.left = scan.left \ {m}
        /\ u \in [at : {"waiting", "fetching", "storing", "indexing", "describing",
                        "calendar", "finishing"},
                  mail : Mails \cup {None}, left : SUBSET Mails, from : Nat, seen : Nat,
                  validity : Nat]
    BY <1>3 DEF FolderTypes
  <1> QED BY <1>2, <1>4, <1>5

(* The scan goes on past a mail it has met, the lowest of those left.      *)
LEMMA AdvanceKeepsFolder ==
    ASSUME FolderInv, Steady, scan.at # "waiting", NEW m \in Mails, Advance(m),
           provider = "imap" => /\ m \in scan.left /\ \A k \in scan.left : uid[m] <= uid[k]
                                /\ m \in Met'
    PROVE  FolderInv'
  <1>1. FolderTypes
    BY DEF FolderInv
  <1>2. /\ scan'.at = "fetching" /\ scan'.from = scan.from
        /\ scan'.seen = (IF scan.seen >= uid[m] THEN scan.seen ELSE uid[m])
        /\ scan'.validity = scan.validity /\ scan'.left = scan.left \ {m}
        /\ scan' \in [at : {"waiting", "fetching", "storing", "indexing", "describing",
                            "calendar", "finishing"},
                      mail : Mails \cup {None}, left : SUBSET Mails, from : Nat, seen : Nat,
                      validity : Nat]
    BY <1>1, AdvanceEffect
  <1>3. ASSUME provider = "imap" PROVE ScanFits'
    <2>1. ScanFits
      BY <1>3 DEF FolderInv
    <2>2. scan.from \in Nat /\ scan.seen \in Nat /\ \A k \in Mails : uid[k] \in Nat
      BY <1>1 DEF FolderTypes
    <2>3. /\ m \in scan.left /\ m \in Present /\ Present \subseteq Mails
          /\ \A k \in scan.left : k \in Present /\ uid[m] <= uid[k] /\ uid[k] > scan.seen
          /\ \A k \in scan.left : k # m => uid[k] > uid[m]
          /\ m \in Met' /\ Met \subseteq Met'
      <3>1. /\ m \in scan.left /\ m \in Present /\ Present \subseteq Mails
            /\ \A k \in scan.left : k \in Present /\ uid[m] <= uid[k] /\ uid[k] > scan.seen
            /\ m \in Met' /\ Met \subseteq Met'
        BY <1>3, <2>1 DEF ScanFits, Steady, Met, Present
      <3>2. \A k \in scan.left : k # m => uid[k] > uid[m]
        BY <2>2, <3>1 DEF FolderInv, Numbered
      <3> QED BY <3>1, <3>2
    <2>4. scan'.seen = uid[m] /\ uid[m] > scan.seen
      BY <1>2, <2>2, <2>3
    <2>5. /\ Present' = Present /\ uid' = uid /\ LastUid(scan.validity)' = LastUid(scan.validity)
          /\ validity' = validity
      BY <1>2 DEF Steady, Present, LastUid
    <2>6. /\ scan.validity \in {0, validity} /\ scan.from = LastUid(scan.validity)
          /\ scan.seen >= scan.from
          /\ \A k \in Present : uid[k] > scan.from /\ uid[k] <= scan.seen => k \in Met
          /\ \A k \in Present \ scan.left :
               uid[k] > scan.from => k \in Met \/ \A x \in scan.left : uid[k] > uid[x]
      BY <2>1 DEF ScanFits
    <2>7. \A k \in Present : uid[k] > scan.from /\ uid[k] <= uid[m] => k \in Met'
      <3> SUFFICES ASSUME NEW k \in Present, uid[k] > scan.from, uid[k] <= uid[m] PROVE k \in Met'
        OBVIOUS
      <3>1. CASE k = m
        BY <2>3, <3>1
      <3>2. CASE k \in scan.left /\ k # m
        BY <2>2, <2>3, <3>2
      <3>3. CASE k \notin scan.left
        BY <2>2, <2>3, <2>6, <3>3
      <3> QED BY <3>1, <3>2, <3>3
    <2>8. \A k \in Present \ (scan.left \ {m}) :
            uid[k] > scan.from => k \in Met' \/ \A x \in scan.left \ {m} : uid[k] > uid[x]
      BY <2>3, <2>6
    <2>9. \A k \in scan.left \ {m} : k \in Present /\ uid[k] > uid[m]
      BY <2>3
    <2>10. (scan.validity \in {0, validity} /\ scan.from = LastUid(scan.validity))'
      BY <1>2, <2>5, <2>6 DEF LastUid, Steady
    <2>11. (scan.seen >= scan.from)'
      BY <1>2, <2>2, <2>3, <2>4, <2>6
    <2> QED BY <1>2, <2>3, <2>4, <2>5, <2>7, <2>8, <2>9, <2>10, <2>11 DEF ScanFits
  <1> QED BY <1>2, <1>3, ScanStepKeeps

(* What was passed over was met in vain.                                   *)
LEMMA PassOverKeepsFolder ==
    ASSUME FolderInv, NEW p, NEW m, PassOver(p, m)
    PROVE  FolderInv'
  <1>1. /\ scan.at = "fetching" /\ m \in scan.left /\ failed' = failed \cup {m}
        /\ scan' = [scan EXCEPT !.left = @ \ {m}]
        /\ UNCHANGED <<provider, uid, validity, processed, cursor, slipped>>
    BY DEF PassOver, IsNext, stateFile
  <1>2. FolderTypes
    BY DEF FolderInv
  <1>3. PICK u : u = [scan EXCEPT !.left = @ \ {m}]
    OBVIOUS
  <1>4. /\ u.at = "fetching" /\ u.from = scan.from /\ u.seen = scan.seen
        /\ u.validity = scan.validity /\ u.left = scan.left \ {m}
        /\ u \in [at : {"waiting", "fetching", "storing", "indexing", "describing",
                        "calendar", "finishing"},
                  mail : Mails \cup {None}, left : SUBSET Mails, from : Nat, seen : Nat,
                  validity : Nat]
    BY <1>1, <1>2, <1>3 DEF FolderTypes
  <1>5. scan' = u
    BY <1>1, <1>3
  <1>6. ASSUME provider = "imap" PROVE ScanFits'
    <2>1. ScanFits
      BY <1>1, <1>6 DEF FolderInv
    <2>2. Present' = Present /\ LastUid(scan.validity)' = LastUid(scan.validity)
      BY <1>1, <1>4, <1>5 DEF Present, LastUid
    <2> QED BY <1>1, <1>4, <1>5, <2>1, <2>2 DEF ScanFits, Met
  <1>7. Steady
    BY <1>1 DEF Steady
  <1> QED BY <1>4, <1>5, <1>6, <1>7, ScanStepKeeps

(* The mail that process_email deals with is the one the scan took.        *)
LEMMA TakenMail ==
    ASSUME FolderInv, scan.at \notin {"waiting", "fetching"}
    PROVE  /\ scan.mail \in Mails
           /\ provider = "imap" => /\ scan.mail \in scan.left
                                   /\ \A k \in scan.left : uid[scan.mail] <= uid[k]
  BY DEF FolderInv, ScanFits

(* The steps of process_email leave the scan where it is.                  *)
LEMMA ToKeepsFolder ==
    ASSUME FolderInv, UNCHANGED <<provider, uid, validity, processed, cursor, failed, slipped>>,
           scan.at \notin {"waiting", "fetching"},
           NEW at \in {"storing", "indexing", "describing", "calendar", "finishing"}, To(at)
    PROVE  FolderInv'
  <1>1. FolderTypes
    BY DEF FolderInv
  <1>2. PICK u : u = [scan EXCEPT !.at = at]
    OBVIOUS
  <1>3. /\ u.at = at /\ u.from = scan.from /\ u.seen = scan.seen /\ u.mail = scan.mail
        /\ u.validity = scan.validity /\ u.left = scan.left
        /\ u \in [at : {"waiting", "fetching", "storing", "indexing", "describing",
                        "calendar", "finishing"},
                  mail : Mails \cup {None}, left : SUBSET Mails, from : Nat, seen : Nat,
                  validity : Nat]
    BY <1>1, <1>2 DEF FolderTypes
  <1>4. scan' = u
    BY <1>2 DEF To
  <1>5. ASSUME provider = "imap" PROVE ScanFits'
    <2>1. ScanFits
      BY <1>5 DEF FolderInv
    <2>2. Present' = Present /\ LastUid(scan.validity)' = LastUid(scan.validity)
      BY <1>3, <1>4 DEF Present, LastUid
    <2> QED BY <1>3, <1>4, <2>1, <2>2 DEF ScanFits, Met
  <1>6. Steady
    BY DEF Steady
  <1>7. u.mail \in Mails
    BY <1>3, TakenMail
  <1> QED BY <1>3, <1>4, <1>5, <1>6, <1>7, ScanStepKeeps

(* A mail is taken in its turn.                                            *)
LEMMA TakeKeepsFolder == ASSUME FolderInv, NEW p, NEW m \in Mails, Take(p, m) PROVE FolderInv'
  <1>1. /\ scan.at = "fetching" /\ m \in scan.left
        /\ provider = "imap" => \A k \in scan.left : uid[m] <= uid[k]
        /\ UNCHANGED <<provider, uid, validity, processed, cursor, failed, slipped>>
    BY DEF Take, IsNext, stateFile, mailHistory
  <1>2. FolderTypes /\ Steady
    BY <1>1 DEF FolderInv, Steady
  <1>3. CASE m \in processed
    <2>1. Advance(m) /\ m \in Met'
      BY <1>1, <1>3 DEF Take, Met
    <2> QED BY <1>1, <1>2, <2>1, AdvanceKeepsFolder
  <1>4. CASE m \notin processed
    <2>1. PICK u : u = [scan EXCEPT !.at = "storing", !.mail = m]
      OBVIOUS
    <2>2. /\ u.at = "storing" /\ u.from = scan.from /\ u.seen = scan.seen /\ u.mail = m
          /\ u.validity = scan.validity /\ u.left = scan.left
          /\ u \in [at : {"waiting", "fetching", "storing", "indexing", "describing",
                          "calendar", "finishing"},
                    mail : Mails \cup {None}, left : SUBSET Mails, from : Nat, seen : Nat,
                    validity : Nat]
      BY <1>2, <2>1 DEF FolderTypes
    <2>3. scan' = u
      BY <1>4, <2>1 DEF Take
    <2>4. ASSUME provider = "imap" PROVE ScanFits'
      <3>1. ScanFits
        BY <1>1, <2>4 DEF FolderInv
      <3>2. Present' = Present /\ LastUid(scan.validity)' = LastUid(scan.validity)
        BY <1>1, <2>2, <2>3 DEF Present, LastUid
      <3> QED BY <1>1, <2>2, <2>3, <2>4, <3>1, <3>2 DEF ScanFits, Met
    <2> QED BY <1>2, <2>2, <2>3, <2>4, ScanStepKeeps
  <1> QED BY <1>3, <1>4

(* Between the rows of a mail the scan stays where it is.                  *)
LEMMA StoreKeepsFolder == ASSUME FolderInv, NEW p, Store(p) PROVE FolderInv'
  BY ToKeepsFolder DEF Store, stateFile, mailHistory

(* The same of its chunks.                                                 *)
LEMMA IndexKeepsFolder == ASSUME FolderInv, NEW p, Index(p) PROVE FolderInv'
  BY ToKeepsFolder DEF Index, stateFile, mailHistory

(* The same of its description.                                            *)
LEMMA DescribeKeepsFolder == ASSUME FolderInv, NEW p, Describe(p) PROVE FolderInv'
  <1>1. /\ To("calendar") \/ To("finishing")
        /\ scan.at = "describing"
        /\ UNCHANGED <<provider, uid, validity, processed, cursor, failed, slipped>>
    BY DEF Describe, stateFile, mailHistory
  <1> QED BY <1>1, ToKeepsFolder

(* A mail that is given up is one that was met in vain.                    *)
LEMMA GiveUpKeepsFolder == ASSUME FolderInv, NEW p, GiveUp(p) PROVE FolderInv'
  <1>1. /\ scan.at \in {"storing", "indexing"} /\ failed' = failed \cup {scan.mail}
        /\ Advance(scan.mail)
        /\ UNCHANGED <<provider, uid, validity, processed, cursor, slipped>>
    BY DEF GiveUp, stateFile
  <1>2. PICK m \in Mails : m = scan.mail
    BY <1>1, TakenMail
  <1>3. Steady /\ m \in Met' /\ Advance(m)
    BY <1>1, <1>2 DEF Steady, Met
  <1> QED BY <1>1, <1>2, <1>3, TakenMail, AdvanceKeepsFolder

(* A mail that is finished is one of those processed.                      *)
LEMMA FinishKeepsFolder == ASSUME FolderInv, NEW p, Finish(p) PROVE FolderInv'
  <1>1. /\ scan.at \in {"finishing", "calendar"} /\ processed' = processed \cup {scan.mail}
        /\ Advance(scan.mail)
        /\ UNCHANGED <<provider, uid, validity, cursor, failed, slipped>>
    BY DEF Finish, mailHistory
  <1>2. PICK m \in Mails : m = scan.mail
    BY <1>1, TakenMail
  <1>3. Steady /\ m \in Met' /\ Advance(m)
    BY <1>1, <1>2 DEF Steady, Met
  <1> QED BY <1>1, <1>2, <1>3, TakenMail, AdvanceKeepsFolder

(* A scan of a mail directory moves no cursor.                             *)
LEMMA EndMaildirKeepsFolder == FolderInv /\ EndMaildirScan => FolderInv'
  <1> SUFFICES ASSUME FolderInv, EndMaildirScan PROVE FolderInv'
    OBVIOUS
  <1>1. scan' = Waiting /\ Steady
    BY DEF EndMaildirScan, Steady, stateFile, mailHistory
  <1> QED BY <1>1, WaitingTypes, ScanStepKeeps

(* What is lost is the scan, and not the cursor.                           *)
LEMMA CrashKeepsFolder == FolderInv /\ Crash => FolderInv'
  <1> SUFFICES ASSUME FolderInv, Crash PROVE FolderInv'
    OBVIOUS
  <1>1. scan' = Waiting /\ Steady
    BY DEF Crash, Steady, stateFile, mailHistory
  <1> QED BY <1>1, WaitingTypes, ScanStepKeeps

(* The cursor is put where the scan has come to.  It is that of the folder *)
(* as it is numbered now only if the scan started from it, or from the     *)
(* start and has seen a mail.                                              *)
LEMMA EndImapKeepsFolder == FolderInv /\ EndImapScan => FolderInv'
  <1> SUFFICES ASSUME FolderInv, EndImapScan PROVE FolderInv'
    OBVIOUS
  <1>1. /\ provider = "imap" /\ scan.at = "fetching" /\ scan.left = {} /\ scan' = Waiting
        /\ cursor' = [uid |-> IF scan.seen > scan.from THEN scan.seen ELSE cursor.uid,
                      validity |-> IF scan.validity # 0 THEN scan.validity ELSE cursor.validity]
        /\ slipped' = (slipped \/ (/\ scan.validity \notin {0, cursor.validity}
                                   /\ cursor'.uid # 0
                                   /\ (scan.from # 0 \/ scan.seen = 0)))
        /\ UNCHANGED <<provider, uid, validity, processed, failed>>
    BY DEF EndImapScan
  <1>2. PICK c : c = [uid |-> IF scan.seen > scan.from THEN scan.seen ELSE cursor.uid,
                      validity |-> IF scan.validity # 0 THEN scan.validity ELSE cursor.validity]
    OBVIOUS
  <1>3. /\ c.uid = (IF scan.seen > scan.from THEN scan.seen ELSE cursor.uid)
        /\ c.validity = (IF scan.validity # 0 THEN scan.validity ELSE cursor.validity)
        /\ cursor' = c
    BY <1>1, <1>2
  <1>4. ScanFits /\ FolderTypes
    BY <1>1 DEF FolderInv
  <1>5. /\ scan.seen \in Nat /\ scan.from \in Nat /\ cursor.uid \in Nat /\ cursor.validity \in Nat
        /\ validity \in Nat /\ cursor.validity <= validity /\ \A k \in Mails : uid[k] \in Nat
        /\ scan.validity \in Nat /\ validity # 0
    BY <1>4 DEF FolderTypes
  <1>6. /\ scan.validity \in {0, validity} /\ scan.from = LastUid(scan.validity)
        /\ scan.seen >= scan.from
        /\ scan.seen = scan.from \/ \E m \in Present : uid[m] = scan.seen
        /\ \A k \in Present : uid[k] > scan.from /\ uid[k] <= scan.seen => k \in Met
    BY <1>4 DEF ScanFits
  <1>7. c \in [uid : Nat, validity : Nat] /\ c.validity <= validity
    BY <1>2, <1>3, <1>5, <1>6
  <1>8. FolderTypes'
    BY <1>1, <1>3, <1>4, <1>7, WaitingTypes DEF FolderTypes
  <1>9. ASSUME c.validity = validity, ~slipped'
        PROVE  /\ c.uid = 0 \/ \E m \in Present : uid[m] = c.uid
               /\ \A m \in Present : uid[m] <= c.uid => m \in Met
    <2>0. ~slipped
      BY <1>1, <1>9
    <2>1. CASE scan.validity \in {0, cursor.validity}
      <3>1. scan.from = cursor.uid /\ cursor.validity = validity
        BY <1>3, <1>5, <1>6, <1>9, <2>1 DEF LastUid
      <3>2. /\ cursor.uid = 0 \/ \E m \in Present : uid[m] = cursor.uid
            /\ \A m \in Present : uid[m] <= cursor.uid => m \in Met
        BY <2>0, <3>1 DEF FolderInv, CursorIsUid, PassedIsMet, Met
      <3>3. c.uid = scan.seen
        BY <1>3, <1>5, <1>6, <3>1
      <3>4. \A m \in Present : uid[m] \in Nat
        BY <1>5 DEF Present
      <3> QED BY <1>5, <1>6, <3>1, <3>2, <3>3, <3>4
    <2>2. CASE scan.validity \notin {0, cursor.validity}
      <3>1. c.uid = 0 \/ (scan.from = 0 /\ scan.seen # 0)
        BY <1>1, <1>3, <1>9, <2>2
      <3>2. \A m \in Present : uid[m] \in Nat /\ uid[m] # 0
        BY <1>5 DEF Present
      <3>3. CASE c.uid = 0
        BY <3>2, <3>3
      <3>4. CASE scan.from = 0 /\ scan.seen # 0
        <4>1. c.uid = scan.seen
          BY <1>3, <1>5, <3>4
        <4> QED BY <1>5, <1>6, <3>2, <3>4, <4>1
      <3> QED BY <3>1, <3>3, <3>4
    <2> QED BY <2>1, <2>2
  <1>10. CursorIsUid' /\ PassedIsMet'
    BY <1>1, <1>3, <1>9 DEF CursorIsUid, PassedIsMet, Present, Met
  <1>11. Numbered'
    BY <1>1 DEF FolderInv, Numbered, Present
  <1> QED BY <1>1, <1>8, <1>10, <1>11, WaitingTypes DEF FolderInv

(* Every step keeps what is said of the folder.                            *)
LEMMA FolderStep == FolderInv /\ [MailNext]_allMailVars => FolderInv'
  <1> SUFFICES ASSUME FolderInv, [MailNext]_allMailVars PROVE FolderInv'
    OBVIOUS
  <1>1. ASSUME NEW m \in Mails, MailArrives(m) PROVE FolderInv'
    BY <1>1, ArriveKeepsFolder
  <1>2. CASE Rebuild BY <1>2, RebuildKeepsFolder
  <1>3. CASE ScanFault
    <2>1. ASSUME NEW m \in Mails, ParseFails(m) \/ FetchFails(m) PROVE FolderInv'
      BY <2>1, PassOverKeepsFolder DEF ParseFails, FetchFails
    <2>2. CASE GiveUpFile \/ GiveUpMessage
      BY <2>2, GiveUpKeepsFolder DEF GiveUpFile, GiveUpMessage
    <2>3. CASE Crash
      BY <2>3, CrashKeepsFolder
    <2> QED BY <1>3, <2>1, <2>2, <2>3 DEF ScanFault
  <1>4. CASE ScanStep
    <2>1. CASE StartMaildirScan \/ StartImapScan
      BY <2>1, StartMaildirKeepsFolder, StartImapKeepsFolder
    <2>2. ASSUME NEW m \in Mails, TakeFile(m) \/ TakeMessage(m) PROVE FolderInv'
      BY <2>2, TakeKeepsFolder DEF TakeFile, TakeMessage
    <2>3. CASE StoreFile \/ StoreMessage
      BY <2>3, StoreKeepsFolder DEF StoreFile, StoreMessage
    <2>4. CASE IndexFile \/ IndexMessage
      BY <2>4, IndexKeepsFolder DEF IndexFile, IndexMessage
    <2>5. CASE DescribeFile \/ DescribeMessage
      BY <2>5, DescribeKeepsFolder DEF DescribeFile, DescribeMessage
    <2>6. CASE FinishFile \/ FinishMessage
      BY <2>6, FinishKeepsFolder DEF FinishFile, FinishMessage
    <2>7. CASE EndMaildirScan \/ EndImapScan
      BY <2>7, EndMaildirKeepsFolder, EndImapKeepsFolder
    <2>8. CASE Write(Sensor)
      BY <2>8, FolderStays DEF Write, mailVars, folder
    <2> QED BY <1>4, <2>1, <2>2, <2>3, <2>4, <2>5, <2>6, <2>7, <2>8 DEF ScanStep, MaildirStep, ImapStep
  <1>5. CASE ScriptStep
    <2>1. CASE StartBackfill \/ StartEmbedding \/ EndBackfill
      BY <2>1, FolderStays DEF StartBackfill, StartEmbedding, EndBackfill, stateFile, mailHistory, folder
    <2>2. ASSUME NEW m \in Mails, FillFromMaildir(m) \/ FillFromImap(m) PROVE FolderInv'
      BY <2>2, FolderStays DEF FillFromMaildir, FillFromImap, Fill, stateFile, mailHistory, folder
    <2>3. ASSUME NEW m \in Mails, NoMaildirMatch(m) \/ NoImapMatch(m) PROVE FolderInv'
      BY <2>3, FolderStays DEF NoMaildirMatch, NoImapMatch, Miss, stateFile, mailHistory, folder
    <2>4. ASSUME NEW p \in script.rows, EmbedRow(p) PROVE FolderInv'
      BY <2>4, FolderStays DEF EmbedRow, stateFile, mailHistory, folder
    <2>5. CASE Write(Backfill)
      BY <2>5, FolderStays DEF Write, mailVars, folder
    <2> QED BY <1>5, <2>1, <2>2, <2>3, <2>4, <2>5 DEF ScriptStep
  <1>6. ASSUME NEW w \in Writers, WriteFails(w) PROVE FolderInv'
    BY <1>6, FolderStays DEF WriteFails, stateFile, mailHistory, folder
  <1>7. CASE UNCHANGED allMailVars
    BY <1>7, FolderStays DEF allMailVars, mailVars, folder
  <1> QED BY <1>1, <1>2, <1>3, <1>4, <1>5, <1>6, <1>7 DEF MailNext

(* The cursor of a folder, as it is numbered now, never passes a mail that *)
(* no scan has met: in spite of searches and fetches that fail, an answer  *)
(* without its UIDVALIDITY, mails that arrive during a scan and a sensor   *)
(* that ends in the middle of one; except that a folder numbered anew      *)
(* whose first scan saw nothing keeps the old cursor (fetch_new_emails,    *)
(* run_scan).                                                              *)
THEOREM CursorPassesNone == MailSpec => []PassedIsMet
  <1>1. FolderInv => PassedIsMet
    BY DEF FolderInv
  <1> QED BY <1>1, FolderInit, FolderStep, PTL DEF MailSpec

-----------------------------------------------------------------------------
(* The calendars: what the two writers and the script may hold.            *)
Wanted == [event : Events, version : EventVersions]

Steps == {"free", "marker", "event", "insert", "index", "link", "mark", "flag"}

Working == [at : Steps, mail : Mails \cup {None}, left : SUBSET Wanted,
            pair : Wanted \cup {None}, saw : BOOLEAN, index : Nat,
            vector : BOOLEAN, clean : BOOLEAN, ok : BOOLEAN]

CalendarTypes ==
    /\ \A e \in Events : row[e] \in VersionsOf(e) \cup {None}
    /\ row = [e \in Events |-> row[e]]
    /\ text \in [Events -> [0..MaxLength -> Entries \cup {None}]]
    /\ marker \subseteq Mails /\ described \subseteq Mails
    /\ flag \in [Mails -> {"none", "pending", "done"}]
    /\ linked \in [Mails -> SUBSET Events]
    /\ work \in [Writers -> Working]
    /\ script \in [at : {"off", "filling", "embedding"}, mails : SUBSET Mails, rows : SUBSET Wanted]

(* A writer works only for a program that has it work.                     *)
Employed ==
    /\ scan.at # "calendar" => work[Sensor].at = "free"
    /\ script.at # "filling" => work[Backfill].at = "free"

(* The event p of mail m is stored, by what is linked and by the rows.     *)
Stored(m, p, links, rows) ==
    /\ p.event \in links[m] /\ rows[p.event] # None
    /\ NotOlder(p.event, rows[p.event], p.version)

(* What a writer has behind it is stored; after the row is written, the    *)
(* event it deals with is, too.                                            *)
WriterFits(r, links, rows, marks) ==
    /\ r.at # "free" => r.mail \in Mails
    /\ r.at \in {"event", "insert", "index", "link", "mark"} =>
         /\ r.left \subseteq DedupByUid(Calendar[r.mail])
         /\ \A p \in DedupByUid(Calendar[r.mail]) \ r.left : Stored(r.mail, p, links, rows)
    /\ r.at \in {"insert", "index", "link"} => r.pair \in r.left
    /\ r.at \in {"index", "link"} => /\ rows[r.pair.event] # None
                                     /\ NotOlder(r.pair.event, rows[r.pair.event], r.pair.version)
    /\ r.at = "mark" => r.left = {}
    /\ r.at = "flag" /\ r.ok => r.mail \in marks

MailFits(m, links, rows) == \A p \in DedupByUid(Calendar[m]) : Stored(m, p, links, rows)

StoredInv ==
    /\ \A m \in marker : MailFits(m, linked, row)
    /\ \A m \in Mails : flag[m] = "done" => m \in marker
    /\ \A w \in Writers : WriterFits(work[w], linked, row, marker)

(* The text t is that of version v, up to index n and beyond its last      *)
(* chunk.                                                                  *)
TextIs(t, v, n) ==
    \A i \in 0..MaxLength : /\ i < n => t[i] # None /\ t[i].of = v
                            /\ i > v.length => t[i] = None

Matches(v, t) == IF v = None THEN t = NoText ELSE TextIs(t, v, v.length + 1)

Indexing(w, e) == work[w].at = "index" /\ work[w].pair.event = e

(* A writer that was alone with its event from the selection on knows what *)
(* is in the row and the text.                                             *)
Alone(r, rows, texts) ==
    /\ r.at = "index" => r.index <= r.pair.version.length
    /\ r.at = "insert" /\ r.clean /\ ~r.saw => rows[r.pair.event] = None
    /\ r.at = "index" /\ r.clean => /\ rows[r.pair.event] = r.pair.version
                                    /\ TextIs(texts[r.pair.event], r.pair.version, r.index)

TextInv ==
    /\ \A e \in Events : (\E w \in Writers : Indexing(w, e)) \/ e \in mixed \/ Matches(row[e], text[e])
    /\ \A e \in Events : row[e] = None => text[e] = NoText
    /\ \A w \in Writers : Alone(work[w], row, text)
    /\ \A w, x \in Writers : \A e \in Events :
         w # x /\ Holds(w, e) /\ Holds(x, e) => ~work[w].clean
    /\ \A p \in script.rows : row[p.event] # None

CalendarInv == CalendarTypes /\ Employed /\ StoredInv /\ TextInv

-----------------------------------------------------------------------------
(* The event of an attachment that is kept after i + 1 of its entries, if  *)
(* best is kept after i.                                                   *)
BestStep(pairs, e, i, best) ==
    IF pairs[i].event = e /\ (best = None \/ IncomingIsNewer(pairs[i].version, best))
    THEN pairs[i].version ELSE best

Best(pairs, e, n, f) == f = [i \in 0..n |-> IF i = 0 THEN None ELSE BestStep(pairs, e, i, f[i - 1])]

(* There is a function that gives the event kept after each entry.         *)
LEMMA BestExists ==
    ASSUME NEW pairs, NEW e, NEW n \in Nat
    PROVE  \E f : Best(pairs, e, n, f)
  <1> DEFINE T == {k \in Nat : ~ \E f : Best(pairs, e, k, f)}
  <1> SUFFICES ASSUME n \in T PROVE FALSE
    OBVIOUS
  <1>1. PICK k \in T : \A j \in T : k <= j
    <2>1. T \subseteq Nat /\ T # {}
      OBVIOUS
    <2> HIDE DEF T
    <2> QED BY <2>1, LeastNumber
  <1>2. k \in Nat /\ ~ \E f : Best(pairs, e, k, f)
    BY <1>1
  <1>3. Best(pairs, e, 0, [i \in 0..0 |-> None])
    BY DEF Best
  <1>4. k # 0
    BY <1>2, <1>3
  <1>5. k - 1 \in Nat /\ k - 1 \notin T
    BY <1>1, <1>2, <1>4
  <1>6. PICK f : Best(pairs, e, k - 1, f)
    BY <1>5
  <1> DEFINE g == [i \in 0..k |-> IF i = k THEN BestStep(pairs, e, k, f[k - 1]) ELSE f[i]]
  <1>7. \A i \in 0..k : g[i] = IF i = 0 THEN None ELSE BestStep(pairs, e, i, g[i - 1])
    <2> SUFFICES ASSUME NEW i \in 0..k
                 PROVE  g[i] = IF i = 0 THEN None ELSE BestStep(pairs, e, i, g[i - 1])
      OBVIOUS
    <2>1. \A j \in 0..(k - 1) : f[j] = IF j = 0 THEN None ELSE BestStep(pairs, e, j, f[j - 1])
      BY <1>5, <1>6 DEF Best
    <2>2. i # 0 => i - 1 \in 0..k /\ i - 1 # k /\ g[i - 1] = f[i - 1]
      BY <1>2
    <2>3. CASE i = k
      BY <1>4, <2>2, <2>3
    <2>4. CASE i # k
      <3>1. i \in 0..(k - 1) /\ g[i] = f[i]
        BY <1>2, <2>4
      <3> QED BY <2>1, <2>2, <3>1
    <2> QED BY <2>3, <2>4
  <1>8. Best(pairs, e, k, g)
    <2>1. g = [i \in 0..k |-> g[i]]
      OBVIOUS
    <2> HIDE DEF g
    <2> QED BY <1>7, <2>1 DEF Best
  <1> QED BY <1>2, <1>8

(* It is one of the entries, unless none of them is of the event.          *)
LEMMA BestValues ==
    ASSUME NEW pairs, NEW e, NEW n \in Nat, NEW f, Best(pairs, e, n, f),
           NEW i \in 0..n
    PROVE  \/ f[i] = None /\ \A j \in 1..i : pairs[j].event # e \/ pairs[j].version = None
           \/ \E j \in 1..i : pairs[j].event = e /\ f[i] = pairs[j].version
  <1> DEFINE Fits(k) == \/ f[k] = None /\ \A j \in 1..k : pairs[j].event # e \/ pairs[j].version = None
                        \/ \E j \in 1..k : pairs[j].event = e /\ f[k] = pairs[j].version
             T == {k \in 0..n : ~Fits(k)}
  <1> SUFFICES ASSUME i \in T PROVE FALSE
    OBVIOUS
  <1>1. PICK k \in T : \A j \in T : k <= j
    <2>1. T \subseteq Nat /\ T # {}
      OBVIOUS
    <2> HIDE DEF T
    <2> QED BY <2>1, LeastNumber
  <1>2. k \in 0..n /\ ~Fits(k)
    BY <1>1
  <1>3. \A j \in 0..n : f[j] = IF j = 0 THEN None ELSE BestStep(pairs, e, j, f[j - 1])
    BY DEF Best
  <1>4. CASE k = 0
    <2>1. f[k] = None /\ 1..k = {}
      BY <1>3, <1>4
    <2> QED BY <1>2, <2>1
  <1>5. CASE k # 0
    <2>1. k - 1 \in 0..n /\ k - 1 \notin T /\ k \in 1..n
      BY <1>1, <1>2, <1>5
    <2>2. Fits(k - 1)
      BY <2>1
    <2>3. f[k] = BestStep(pairs, e, k, f[k - 1])
      BY <1>2, <1>3, <1>5
    <2>4. f[k] = IF pairs[k].event = e /\ (f[k - 1] = None \/ IncomingIsNewer(pairs[k].version, f[k - 1]))
                 THEN pairs[k].version ELSE f[k - 1]
      BY <2>3 DEF BestStep
    <2>5. 1..k = (1..(k - 1)) \cup {k}
      BY <2>1
    <2>6. CASE pairs[k].event = e /\ (f[k - 1] = None \/ IncomingIsNewer(pairs[k].version, f[k - 1]))
      BY <1>2, <2>4, <2>5, <2>6
    <2>7. CASE ~ (pairs[k].event = e /\ (f[k - 1] = None \/ IncomingIsNewer(pairs[k].version, f[k - 1])))
      BY <1>2, <2>2, <2>4, <2>5, <2>7
    <2> QED BY <2>6, <2>7
  <1> QED BY <1>4, <1>5

Entry_ == [event : Events,
           version : [sequence : {NoSequence} \cup Nat, stamp : Nat, length : Nat \ {0}]]

(* A calendar is a sequence of entries, each with an event and a version.  *)
LEMMA CalendarTyped ==
    ASSUME NEW m \in Mails
    PROVE  /\ Calendar[m] \in Seq(Entry_) /\ Len(Calendar[m]) \in Nat
           /\ DOMAIN Calendar[m] = 1..Len(Calendar[m])
           /\ \A i \in 1..Len(Calendar[m]) :
                /\ Calendar[m][i] \in Entry_
                /\ Calendar[m][i].event \in Events
                /\ Calendar[m][i].version \in EventVersions
                /\ Calendar[m][i].version # None
                /\ Calendar[m][i].version \in VersionsOf(Calendar[m][i].event)
  <1>1. Calendar[m] \in Seq(Entry_)
    BY CalendarAssumption DEF Entry_
  <1>2. /\ Len(Calendar[m]) \in Nat /\ DOMAIN Calendar[m] = 1..Len(Calendar[m])
        /\ \A i \in 1..Len(Calendar[m]) : Calendar[m][i] \in Entry_
    BY <1>1
  <1>3. ASSUME NEW i \in 1..Len(Calendar[m])
        PROVE  /\ Calendar[m][i].version \in EventVersions
               /\ Calendar[m][i].version \in VersionsOf(Calendar[m][i].event)
    BY <1>2 DEF EventVersions, VersionsOf
  <1>4. None \notin EventVersions
    BY CalendarAssumption
  <1> QED BY <1>1, <1>2, <1>3, <1>4 DEF Entry_

(* What is kept of an attachment is one of its entries.                    *)
LEMMA DedupTyped ==
    ASSUME NEW m \in Mails, NEW p \in DedupByUid(Calendar[m])
    PROVE  p \in Wanted /\ p.version \in VersionsOf(p.event)
  <1> DEFINE s == Calendar[m]
  <1>1. PICK k \in DOMAIN s : p = [event |-> s[k].event, version |-> BestOf(s, s[k].event)]
    BY DEF DedupByUid
  <1>2. PICK e : e = s[k].event
    OBVIOUS
  <1>3. Len(s) \in Nat /\ k \in 1..Len(s) /\ \A j \in 1..Len(s) : s[j].version # None
    BY CalendarTyped
  <1>4. PICK f : Best(s, e, Len(s), f)
    BY <1>3, BestExists
  <1>5. PICK g : Best(s, e, Len(s), g) /\ BestOf(s, e) = g[Len(s)]
    BY <1>4 DEF BestOf, Best, BestStep
  <1>6. Len(s) \in 0..Len(s)
    BY <1>3
  <1>7. \E j \in 1..Len(s) : s[j].event = e /\ g[Len(s)] = s[j].version
    <2>0. PICK n \in Nat : n = Len(s)
      BY <1>3
    <2>1. PICK t : t = s
      OBVIOUS
    <2>2. Best(t, e, n, g) /\ n \in 0..n
      BY <1>3, <1>5, <1>6, <2>0, <2>1
    <2>3. \/ g[n] = None /\ \A j \in 1..n : t[j].event # e \/ t[j].version = None
          \/ \E j \in 1..n : t[j].event = e /\ g[n] = t[j].version
      BY <2>2, BestValues, Z3
    <2> QED BY <1>2, <1>3, <2>0, <2>1, <2>3
  <1>8. PICK j \in 1..Len(s) : s[j].event = e /\ p.version = s[j].version /\ p.event = e
    BY <1>1, <1>2, <1>5, <1>7
  <1>9. s[j].version \in EventVersions /\ s[j].version \in VersionsOf(e) /\ e \in Events
    BY <1>8, CalendarTyped
  <1>10. p = [event |-> p.event, version |-> p.version]
    BY <1>1
  <1> QED BY <1>8, <1>9, <1>10 DEF Wanted

(* A version has the fields that are compared, and None is none.           *)
LEMMA VersionsTyped ==
    /\ None \notin EventVersions /\ None \notin Entries
    /\ \A v \in EventVersions :
         v.sequence \in {NoSequence} \cup Nat /\ v.stamp \in Nat /\ v.length \in Nat \ {0}
    /\ \A e \in Events : VersionsOf(e) \subseteq EventVersions
  <1>1. None \notin EventVersions /\ None \notin Entries
    BY CalendarAssumption
  <1>2. ASSUME NEW v \in EventVersions
        PROVE  v.sequence \in {NoSequence} \cup Nat /\ v.stamp \in Nat /\ v.length \in Nat \ {0}
    <2>1. PICK m \in Mails : \E i \in DOMAIN Calendar[m] : v = Calendar[m][i].version
      BY DEF EventVersions
    <2>2. \A i \in DOMAIN Calendar[m] : Calendar[m][i] \in Entry_
      BY CalendarTyped
    <2> QED BY <2>1, <2>2 DEF Entry_
  <1>3. \A e \in Events : VersionsOf(e) \subseteq EventVersions
    BY DEF VersionsOf, EventVersions
  <1> QED BY <1>1, <1>2, <1>3

(* No text is longer than MaxLength: there are finitely many versions.     *)
LEMMA MaxLengthIs ==
    /\ MaxLength \in Nat
    /\ \A v \in EventVersions : v.length \in 1..MaxLength
  <1> DEFINE Lengths(m) == {Calendar[m][i].version.length : i \in DOMAIN Calendar[m]} \cup {0}
             longest == [m \in Mails |-> CHOOSE n \in Lengths(m) : \A x \in Lengths(m) : x <= n]
             L == {v.length : v \in EventVersions} \cup {0}
  <1>1. ASSUME NEW m \in Mails
        PROVE  longest[m] \in Lengths(m) /\ longest[m] \in Nat /\ \A x \in Lengths(m) : x <= longest[m]
    <2>1. /\ DOMAIN Calendar[m] = 1..Len(Calendar[m]) /\ Len(Calendar[m]) \in Nat
          /\ \A i \in DOMAIN Calendar[m] : Calendar[m][i].version.length \in Nat
      BY CalendarTyped, VersionsTyped
    <2>2. IsFiniteSet(DOMAIN Calendar[m])
      <3>1. PICK n \in Nat : DOMAIN Calendar[m] = 1..n
        BY <2>1
      <3>2. IsFiniteSet(1..n)
        BY FS_Interval
      <3> QED BY <3>1, <3>2
    <2>3. \E n \in Lengths(m) : \A x \in Lengths(m) : x <= n
      <3>1. CASE DOMAIN Calendar[m] = {}
        BY <3>1
      <3>2. CASE DOMAIN Calendar[m] # {}
        <4> DEFINE f == [i \in DOMAIN Calendar[m] |-> Calendar[m][i].version.length]
        <4>1. \A i \in DOMAIN Calendar[m] : f[i] \in Nat
          BY <2>1
        <4> HIDE DEF f
        <4>2. PICK i \in DOMAIN Calendar[m] : \A j \in DOMAIN Calendar[m] : f[j] <= f[i]
          BY <2>2, <3>2, <4>1, GreatestOf
        <4>3. \A j \in DOMAIN Calendar[m] : f[j] = Calendar[m][j].version.length
          BY DEF f
        <4>4. f[i] \in Lengths(m)
          BY <4>3
        <4>5. \A x \in Lengths(m) : x <= f[i]
          BY <4>1, <4>2, <4>3
        <4> QED BY <4>4, <4>5
      <3> QED BY <3>1, <3>2
    <2>4. Lengths(m) \subseteq Nat
      BY <2>1
    <2>5. longest[m] = CHOOSE n \in Lengths(m) : \A x \in Lengths(m) : x <= n
      OBVIOUS
    <2> HIDE DEF longest, Lengths
    <2> QED BY <2>3, <2>4, <2>5
  <1>2. \A v \in EventVersions : \E m \in Mails : v.length \in Lengths(m)
    BY DEF EventVersions
  <1>3. \A m \in Mails : Lengths(m) \subseteq L
    BY DEF EventVersions
  <1>4. L \subseteq Nat /\ 0 \in L
    BY VersionsTyped
  <1> HIDE DEF longest, Lengths
  <1>5. \E n \in L : \A x \in L : n >= x
    <2>1. CASE Mails = {}
      <3>1. \A x \in L : x = 0
        BY <1>2, <2>1
      <3> QED BY <1>4, <3>1
    <2>2. CASE Mails # {}
      <3>1. PICK m \in Mails : \A k \in Mails : longest[k] <= longest[m]
        BY <1>1, <2>2, CalendarAssumption, GreatestOf
      <3>2. \A v \in EventVersions : longest[m] >= v.length
        <4> SUFFICES ASSUME NEW v \in EventVersions PROVE longest[m] >= v.length
          OBVIOUS
        <4>1. PICK k \in Mails : v.length \in Lengths(k)
          BY <1>2
        <4>2. v.length <= longest[k] /\ longest[k] <= longest[m]
          BY <1>1, <3>1, <4>1
        <4> QED BY <1>1, <4>2, VersionsTyped
      <3>3. longest[m] \in L /\ longest[m] \in Nat
        BY <1>1, <1>3
      <3> QED BY <3>2, <3>3
    <2> QED BY <2>1, <2>2
  <1>6. MaxLength \in L /\ \A x \in L : MaxLength >= x
    <2>1. MaxLength = CHOOSE x \in L : \A y \in L : x >= y
      BY DEF MaxLength, Max
    <2> HIDE DEF L
    <2> QED BY <1>5, <2>1
  <1> QED BY <1>4, <1>6, VersionsTyped

(* The rule of replacement, for an event whose versions it can order.      *)
LEMMA NotOlderOrder ==
    ASSUME NEW e \in Events, NEW u \in VersionsOf(e), NEW v \in VersionsOf(e), NEW x \in VersionsOf(e)
    PROVE  /\ NotOlder(e, v, v)
           /\ IncomingIsNewer(u, v) => NotOlder(e, u, v)
           /\ ~IncomingIsNewer(u, v) => NotOlder(e, v, u)
           /\ NotOlder(e, u, v) /\ NotOlder(e, v, x) => NotOlder(e, u, x)
  <1>1. /\ u.sequence \in {NoSequence} \cup Nat /\ u.stamp \in Nat
        /\ v.sequence \in {NoSequence} \cup Nat /\ v.stamp \in Nat
        /\ x.sequence \in {NoSequence} \cup Nat /\ x.stamp \in Nat
    BY VersionsTyped
  <1>2. IncomingIsNewer(v, v) /\ (~IncomingIsNewer(u, v) => IncomingIsNewer(v, u))
    BY <1>1 DEF IncomingIsNewer, NoSequence
  <1>3. SequencesAgree(e) => (IncomingIsNewer(u, v) /\ IncomingIsNewer(v, x) => IncomingIsNewer(u, x))
    BY <1>1 DEF IncomingIsNewer, NoSequence, SequencesAgree
  <1> QED BY <1>2, <1>3 DEF NotOlder

-----------------------------------------------------------------------------
(* A writer that is free, and one that begins with the events of a mail.   *)
LEMMA FreeTyped ==
    /\ Free \in Working /\ Free.at = "free"
    /\ \A w, m : m \in Mails => /\ Begin(w, m) \in Working /\ Begin(w, m).at = "marker"
                                /\ Begin(w, m).mail = m /\ Begin(w, m).ok
  <1>1. Free \in Working /\ Free.at = "free" /\ Free.ok
    BY DEF Free, Working, Steps
  <1>2. ASSUME NEW w, NEW m \in Mails
        PROVE  /\ Begin(w, m) \in Working /\ Begin(w, m).at = "marker"
               /\ Begin(w, m).mail = m /\ Begin(w, m).ok
    <2>1. PICK f : f = Free
      OBVIOUS
    <2>2. PICK u : u = [f EXCEPT !.at = "marker", !.mail = m]
      OBVIOUS
    <2>3. u \in Working /\ u.at = "marker" /\ u.mail = m /\ u.ok
      BY <1>1, <2>1, <2>2 DEF Working, Steps
    <2> QED BY <2>1, <2>2, <2>3 DEF Begin
  <1> QED BY <1>1, <1>2

(* A row without text has a text of no version.                            *)
LEMMA NoTextTyped == /\ NoText \in [0..MaxLength -> Entries \cup {None}]
                     /\ \A i \in 0..MaxLength : NoText[i] = None
  BY DEF NoText

(* The writers are the sensor and the script.                              *)
LEMMA WriterProcesses == Writers = {Sensor, Backfill} /\ Sensor # Backfill
  BY MailAssumption DEF Sensor, Backfill

-----------------------------------------------------------------------------
(* Rows are replaced by newer versions only, and what is linked and marked *)
(* stays so.                                                               *)
Progress ==
    /\ \A e \in Events : row[e] # None => row'[e] # None /\ NotOlder(e, row'[e], row[e])
    /\ \A m \in Mails : linked[m] \subseteq linked'[m]
    /\ marker \subseteq marker'

(* What is stored of an event of a mail stays stored.                      *)
LEMMA PairKeeps ==
    ASSUME CalendarTypes, CalendarTypes', Progress, NEW m \in Mails,
           NEW p \in DedupByUid(Calendar[m]), Stored(m, p, linked, row)
    PROVE  Stored(m, p, linked', row')
  <1>1. p \in Wanted /\ p.version \in VersionsOf(p.event) /\ p.event \in Events
    BY DedupTyped DEF Wanted
  <1>2. /\ row[p.event] # None /\ row'[p.event] # None
        /\ NotOlder(p.event, row'[p.event], row[p.event])
        /\ NotOlder(p.event, row[p.event], p.version)
    BY <1>1 DEF Stored, Progress
  <1>3. row[p.event] \in VersionsOf(p.event) /\ row'[p.event] \in VersionsOf(p.event)
    BY <1>1, <1>2 DEF CalendarTypes
  <1>4. NotOlder(p.event, row'[p.event], p.version)
    BY <1>1, <1>2, <1>3, NotOlderOrder
  <1> QED BY <1>1, <1>2, <1>4 DEF Stored, Progress

(* A writer has stored what it had behind it, also while others work.      *)
LEMMA WriterKeeps ==
    ASSUME CalendarTypes, CalendarTypes', Progress, NEW r \in Working, NEW u \in Working,
           WriterFits(r, linked, row, marker),
           u.at = r.at, u.mail = r.mail, u.left = r.left, u.pair = r.pair, u.ok = r.ok
    PROVE  WriterFits(u, linked', row', marker')
  <1>1. r.at # "free" => r.mail \in Mails
    BY DEF WriterFits
  <1>2. ASSUME r.at \in {"event", "insert", "index", "link", "mark"}
        PROVE  /\ r.left \subseteq DedupByUid(Calendar[r.mail])
               /\ \A p \in DedupByUid(Calendar[r.mail]) \ r.left : Stored(r.mail, p, linked', row')
    <2>1. /\ r.left \subseteq DedupByUid(Calendar[r.mail])
          /\ \A p \in DedupByUid(Calendar[r.mail]) \ r.left : Stored(r.mail, p, linked, row)
      BY <1>2 DEF WriterFits
    <2>2. PICK m \in Mails : m = r.mail
      BY <1>1, <1>2
    <2> QED BY <2>1, <2>2, PairKeeps
  <1>3. ASSUME r.at \in {"insert", "index", "link"} PROVE r.pair \in r.left
    BY <1>3 DEF WriterFits
  <1>4. ASSUME r.at \in {"index", "link"}
        PROVE  /\ row'[r.pair.event] # None
               /\ NotOlder(r.pair.event, row'[r.pair.event], r.pair.version)
    <2>1. PICK m \in Mails : m = r.mail
      BY <1>1, <1>4
    <2>2. r.pair \in DedupByUid(Calendar[m])
      BY <1>2, <1>3, <1>4, <2>1
    <2>3. PICK p \in DedupByUid(Calendar[m]) : p = r.pair
      BY <2>2
    <2>4. p \in Wanted /\ p.version \in VersionsOf(p.event) /\ p.event \in Events
      BY DedupTyped DEF Wanted
    <2>5. row[p.event] # None /\ NotOlder(p.event, row[p.event], p.version)
      BY <1>4, <2>3 DEF WriterFits
    <2>6. row'[p.event] # None /\ NotOlder(p.event, row'[p.event], row[p.event])
      BY <2>4, <2>5 DEF Progress
    <2>7. row[p.event] \in VersionsOf(p.event) /\ row'[p.event] \in VersionsOf(p.event)
      BY <2>4, <2>5, <2>6 DEF CalendarTypes
    <2> QED BY <2>3, <2>4, <2>5, <2>6, <2>7, NotOlderOrder
  <1>5. /\ r.at = "mark" => r.left = {}
        /\ r.at = "flag" /\ r.ok => r.mail \in marker'
    BY DEF WriterFits, Progress
  <1> QED BY <1>1, <1>2, <1>3, <1>4, <1>5 DEF WriterFits

(* All that a step of writer w has to show for what is stored.             *)
LEMMA StoredStep ==
    ASSUME CalendarTypes, CalendarTypes', Progress, StoredInv, NEW w \in Writers,
           \A x \in Writers \ {w} :
             /\ work'[x].at = work[x].at /\ work'[x].mail = work[x].mail
             /\ work'[x].left = work[x].left /\ work'[x].pair = work[x].pair
             /\ work'[x].ok = work[x].ok,
           WriterFits(work'[w], linked', row', marker'),
           \A m \in marker' \ marker : MailFits(m, linked', row'),
           \A m \in Mails : flag'[m] = "done" => flag[m] = "done" \/ m \in marker'
    PROVE  StoredInv'
  <1>1. \A x \in Writers : work[x] \in Working /\ work'[x] \in Working
    BY DEF CalendarTypes
  <1>2. ASSUME NEW x \in Writers PROVE WriterFits(work'[x], linked', row', marker')
    <2>1. WriterFits(work[x], linked, row, marker)
      BY DEF StoredInv
    <2>2. CASE x # w
      BY <1>1, <2>1, <2>2, WriterKeeps
    <2> QED BY <2>2
  <1>3. ASSUME NEW m \in marker' PROVE MailFits(m, linked', row')
    <2>1. CASE m \in marker
      <3>1. m \in Mails /\ MailFits(m, linked, row)
        BY <2>1 DEF StoredInv, CalendarTypes
      <3> QED BY <3>1, PairKeeps DEF MailFits
    <2> QED BY <1>3, <2>1
  <1>4. \A m \in Mails : flag'[m] = "done" => m \in marker'
    BY DEF StoredInv, Progress
  <1> QED BY <1>2, <1>3, <1>4 DEF StoredInv

(* All that a step of writer w on event e has to show for the texts.       *)
LEMMA TextStep ==
    ASSUME CalendarTypes, CalendarTypes', StoredInv, TextInv, NEW w \in Writers, NEW e,
           \A d \in Events \ {e} : /\ row'[d] = row[d] /\ text'[d] = text[d]
                                   /\ d \in mixed => d \in mixed'
                                   /\ ~Indexing(w, d),
           e \in Events => /\ \/ \E x \in Writers : Indexing(x, e)'
                              \/ e \in mixed' \/ Matches(row'[e], text'[e])
                           /\ row'[e] = None => text'[e] = NoText,
           \A x \in Writers \ {w} :
             /\ work'[x].at = work[x].at /\ work'[x].pair = work[x].pair
             /\ work'[x].saw = work[x].saw /\ work'[x].index = work[x].index
             /\ work'[x].clean => work[x].clean
             /\ Holds(x, e) /\ work'[x].clean => row'[e] = row[e] /\ text'[e] = text[e]
             /\ \A d \in Events : Holds(w, d)' /\ Holds(x, d) => ~work'[w].clean /\ ~work'[x].clean,
           Alone(work'[w], row', text'),
           \A p \in script'.rows : row'[p.event] # None
    PROVE  TextInv'
  <1>1. ASSUME NEW d \in Events
        PROVE  \/ \E x \in Writers : Indexing(x, d)'
               \/ d \in mixed' \/ Matches(row'[d], text'[d])
    <2>1. CASE d = e
      BY <2>1
    <2>2. CASE d # e
      <3>1. (\E x \in Writers : Indexing(x, d)) \/ d \in mixed \/ Matches(row[d], text[d])
        BY DEF TextInv
      <3>2. ASSUME NEW x \in Writers, Indexing(x, d) PROVE Indexing(x, d)'
        <4>1. x # w
          BY <2>2, <3>2
        <4> QED BY <3>2, <4>1 DEF Indexing
      <3> QED BY <2>2, <3>1, <3>2
    <2> QED BY <2>1, <2>2
  <1>2. \A d \in Events : row'[d] = None => text'[d] = NoText
    BY DEF TextInv
  <1>3. ASSUME NEW x \in Writers PROVE Alone(work'[x], row', text')
    <2>1. CASE x # w
      <3>1. Alone(work[x], row, text)
        BY DEF TextInv
      <3>2. work[x].at \in {"insert", "index"} => work[x].pair.event \in Events
        <4> SUFFICES ASSUME work[x].at \in {"insert", "index"} PROVE work[x].pair.event \in Events
          OBVIOUS
        <4>1. work[x].pair \in work[x].left /\ work[x].left \subseteq Wanted
          BY DEF StoredInv, WriterFits, CalendarTypes, Working
        <4> QED BY <4>1 DEF Wanted
      <3>3. work'[x].at \in {"insert", "index"} /\ work'[x].clean =>
              /\ row'[work[x].pair.event] = row[work[x].pair.event]
              /\ text'[work[x].pair.event] = text[work[x].pair.event]
        BY <2>1, <3>2 DEF Holds
      <3>4. work'[x] \in Working /\ work[x] \in Working
        BY DEF CalendarTypes
      <3> QED BY <2>1, <3>1, <3>3, <3>4 DEF Alone
    <2> QED BY <2>1
  <1>4. ASSUME NEW x \in Writers, NEW y \in Writers, NEW d \in Events,
               x # y, Holds(x, d)', Holds(y, d)'
        PROVE  ~work'[x].clean
    <2>1. CASE x = w
      BY <1>4, <2>1 DEF Holds
    <2>2. CASE y = w
      BY <1>4, <2>2 DEF Holds
    <2>3. CASE x # w /\ y # w
      BY <1>4, <2>3 DEF Holds, TextInv
    <2> QED BY <2>1, <2>2, <2>3
  <1> QED BY <1>1, <1>2, <1>3, <1>4 DEF TextInv

(* A step of writer w after which it holds no event, and writes no row and *)
(* no text.  What it leaves unfinished is mixed.                           *)
LEMMA QuietText ==
    ASSUME CalendarTypes, CalendarTypes', StoredInv, TextInv, NEW w \in Writers,
           row' = row, text' = text,
           mixed' = (IF work[w].at = "index" THEN mixed \cup {work[w].pair.event} ELSE mixed),
           \A x \in Writers \ {w} : work'[x] = work[x],
           work'[w].at \notin {"insert", "index"},
           script'.rows \subseteq script.rows
    PROVE  TextInv'
  <1>1. PICK e : e = work[w].pair.event
    OBVIOUS
  <1>2. \A d \in Events \ {e} : ~Indexing(w, d)
    BY <1>1 DEF Indexing
  <1>3. ASSUME e \in Events
        PROVE  (\E x \in Writers : Indexing(x, e)') \/ e \in mixed' \/ Matches(row'[e], text'[e])
    <2>1. CASE work[w].at = "index"
      BY <1>1, <2>1
    <2>2. CASE work[w].at # "index"
      <3>1. (\E x \in Writers : Indexing(x, e)) \/ e \in mixed \/ Matches(row[e], text[e])
        BY <1>3 DEF TextInv
      <3>2. ASSUME NEW x \in Writers, Indexing(x, e) PROVE Indexing(x, e)'
        <4>1. x # w
          BY <2>2, <3>2 DEF Indexing
        <4> QED BY <3>2, <4>1 DEF Indexing
      <3> QED BY <2>2, <3>1, <3>2
    <2> QED BY <2>1, <2>2
  <1>4. \A d : ~Holds(w, d)'
    BY DEF Holds
  <1>5. Alone(work'[w], row', text')
    BY DEF Alone
  <1>6. \A p \in script'.rows : row'[p.event] # None
    BY DEF TextInv
  <1>7. e \in Events /\ row'[e] = None => text'[e] = NoText
    BY DEF TextInv
  <1>8. \A d \in Events : d \in mixed => d \in mixed'
    OBVIOUS
  <1> QED BY <1>2, <1>3, <1>4, <1>5, <1>6, <1>7, <1>8, TextStep

(* A step of writer w that writes no row and no text and holds no event    *)
(* afterwards.                                                             *)
LEMMA QuietStep ==
    ASSUME CalendarInv, NEW w \in Writers, NEW u \in Working,
           work' = [work EXCEPT ![w] = u], row' = row, text' = text,
           mixed' = (IF work[w].at = "index" THEN mixed \cup {work[w].pair.event} ELSE mixed),
           u.at \notin {"insert", "index"},
           marker' \subseteq Mails, marker \subseteq marker', described' \subseteq Mails,
           flag' \in [Mails -> {"none", "pending", "done"}],
           linked' \in [Mails -> SUBSET Events],
           \A m \in Mails : linked[m] \subseteq linked'[m],
           script' \in [at : {"off", "filling", "embedding"}, mails : SUBSET Mails,
                        rows : SUBSET Wanted],
           script'.rows \subseteq script.rows,
           Employed',
           WriterFits(u, linked', row, marker'),
           \A m \in marker' \ marker : MailFits(m, linked', row),
           \A m \in Mails : flag'[m] = "done" => flag[m] = "done" \/ m \in marker'
    PROVE  CalendarInv'
  <1>1. CalendarTypes /\ StoredInv /\ TextInv
    BY DEF CalendarInv
  <1>2. work'[w] = u /\ \A x \in Writers \ {w} : work'[x] = work[x]
    BY <1>1 DEF CalendarTypes
  <1>3. CalendarTypes'
    BY <1>1 DEF CalendarTypes
  <1>4. Progress
    <2>1. \A e \in Events : row[e] # None => NotOlder(e, row[e], row[e])
      BY <1>1, NotOlderOrder DEF CalendarTypes
    <2> QED BY <2>1 DEF Progress
  <1>5. StoredInv'
    BY <1>1, <1>2, <1>3, <1>4, StoredStep
  <1>6. TextInv'
    BY <1>1, <1>2, <1>3, QuietText
  <1> QED BY <1>3, <1>5, <1>6 DEF CalendarInv

(* A writer that works is employed, and stays so.                          *)
LEMMA StaysEmployed ==
    ASSUME Employed, NEW w \in Writers, work[w].at # "free", UNCHANGED <<scan, script>>,
           \A x \in Writers \ {w} : work'[x].at = work[x].at
    PROVE  Employed'
  BY WriterProcesses DEF Employed

(* A mail that is marked has been done before.                             *)
LEMMA CheckMarkerKeeps == ASSUME CalendarInv, NEW w \in Writers, CheckMarker(w),
                                 UNCHANGED <<described, scan, script>>
                          PROVE  CalendarInv'
  <1>1. PICK r \in Working : r = work[w]
    BY DEF CalendarInv, CalendarTypes
  <1>2. /\ r.at = "marker" /\ UNCHANGED <<row, text, marker, flag, linked, mixed>>
        /\ work' = [work EXCEPT ![w] = IF r.mail \in marker
                                       THEN [r EXCEPT !.at = "flag"]
                                       ELSE [r EXCEPT !.at = "event",
                                                      !.left = DedupByUid(Calendar[r.mail])]]
    BY <1>1 DEF CheckMarker, Set
  <1>3. PICK m \in Mails : m = r.mail
    BY <1>1, <1>2 DEF CalendarInv, StoredInv, WriterFits
  <1>4. DedupByUid(Calendar[m]) \subseteq Wanted
    BY DedupTyped
  <1>5. PICK u : u = IF m \in marker THEN [r EXCEPT !.at = "flag"]
                     ELSE [r EXCEPT !.at = "event", !.left = DedupByUid(Calendar[m])]
    OBVIOUS
  <1>6. /\ u \in Working /\ u.mail = m
        /\ m \in marker => u.at = "flag"
        /\ m \notin marker => u.at = "event" /\ u.left = DedupByUid(Calendar[m])
    BY <1>1, <1>3, <1>4, <1>5 DEF Working, Steps
  <1>7. work' = [work EXCEPT ![w] = u]
    BY <1>2, <1>3, <1>5
  <1>8. WriterFits(u, linked, row, marker)
    BY <1>6 DEF WriterFits
  <1>9. CalendarTypes /\ StoredInv /\ Employed
    BY DEF CalendarInv
  <1>10. \A x \in Writers \ {w} : work'[x].at = work[x].at
    BY <1>7, <1>9 DEF CalendarTypes
  <1>11. Employed'
    BY <1>1, <1>2, <1>9, <1>10, StaysEmployed
  <1> QED BY <1>1, <1>2, <1>6, <1>7, <1>8, <1>9, <1>11, QuietStep DEF CalendarTypes

(* A mail whose work is broken off will be pending, and is not marked.     *)
LEMMA AbandonKeeps == ASSUME CalendarInv, NEW w \in Writers, Abandon(w),
                             work[w].at \notin {"free", "index"}, UNCHANGED <<described, scan, script>>
                      PROVE  CalendarInv'
  <1>1. PICK r \in Working : r = work[w]
    BY DEF CalendarInv, CalendarTypes
  <1>2. /\ UNCHANGED <<row, text, marker, flag, linked, mixed>>
        /\ work' = [work EXCEPT ![w] = [r EXCEPT !.at = "flag", !.ok = FALSE, !.left = {},
                                                 !.pair = None]]
    BY <1>1 DEF Abandon, Set
  <1>3. r.mail \in Mails
    BY <1>1 DEF CalendarInv, StoredInv, WriterFits
  <1>4. PICK u : u = [r EXCEPT !.at = "flag", !.ok = FALSE, !.left = {}, !.pair = None]
    OBVIOUS
  <1>5. u \in Working /\ u.mail = r.mail /\ u.at = "flag" /\ ~u.ok
    BY <1>1, <1>4 DEF Working, Steps
  <1>6. work' = [work EXCEPT ![w] = u]
    BY <1>2, <1>4
  <1>7. WriterFits(u, linked, row, marker)
    BY <1>3, <1>5 DEF WriterFits
  <1>8. CalendarTypes /\ StoredInv /\ Employed
    BY DEF CalendarInv
  <1>9. \A x \in Writers \ {w} : work'[x].at = work[x].at
    BY <1>6, <1>8 DEF CalendarTypes
  <1>10. Employed'
    BY <1>1, <1>2, <1>8, <1>9, StaysEmployed
  <1> QED BY <1>1, <1>2, <1>5, <1>6, <1>7, <1>8, <1>10, QuietStep DEF CalendarTypes

(* The event whose row is written, or newer, is linked; when it was the    *)
(* last one, all are stored.                                               *)
LEMMA AppendKeeps == ASSUME CalendarInv, NEW w \in Writers, AppendEventRidToParent(w),
                            UNCHANGED <<described, scan, script>>
                     PROVE  CalendarInv'
  <1>1. PICK r \in Working : r = work[w]
    BY DEF CalendarInv, CalendarTypes
  <1>2. PICK at \in {"mark", "event"} : at = IF r.left \ {r.pair} = {} THEN "mark" ELSE "event"
    OBVIOUS
  <1>3. /\ r.at = "link" /\ UNCHANGED <<row, text, marker, flag, mixed>>
        /\ linked' = [linked EXCEPT ![r.mail] = @ \cup {r.pair.event}]
        /\ work' = [work EXCEPT ![w] = [r EXCEPT !.left = r.left \ {r.pair}, !.pair = None,
                                                 !.saw = FALSE, !.clean = FALSE, !.at = at]]
    BY <1>1, <1>2 DEF AppendEventRidToParent, Set
  <1>4. CalendarTypes /\ StoredInv /\ Employed
    BY DEF CalendarInv
  <1>5. WriterFits(r, linked, row, marker)
    BY <1>1, <1>4 DEF StoredInv
  <1>6. PICK m \in Mails : m = r.mail
    BY <1>3, <1>5 DEF WriterFits
  <1>7. /\ r.left \subseteq DedupByUid(Calendar[m]) /\ r.pair \in r.left
        /\ \A p \in DedupByUid(Calendar[m]) \ r.left : Stored(m, p, linked, row)
        /\ row[r.pair.event] # None
        /\ NotOlder(r.pair.event, row[r.pair.event], r.pair.version)
    BY <1>3, <1>5, <1>6 DEF WriterFits
  <1>8. r.pair \in Wanted /\ r.pair.event \in Events
    BY <1>7 DEF Working, Wanted
  <1>9. PICK u : u = [r EXCEPT !.left = r.left \ {r.pair}, !.pair = None, !.saw = FALSE,
                               !.clean = FALSE, !.at = at]
    OBVIOUS
  <1>10. u \in Working /\ u.mail = m /\ u.left = r.left \ {r.pair} /\ u.at = at
    BY <1>1, <1>2, <1>6, <1>9, ZenonT(30) DEF Working, Steps
  <1>11. work' = [work EXCEPT ![w] = u]
    BY <1>3, <1>9
  <1>12. /\ linked' \in [Mails -> SUBSET Events]
         /\ \A k \in Mails : linked[k] \subseteq linked'[k]
         /\ r.pair.event \in linked'[m]
    BY <1>3, <1>4, <1>6, <1>8 DEF CalendarTypes
  <1>13. \A p \in DedupByUid(Calendar[m]) \ u.left : Stored(m, p, linked', row)
    BY <1>7, <1>10, <1>12 DEF Stored
  <1>14. WriterFits(u, linked', row, marker)
    BY <1>2, <1>7, <1>10, <1>13 DEF WriterFits
  <1>15. \A x \in Writers \ {w} : work'[x].at = work[x].at
    BY <1>4, <1>11 DEF CalendarTypes
  <1>16. Employed'
    BY <1>1, <1>3, <1>4, <1>15, StaysEmployed
  <1> QED BY <1>1, <1>2, <1>3, <1>4, <1>10, <1>11, <1>12, <1>14, <1>16, QuietStep DEF CalendarTypes

(* A mail is marked when all its events are stored.                        *)
LEMMA MarkKeeps == ASSUME CalendarInv, NEW w \in Writers, MarkAttachment(w),
                          UNCHANGED <<described, scan, script>>
                   PROVE  CalendarInv'
  <1>1. PICK r \in Working : r = work[w]
    BY DEF CalendarInv, CalendarTypes
  <1>2. /\ r.at = "mark" /\ UNCHANGED <<row, text, flag, linked, mixed>>
        /\ marker' = marker \cup {r.mail}
        /\ work' = [work EXCEPT ![w] = [r EXCEPT !.at = "flag"]]
    BY <1>1 DEF MarkAttachment, Set
  <1>3. CalendarTypes /\ StoredInv /\ Employed
    BY DEF CalendarInv
  <1>4. WriterFits(r, linked, row, marker)
    BY <1>1, <1>3 DEF StoredInv
  <1>5. r.mail \in Mails /\ MailFits(r.mail, linked, row)
    BY <1>2, <1>4 DEF WriterFits, MailFits
  <1>6. PICK u : u = [r EXCEPT !.at = "flag"]
    OBVIOUS
  <1>7. u \in Working /\ u.mail = r.mail /\ u.at = "flag"
    BY <1>1, <1>6 DEF Working, Steps
  <1>8. work' = [work EXCEPT ![w] = u]
    BY <1>2, <1>6
  <1>9. WriterFits(u, linked, row, marker')
    BY <1>2, <1>5, <1>7 DEF WriterFits
  <1>10. \A x \in Writers \ {w} : work'[x].at = work[x].at
    BY <1>3, <1>8 DEF CalendarTypes
  <1>11. Employed'
    BY <1>1, <1>2, <1>3, <1>10, StaysEmployed
  <1>12. \A m \in marker' \ marker : MailFits(m, linked, row)
    BY <1>2, <1>5
  <1>13. marker' \subseteq Mails /\ marker \subseteq marker'
    BY <1>2, <1>3, <1>5 DEF CalendarTypes
  <1> QED BY <1>1, <1>2, <1>3, <1>7, <1>8, <1>9, <1>11, <1>12, <1>13, QuietStep DEF CalendarTypes

(* A flag that says done is that of a mail that is marked.                 *)
LEMMA FlagKeeps == ASSUME CalendarInv, NEW w \in Writers, SetParentFlag(w) \/ ParentFlagFails(w),
                          UNCHANGED <<described, scan, script>>
                   PROVE  CalendarInv'
  <1>1. PICK r \in Working : r = work[w]
    BY DEF CalendarInv, CalendarTypes
  <1>2. /\ r.at = "flag" /\ UNCHANGED <<row, text, marker, linked, mixed>>
        /\ work' = [work EXCEPT ![w] = Free]
        /\ \/ flag' = flag
           \/ r.ok /\ flag' = [flag EXCEPT ![r.mail] = "done"]
           \/ flag' = [flag EXCEPT ![r.mail] = IF @ = "done" THEN @ ELSE "pending"]
    BY <1>1 DEF SetParentFlag, ParentFlagFails, PendingUnlessDone, Set
  <1>3. CalendarTypes /\ StoredInv /\ Employed
    BY DEF CalendarInv
  <1>4. WriterFits(r, linked, row, marker)
    BY <1>1, <1>3 DEF StoredInv
  <1>5. r.mail \in Mails /\ (r.ok => r.mail \in marker)
    BY <1>2, <1>4 DEF WriterFits
  <1>6. /\ flag' \in [Mails -> {"none", "pending", "done"}]
        /\ \A m \in Mails : flag'[m] = "done" => flag[m] = "done" \/ m \in marker
    BY <1>2, <1>3, <1>5 DEF CalendarTypes
  <1>7. PICK u \in Working : u = Free /\ u.at = "free"
    BY FreeTyped
  <1>8. work' = [work EXCEPT ![w] = u]
    BY <1>2, <1>7
  <1>9. WriterFits(u, linked, row, marker)
    BY <1>7 DEF WriterFits
  <1>10. \A x \in Writers \ {w} : work'[x].at = work[x].at
    BY <1>3, <1>8 DEF CalendarTypes
  <1>11. Employed'
    BY <1>1, <1>2, <1>3, <1>10, StaysEmployed
  <1> QED BY <1>1, <1>2, <1>3, <1>6, <1>7, <1>8, <1>9, <1>11, QuietStep DEF CalendarTypes

(* The process of a writer ends.                                           *)
LEMMA HaltedKeeps == ASSUME CalendarInv, NEW w \in Writers, Halted(w),
                            UNCHANGED <<row, text, marker, flag, linked, described>>,
                            \/ w = Sensor /\ UNCHANGED script
                            \/ w = Backfill /\ script' = Off /\ UNCHANGED scan
                     PROVE  CalendarInv'
  <1>1. CalendarTypes /\ StoredInv /\ Employed
    BY DEF CalendarInv
  <1>2. PICK u \in Working : u = Free /\ u.at = "free"
    BY FreeTyped
  <1>3. /\ work' = [work EXCEPT ![w] = u]
        /\ mixed' = IF work[w].at = "index" THEN mixed \cup {work[w].pair.event} ELSE mixed
    BY <1>2 DEF Halted, Set
  <1>4. work'[w].at = "free" /\ \A x \in Writers \ {w} : work'[x] = work[x]
    BY <1>1, <1>2, <1>3 DEF CalendarTypes
  <1>5. Off \in [at : {"off", "filling", "embedding"}, mails : SUBSET Mails, rows : SUBSET Wanted]
        /\ Off.rows = {}
    BY DEF Off
  <1>6. /\ script' \in [at : {"off", "filling", "embedding"}, mails : SUBSET Mails,
                        rows : SUBSET Wanted]
        /\ script'.rows \subseteq script.rows
    BY <1>1, <1>5 DEF CalendarTypes
  <1>7. Employed'
    BY <1>1, <1>4, WriterProcesses DEF Employed
  <1>8. WriterFits(u, linked, row, marker)
    BY <1>2 DEF WriterFits
  <1> QED BY <1>1, <1>2, <1>3, <1>6, <1>7, <1>8, QuietStep DEF CalendarTypes

(* A writer is given a mail.                                               *)
LEMMA BeginKeeps == ASSUME CalendarInv, NEW w \in Writers, NEW m \in Mails, Set(w, Begin(w, m)),
                           work[w].at = "free",
                           UNCHANGED <<row, text, marker, flag, linked, mixed>>,
                           described' \subseteq Mails,
                           script' \in [at : {"off", "filling", "embedding"}, mails : SUBSET Mails,
                                        rows : SUBSET Wanted],
                           script'.rows \subseteq script.rows, Employed'
                    PROVE  CalendarInv'
  <1>1. CalendarTypes /\ StoredInv
    BY DEF CalendarInv
  <1>2. PICK u \in Working : u = Begin(w, m) /\ u.at = "marker" /\ u.mail = m
    BY FreeTyped
  <1>3. work' = [work EXCEPT ![w] = u]
    BY <1>2 DEF Set
  <1>4. WriterFits(u, linked, row, marker)
    BY <1>2 DEF WriterFits
  <1> QED BY <1>1, <1>2, <1>3, <1>4, QuietStep DEF CalendarTypes

(* The row is read: an older version than it holds is only linked, any     *)
(* other is written, by a writer that knows whether it is alone with it.   *)
LEMMA SelectKeeps == ASSUME CalendarInv, NEW w \in Writers, NEW p \in work[w].left, SelectEvent(w, p),
                            UNCHANGED <<described, scan, script>>
                     PROVE  CalendarInv'
  <1>1. PICK r \in Working : r = work[w]
    BY DEF CalendarInv, CalendarTypes
  <1>2. PICK e, v : e = p.event /\ v = p.version
    OBVIOUS
  <1>3. PICK saw \in BOOLEAN : saw <=> row[e] # None
    OBVIOUS
  <1>4. r.at = "event" /\ UNCHANGED <<row, text, marker, flag, linked, mixed>>
    BY <1>1 DEF SelectEvent
  <1>5. CalendarTypes /\ StoredInv /\ TextInv /\ Employed
    BY DEF CalendarInv
  <1>6. WriterFits(r, linked, row, marker)
    BY <1>1, <1>5 DEF StoredInv
  <1>7. PICK m \in Mails : m = r.mail
    BY <1>4, <1>6 DEF WriterFits
  <1>8. /\ p \in r.left /\ r.left \subseteq DedupByUid(Calendar[m])
        /\ \A q \in DedupByUid(Calendar[m]) \ r.left : Stored(m, q, linked, row)
    BY <1>1, <1>4, <1>6, <1>7 DEF WriterFits
  <1>9. p \in Wanted /\ e \in Events /\ v \in VersionsOf(e)
    BY <1>2, <1>8, DedupTyped DEF Wanted
  <1>10. row[e] \in VersionsOf(e) \cup {None}
    BY <1>5, <1>9 DEF CalendarTypes
  <1>11. CASE row[e] # None /\ ~IncomingIsNewer(v, row[e])
    <2>1. PICK u : u = [r EXCEPT !.pair = p, !.saw = saw, !.at = "link"]
      OBVIOUS
    <2>2. u \in Working /\ u.mail = m /\ u.left = r.left /\ u.pair = p /\ u.at = "link"
      BY <1>1, <1>7, <1>9, <2>1 DEF Working, Steps
    <2>3. work' = [work EXCEPT ![w] = u]
      <3>1. work' = [work EXCEPT ![w] = [[r EXCEPT !.pair = p, !.saw = (row[e] # None)] EXCEPT !.at = "link"]]
        BY <1>1, <1>2, <1>11 DEF SelectEvent, Set
      <3>2. u = [[r EXCEPT !.pair = p, !.saw = (row[e] # None)] EXCEPT !.at = "link"]
        BY <1>3, <2>1
      <3> QED BY <3>1, <3>2
    <2>4. NotOlder(e, row[e], v)
      BY <1>9, <1>10, <1>11, NotOlderOrder
    <2>5. WriterFits(u, linked, row, marker)
      BY <1>2, <1>8, <1>11, <2>2, <2>4 DEF WriterFits
    <2>6. \A x \in Writers \ {w} : work'[x].at = work[x].at
      BY <1>5, <2>3 DEF CalendarTypes
    <2>7. Employed'
      BY <1>1, <1>4, <1>5, <2>6, StaysEmployed
    <2> QED BY <1>1, <1>4, <1>5, <2>2, <2>3, <2>5, <2>7, QuietStep DEF CalendarTypes
  <1>12. CASE ~(row[e] # None /\ ~IncomingIsNewer(v, row[e]))
    <2>1. PICK held \in BOOLEAN : held <=> HeldByAnother(w, e)
      OBVIOUS
    <2>2. PICK u : u = [r EXCEPT !.pair = p, !.saw = saw, !.at = "insert", !.clean = ~held]
      OBVIOUS
    <2>3. /\ u \in Working /\ u.mail = m /\ u.left = r.left /\ u.pair = p /\ u.at = "insert"
          /\ u.saw = saw /\ u.clean = ~held
      BY <1>1, <1>7, <1>9, <2>2 DEF Working, Steps
    <2>4. work' = [x \in Writers |-> IF x = w THEN u
                                     ELSE IF Holds(x, e) THEN [work[x] EXCEPT !.clean = FALSE]
                                     ELSE work[x]]
      <3>1. Joined(w, [[r EXCEPT !.pair = p, !.saw = (row[e] # None)] EXCEPT !.at = "insert"], e)
        BY <1>1, <1>2, <1>12 DEF SelectEvent
      <3>2. u = [[[r EXCEPT !.pair = p, !.saw = (row[e] # None)] EXCEPT !.at = "insert"]
                   EXCEPT !.clean = ~HeldByAnother(w, e)]
        BY <1>3, <2>1, <2>2
      <3> QED BY <3>1, <3>2 DEF Joined
    <2>5. ASSUME NEW x \in Writers
          PROVE  /\ work[x] \in Working /\ [work[x] EXCEPT !.clean = FALSE] \in Working
                 /\ x # w => /\ work'[x].at = work[x].at /\ work'[x].mail = work[x].mail
                             /\ work'[x].left = work[x].left /\ work'[x].pair = work[x].pair
                             /\ work'[x].saw = work[x].saw /\ work'[x].index = work[x].index
                             /\ work'[x].ok = work[x].ok
                             /\ work'[x].clean => work[x].clean /\ ~Holds(x, e)
      <3>1. PICK t \in Working : t = work[x]
        BY <1>5 DEF CalendarTypes
      <3>2. PICK c : c = [t EXCEPT !.clean = FALSE]
        OBVIOUS
      <3>3. /\ c \in Working /\ c.at = t.at /\ c.mail = t.mail /\ c.left = t.left /\ c.pair = t.pair
            /\ c.saw = t.saw /\ c.index = t.index /\ c.ok = t.ok /\ ~c.clean
        BY <3>1, <3>2 DEF Working
      <3>4. x # w => work'[x] = IF Holds(x, e) THEN c ELSE t
        BY <2>4, <3>1, <3>2
      <3> QED BY <3>1, <3>2, <3>3, <3>4
    <2>6. work' \in [Writers -> Working]
      BY <2>3, <2>4, <2>5
    <2>7. CalendarTypes'
      BY <1>4, <1>5, <2>6 DEF CalendarTypes
    <2>8. Progress
      <3>1. \A d \in Events : row[d] # None => NotOlder(d, row[d], row[d])
        BY <1>5, NotOlderOrder DEF CalendarTypes
      <3> QED BY <1>4, <3>1 DEF Progress
    <2>9. work'[w] = u
      BY <2>4
    <2>10. WriterFits(work'[w], linked', row', marker')
      BY <1>4, <1>8, <2>3, <2>9 DEF WriterFits
    <2>11. StoredInv'
      BY <1>4, <1>5, <2>5, <2>7, <2>8, <2>10, StoredStep
    <2>12. TextInv'
      <3>1. \A d \in Events \ {e} : /\ row'[d] = row[d] /\ text'[d] = text[d]
                                    /\ d \in mixed => d \in mixed'
                                    /\ ~Indexing(w, d)
        BY <1>1, <1>4 DEF Indexing
      <3>2. (\E x \in Writers : Indexing(x, e)') \/ e \in mixed' \/ Matches(row'[e], text'[e])
        <4>1. (\E x \in Writers : Indexing(x, e)) \/ e \in mixed \/ Matches(row[e], text[e])
          BY <1>5, <1>9 DEF TextInv
        <4>2. ASSUME NEW x \in Writers, Indexing(x, e) PROVE Indexing(x, e)'
          <5>1. x # w
            BY <1>1, <1>4, <4>2 DEF Indexing
          <5> QED BY <2>5, <4>2, <5>1 DEF Indexing
        <4> QED BY <1>4, <4>1, <4>2
      <3>3. row'[e] = None => text'[e] = NoText
        BY <1>4, <1>5, <1>9 DEF TextInv
      <3>4. \A x \in Writers \ {w} : \A d \in Events :
              Holds(w, d)' /\ Holds(x, d) => ~work'[w].clean /\ ~work'[x].clean
        <4> SUFFICES ASSUME NEW x \in Writers \ {w}, NEW d \in Events, Holds(w, d)', Holds(x, d)
                     PROVE  ~work'[w].clean /\ ~work'[x].clean
          OBVIOUS
        <4>1. d = e
          BY <1>2, <2>3, <2>9 DEF Holds
        <4>2. held
          BY <2>1, <4>1 DEF HeldByAnother
        <4> QED BY <2>3, <2>5, <2>9, <4>1, <4>2
      <3>5. Alone(work'[w], row', text')
        BY <1>2, <1>3, <1>4, <2>3, <2>9 DEF Alone
      <3>6. \A q \in script'.rows : row'[q.event] # None
        BY <1>4, <1>5 DEF TextInv
      <3>7. ASSUME NEW x \in Writers \ {w}
            PROVE  /\ work'[x].at = work[x].at /\ work'[x].pair = work[x].pair
                   /\ work'[x].saw = work[x].saw /\ work'[x].index = work[x].index
                   /\ work'[x].clean => work[x].clean
                   /\ Holds(x, e) /\ work'[x].clean => row'[e] = row[e] /\ text'[e] = text[e]
                   /\ \A d \in Events : Holds(w, d)' /\ Holds(x, d) => ~work'[w].clean /\ ~work'[x].clean
        BY <1>4, <2>5, <3>4
      <3> QED BY <1>5, <2>7, <3>1, <3>2, <3>3, <3>5, <3>6, <3>7, TextStep
    <2>13. Employed'
      BY <1>1, <1>4, <1>5, <2>5, StaysEmployed
    <2> QED BY <2>7, <2>11, <2>12, <2>13 DEF CalendarInv
  <1> QED BY <1>11, <1>12

(* The row is written, if it is not newer by now, and the chunks of the    *)
(* version that was seen in it are gone.                                   *)
LEMMA InsertKeeps == ASSUME CalendarInv, NEW w \in Writers, InsertEvent(w),
                            UNCHANGED <<described, scan, script>>
                     PROVE  CalendarInv'
  <1>1. PICK r \in Working : r = work[w]
    BY DEF CalendarInv, CalendarTypes
  <1>2. PICK e, v : e = r.pair.event /\ v = r.pair.version
    OBVIOUS
  <1>3. PICK written \in BOOLEAN : written <=> row[e] = None \/ IncomingIsNewer(v, row[e])
    OBVIOUS
  <1>4. /\ r.at = "insert" /\ UNCHANGED <<marker, flag, linked, mixed>>
        /\ row' = (IF written THEN [row EXCEPT ![e] = v] ELSE row)
        /\ text' = IF written /\ r.saw THEN [text EXCEPT ![e] = [NoText EXCEPT ![0] = text[e][0]]]
                   ELSE text
    BY <1>1, <1>2, <1>3 DEF InsertEvent
  <1>5. CalendarTypes /\ StoredInv /\ TextInv /\ Employed
    BY DEF CalendarInv
  <1>6. WriterFits(r, linked, row, marker) /\ Alone(r, row, text)
    BY <1>1, <1>5 DEF StoredInv, TextInv
  <1>7. PICK m \in Mails : m = r.mail
    BY <1>4, <1>6 DEF WriterFits
  <1>8. /\ r.pair \in r.left /\ r.left \subseteq DedupByUid(Calendar[m])
        /\ \A q \in DedupByUid(Calendar[m]) \ r.left : Stored(m, q, linked, row)
    BY <1>4, <1>6, <1>7 DEF WriterFits
  <1>9. e \in Events /\ v \in VersionsOf(e) /\ v \in EventVersions /\ v # None
    BY <1>2, <1>8, DedupTyped, VersionsTyped DEF Wanted
  <1>10. \A d \in Events : row[d] \in VersionsOf(d) \cup {None}
    BY <1>5 DEF CalendarTypes
  <1>11. PICK at \in {"index", "link"} : at = IF written THEN "index" ELSE "link"
    OBVIOUS
  <1>12. PICK u : u = [r EXCEPT !.at = at, !.index = 0]
    OBVIOUS
  <1>13. /\ u \in Working /\ u.mail = m /\ u.left = r.left /\ u.pair = r.pair /\ u.at = at
         /\ u.index = 0 /\ u.clean = r.clean
    BY <1>1, <1>7, <1>12 DEF Working, Steps
  <1>14. work' = [work EXCEPT ![w] = u]
    BY <1>1, <1>2, <1>3, <1>4, <1>11, <1>12 DEF InsertEvent, Set
  <1>15. work'[w] = u /\ \A x \in Writers \ {w} : work'[x] = work[x]
    BY <1>5, <1>14 DEF CalendarTypes
  <1>16. PICK t : t = text[e]
    OBVIOUS
  <1>17. t \in [0..MaxLength -> Entries \cup {None}] /\ MaxLength \in Nat
    BY <1>5, <1>9, <1>16, MaxLengthIs DEF CalendarTypes
  <1>18. PICK bare \in [0..MaxLength -> Entries \cup {None}] :
           bare = [NoText EXCEPT ![0] = t[0]] /\ \A i \in 0..MaxLength : i > 0 => bare[i] = None
    <2>1. PICK b, f, c : b = [f EXCEPT ![0] = c] /\ f = NoText /\ c = t[0]
      OBVIOUS
    <2>2. f \in [0..MaxLength -> Entries \cup {None}] /\ \A i \in 0..MaxLength : f[i] = None
      BY <2>1, NoTextTyped
    <2>3. c \in Entries \cup {None}
      BY <1>17, <2>1
    <2>4. b \in [0..MaxLength -> Entries \cup {None}] /\ \A i \in 0..MaxLength : i > 0 => b[i] = None
      BY <1>17, <2>1, <2>2, <2>3
    <2> QED BY <2>1, <2>4
  <1>19. /\ row'[e] = IF written THEN v ELSE row[e]
         /\ \A d \in Events \ {e} : row'[d] = row[d]
         /\ row' = [d \in Events |-> row'[d]]
    <2>1. PICK f : f = row /\ f = [d \in Events |-> row[d]]
      BY <1>5 DEF CalendarTypes
    <2> QED BY <1>4, <1>9, <2>1
  <1>20. text' \in [Events -> [0..MaxLength -> Entries \cup {None}]]
         /\ text'[e] = (IF written /\ r.saw THEN bare ELSE text[e])
         /\ \A d \in Events \ {e} : text'[d] = text[d]
    <2>1. text \in [Events -> [0..MaxLength -> Entries \cup {None}]]
      BY <1>5 DEF CalendarTypes
    <2>2. text' = IF written /\ r.saw THEN [text EXCEPT ![e] = bare] ELSE text
      BY <1>4, <1>16, <1>18
    <2> QED BY <1>9, <1>18, <2>1, <2>2
  <1>21. CalendarTypes'
    <2>1. \A d \in Events : row'[d] \in VersionsOf(d) \cup {None}
      BY <1>9, <1>10, <1>19
    <2>2. work' \in [Writers -> Working]
      BY <1>5, <1>13, <1>14 DEF CalendarTypes
    <2> QED BY <1>4, <1>5, <1>19, <1>20, <2>1, <2>2 DEF CalendarTypes
  <1>22. Progress
    <2>1. ASSUME NEW d \in Events, row[d] # None
          PROVE  row'[d] # None /\ NotOlder(d, row'[d], row[d])
      <3>1. NotOlder(d, row[d], row[d])
        BY <1>10, <2>1, NotOlderOrder
      <3>2. CASE d = e /\ written
        <4>1. IncomingIsNewer(v, row[e]) /\ row[e] \in VersionsOf(e)
          BY <1>3, <1>10, <2>1, <3>2
        <4>2. NotOlder(e, v, row[e])
          BY <1>9, <4>1, NotOlderOrder
        <4> QED BY <1>9, <1>19, <3>2, <4>2
      <3>3. CASE ~(d = e /\ written)
        BY <1>19, <2>1, <3>1, <3>3
      <3> QED BY <3>2, <3>3
    <2> QED BY <1>4, <2>1 DEF Progress
  <1>23. row'[e] # None /\ NotOlder(e, row'[e], v)
    <2>1. CASE written
      BY <1>9, <1>19, <2>1, NotOlderOrder
    <2>2. CASE ~written
      <3>1. row[e] \in VersionsOf(e) /\ ~IncomingIsNewer(v, row[e]) /\ row[e] # None
        BY <1>3, <1>9, <1>10, <2>2
      <3>2. NotOlder(e, row[e], v)
        BY <1>9, <3>1, NotOlderOrder
      <3> QED BY <1>19, <2>2, <3>1, <3>2
    <2> QED BY <2>1, <2>2
  <1>24. StoredInv'
    <2>1. \A q \in DedupByUid(Calendar[m]) \ r.left : Stored(m, q, linked', row')
      BY <1>5, <1>8, <1>21, <1>22, PairKeeps
    <2>2. WriterFits(work'[w], linked', row', marker')
      BY <1>2, <1>8, <1>11, <1>13, <1>15, <1>23, <2>1 DEF WriterFits
    <2> QED BY <1>4, <1>5, <1>15, <1>21, <1>22, <2>2, StoredStep
  <1>25. TextInv'
    <2>1. \A d \in Events \ {e} : /\ row'[d] = row[d] /\ text'[d] = text[d]
                                  /\ d \in mixed => d \in mixed'
                                  /\ ~Indexing(w, d)
      BY <1>1, <1>4, <1>19, <1>20 DEF Indexing
    <2>2. Holds(w, e) /\ Indexing(w, e)' = (at = "index")
      BY <1>1, <1>2, <1>4, <1>13, <1>15 DEF Holds, Indexing
    <2>3. (\E x \in Writers : Indexing(x, e)') \/ e \in mixed' \/ Matches(row'[e], text'[e])
      <3>1. CASE written
        BY <1>11, <2>2, <3>1
      <3>2. CASE ~written
        <4>1. (\E x \in Writers : Indexing(x, e)) \/ e \in mixed \/ Matches(row[e], text[e])
          BY <1>5, <1>9 DEF TextInv
        <4>2. ASSUME NEW x \in Writers, Indexing(x, e) PROVE Indexing(x, e)'
          <5>1. x # w
            BY <1>1, <1>4, <4>2 DEF Indexing
          <5> QED BY <1>15, <4>2, <5>1 DEF Indexing
        <4> QED BY <1>4, <1>19, <1>20, <3>2, <4>1, <4>2
      <3> QED BY <3>1, <3>2
    <2>4. row'[e] = None => text'[e] = NoText
      BY <1>23
    <2>5. ASSUME NEW x \in Writers \ {w}, Holds(x, e) PROVE ~work'[x].clean /\ ~work'[w].clean
      BY <1>1, <1>5, <1>9, <1>13, <1>15, <2>2, <2>5 DEF TextInv
    <2>6. \A x \in Writers \ {w} : \A d \in Events :
            Holds(w, d)' /\ Holds(x, d) => ~work'[w].clean /\ ~work'[x].clean
      BY <1>2, <1>13, <1>15, <2>5 DEF Holds
    <2>7. Alone(work'[w], row', text')
      <3>1. v.length \in Nat
        BY <1>9, VersionsTyped
      <3>2. ASSUME at = "index", r.clean PROVE row'[e] = v /\ TextIs(text'[e], v, 0)
        <4>1. written /\ row'[e] = v
          BY <1>11, <1>19, <3>2
        <4>2. CASE r.saw
          BY <1>18, <1>20, <3>1, <4>1, <4>2 DEF TextIs
        <4>3. CASE ~r.saw
          <5>1. row[e] = None
            BY <1>2, <1>4, <1>6, <3>2, <4>3 DEF Alone
          <5>2. text'[e] = NoText
            BY <1>5, <1>9, <1>20, <4>3, <5>1 DEF TextInv
          <5> QED BY <4>1, <5>2, NoTextTyped DEF TextIs
        <4> QED BY <4>1, <4>2, <4>3
      <3> QED BY <1>2, <1>11, <1>13, <1>15, <3>1, <3>2 DEF Alone
    <2>8. \A q \in script'.rows : row'[q.event] # None
      <3>1. \A q \in script.rows : q.event \in Events /\ row[q.event] # None
        BY <1>5 DEF CalendarTypes, TextInv, Wanted
      <3> QED BY <1>22, <3>1 DEF Progress
    <2> QED BY <1>5, <1>15, <1>21, <2>1, <2>3, <2>4, <2>5, <2>6, <2>7, <2>8, TextStep
  <1>26. Employed'
    BY <1>1, <1>4, <1>5, <1>15, StaysEmployed
  <1> QED BY <1>21, <1>24, <1>25, <1>26 DEF CalendarInv

(* A piece of the text is written, or not; with the last one a writer that *)
(* was alone, and that no statement failed, leaves the text of its version.*)
LEMMA IndexKeeps == ASSUME CalendarInv, NEW w \in Writers, NEW fails \in BOOLEAN,
                           NEW withVector \in BOOLEAN, IndexText(w, fails, withVector),
                           UNCHANGED <<described, scan, script>>
                    PROVE  CalendarInv'
  <1>1. PICK r \in Working : r = work[w]
    BY DEF CalendarInv, CalendarTypes
  <1>2. PICK e, v, i : e = r.pair.event /\ v = r.pair.version /\ i = r.index
    OBVIOUS
  <1>3. PICK clean \in BOOLEAN : clean <=> r.clean /\ ~fails
    OBVIOUS
  <1>4. PICK final \in BOOLEAN : final <=> i = v.length
    OBVIOUS
  <1>5. PICK piece : piece = Entry(v, i = 0 \/ withVector)
    OBVIOUS
  <1>6. r.at = "index" /\ UNCHANGED <<row, marker, flag, linked>>
    BY <1>1 DEF IndexText
  <1>7. text' = IF fails THEN text ELSE [text EXCEPT ![e][i] = piece]
    BY <1>1, <1>2, <1>5 DEF IndexText
  <1>8. mixed' = IF ~final THEN mixed ELSE IF clean THEN mixed \ {e} ELSE mixed \cup {e}
    BY <1>1, <1>2, <1>3, <1>4 DEF IndexText
  <1>9. CalendarTypes /\ StoredInv /\ TextInv /\ Employed
    BY DEF CalendarInv
  <1>10. WriterFits(r, linked, row, marker) /\ Alone(r, row, text)
    BY <1>1, <1>9 DEF StoredInv, TextInv
  <1>11. PICK m \in Mails : m = r.mail
    BY <1>6, <1>10 DEF WriterFits
  <1>12. /\ r.pair \in r.left /\ r.left \subseteq DedupByUid(Calendar[m])
         /\ \A q \in DedupByUid(Calendar[m]) \ r.left : Stored(m, q, linked, row)
         /\ row[e] # None /\ NotOlder(e, row[e], v)
    BY <1>2, <1>6, <1>10, <1>11 DEF WriterFits
  <1>13. e \in Events /\ v \in EventVersions /\ v # None /\ v.length \in 1..MaxLength /\ MaxLength \in Nat
    BY <1>2, <1>12, DedupTyped, VersionsTyped, MaxLengthIs DEF Wanted
  <1>14. i \in Nat /\ i <= v.length /\ i \in 0..MaxLength
    BY <1>2, <1>6, <1>10, <1>13 DEF Alone, Working
  <1>15. PICK at \in {"index", "link"} : at = IF final THEN "link" ELSE "index"
    OBVIOUS
  <1>16. PICK n \in Nat : n = IF final THEN 0 ELSE i + 1
    BY <1>14
  <1>17. PICK vector, known \in BOOLEAN : vector = (~final /\ withVector) /\ known = (~final /\ clean)
    OBVIOUS
  <1>18. PICK u : u = [r EXCEPT !.index = n, !.vector = vector, !.clean = known, !.at = at]
    OBVIOUS
  <1>19. /\ u \in Working /\ u.mail = m /\ u.left = r.left /\ u.pair = r.pair /\ u.at = at
         /\ u.index = n /\ u.clean = known
    BY <1>1, <1>11, <1>18 DEF Working, Steps
  <1>20. work' = [work EXCEPT ![w] = u]
    <2>1. work' = [work EXCEPT ![w] = [r EXCEPT !.index = IF r.index = r.pair.version.length THEN 0 ELSE r.index + 1,
                                                !.vector = r.index # r.pair.version.length /\ withVector,
                                                !.clean = r.index # r.pair.version.length /\ (r.clean /\ ~fails),
                                                !.at = IF r.index = r.pair.version.length THEN "link" ELSE "index"]]
      BY <1>1 DEF IndexText, Set
    <2>2. /\ n = IF r.index = r.pair.version.length THEN 0 ELSE r.index + 1
          /\ vector = (r.index # r.pair.version.length /\ withVector)
          /\ known = (r.index # r.pair.version.length /\ (r.clean /\ ~fails))
          /\ at = IF r.index = r.pair.version.length THEN "link" ELSE "index"
      BY <1>1, <1>2, <1>3, <1>4, <1>15, <1>16, <1>17 DEF Working
    <2> QED BY <1>18, <2>1, <2>2
  <1>21. work'[w] = u /\ \A x \in Writers \ {w} : work'[x] = work[x]
    BY <1>9, <1>20 DEF CalendarTypes
  <1>22. piece \in Entries /\ piece.of = v
    <2>1. PICK b \in BOOLEAN : b = (i = 0 \/ withVector)
      OBVIOUS
    <2>2. piece = Entry(v, b)
      BY <1>5, <2>1
    <2> QED BY <1>13, <2>2 DEF Entries, Entry
  <1>23. PICK t, new : t = text[e] /\ new = text'[e]
    OBVIOUS
  <1>24. /\ text' \in [Events -> [0..MaxLength -> Entries \cup {None}]]
         /\ new = (IF fails THEN t ELSE [t EXCEPT ![i] = piece])
         /\ \A d \in Events \ {e} : text'[d] = text[d]
    <2>1. text \in [Events -> [0..MaxLength -> Entries \cup {None}]]
      BY <1>9 DEF CalendarTypes
    <2>2. t \in [0..MaxLength -> Entries \cup {None}]
      BY <1>13, <1>23, <2>1
    <2>3. PICK f : f = [t EXCEPT ![i] = piece]
      OBVIOUS
    <2>4. f \in [0..MaxLength -> Entries \cup {None}]
      BY <1>22, <2>2, <2>3
    <2>5. text' = IF fails THEN text ELSE [text EXCEPT ![e] = f]
      BY <1>7, <1>23, <2>3
    <2>6. /\ text' \in [Events -> [0..MaxLength -> Entries \cup {None}]]
          /\ text'[e] = IF fails THEN t ELSE f
          /\ \A d \in Events \ {e} : text'[d] = text[d]
      BY <1>13, <1>23, <2>1, <2>4, <2>5
    <2> QED BY <1>23, <2>3, <2>6
  <1>25. t \in [0..MaxLength -> Entries \cup {None}] /\ None \notin Entries
    BY <1>9, <1>13, <1>23, VersionsTyped DEF CalendarTypes
  <1>26. CalendarTypes'
    <2>1. work' \in [Writers -> Working]
      BY <1>9, <1>19, <1>20 DEF CalendarTypes
    <2>2. \A d \in Events : row'[d] \in VersionsOf(d) \cup {None}
      BY <1>6, <1>9 DEF CalendarTypes
    <2> QED BY <1>6, <1>9, <1>24, <2>1, <2>2 DEF CalendarTypes
  <1>27. Progress
    <2>1. \A d \in Events : row[d] # None => NotOlder(d, row[d], row[d])
      BY <1>9, NotOlderOrder DEF CalendarTypes
    <2> QED BY <1>6, <2>1 DEF Progress
  <1>28. StoredInv'
    <2>1. WriterFits(work'[w], linked', row', marker')
      BY <1>2, <1>6, <1>12, <1>15, <1>19, <1>21 DEF WriterFits
    <2> QED BY <1>6, <1>9, <1>21, <1>26, <1>27, <2>1, StoredStep
  <1>29. ASSUME clean PROVE row[e] = v /\ TextIs(new, v, i + 1)
    <2>1. ~fails /\ row[e] = v /\ TextIs(t, v, i)
      BY <1>2, <1>3, <1>6, <1>10, <1>23, <1>29 DEF Alone
    <2>2. new = [t EXCEPT ![i] = piece]
      BY <1>24, <2>1
    <2>3. \A j \in 0..MaxLength : new[j] = IF j = i THEN piece ELSE t[j]
      BY <1>25, <2>2
    <2>4. piece # None
      BY <1>22, <1>25
    <2>5. TextIs(new, v, i + 1)
      <3> SUFFICES ASSUME NEW j \in 0..MaxLength
                   PROVE  /\ j < i + 1 => new[j] # None /\ new[j].of = v
                          /\ j > v.length => new[j] = None
        BY DEF TextIs
      <3>1. CASE j = i
        BY <1>13, <1>14, <1>22, <2>3, <2>4, <3>1
      <3>2. CASE j # i
        <4>1. new[j] = t[j] /\ (j < i => t[j] # None /\ t[j].of = v) /\ (j > v.length => t[j] = None)
          BY <2>1, <2>3, <3>2 DEF TextIs
        <4> QED BY <1>14, <3>2, <4>1
      <3> QED BY <3>1, <3>2
    <2> QED BY <2>1, <2>5
  <1>30. TextInv'
    <2>1. ASSUME NEW d \in Events \ {e}
          PROVE  /\ row'[d] = row[d] /\ text'[d] = text[d]
                 /\ d \in mixed => d \in mixed'
                 /\ ~Indexing(w, d)
      BY <1>1, <1>2, <1>6, <1>8, <1>24 DEF Indexing
    <2>2. (\E x \in Writers : Indexing(x, e)') \/ e \in mixed' \/ Matches(row'[e], text'[e])
      <3>1. CASE ~final
        BY <1>2, <1>15, <1>19, <1>21, <3>1 DEF Indexing
      <3>2. CASE final /\ ~clean
        BY <1>8, <3>2
      <3>3. CASE final /\ clean
        BY <1>4, <1>6, <1>12, <1>23, <1>29, <3>3 DEF Matches
      <3> QED BY <3>1, <3>2, <3>3
    <2>3. row'[e] # None
      BY <1>6, <1>12
    <2>4. Holds(w, e)
      BY <1>1, <1>2, <1>6 DEF Holds
    <2>5. ASSUME NEW x \in Writers \ {w}, Holds(x, e) PROVE ~work'[x].clean /\ ~r.clean
      BY <1>1, <1>9, <1>13, <1>21, <2>4, <2>5 DEF TextInv
    <2>6. \A d \in Events : Holds(w, d)' => d = e
      BY <1>2, <1>19, <1>21 DEF Holds
    <2>7. work'[w].clean => r.clean
      BY <1>3, <1>17, <1>19, <1>21
    <2>8. ASSUME NEW x \in Writers \ {w}
          PROVE  /\ work'[x].at = work[x].at /\ work'[x].pair = work[x].pair
                 /\ work'[x].saw = work[x].saw /\ work'[x].index = work[x].index
                 /\ work'[x].clean => work[x].clean
                 /\ Holds(x, e) /\ work'[x].clean => row'[e] = row[e] /\ text'[e] = text[e]
                 /\ \A d \in Events : Holds(w, d)' /\ Holds(x, d) => ~work'[w].clean /\ ~work'[x].clean
      BY <1>21, <2>5, <2>6, <2>7
    <2>9. Alone(work'[w], row', text')
      <3>1. at = "index" => n = i + 1 /\ n <= v.length
        BY <1>4, <1>13, <1>14, <1>15, <1>16
      <3>2. at = "index" /\ known => row'[e] = v /\ TextIs(text'[e], v, n)
        BY <1>6, <1>17, <1>23, <1>29, <3>1
      <3> QED BY <1>2, <1>15, <1>19, <1>21, <3>1, <3>2 DEF Alone
    <2>10. \A q \in script'.rows : row'[q.event] # None
      BY <1>6, <1>9 DEF TextInv
    <2> QED BY <1>9, <1>26, <2>1, <2>2, <2>3, <2>8, <2>9, <2>10, TextStep
  <1>31. Employed'
    BY <1>1, <1>6, <1>9, <1>21, StaysEmployed
  <1> QED BY <1>26, <1>28, <1>30, <1>31 DEF CalendarInv

(* The script writes the text of a row it read before: it is that of the   *)
(* row, or the event becomes mixed.                                        *)
LEMMA EmbedKeeps == ASSUME CalendarInv, NEW p \in script.rows, EmbedRow(p) PROVE CalendarInv'
  <1>1. CalendarTypes /\ StoredInv /\ TextInv /\ Employed
    BY DEF CalendarInv
  <1>2. PICK e, v : e = p.event /\ v = p.version
    OBVIOUS
  <1>3. e \in Events /\ v \in EventVersions /\ v # None /\ row[e] # None
    BY <1>1, <1>2, VersionsTyped DEF CalendarTypes, TextInv, Wanted
  <1>4. script.at = "embedding" /\ UNCHANGED <<row, marker, flag, linked, described, scan>>
    BY DEF EmbedRow, mailRows
  <1>5. PICK withVector \in BOOLEAN :
          text' = [text EXCEPT ![e] =
                     [i \in 0..MaxLength |->
                        IF i <= v.length /\ (i > 0 \/ withVector)
                        THEN Entry(v, withVector) ELSE @[i]]]
    BY <1>2 DEF EmbedRow
  <1>6. mixed' = IF row[e] # v \/ Holds(Sensor, e) THEN mixed \cup {e} ELSE mixed
    BY <1>2 DEF EmbedRow
  <1>7. work' = IF Holds(Sensor, e) THEN [work EXCEPT ![Sensor].clean = FALSE] ELSE work
    BY <1>2 DEF EmbedRow
  <1>8. /\ script' \in [at : {"off", "filling", "embedding"}, mails : SUBSET Mails,
                        rows : SUBSET Wanted]
        /\ script'.at = script.at /\ script'.rows \subseteq script.rows
    <2>1. PICK t : t = script /\ t \in [at : {"off", "filling", "embedding"}, mails : SUBSET Mails,
                                        rows : SUBSET Wanted]
      BY <1>1 DEF CalendarTypes
    <2>2. PICK u : u = [t EXCEPT !.rows = t.rows \ {p}]
      OBVIOUS
    <2>3. script' = u
      BY <2>1, <2>2 DEF EmbedRow
    <2> QED BY <2>1, <2>2, <2>3
  <1>9. Sensor \in Writers /\ Backfill \in Writers /\ Writers \ {Backfill} = {Sensor} /\ Sensor # Backfill
    BY WriterProcesses
  <1>10. PICK r \in Working : r = work[Sensor]
    BY <1>1, <1>9 DEF CalendarTypes
  <1>11. PICK c : c = [r EXCEPT !.clean = FALSE]
    OBVIOUS
  <1>12. /\ c \in Working /\ c.at = r.at /\ c.mail = r.mail /\ c.left = r.left /\ c.pair = r.pair
         /\ c.saw = r.saw /\ c.index = r.index /\ c.ok = r.ok /\ ~c.clean
    BY <1>10, <1>11 DEF Working
  <1>13. work' = IF Holds(Sensor, e) THEN [work EXCEPT ![Sensor] = c] ELSE work
    BY <1>7, <1>10, <1>11
  <1>14. /\ work' \in [Writers -> Working] /\ work'[Backfill] = work[Backfill]
         /\ work'[Sensor] = (IF Holds(Sensor, e) THEN c ELSE r)
    BY <1>1, <1>9, <1>10, <1>12, <1>13 DEF CalendarTypes
  <1>15. work[Backfill].at = "free"
    BY <1>1, <1>4 DEF Employed
  <1>16. PICK t, new : t = text[e] /\ new = text'[e]
    OBVIOUS
  <1>17. t \in [0..MaxLength -> Entries \cup {None}] /\ None \notin Entries /\ MaxLength \in Nat
    BY <1>1, <1>3, <1>16, VersionsTyped, MaxLengthIs DEF CalendarTypes
  <1>18. PICK piece : piece = Entry(v, withVector)
    OBVIOUS
  <1>19. piece \in Entries /\ piece.of = v
    BY <1>3, <1>18 DEF Entries, Entry
  <1>20. /\ text' \in [Events -> [0..MaxLength -> Entries \cup {None}]]
         /\ new = [i \in 0..MaxLength |-> IF i <= v.length /\ (i > 0 \/ withVector) THEN piece ELSE t[i]]
         /\ \A d \in Events \ {e} : text'[d] = text[d]
    <2>1. text \in [Events -> [0..MaxLength -> Entries \cup {None}]]
      BY <1>1 DEF CalendarTypes
    <2>2. PICK f : f = [i \in 0..MaxLength |-> IF i <= v.length /\ (i > 0 \/ withVector) THEN piece ELSE t[i]]
      OBVIOUS
    <2>3. f \in [0..MaxLength -> Entries \cup {None}]
      BY <1>17, <1>19, <2>2
    <2>4. text' = [text EXCEPT ![e] = f]
      BY <1>5, <1>16, <1>18, <2>2
    <2>5. /\ text' \in [Events -> [0..MaxLength -> Entries \cup {None}]] /\ text'[e] = f
          /\ \A d \in Events \ {e} : text'[d] = text[d]
      BY <1>3, <2>1, <2>3, <2>4
    <2> QED BY <1>16, <2>2, <2>5
  <1>21. CalendarTypes'
    <2>1. \A d \in Events : row'[d] \in VersionsOf(d) \cup {None}
      BY <1>1, <1>4 DEF CalendarTypes
    <2> QED BY <1>1, <1>4, <1>8, <1>14, <1>20, <2>1 DEF CalendarTypes
  <1>22. Progress
    <2>1. \A d \in Events : row[d] # None => NotOlder(d, row[d], row[d])
      BY <1>1, NotOlderOrder DEF CalendarTypes
    <2> QED BY <1>4, <2>1 DEF Progress
  <1>23. ASSUME NEW x \in Writers \ {Backfill}
         PROVE  /\ work'[x].at = work[x].at /\ work'[x].mail = work[x].mail
                /\ work'[x].left = work[x].left /\ work'[x].pair = work[x].pair
                /\ work'[x].saw = work[x].saw /\ work'[x].index = work[x].index
                /\ work'[x].ok = work[x].ok
                /\ work'[x].clean => work[x].clean /\ ~Holds(x, e)
    <2>1. x = Sensor
      BY <1>9
    <2> QED BY <1>10, <1>12, <1>14, <2>1
  <1>24. StoredInv'
    <2>1. WriterFits(work'[Backfill], linked', row', marker')
      BY <1>14, <1>15 DEF WriterFits
    <2> QED BY <1>1, <1>4, <1>9, <1>21, <1>22, <1>23, <2>1, StoredStep
  <1>25. TextInv'
    <2>1. \A d \in Events \ {e} : /\ row'[d] = row[d] /\ text'[d] = text[d]
                                  /\ d \in mixed => d \in mixed'
                                  /\ ~Indexing(Backfill, d)
      BY <1>4, <1>6, <1>15, <1>20 DEF Indexing
    <2>2. (\E x \in Writers : Indexing(x, e)') \/ e \in mixed' \/ Matches(row'[e], text'[e])
      <3>1. CASE row[e] # v \/ Holds(Sensor, e)
        BY <1>6, <3>1
      <3>2. CASE row[e] = v /\ ~Holds(Sensor, e) /\ e \notin mixed
        <4>1. \A x \in Writers : ~Indexing(x, e)
          BY <1>9, <1>15, <3>2 DEF Indexing, Holds
        <4>2. TextIs(t, v, v.length + 1)
          BY <1>1, <1>3, <1>16, <3>2, <4>1 DEF TextInv, Matches
        <4>3. v.length \in Nat
          BY <1>3, VersionsTyped
        <4>4. TextIs(new, v, v.length + 1)
          <5> SUFFICES ASSUME NEW j \in 0..MaxLength
                       PROVE  /\ j < v.length + 1 => new[j] # None /\ new[j].of = v
                              /\ j > v.length => new[j] = None
            BY DEF TextIs
          <5>1. new[j] = IF j <= v.length /\ (j > 0 \/ withVector) THEN piece ELSE t[j]
            BY <1>20
          <5>2. /\ j < v.length + 1 => t[j] # None /\ t[j].of = v
                /\ j > v.length => t[j] = None
            BY <4>2 DEF TextIs
          <5> QED BY <1>17, <1>19, <4>3, <5>1, <5>2
        <4> QED BY <1>3, <1>4, <1>16, <3>2, <4>4 DEF Matches
      <3>3. CASE e \in mixed
        BY <1>6, <3>3
      <3> QED BY <3>1, <3>2, <3>3
    <2>3. row'[e] # None
      BY <1>3, <1>4
    <2>4. \A d : ~Holds(Backfill, d)'
      BY <1>14, <1>15 DEF Holds
    <2>5. ASSUME NEW x \in Writers \ {Backfill}
          PROVE  /\ work'[x].at = work[x].at /\ work'[x].pair = work[x].pair
                 /\ work'[x].saw = work[x].saw /\ work'[x].index = work[x].index
                 /\ work'[x].clean => work[x].clean
                 /\ Holds(x, e) /\ work'[x].clean => row'[e] = row[e] /\ text'[e] = text[e]
                 /\ \A d \in Events : Holds(Backfill, d)' /\ Holds(x, d) =>
                      ~work'[Backfill].clean /\ ~work'[x].clean
      BY <1>23, <2>4
    <2>6. Alone(work'[Backfill], row', text')
      BY <1>14, <1>15 DEF Alone
    <2>7. \A q \in script'.rows : row'[q.event] # None
      BY <1>1, <1>4, <1>8 DEF TextInv
    <2> QED BY <1>1, <1>9, <1>21, <2>1, <2>2, <2>3, <2>5, <2>6, <2>7, TextStep
  <1>26. Employed'
    BY <1>1, <1>4, <1>8, <1>10, <1>12, <1>14 DEF Employed
  <1> QED BY <1>21, <1>24, <1>25, <1>26 DEF CalendarInv

(* Each step of a writer, whether it fails or not.                         *)
LEMMA WriterStepKeeps == ASSUME CalendarInv, NEW w \in Writers, WriterStep(w) \/ WriterFault(w),
                                UNCHANGED <<described, scan, script>>
                         PROVE  CalendarInv'
  <1>1. work[w] \in Working
    BY DEF CalendarInv, CalendarTypes
  <1>2. PICK b \in BOOLEAN : b = (work[w].vector \/ work[w].index = 0)
    BY <1>1 DEF Working
  <1>3. CASE CheckMarker(w)
    BY <1>3, CheckMarkerKeeps
  <1>4. CASE \E p \in work[w].left : SelectEvent(w, p)
    BY <1>4, SelectKeeps
  <1>5. CASE \E p \in work[w].left : SelectLocked(w, p)
    <2>1. Abandon(w) /\ work[w].at \notin {"free", "index"}
      BY <1>5 DEF SelectLocked
    <2> QED BY <2>1, AbandonKeeps
  <1>6. CASE InsertEvent(w)
    BY <1>6, InsertKeeps
  <1>7. CASE \E fails, withVector \in BOOLEAN : IndexText(w, fails, withVector)
    BY <1>7, IndexKeeps
  <1>8. CASE AppendEventRidToParent(w)
    BY <1>8, AppendKeeps
  <1>9. CASE MarkAttachment(w)
    BY <1>9, MarkKeeps
  <1>10. CASE SetParentFlag(w) \/ ParentFlagFails(w)
    BY <1>10, FlagKeeps
  <1>11. CASE StatementFails(w)
    <2>1. Abandon(w) /\ work[w].at \notin {"free", "index"}
      BY <1>11 DEF StatementFails
    <2> QED BY <2>1, AbandonKeeps
  <1>12. WriterStep(w) => \/ CheckMarker(w)
                          \/ \E p \in work[w].left : SelectEvent(w, p) \/ SelectLocked(w, p)
                          \/ InsertEvent(w)
                          \/ \E fails, withVector \in BOOLEAN : IndexText(w, fails, withVector)
                          \/ AppendEventRidToParent(w) \/ MarkAttachment(w) \/ SetParentFlag(w)
    <2>1. IndexText(w, FALSE, work[w].vector \/ work[w].index = 0) => IndexText(w, FALSE, b)
      BY <1>2
    <2> QED BY <2>1 DEF WriterStep
  <1>13. WriterFault(w) => \/ \E fails, withVector \in BOOLEAN : IndexText(w, fails, withVector)
                           \/ ParentFlagFails(w) \/ StatementFails(w)
    <2>1. IndexText(w, TRUE, work[w].vector \/ work[w].index = 0) => IndexText(w, TRUE, b)
      BY <1>2
    <2> QED BY <2>1 DEF WriterFault
  <1> QED BY <1>3, <1>4, <1>5, <1>6, <1>7, <1>8, <1>9, <1>10, <1>11, <1>12, <1>13

(* A step of the scan or of the script that leaves the calendars alone.    *)
LEMMA CalendarStays ==
    ASSUME CalendarInv, UNCHANGED calendarVars, described' \subseteq Mails,
           script' \in [at : {"off", "filling", "embedding"}, mails : SUBSET Mails,
                        rows : SUBSET Wanted],
           \A p \in script'.rows : row[p.event] # None,
           Employed'
    PROVE  CalendarInv'
  <1>1. UNCHANGED <<row, text, marker, flag, linked, work, mixed>>
    BY DEF calendarVars
  <1>2. CalendarTypes'
    BY <1>1 DEF CalendarInv, CalendarTypes
  <1>3. StoredInv'
    BY <1>1 DEF CalendarInv, StoredInv
  <1>4. TextInv'
    BY <1>1 DEF CalendarInv, TextInv, Indexing, Holds
  <1> QED BY <1>2, <1>3, <1>4 DEF CalendarInv

(* The scan goes on while the writer of the sensor has nothing to do.      *)
LEMMA ScanMoves ==
    ASSUME CalendarInv, UNCHANGED <<calendarVars, script>>, described' \subseteq Mails,
           work[Sensor].at = "free"
    PROVE  CalendarInv'
  <1>1. Employed'
    BY DEF CalendarInv, Employed, calendarVars
  <1> QED BY <1>1, CalendarStays DEF CalendarInv, CalendarTypes, TextInv

(* The steps of the scan outside a mail's events leave the calendar alone. *)
LEMMA ScanKeeps ==
    ASSUME FolderInv, CalendarInv, NEW p,
           \/ StartMaildirScan \/ StartImapScan \/ EndMaildirScan \/ EndImapScan
           \/ \E m \in Mails : Take(p, m) \/ PassOver(p, m)
           \/ Store(p) \/ Index(p) \/ GiveUp(p) \/ Finish(p)
    PROVE  CalendarInv'
  <1>1. UNCHANGED <<calendarVars, script, described>>
    BY DEF StartMaildirScan, StartImapScan, EndMaildirScan, EndImapScan, Take, PassOver, Store,
           Index, GiveUp, Finish, mailRows
  <1>2. scan.at # "calendar" \/ work[Sensor].at = "free"
    BY DEF StartMaildirScan, StartImapScan, EndMaildirScan, EndImapScan, Take, PassOver, Store,
           Index, GiveUp, Finish
  <1>3. work[Sensor].at = "free" /\ described' \subseteq Mails
    BY <1>1, <1>2 DEF CalendarInv, Employed, CalendarTypes
  <1> QED BY <1>1, <1>3, ScanMoves

(* The calendar of the mail is given to the writer of the sensor.          *)
LEMMA DescribeKeeps == ASSUME FolderInv, CalendarInv, NEW p, Describe(p) PROVE CalendarInv'
  <1>1. CalendarTypes /\ Employed /\ TextInv
    BY DEF CalendarInv
  <1>2. PICK m \in Mails : m = scan.mail
    BY DEF FolderInv, Describe
  <1>3. scan.at = "describing" /\ work[Sensor].at = "free"
    BY <1>1 DEF Describe, Employed
  <1>4. described' \subseteq Mails /\ UNCHANGED <<row, text, marker, flag, linked, mixed, script>>
    BY <1>1, <1>2 DEF Describe, CalendarTypes
  <1>5. CASE HasCalendar(m)
    <2>1. To("calendar") /\ Set(Sensor, Begin(Sensor, m))
      BY <1>2, <1>5 DEF Describe
    <2>2. scan'.at = "calendar"
      BY <2>1 DEF To, FolderInv, FolderTypes
    <2>3. Sensor \in Writers /\ Backfill \in Writers /\ Sensor # Backfill
      BY WriterProcesses
    <2>4. work'[Backfill] = work[Backfill]
      BY <1>1, <2>1, <2>3 DEF Set, CalendarTypes
    <2>5. Employed'
      BY <1>1, <1>4, <2>2, <2>4 DEF Employed
    <2>6. /\ script' \in [at : {"off", "filling", "embedding"}, mails : SUBSET Mails,
                          rows : SUBSET Wanted]
          /\ script'.rows \subseteq script.rows
      BY <1>1, <1>4 DEF CalendarTypes
    <2> QED BY <1>3, <1>4, <2>1, <2>3, <2>5, <2>6, BeginKeeps
  <1>6. CASE ~HasCalendar(m)
    <2>1. UNCHANGED calendarVars
      BY <1>2, <1>4, <1>6 DEF Describe, calendarVars
    <2> QED BY <1>3, <1>4, <2>1, ScanMoves
  <1> QED BY <1>5, <1>6

(* The script starts, with mails to complete or with rows to embed.        *)
LEMMA StartScriptKeeps == ASSUME CalendarInv, StartBackfill \/ StartEmbedding PROVE CalendarInv'
  <1>1. CalendarTypes /\ Employed /\ TextInv
    BY DEF CalendarInv
  <1>2. /\ UNCHANGED <<calendarVars, described, scan>> /\ script.at = "off"
        /\ \/ script' = [Off EXCEPT !.at = "filling", !.mails = Candidates]
           \/ script' = [Off EXCEPT !.at = "embedding", !.rows = BareRows]
    BY DEF StartBackfill, StartEmbedding, mailRows
  <1>3. Candidates \subseteq Mails
    BY <1>1 DEF Candidates, CalendarTypes
  <1>4. BareRows \subseteq Wanted /\ \A p \in BareRows : row[p.event] # None
    <2> SUFFICES ASSUME NEW p \in BareRows PROVE p \in Wanted /\ row[p.event] # None
      OBVIOUS
    <2>1. PICK e \in Events : row[e] # None /\ p = [event |-> e, version |-> row[e]]
      BY DEF BareRows
    <2>2. row[e] \in EventVersions
      BY <1>1, <2>1, VersionsTyped DEF CalendarTypes
    <2> QED BY <2>1, <2>2 DEF Wanted
  <1>5. /\ script' \in [at : {"off", "filling", "embedding"}, mails : SUBSET Mails,
                        rows : SUBSET Wanted]
        /\ \A p \in script'.rows : row[p.event] # None
    <2>1. CASE script' = [Off EXCEPT !.at = "filling", !.mails = Candidates]
      BY <1>3, <2>1 DEF Off
    <2>2. CASE script' = [Off EXCEPT !.at = "embedding", !.rows = BareRows]
      BY <1>4, <2>2 DEF Off
    <2> QED BY <1>2, <2>1, <2>2
  <1>6. Employed'
    BY <1>1, <1>2 DEF Employed, calendarVars
  <1>7. described' \subseteq Mails
    BY <1>1, <1>2 DEF CalendarTypes
  <1> QED BY <1>2, <1>5, <1>6, <1>7, CalendarStays

(* A mail of the script is given to its writer, or is not found.           *)
LEMMA FillKeeps == ASSUME CalendarInv, NEW p, NEW m \in Mails, Fill(p, m) \/ Miss(p, m)
                   PROVE  CalendarInv'
  <1>1. CalendarTypes /\ Employed /\ StoredInv
    BY DEF CalendarInv
  <1>2. Sensor \in Writers /\ Backfill \in Writers /\ Sensor # Backfill
    BY WriterProcesses
  <1>3. /\ script.at = "filling" /\ work[Backfill].at = "free"
        /\ UNCHANGED <<row, text, marker, linked, mixed, described, scan>>
        /\ script' = [script EXCEPT !.mails = @ \ {m}]
    BY DEF Fill, Miss, mailRows
  <1>4. /\ script' \in [at : {"off", "filling", "embedding"}, mails : SUBSET Mails,
                        rows : SUBSET Wanted]
        /\ script'.rows \subseteq script.rows /\ script'.at = "filling"
    <2>1. PICK t : t = script /\ t \in [at : {"off", "filling", "embedding"}, mails : SUBSET Mails,
                                        rows : SUBSET Wanted]
      BY <1>1 DEF CalendarTypes
    <2>2. script' = [t EXCEPT !.mails = t.mails \ {m}]
      BY <1>3, <2>1
    <2> QED BY <1>3, <2>1, <2>2
  <1>5. described' \subseteq Mails
    BY <1>1, <1>3 DEF CalendarTypes
  <1>6. CASE Fill(p, m)
    <2>1. Set(Backfill, Begin(Backfill, m)) /\ flag' = flag
      BY <1>6 DEF Fill
    <2>2. work'[Sensor] = work[Sensor]
      BY <1>1, <1>2, <2>1 DEF Set, CalendarTypes
    <2>3. Employed'
      BY <1>1, <1>3, <1>4, <2>2 DEF Employed
    <2> QED BY <1>2, <1>3, <1>4, <1>5, <2>1, <2>3, BeginKeeps
  <1>7. CASE Miss(p, m)
    <2>1. work' = work /\ flag' = [flag EXCEPT ![m] = IF @ = "done" THEN @ ELSE "pending"]
      BY <1>7 DEF Miss, PendingUnlessDone
    <2>2. /\ flag' \in [Mails -> {"none", "pending", "done"}]
          /\ \A k \in Mails : flag'[k] = "done" => flag[k] = "done" \/ k \in marker'
      BY <1>1, <2>1 DEF CalendarTypes
    <2>3. PICK u \in Working : u = work[Backfill]
      BY <1>1, <1>2 DEF CalendarTypes
    <2>4. work' = [work EXCEPT ![Backfill] = u]
      BY <1>1, <2>1, <2>3 DEF CalendarTypes
    <2>5. WriterFits(u, linked', row, marker')
      BY <1>3, <2>3 DEF WriterFits
    <2>6. Employed'
      BY <1>1, <1>3, <1>4, <2>1 DEF Employed
    <2>7. /\ marker' \subseteq Mails /\ marker \subseteq marker' /\ marker' \ marker = {}
          /\ linked' \in [Mails -> SUBSET Events] /\ \A k \in Mails : linked[k] \subseteq linked'[k]
          /\ mixed' = IF work[Backfill].at = "index" THEN mixed \cup {work[Backfill].pair.event} ELSE mixed
      BY <1>1, <1>3 DEF CalendarTypes
    <2> QED BY <1>2, <1>3, <1>4, <1>5, <2>2, <2>3, <2>4, <2>5, <2>6, <2>7, QuietStep
  <1> QED BY <1>6, <1>7

(* Nothing of the calendar is stored at first.                             *)
LEMMA CalendarStarts == MailInit => CalendarInv
  <1> SUFFICES ASSUME MailInit PROVE CalendarInv
    OBVIOUS
  <1>1. CalendarInit /\ scan = Waiting /\ script = Off /\ described = {}
    BY DEF MailInit
  <1>2. \A w \in Writers : work[w] = Free
    BY <1>1 DEF CalendarInit
  <1>3. CalendarTypes
    <2>1. work \in [Writers -> Working]
      BY <1>1, FreeTyped DEF CalendarInit
    <2>2. text \in [Events -> [0..MaxLength -> Entries \cup {None}]]
      BY <1>1, NoTextTyped DEF CalendarInit
    <2>3. script \in [at : {"off", "filling", "embedding"}, mails : SUBSET Mails, rows : SUBSET Wanted]
      BY <1>1 DEF Off
    <2> QED BY <1>1, <2>1, <2>2, <2>3 DEF CalendarInit, CalendarTypes
  <1>4. Employed
    BY <1>2, FreeTyped, WriterProcesses DEF Employed
  <1>5. StoredInv
    <2>1. \A w \in Writers : WriterFits(work[w], linked, row, marker)
      BY <1>2, FreeTyped DEF WriterFits
    <2> QED BY <1>1, <2>1 DEF CalendarInit, StoredInv
  <1>6. TextInv
    <2>1. \A w \in Writers : Alone(work[w], row, text) /\ \A e : ~Holds(w, e)
      BY <1>2, FreeTyped DEF Alone, Holds
    <2>2. \A e \in Events : row[e] = None /\ text[e] = NoText
      BY <1>1 DEF CalendarInit
    <2>3. script.rows = {}
      BY <1>1 DEF Off
    <2> QED BY <2>1, <2>2, <2>3 DEF TextInv, Matches
  <1> QED BY <1>3, <1>4, <1>5, <1>6 DEF CalendarInv

(* Every step keeps what is said of the calendar.                          *)
LEMMA CalendarStep == FolderInv /\ CalendarInv /\ [MailNext]_allMailVars => CalendarInv'
  <1> SUFFICES ASSUME FolderInv, CalendarInv, [MailNext]_allMailVars PROVE CalendarInv'
    OBVIOUS
  <1>1. Sensor \in Writers /\ Backfill \in Writers
    BY WriterProcesses
  <1>2. ASSUME NEW w \in Writers, Write(w) \/ WriteFails(w) PROVE CalendarInv'
    <2>1. (WriterStep(w) \/ WriterFault(w)) /\ UNCHANGED <<described, scan, script>>
      BY <1>2 DEF Write, WriteFails, mailVars, mailRows
    <2> QED BY <2>1, WriterStepKeeps
  <1>3. CASE MaildirStep
    <2>1. \/ DescribeFile
          \/ StartMaildirScan \/ EndMaildirScan
          \/ \E m \in Mails : TakeFile(m)
          \/ StoreFile \/ IndexFile \/ FinishFile
      BY <1>3 DEF MaildirStep
    <2> QED BY <2>1, DescribeKeeps, ScanKeeps DEF DescribeFile, TakeFile, StoreFile, IndexFile, FinishFile
  <1>4. CASE ImapStep
    <2>1. \/ DescribeMessage
          \/ StartImapScan \/ EndImapScan
          \/ \E m \in Mails : TakeMessage(m)
          \/ StoreMessage \/ IndexMessage \/ FinishMessage
      BY <1>4 DEF ImapStep
    <2> QED BY <2>1, DescribeKeeps, ScanKeeps
        DEF DescribeMessage, TakeMessage, StoreMessage, IndexMessage, FinishMessage
  <1>5. CASE ScanStep
    BY <1>1, <1>2, <1>3, <1>4, <1>5 DEF ScanStep
  <1>6. CASE Crash
    <2>1. Halted(Sensor) /\ UNCHANGED <<row, text, marker, flag, linked, described, script>>
      BY <1>6 DEF Crash, mailRows
    <2> QED BY <1>1, <2>1, HaltedKeeps
  <1>7. CASE ScanFault
    <2>1. \/ \E m \in Mails : ParseFails(m) \/ FetchFails(m)
          \/ GiveUpFile \/ GiveUpMessage \/ Crash
      BY <1>7 DEF ScanFault
    <2> QED BY <1>6, <2>1, ScanKeeps DEF ParseFails, FetchFails, GiveUpFile, GiveUpMessage
  <1>8. CASE EndBackfill
    <2>1. /\ Halted(Backfill) /\ UNCHANGED <<row, text, marker, flag, linked, described, scan>>
          /\ script' = Off
      BY <1>8 DEF EndBackfill, mailRows
    <2> QED BY <1>1, <2>1, HaltedKeeps
  <1>9. CASE ScriptStep
    <2>1. \/ StartBackfill \/ StartEmbedding \/ EndBackfill \/ Write(Backfill)
          \/ \E m \in Mails : \/ FillFromMaildir(m) \/ FillFromImap(m)
                              \/ NoMaildirMatch(m) \/ NoImapMatch(m)
          \/ \E p \in script.rows : EmbedRow(p)
      BY <1>9 DEF ScriptStep
    <2> QED BY <1>1, <1>2, <1>8, <2>1, StartScriptKeeps, FillKeeps, EmbedKeeps
        DEF FillFromMaildir, FillFromImap, NoMaildirMatch, NoImapMatch
  <1>10. CASE (\E m \in Mails : MailArrives(m)) \/ Rebuild \/ UNCHANGED allMailVars
    <2>1. UNCHANGED <<calendarVars, script, scan, described>>
      BY <1>10 DEF MailArrives, Rebuild, allMailVars, mailVars, mailRows
    <2>2. Employed'
      BY <2>1 DEF CalendarInv, Employed, calendarVars
    <2> QED BY <2>1, <2>2, CalendarStays DEF CalendarInv, CalendarTypes, TextInv
  <1> QED BY <1>2, <1>5, <1>7, <1>9, <1>10 DEF MailNext

(* The inductive invariant of the folder and the calendar: what each       *)
(* writer is at fits what it has stored, and the scan fits the cursor.     *)
THEOREM CalendarInvariant == MailSpec => [](FolderInv /\ CalendarInv)
  <1>1. MailInit => FolderInv /\ CalendarInv
    BY FolderInit, CalendarStarts
  <1>2. FolderInv /\ CalendarInv /\ [MailNext]_allMailVars => (FolderInv /\ CalendarInv)'
    BY FolderStep, CalendarStep
  <1> QED BY <1>1, <1>2, PTL DEF MailSpec

(* What is marked or done is stored, with the event no older than the mail *)
(* has it: whatever two writers did to the rows in the meantime.           *)
THEOREM DoneMailsAreStored == MailSpec => []DoneIsStored
  <1>1. CalendarInv => DoneIsStored
    <2> SUFFICES ASSUME CalendarInv, NEW m \in Mails, flag[m] = "done" \/ m \in marker
                 PROVE  /\ m \in marker
                        /\ \A p \in DedupByUid(Calendar[m]) : Stored(m, p, linked, row)
      BY DEF DoneIsStored, Stored
    <2> QED BY DEF CalendarInv, StoredInv, MailFits
  <1> QED BY <1>1, CalendarInvariant, PTL

(* The text of an event that nobody is at work on is that of its row, or   *)
(* known to be mixed.                                                      *)
THEOREM TextsAreOfRows == MailSpec => []TextIsOfRow
  <1>1. CalendarInv => TextIsOfRow
    <2> SUFFICES ASSUME CalendarInv, NEW e \in Events, \A w \in Writers : ~Holds(w, e), e \notin mixed,
                        NEW i \in 0..MaxLength
                 PROVE  IF row[e] # None /\ i <= row[e].length
                        THEN text[e][i] # None /\ text[e][i].of = row[e]
                        ELSE text[e][i] = None
      BY DEF TextIsOfRow
    <2>1. \A w \in Writers : ~Indexing(w, e)
      BY DEF Indexing, Holds
    <2>2. Matches(row[e], text[e])
      BY <2>1 DEF CalendarInv, TextInv
    <2>3. CASE row[e] = None
      BY <2>2, <2>3, NoTextTyped DEF Matches
    <2>4. CASE row[e] # None
      <3>1. row[e].length \in Nat
        BY <2>4, VersionsTyped DEF CalendarInv, CalendarTypes
      <3>2. /\ i < row[e].length + 1 => text[e][i] # None /\ text[e][i].of = row[e]
            /\ i > row[e].length => text[e][i] = None
        BY <2>2, <2>4 DEF Matches, TextIs
      <3>3. i \in Nat
        BY MaxLengthIs
      <3> QED BY <2>4, <3>1, <3>2, <3>3
    <2> QED BY <2>3, <2>4
  <1> QED BY <1>1, CalendarInvariant, PTL

-----------------------------------------------------------------------------
(* Proofs about the text chunker.  What a pass of the loop needs is that the *)
(* end it chooses lies after the start, at most a piece away and, unless it  *)
(* is the end of the text, far enough for a piece to be kept.                *)

-----------------------------------------------------------------------------
(* Arithmetic on the sizes.                                                  *)

(* A fifth of a piece is a number, and no more than the piece.             *)
LEMMA FifthType ==
  /\ ChunkSize \div 5 \in Nat
  /\ ChunkSize \div 5 <= ChunkSize
BY ChunkAssumption, SMT

(* A nonempty set of places in a text has a last one.                        *)
LEMMA LastExists ==
  ASSUME NEW n \in Nat, NEW F \in SUBSET (0..n), F # {}
  PROVE  \E e \in F : \A f \in F : f <= e
<1> DEFINE D == {n - f : f \in F}
<1>1. D \subseteq Nat /\ D # {}
  <2>1. \A f \in F : f \in Int /\ f <= n
    OBVIOUS
  <2>2. D \subseteq Nat
    BY <2>1
  <2> QED
    BY <2>2
<1>2. PICK x \in D : \A y \in D : <<y, x>> \notin OpToRel(<, Nat)
  BY <1>1, NatLessThanWellFounded, WFMin
<1>3. \A y \in D : ~(y < x)
  BY <1>1, <1>2 DEF OpToRel
<1>4. PICK e \in F : x = n - e
  BY <1>2
<1>5. \A f \in F : f <= e
  BY <1>3, <1>4
<1> QED
  BY <1>5

(* _find_sentence_boundary returns a place of its window, or the target.     *)
LEMMA SentenceBoundaryFound ==
  ASSUME NEW n \in Nat, NEW E \in SUBSET (1..n), NEW s \in Nat, NEW t \in 0..n
  PROVE  \/ SentenceBoundary(s, t, E) = t
         \/ SentenceBoundary(s, t, E) \in Boundaries(s, t, E)
<1> DEFINE found == Boundaries(s, t, E)
<1>1. CASE found = {}
  BY <1>1 DEF SentenceBoundary
<1>2. CASE found # {}
  <2>1. found \in SUBSET (0..n)
    <3>1. found \subseteq E
      BY DEF Boundaries
    <3>2. 1..n \subseteq 0..n
      OBVIOUS
    <3> QED
      BY <3>1, <3>2
  <2>2. \E e \in found : \A f \in found : f <= e
    BY <1>2, <2>1, LastExists
  <2> QED
    BY <1>2, <2>2 DEF SentenceBoundary
<1> QED
  BY <1>1, <1>2

(* The end of a piece.                                                       *)
LEMMA ChunkEndBounds ==
  ASSUME NEW n \in Nat, NEW E \in SUBSET (1..n), NEW s \in Nat, s < n
  PROVE  /\ ChunkEnd(s, n, E) \in Nat
         /\ s < ChunkEnd(s, n, E)
         /\ ChunkEnd(s, n, E) <= TargetEnd(s, n)
         /\ \/ ChunkEnd(s, n, E) = TargetEnd(s, n)
            \/ TargetEnd(s, n) - ChunkSize \div 5 < ChunkEnd(s, n, E)
<1> DEFINE t == TargetEnd(s, n)
           e == ChunkEnd(s, n, E)
<1>1. t \in 0..n /\ s < t
  BY ChunkAssumption DEF TargetEnd
<1>2. e = t \/ e \in Boundaries(s, t, E)
  BY <1>1, SentenceBoundaryFound DEF ChunkEnd
<1>3. CASE e = t
  BY <1>1, <1>3
<1>4. CASE e \in Boundaries(s, t, E)
  <2>1. e \in 1..n /\ s < e /\ t - ChunkSize \div 5 < e /\ e <= t
    BY <1>4 DEF Boundaries
  <2> QED
    BY <2>1
<1> QED
  BY <1>2, <1>3, <1>4

(* Where the next piece starts: further on, and not after the end of this one. *)
LEMMA NextStartBounds ==
  ASSUME NEW s \in Nat, NEW e \in Nat, s < e
  PROVE  /\ NextStart(s, e) \in Nat
         /\ s < NextStart(s, e)
         /\ NextStart(s, e) <= e
BY ChunkAssumption DEF NextStart

(* A piece is left out only where it reaches to the end of the text.         *)
LEMMA DroppedAtTheEnd ==
  ASSUME NEW n \in Nat, NEW E \in SUBSET (1..n), NEW s \in Nat, s < n,
         ~IsKept(s, ChunkEnd(s, n, E))
  PROVE  n - AtMostLost <= s
<1> DEFINE e == ChunkEnd(s, n, E)
           fifth == ChunkSize \div 5
<1>1. /\ e \in Nat /\ s < e /\ e <= TargetEnd(s, n)
      /\ (e = TargetEnd(s, n)) \/ (TargetEnd(s, n) - fifth < e)
  BY ChunkEndBounds
<1>2. e - s < MinChunkSize
  BY <1>1, ChunkAssumption DEF IsKept
<1>3. fifth \in Nat
  BY FifthType
<1> HIDE DEF e, fifth
<1>4. MinChunkSize <= ChunkSize - fifth
  BY ChunkAssumption DEF fifth
<1>5. TargetEnd(s, n) = n
  BY <1>1, <1>2, <1>3, <1>4, ChunkAssumption DEF TargetEnd
<1> QED
  BY <1>1, <1>2, <1>3, <1>5, ChunkAssumption DEF AtMostLost, fifth

-----------------------------------------------------------------------------
(* What a pass of the loop does, in terms of its bounds.                     *)
LEMMA CutEffect ==
  ASSUME ChunkingTypeOK, Cut
  PROVE  \E e \in 0..tokens :
           /\ start < e /\ e - start <= ChunkSize
           /\ start < start' /\ start' <= e /\ start' \in Nat
           /\ \/ chunks' = chunks \cup {[from |-> start, to |-> e]}
              \/ chunks' = chunks /\ tokens - AtMostLost <= start
<1> DEFINE e == ChunkEnd(start, tokens, ends)
<1> USE DEF ChunkingTypeOK
<1>1. /\ e \in Nat /\ start < e /\ e <= TargetEnd(start, tokens)
  BY ChunkEndBounds DEF Cut
<1>2. e \in 0..tokens /\ e - start <= ChunkSize
  BY <1>1, ChunkAssumption DEF TargetEnd, Cut
<1>3. start' \in Nat /\ start < start' /\ start' <= e
  BY <1>1, NextStartBounds DEF Cut
<1>4. \/ chunks' = chunks \cup {[from |-> start, to |-> e]}
      \/ chunks' = chunks /\ tokens - AtMostLost <= start
  <2>1. CASE IsKept(start, e)
    BY <2>1 DEF Cut
  <2>2. CASE ~IsKept(start, e)
    BY <2>2, DroppedAtTheEnd DEF Cut
  <2> QED
    BY <2>1, <2>2
<1> QED
  BY <1>1, <1>2, <1>3, <1>4

(* The variables keep their types.                                           *)
THEOREM TypeCorrect == ChunkingSpec => []ChunkingTypeOK
<1>1. ChunkingInit => ChunkingTypeOK
  BY DEF ChunkingInit, ChunkingTypeOK
<1>2. ChunkingTypeOK /\ [ChunkingNext]_chunkingVars => ChunkingTypeOK'
  <2> SUFFICES ASSUME ChunkingTypeOK, [ChunkingNext]_chunkingVars PROVE ChunkingTypeOK'
    OBVIOUS
  <2>1. CASE TakeWhole
    BY <2>1 DEF TakeWhole, ChunkingTypeOK
  <2>2. CASE Cut
    <3>1. tokens' = tokens /\ ends' = ends
      BY <2>2 DEF Cut
    <3> QED
      BY <2>2, <3>1, CutEffect DEF ChunkingTypeOK
  <2>3. CASE UNCHANGED chunkingVars
    BY <2>3 DEF chunkingVars, ChunkingTypeOK
  <2> QED
    BY <2>1, <2>2, <2>3 DEF ChunkingNext
<1> QED
  BY <1>1, <1>2, PTL DEF ChunkingSpec

(* chunk_text leaves out no more than the tail of a text: every token that   *)
(* the loop has passed and that is not among the last ones is in a piece.    *)
THEOREM NothingButTheTailIsLost == ChunkingSpec => []PassedIsInChunk
<1>1. ChunkingInit => PassedIsInChunk
  BY DEF ChunkingInit, PassedIsInChunk
<1>2. ChunkingTypeOK /\ PassedIsInChunk /\ [ChunkingNext]_chunkingVars => PassedIsInChunk'
  <2> SUFFICES ASSUME ChunkingTypeOK, PassedIsInChunk, [ChunkingNext]_chunkingVars,
                      NEW k \in 0..tokens', k < start', k < tokens' - AtMostLost
               PROVE  InChunk(k)'
    BY DEF PassedIsInChunk
  <2>1. CASE TakeWhole
    <3>1. [from |-> 0, to |-> tokens] \in chunks' /\ k < tokens /\ 0 <= k
      BY <2>1 DEF TakeWhole
    <3> QED
      BY <3>1 DEF InChunk
  <2>2. CASE Cut
    <3>1. tokens' = tokens
      BY <2>2 DEF Cut
    <3>2. PICK e \in 0..tokens :
            /\ start < e /\ start' <= e /\ start' \in Nat
            /\ \/ chunks' = chunks \cup {[from |-> start, to |-> e]}
               \/ chunks' = chunks /\ tokens - AtMostLost <= start
      BY <2>2, CutEffect
    <3>3. CASE k < start
      <4>1. InChunk(k)
        BY <3>1, <3>3 DEF PassedIsInChunk
      <4> QED
        BY <3>2, <4>1 DEF InChunk
    <3>4. CASE ~(k < start)
      <4>1. start <= k /\ k < e
        BY <3>1, <3>2, <3>4 DEF ChunkingTypeOK
      <4>2. AtMostLost \in Int
        BY FifthType, ChunkAssumption DEF AtMostLost
      <4>3. [from |-> start, to |-> e] \in chunks'
        BY <3>1, <3>2, <4>1, <4>2 DEF ChunkingTypeOK
      <4> QED
        BY <4>1, <4>3 DEF InChunk
    <3> QED
      BY <3>3, <3>4
  <2>3. CASE UNCHANGED chunkingVars
    BY <2>3 DEF chunkingVars, PassedIsInChunk, InChunk
  <2> QED
    BY <2>1, <2>2, <2>3 DEF ChunkingNext
<1> QED
  BY <1>1, <1>2, TypeCorrect, PTL DEF ChunkingSpec

(* chunk_text makes no piece that is empty or larger than an embedding takes. *)
THEOREM PiecesFit == ChunkingSpec => []ChunksAreSmall
<1>1. ChunkingInit => ChunksAreSmall
  BY DEF ChunkingInit, ChunksAreSmall
<1>2. ChunkingTypeOK /\ ChunksAreSmall /\ [ChunkingNext]_chunkingVars => ChunksAreSmall'
  <2> SUFFICES ASSUME ChunkingTypeOK, ChunksAreSmall, [ChunkingNext]_chunkingVars
               PROVE  ChunksAreSmall'
    OBVIOUS
  <2>1. CASE TakeWhole
    BY <2>1 DEF TakeWhole, ChunksAreSmall, ChunkingTypeOK
  <2>2. CASE Cut
    BY <2>2, CutEffect DEF ChunksAreSmall, ChunkingTypeOK
  <2>3. CASE UNCHANGED chunkingVars
    BY <2>3 DEF chunkingVars, ChunksAreSmall
  <2> QED
    BY <2>1, <2>2, <2>3 DEF ChunkingNext
<1> QED
  BY <1>1, <1>2, TypeCorrect, PTL DEF ChunkingSpec

(* The loop of chunk_text ends: every pass moves on, also where the overlap  *)
(* is as large as a piece.                                                   *)
THEOREM EveryPassMovesOn == ChunkingSpec => MovesOn
<1>1. ChunkingTypeOK /\ [ChunkingNext]_chunkingVars => [start < start' /\ start' <= tokens]_chunkingVars
  <2> SUFFICES ASSUME ChunkingTypeOK, ChunkingNext
               PROVE  start < start' /\ start' <= tokens
    OBVIOUS
  <2>1. CASE TakeWhole
    BY <2>1 DEF TakeWhole, ChunkingTypeOK
  <2>2. CASE Cut
    BY <2>2, CutEffect DEF ChunkingTypeOK
  <2> QED
    BY <2>1, <2>2 DEF ChunkingNext
<1> QED
  BY <1>1, TypeCorrect, PTL DEF ChunkingSpec, MovesOn

=============================================================================
