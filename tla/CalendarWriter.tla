--------------------------- MODULE CalendarWriter ---------------------------
(* ics_writer.py: the calendar attachment of a mail is stored as one row per *)
(* event, shared by all mails that carry the event, and as the text index of *)
(* the row.  Two processes do this work without knowing of each other: the   *)
(* mail sensor and the backfill script.  One attachment per mail.            *)
EXTENDS Integers, FiniteSets, SequencesExt

CONSTANTS Writers,   \* the processes that run process_ics_attachments
          Mails,
          Events,
          Calendar,  \* [Mails -> Seq([event, version])]: what is attached
          None       \* stands for no version, text, mail or event

NoSequence == -1

(* A version of an event: its SEQUENCE, which may be absent, its DTSTAMP and *)
(* the number of chunks of its text.                                         *)
EventVersions == UNION {{Calendar[m][i].version : i \in DOMAIN Calendar[m]} : m \in Mails}
MaxLength == Max({v.length : v \in EventVersions} \union {0})

Entry(v, withVector) == [of |-> v, vector |-> withVector]
Entries == {Entry(v, b) : v \in EventVersions, b \in BOOLEAN}

ASSUME CalendarAssumption ==
  /\ IsFiniteSet(Writers) /\ IsFiniteSet(Mails) /\ IsFiniteSet(Events)
  /\ \A m \in Mails : Calendar[m] \in
       Seq([event : Events,
            version : [sequence : {NoSequence} \union Nat, stamp : Nat, length : Nat \ {0}]])
  /\ None \notin EventVersions \union Entries

VARIABLES row,      \* event -> its version in koi_memories, or None
          text,     \* event -> index -> entry; 0 is the embedding, 1.. the chunks
          marker,   \* mails with a row in email_attachments
          flag,     \* mail -> ics_processing_state
          linked,   \* mail -> events in its ics_event_rids
          work,     \* writer -> its progress in process_ics_attachments
          mixed     \* history: events whose text was written in part, or by two

calendarVars == <<row, text, marker, flag, linked, work, mixed>>

NoText == [i \in 0..MaxLength |-> None]
Pairs == {Calendar[m][i] : m \in Mails, i \in 1..Max({Len(Calendar[k]) : k \in Mails})}

Free == [at |-> "free", mail |-> None, left |-> {}, pair |-> None,
         saw |-> FALSE, index |-> 0, vector |-> FALSE, clean |-> FALSE, ok |-> TRUE]

(***************************************************************************)
(* The rule by which one version of an event replaces another.  Where only  *)
(* one of two has a SEQUENCE their DTSTAMPs decide.                          *)
(***************************************************************************)
IncomingIsNewer(new, stored) ==
  IF /\ new.sequence # NoSequence
     /\ stored.sequence # NoSequence
     /\ new.sequence # stored.sequence
  THEN new.sequence > stored.sequence
  ELSE new.stamp >= stored.stamp

(* An attachment may hold an event more than once: the one that is kept of   *)
(* its first i entries, and of all.                                          *)
BestOf(pairs, e) ==
  LET best[i \in 0..Len(pairs)] ==
        IF i = 0 THEN None
        ELSE IF pairs[i].event = e /\ (best[i - 1] = None \/ IncomingIsNewer(pairs[i].version, best[i - 1]))
             THEN pairs[i].version
             ELSE best[i - 1]
  IN  best[Len(pairs)]

DedupByUid(pairs) ==
  {[event |-> e, version |-> BestOf(pairs, e)] : e \in {pairs[i].event : i \in DOMAIN pairs}}

(***************************************************************************)
(* The steps of a writer.                                                    *)
(***************************************************************************)
Holds(w, e) == work[w].at \in {"insert", "index"} /\ work[w].pair.event = e
HeldByAnother(w, e) == \E x \in Writers \ {w} : Holds(x, e)

(* SELECT ... FOR UPDATE keeps a row that exists until the transaction ends. *)
LockedByAnother(w, e) ==
  \E x \in Writers \ {w} : Holds(x, e) /\ work[x].at = "insert" /\ work[x].saw

Set(w, r) == work' = [work EXCEPT ![w] = r]

(* An exception ends the work on the attachment: the mail will be pending.   *)
Abandon(w) ==
  /\ Set(w, [work[w] EXCEPT !.at = "flag", !.ok = FALSE, !.left = {}, !.pair = None])
  /\ UNCHANGED <<row, text, marker, flag, linked, mixed>>

Begin(w, m) == [Free EXCEPT !.at = "marker", !.mail = m]

CheckMarker(w) ==
  /\ work[w].at = "marker"
  /\ Set(w, IF work[w].mail \in marker
            THEN [work[w] EXCEPT !.at = "flag"]
            ELSE [work[w] EXCEPT !.at = "event", !.left = DedupByUid(Calendar[work[w].mail])])
  /\ UNCHANGED <<row, text, marker, flag, linked, mixed>>

(* The other writers of the event are no longer alone with it.               *)
Joined(w, r, e) ==
  work' = [x \in Writers |-> IF x = w THEN [r EXCEPT !.clean = ~HeldByAnother(w, e)]
                             ELSE IF Holds(x, e) THEN [work[x] EXCEPT !.clean = FALSE]
                             ELSE work[x]]

SelectEvent(w, p) ==
  /\ work[w].at = "event" /\ p \in work[w].left
  /\ ~LockedByAnother(w, p.event)
  /\ LET exists == row[p.event] # None
         r == [work[w] EXCEPT !.pair = p, !.saw = exists]
     IN  IF exists /\ ~IncomingIsNewer(p.version, row[p.event])
         THEN Set(w, [r EXCEPT !.at = "link"])
         ELSE Joined(w, [r EXCEPT !.at = "insert"], p.event)
  /\ UNCHANGED <<row, text, marker, flag, linked, mixed>>

(* NOWAIT: a row that another writer has locked is an exception.             *)
SelectLocked(w, p) ==
  /\ work[w].at = "event" /\ p \in work[w].left
  /\ LockedByAnother(w, p.event)
  /\ Abandon(w)

\* Mutants: the row is overwritten whatever is in it by now; the chunks of the
\* version before are left in place.
InsertsAnyway(w) ==
  LET e == work[w].pair.event
  IN  /\ work[w].at = "insert"
      /\ ~LockedByAnother(w, e)
      /\ row' = [row EXCEPT ![e] = work[w].pair.version]
      /\ text' = IF work[w].saw
                 THEN [text EXCEPT ![e] = [NoText EXCEPT ![0] = text[e][0]]] ELSE text
      /\ Set(w, [work[w] EXCEPT !.at = "index", !.index = 0])
      /\ UNCHANGED <<marker, flag, linked, mixed>>

KeepsOldChunks(w) ==
  LET e == work[w].pair.event
      written == row[e] = None \/ IncomingIsNewer(work[w].pair.version, row[e])
  IN  /\ work[w].at = "insert"
      /\ ~LockedByAnother(w, e)
      /\ row' = IF written THEN [row EXCEPT ![e] = work[w].pair.version] ELSE row
      /\ Set(w, [work[w] EXCEPT !.at = IF written THEN "index" ELSE "link", !.index = 0])
      /\ UNCHANGED <<text, marker, flag, linked, mixed>>

(* INSERT ... ON CONFLICT DO UPDATE ... WHERE, which waits for a lock, then  *)
(* the chunks of the version that was there when the row was selected go.    *)
InsertEvent(w) ==
  LET e == work[w].pair.event
      v == work[w].pair.version
      written == row[e] = None \/ IncomingIsNewer(v, row[e])
  IN  /\ work[w].at = "insert"
      /\ ~LockedByAnother(w, e)
      /\ row' = IF written THEN [row EXCEPT ![e] = v] ELSE row
      /\ text' = IF written /\ work[w].saw
                 THEN [text EXCEPT ![e] = [NoText EXCEPT ![0] = text[e][0]]] ELSE text
      /\ Set(w, [work[w] EXCEPT !.at = IF written THEN "index" ELSE "link", !.index = 0])
      /\ UNCHANGED <<marker, flag, linked, mixed>>

(* One statement of the index: the embedding, then chunk after chunk.  A     *)
(* failure is only logged.  If the chunks could not be embedded, they are    *)
(* written without vectors.                                                  *)
IndexText(w, fails, withVector) ==
  LET r == work[w]
      e == r.pair.event
      clean == r.clean /\ ~fails
      last == r.index = r.pair.version.length
  IN  /\ r.at = "index"
      /\ r.index > 0 => withVector = r.vector
      /\ text' = IF fails THEN text
                 ELSE [text EXCEPT ![e][r.index] =
                         Entry(r.pair.version, r.index = 0 \/ withVector)]
      /\ Set(w, [r EXCEPT !.index = IF last THEN 0 ELSE @ + 1,
                          !.vector = ~last /\ withVector,
                          !.clean = ~last /\ clean,
                          !.at = IF last THEN "link" ELSE "index"])
      /\ mixed' = IF ~last THEN mixed
                  ELSE IF clean THEN mixed \ {e} ELSE mixed \union {e}
      /\ UNCHANGED <<row, marker, flag, linked>>

AppendEventRidToParent(w) ==
  LET r == work[w]
      left == r.left \ {r.pair}
  IN  /\ r.at = "link"
      /\ linked' = [linked EXCEPT ![r.mail] = @ \union {r.pair.event}]
      /\ Set(w, [r EXCEPT !.left = left, !.pair = None, !.saw = FALSE, !.clean = FALSE,
                          !.at = IF left = {} THEN "mark" ELSE "event"])
      /\ UNCHANGED <<row, text, marker, flag, mixed>>

MarkAttachment(w) ==
  /\ work[w].at = "mark"
  /\ marker' = marker \union {work[w].mail}
  /\ Set(w, [work[w] EXCEPT !.at = "flag"])
  /\ UNCHANGED <<row, text, flag, linked, mixed>>

(* pending never replaces done.                                              *)
PendingUnlessDone(m) == flag' = [flag EXCEPT ![m] = IF @ = "done" THEN @ ELSE "pending"]

SetParentFlag(w) ==
  /\ work[w].at = "flag"
  /\ IF work[w].ok THEN flag' = [flag EXCEPT ![work[w].mail] = "done"]
     ELSE PendingUnlessDone(work[w].mail)
  /\ Set(w, Free)
  /\ UNCHANGED <<row, text, marker, linked, mixed>>

(* The flag cannot be written: only logged.                                  *)
ParentFlagFails(w) ==
  /\ work[w].at = "flag"
  /\ Set(w, Free)
  /\ UNCHANGED <<row, text, marker, flag, linked, mixed>>

(* Any other statement of the attachment may raise.                          *)
StatementFails(w) ==
  /\ work[w].at \in {"marker", "event", "insert", "link", "mark"}
  /\ Abandon(w)

WriterStep(w) ==
  \/ CheckMarker(w)
  \/ \E p \in work[w].left : SelectEvent(w, p) \/ SelectLocked(w, p)
  \/ InsertEvent(w)
  \/ IndexText(w, FALSE, work[w].vector \/ work[w].index = 0)
  \/ AppendEventRidToParent(w)
  \/ MarkAttachment(w)
  \/ SetParentFlag(w)

WriterFault(w) ==
  \/ IndexText(w, TRUE, work[w].vector \/ work[w].index = 0)
  \/ work[w].index = 0 /\ IndexText(w, FALSE, FALSE)
  \/ ParentFlagFails(w)
  \/ StatementFails(w)

(* The process of the writer ends: an open transaction is rolled back.       *)
Halted(w) ==
  /\ Set(w, Free)
  /\ mixed' = IF work[w].at = "index" THEN mixed \union {work[w].pair.event} ELSE mixed

CalendarInit ==
  /\ row = [e \in Events |-> None]
  /\ text = [e \in Events |-> NoText]
  /\ marker = {}
  /\ flag = [m \in Mails |-> "none"]
  /\ linked = [m \in Mails |-> {}]
  /\ work = [w \in Writers |-> Free]
  /\ mixed = {}

CalendarTypeOK ==
  /\ row \in [Events -> EventVersions \union {None}]
  /\ text \in [Events -> [0..MaxLength -> Entries \union {None}]]
  /\ marker \subseteq Mails
  /\ flag \in [Mails -> {"none", "pending", "done"}]
  /\ linked \in [Mails -> SUBSET Events]
  /\ mixed \subseteq Events
  /\ DOMAIN work = Writers
  /\ \A w \in Writers :
       /\ work[w].at \in {"free", "marker", "event", "insert", "index", "link", "mark", "flag"}
       /\ work[w].mail \in Mails \union {None}
       /\ \A p \in work[w].left : p.event \in Events /\ p.version \in EventVersions

(* All versions of the event have a SEQUENCE, or none of them has.           *)
VersionsOf(e) ==
  UNION {{Calendar[m][i].version : i \in {k \in DOMAIN Calendar[m] : Calendar[m][k].event = e}} :
           m \in Mails}
SequencesAgree(e) ==
  \A v, x \in VersionsOf(e) : v.sequence = NoSequence <=> x.sequence = NoSequence

(* The rule by which versions replace each other is an order for these       *)
(* events only: with a SEQUENCE in some versions and none in others the      *)
(* DTSTAMPs may lead from a version, by way of one without SEQUENCE, to an   *)
(* older one.                                                                *)
NotOlder(e, v, x) == SequencesAgree(e) => IncomingIsNewer(v, x)

(* What is marked, or done, is stored: a mail whose calendar was handled has *)
(* left no event behind, and no event in a version older than it carried,    *)
(* whatever the order in which two writers came to the same event.           *)
DoneIsStored ==
  \A m \in Mails : flag[m] = "done" \/ m \in marker =>
    /\ m \in marker
    /\ \A p \in DedupByUid(Calendar[m]) :
         /\ p.event \in linked[m]
         /\ row[p.event] # None
         /\ NotOlder(p.event, row[p.event], p.version)

(* The text that is searched is that of the version that is stored, to the   *)
(* last chunk and with none left over from a longer one, unless two wrote it *)
(* at a time or a write of it failed, and until one writer alone rewrote it. *)
TextIsOfRow ==
  \A e \in Events :
    \/ \E w \in Writers : Holds(w, e)
    \/ e \in mixed
    \/ \A i \in 0..MaxLength :
         IF row[e] # None /\ i <= row[e].length
         THEN text[e][i] # None /\ text[e][i].of = row[e]
         ELSE text[e][i] = None
=============================================================================
