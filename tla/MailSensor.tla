----------------------------- MODULE MailSensor -----------------------------
(* The two mail sensors (email_sensor.py over a Maildir, proton_sensor.py    *)
(* over IMAP) and the script that completes their calendars                  *)
(* (backfill_ics.py), each with the writer of CalendarWriter.  The Maildir   *)
(* sensor looks at every file in every scan, the IMAP sensor only above the  *)
(* cursor of the folder.  Events of the two providers never meet, because    *)
(* their RIDs differ: a behaviour is that of one provider.  One folder.      *)
EXTENDS CalendarWriter

CONSTANTS MaxFaults,     \* fetches, statements and requests that fail, and crashes
          MaxBackfills,  \* runs of the script
          MaxRebuilds    \* changes of UIDVALIDITY

Sensor == "sensor"
Backfill == "backfill"
Providers == {"maildir", "imap"}

ASSUME MailAssumption ==
  /\ Writers = {Sensor, Backfill}
  /\ MaxFaults \in Nat /\ MaxBackfills \in Nat /\ MaxRebuilds \in Nat

VARIABLES provider,   \* "maildir" or "imap"
          uid,        \* mail -> its UID in the folder, 0 while it is not there
          validity,   \* UIDVALIDITY of the folder
          processed,  \* state file: mails marked as processed, with their hash
          cursor,     \* state file: [uid, validity] of the folder, validity 0 if unknown
          stored,     \* mails with a row in koi_memories
          indexed,    \* mails with chunks
          described,  \* mails with a row in email_metadata
          scan,       \* progress of the sensor's scan
          script,     \* progress of the backfill script
          failed,     \* history: mails a scan met in vain
          slipped,    \* history: a rebuilt folder was scanned and nothing seen
          faults, backfills   \* used of the bounds

stateFile == <<processed, cursor>>
mailRows == <<stored, indexed, described>>
budgets == <<faults, backfills>>
mailHistory == <<failed, slipped>>
mailVars == <<provider, uid, validity, processed, cursor, stored, indexed, described, scan, script,
              failed, slipped, faults, backfills>>
allMailVars == <<calendarVars, mailVars>>

(* _extract_attachments: a mail without a calendar is of no concern here.    *)
HasCalendar(m) == Calendar[m] # <<>>

Present == {m \in Mails : uid[m] # 0}
Waiting == [at |-> "waiting", mail |-> None, left |-> {}, from |-> 0, seen |-> 0, validity |-> 0]
Off == [at |-> "off", mails |-> {}, rows |-> {}]

Fault == faults < MaxFaults /\ faults' = faults + 1

MailInit ==
  /\ CalendarInit
  /\ provider \in Providers
  /\ uid = [m \in Mails |-> 0] /\ validity = 1
  /\ processed = {} /\ cursor = [uid |-> 0, validity |-> 0]
  /\ stored = {} /\ indexed = {} /\ described = {}
  /\ scan = Waiting /\ script = Off
  /\ failed = {} /\ slipped = FALSE
  /\ faults = 0 /\ backfills = 0

(***************************************************************************)
(* The mailbox.                                                              *)
(***************************************************************************)
HighestUid == Max({uid[m] : m \in Mails})

MailArrives(m) ==
  /\ uid[m] = 0
  /\ uid' = [uid EXCEPT ![m] = HighestUid + 1]
  /\ UNCHANGED <<calendarVars, provider, validity, stateFile, mailRows, scan, script, mailHistory, budgets>>

(* The mailbox is rebuilt between two scans: its mails are numbered anew.    *)
Rebuild ==
  /\ provider = "imap" /\ scan.at = "waiting"
  /\ validity <= MaxRebuilds
  /\ validity' = validity + 1
  /\ uid' = [m \in Mails |-> IF uid[m] = 0 THEN 0
                             ELSE Cardinality({k \in Present : uid[k] <= uid[m]})]
  /\ UNCHANGED <<calendarVars, provider, stateFile, mailRows, scan, script, mailHistory, budgets>>

(***************************************************************************)
(* run_scan.                                                                 *)
(***************************************************************************)
\* Mutant: the scan starts behind the next mail.
SkipsOne(v) == cursor.uid + 1

(* The cursor a scan starts from: 0 when UIDVALIDITY is not the one stored.  *)
LastUid(v) ==
  IF cursor.validity # 0 /\ v # 0 /\ cursor.validity # v THEN 0 ELSE cursor.uid

(* fetch_new_emails: what the folder holds above the cursor.                 *)
NewUids(since) == {m \in Present : uid[m] > since}

Scanning(from, v, mails) ==
  scan' = [at |-> "fetching", mail |-> None, from |-> from, seen |-> from, validity |-> v,
           left |-> mails]

(* scan_all: every file of the Maildir.                                      *)
StartMaildirScan ==
  /\ provider = "maildir" /\ scan.at = "waiting"
  /\ Scanning(0, 0, Present)
  /\ UNCHANGED <<calendarVars, provider, uid, validity, stateFile, mailRows, script, mailHistory, budgets>>

(* The UIDVALIDITY may be missing from the answer, and the search may fail.  *)
StartImapScan ==
  /\ provider = "imap" /\ scan.at = "waiting"
  /\ \E v \in {validity, 0}, found \in BOOLEAN :
       /\ IF v = validity /\ found THEN UNCHANGED faults ELSE Fault
       /\ Scanning(LastUid(v), v, IF found THEN NewUids(LastUid(v)) ELSE {})
  /\ UNCHANGED <<calendarVars, provider, uid, validity, stateFile, mailRows, script, mailHistory, backfills>>

(* IMAP mails come in the order of their UIDs, files in any order.           *)
IsNext(m) == m \in scan.left /\ (provider = "imap" => \A k \in scan.left : uid[m] <= uid[k])

Seen(m) == Max({scan.seen, uid[m]})

(* The mail is done with, in one way or another.                             *)
Advance(m) ==
  scan' = [scan EXCEPT !.at = "fetching", !.mail = None, !.left = @ \ {m}, !.seen = Seen(m)]

To(step) == scan' = [scan EXCEPT !.at = step]

(* A mail that cannot be read is passed over, and the caller not told.       *)
PassOver(p, m) ==
  /\ provider = p /\ scan.at = "fetching" /\ IsNext(m) /\ Fault
  /\ scan' = [scan EXCEPT !.left = @ \ {m}]
  /\ failed' = failed \union {m}
  /\ UNCHANGED <<calendarVars, provider, uid, validity, stateFile, mailRows, script, slipped, backfills>>

ParseFails(m) == PassOver("maildir", m)
FetchFails(m) == PassOver("imap", m)

(***************************************************************************)
(* process_email, which the two sensors have each for itself.                *)
(***************************************************************************)
(* What is processed is skipped, and counts as seen.                         *)
Take(p, m) ==
  /\ provider = p /\ scan.at = "fetching" /\ IsNext(m)
  /\ IF m \in processed THEN Advance(m)
     ELSE scan' = [scan EXCEPT !.at = "storing", !.mail = m]
  /\ UNCHANGED <<calendarVars, provider, uid, validity, stateFile, mailRows, script, mailHistory, budgets>>

TakeFile(m) == Take("maildir", m)
TakeMessage(m) == Take("imap", m)

(* _upsert_memory, which leaves a row of the same content as it is.          *)
Store(p) ==
  /\ provider = p /\ scan.at = "storing"
  /\ stored' = stored \union {scan.mail}
  /\ To("indexing")
  /\ UNCHANGED <<calendarVars, provider, uid, validity, stateFile, indexed, described, script,
                 mailHistory, budgets>>

StoreFile == Store("maildir")
StoreMessage == Store("imap")

(* The embedding and the chunks: a statement that fails is only logged.      *)
Index(p) ==
  /\ provider = p /\ scan.at = "indexing"
  /\ \/ indexed' = indexed \union {scan.mail} /\ UNCHANGED faults
     \/ Fault /\ UNCHANGED indexed
  /\ To("describing")
  /\ UNCHANGED <<calendarVars, provider, uid, validity, stateFile, stored, described, script,
                 mailHistory, backfills>>

IndexFile == Index("maildir")
IndexMessage == Index("imap")

(* _upsert_email_metadata, whose failure is only logged, too; the calendar   *)
(* is next if there is one.                                                  *)
Describe(p) ==
  /\ provider = p /\ scan.at = "describing"
  /\ \/ described' = described \union {scan.mail} /\ UNCHANGED faults
     \/ Fault /\ UNCHANGED described
  /\ IF HasCalendar(scan.mail)
     THEN To("calendar") /\ Set(Sensor, Begin(Sensor, scan.mail))
     ELSE To("finishing") /\ UNCHANGED work
  /\ UNCHANGED <<row, text, marker, flag, linked, mixed, provider, uid, validity, stateFile,
                 stored, indexed, script, mailHistory, backfills>>

DescribeFile == Describe("maildir")
DescribeMessage == Describe("imap")

(* The memory row cannot be written, or the embedder raises: process_email   *)
(* gives up and the mail is not marked, but the scan has seen it.            *)
GiveUp(p) ==
  /\ provider = p /\ scan.at \in {"storing", "indexing"} /\ Fault
  /\ Advance(scan.mail)
  /\ failed' = failed \union {scan.mail}
  /\ UNCHANGED <<calendarVars, provider, uid, validity, stateFile, mailRows, script, slipped, backfills>>

GiveUpFile == GiveUp("maildir")
GiveUpMessage == GiveUp("imap")

(* Whatever became of its calendar and its entities, the mail is processed.  *)
Finish(p) ==
  /\ provider = p
  /\ \/ scan.at = "finishing"
     \/ scan.at = "calendar" /\ work[Sensor].at = "free"
  /\ processed' = processed \union {scan.mail}
  /\ Advance(scan.mail)
  /\ UNCHANGED <<calendarVars, provider, uid, validity, cursor, mailRows, script, mailHistory, budgets>>

FinishFile == Finish("maildir")
FinishMessage == Finish("imap")

EndMaildirScan ==
  /\ provider = "maildir" /\ scan.at = "fetching" /\ scan.left = {}
  /\ scan' = Waiting
  /\ UNCHANGED <<calendarVars, provider, uid, validity, stateFile, mailRows, script, mailHistory, budgets>>

\* Mutant: the cursor is put at the last mail of the folder.
EndsAtTheTop ==
  /\ provider = "imap" /\ scan.at = "fetching" /\ scan.left = {}
  /\ cursor' = [uid |-> HighestUid,
                validity |-> IF scan.validity # 0 THEN scan.validity ELSE cursor.validity]
  /\ scan' = Waiting
  /\ UNCHANGED <<calendarVars, provider, uid, validity, processed, mailRows, script, mailHistory, budgets>>

(* The cursor and the UIDVALIDITY of the folder are saved.                   *)
EndImapScan ==
  /\ provider = "imap" /\ scan.at = "fetching" /\ scan.left = {}
  /\ cursor' = [uid |-> IF scan.seen > scan.from THEN scan.seen ELSE cursor.uid,
                validity |-> IF scan.validity # 0 THEN scan.validity ELSE cursor.validity]
  /\ slipped' = (slipped \/ (/\ scan.validity \notin {0, cursor.validity}
                              /\ cursor'.uid # 0
                              /\ (scan.from # 0 \/ scan.seen = 0)))
  /\ scan' = Waiting
  /\ UNCHANGED <<calendarVars, provider, uid, validity, processed, mailRows, script, failed, budgets>>

(* The process of the sensor ends and is started again.                      *)
Crash ==
  /\ scan.at # "waiting" /\ Fault
  /\ scan' = Waiting
  /\ Halted(Sensor)
  /\ UNCHANGED <<row, text, marker, flag, linked, provider, uid, validity, stateFile, mailRows,
                 script, mailHistory, backfills>>

(***************************************************************************)
(* backfill_ics.py.                                                          *)
(***************************************************************************)
(* Mails with an attachment, or pending, that are not done.                  *)
Candidates ==
  {m \in described : flag[m] # "done" /\ (HasCalendar(m) \/ flag[m] = "pending")}

StartBackfill ==
  /\ script.at = "off" /\ backfills < MaxBackfills
  /\ Candidates # {}
  /\ backfills' = backfills + 1
  /\ script' = [Off EXCEPT !.at = "filling", !.mails = Candidates]
  /\ UNCHANGED <<calendarVars, provider, uid, validity, stateFile, mailRows, scan, mailHistory, faults>>

(* The mail is found again in the mailbox and its calendar processed.        *)
Fill(p, m) ==
  /\ provider = p
  /\ script.at = "filling" /\ m \in script.mails /\ work[Backfill].at = "free"
  /\ script' = [script EXCEPT !.mails = @ \ {m}]
  /\ Set(Backfill, Begin(Backfill, m))
  /\ UNCHANGED <<row, text, marker, flag, linked, mixed, provider, uid, validity, stateFile,
                 mailRows, scan, mailHistory, budgets>>

FillFromMaildir(m) == Fill("maildir", m)
FillFromImap(m) == Fill("imap", m)

(* It is not found: it stays, or becomes, pending.                           *)
Miss(p, m) ==
  /\ provider = p
  /\ script.at = "filling" /\ m \in script.mails /\ work[Backfill].at = "free" /\ Fault
  /\ script' = [script EXCEPT !.mails = @ \ {m}]
  /\ PendingUnlessDone(m)
  /\ UNCHANGED <<row, text, marker, linked, work, mixed, provider, uid, validity, stateFile,
                 mailRows, scan, mailHistory, backfills>>

NoMaildirMatch(m) == Miss("maildir", m)
NoImapMatch(m) == Miss("imap", m)

(* --embed-only: the rows that lack their embedding, or have no chunk with a *)
(* vector, with the text they have now.                                      *)
LacksVectors(e) ==
  \/ text[e][0] = None
  \/ \A i \in 1..MaxLength : text[e][i] = None \/ ~text[e][i].vector

BareRows == {[event |-> e, version |-> row[e]] :
               e \in {x \in Events : row[x] # None /\ LacksVectors(x)}}

StartEmbedding ==
  /\ script.at = "off" /\ backfills < MaxBackfills
  /\ BareRows # {}
  /\ backfills' = backfills + 1
  /\ script' = [Off EXCEPT !.at = "embedding", !.rows = BareRows]
  /\ UNCHANGED <<calendarVars, provider, uid, validity, stateFile, mailRows, scan, mailHistory, faults>>

(* Its index is written from the text that was read at the start.  No chunk  *)
(* is deleted.  An embedder that fails leaves the embedding as it was.       *)
EmbedRow(p) ==
  /\ script.at = "embedding" /\ p \in script.rows
  /\ script' = [script EXCEPT !.rows = @ \ {p}]
  /\ \E withVector \in BOOLEAN :
       /\ IF withVector THEN UNCHANGED faults ELSE Fault
       /\ text' = [text EXCEPT ![p.event] =
                     [i \in 0..MaxLength |->
                        IF i <= p.version.length /\ (i > 0 \/ withVector)
                        THEN Entry(p.version, withVector) ELSE @[i]]]
  /\ mixed' = IF row[p.event] # p.version \/ Holds(Sensor, p.event)
              THEN mixed \union {p.event} ELSE mixed
  /\ work' = IF Holds(Sensor, p.event)
             THEN [work EXCEPT ![Sensor].clean = FALSE] ELSE work
  /\ UNCHANGED <<row, marker, flag, linked, provider, uid, validity, stateFile, mailRows, scan,
                 mailHistory, backfills>>

(* The script is through, or is stopped.                                     *)
EndBackfill ==
  /\ script.at # "off"
  /\ script' = Off
  /\ Halted(Backfill)
  /\ UNCHANGED <<row, text, marker, flag, linked, provider, uid, validity, stateFile, mailRows,
                 scan, mailHistory, budgets>>

(***************************************************************************)
(* The writers, within the two programs.                                     *)
(***************************************************************************)
Write(w) == WriterStep(w) /\ UNCHANGED mailVars

WriteFails(w) ==
  /\ WriterFault(w) /\ Fault
  /\ UNCHANGED <<provider, uid, validity, stateFile, mailRows, scan, script, mailHistory, backfills>>

MaildirStep ==
  \/ StartMaildirScan
  \/ \E m \in Mails : TakeFile(m)
  \/ StoreFile \/ IndexFile \/ DescribeFile \/ FinishFile
  \/ EndMaildirScan

ImapStep ==
  \/ StartImapScan
  \/ \E m \in Mails : TakeMessage(m)
  \/ StoreMessage \/ IndexMessage \/ DescribeMessage \/ FinishMessage
  \/ EndImapScan

ScanStep == MaildirStep \/ ImapStep \/ Write(Sensor)

ScanFault ==
  \/ \E m \in Mails : ParseFails(m) \/ FetchFails(m)
  \/ GiveUpFile \/ GiveUpMessage
  \/ Crash

ScriptStep ==
  \/ StartBackfill \/ StartEmbedding \/ EndBackfill
  \/ \E m \in Mails : \/ FillFromMaildir(m) \/ FillFromImap(m)
                      \/ NoMaildirMatch(m) \/ NoImapMatch(m)
  \/ \E p \in script.rows : EmbedRow(p)
  \/ Write(Backfill)

MailNext ==
  \/ ScanStep \/ ScanFault \/ ScriptStep
  \/ \E m \in Mails : MailArrives(m)
  \/ Rebuild
  \/ \E w \in Writers : WriteFails(w)

Fairness ==
  /\ WF_allMailVars(ScanStep)
  /\ \A m \in Mails : WF_allMailVars(MailArrives(m))
  /\ WF_allMailVars(Write(Backfill) \/ EndBackfill)

MailSpec == MailInit /\ [][MailNext]_allMailVars /\ Fairness

MailTypeOK ==
  /\ CalendarTypeOK
  /\ provider \in Providers
  /\ uid \in [Mails -> 0..Cardinality(Mails)]
  /\ validity \in 1..MaxRebuilds + 1
  /\ processed \subseteq stored /\ stored \subseteq Mails
  /\ indexed \subseteq stored /\ described \subseteq stored
  /\ cursor \in [uid : 0..Cardinality(Mails), validity : 0..MaxRebuilds + 1]
  /\ scan.at \in {"waiting", "fetching", "storing", "indexing", "describing", "calendar", "finishing"}
  /\ scan.left \subseteq Mails
  /\ script.at \in {"off", "filling", "embedding"} /\ script.mails \subseteq described
  /\ failed \subseteq Mails /\ slipped \in BOOLEAN

(* A mail at or below the cursor of the folder as it is numbered now was     *)
(* processed, or a scan met it in vain: the cursor never passes a mail that  *)
(* no scan has looked at, except that a folder numbered anew whose first     *)
(* scan saw nothing keeps the cursor of its old numbers.                     *)
PassedIsMet ==
  cursor.validity = validity /\ ~slipped =>
    \A m \in Present : uid[m] <= cursor.uid => m \in processed \union failed

(* Every mail is processed in the end.  A Maildir is looked at from its      *)
(* start in every scan, so that no failure lasts; a mail of an IMAP folder   *)
(* is lost for good if the scan that met it failed on it.                    *)
EventuallyProcessed ==
  \A m \in Mails :
    <>(\/ m \in processed
       \/ provider = "imap" /\ (m \in failed \/ slipped))
=============================================================================
