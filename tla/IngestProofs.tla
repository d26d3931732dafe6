----------------------------- MODULE IngestProofs -----------------------------
(***************************************************************************)
(* Proofs that every behaviour of Ingest has its invariants, for every     *)
(* number of requests, resources and batches.                              *)
(***************************************************************************)
EXTENDS Ingest, SequenceTheorems, TLAPS

(* What the helpers return.                                                *)
LEMMA EventTypes ==
    ASSUME NEW e \in Event
    PROVE  /\ e.rid \in Rids
           /\ Key(e) \in Keys
           /\ Checked(e) => e.hash \in Hashes /\ Content(e) \in Keys \X Hashes
           /\ HasBundle(e) => e.hash \in Hashes
  BY ConstantsAssumption DEF Event, Key, Keys, Checked, Content, HasBundle

LEMMA HandledTypes ==
    ASSUME NEW e \in Event, NEW t \in [Rids -> Hashes \cup {NoHash}]
    PROVE  /\ Handled(t, e) \in [Rids -> Hashes \cup {NoHash}]
           /\ \A r \in Rids : r # e.rid => Handled(t, e)[r] = t[r]
           /\ HasBundle(e) => Handled(t, e)[e.rid] = e.hash
           /\ ~HasBundle(e) /\ e.kind = "forget" => Handled(t, e)[e.rid] = NoHash
           /\ ~HasBundle(e) /\ e.kind # "forget" => Handled(t, e) = t
  BY EventTypes DEF Handled

(* A request that is not idle has an event before it.                      *)
LEMMA CurrentEvent ==
    ASSUME TypeOK, NEW q \in Requests, pc[q] # "idle"
    PROVE  /\ todo[q] # <<>>
           /\ Head(todo[q]) \in Event
           /\ Tail(todo[q]) \in Seq(Event)
           /\ Len(todo[q]) > 1 => Tail(todo[q]) # <<>>
  <1>1. todo[q] \in Seq(Event) /\ todo[q] # <<>>
    BY DEF TypeOK
  <1>2. PICK s \in Seq(Event) : s = todo[q]
    BY <1>1
  <1>3. /\ Head(s) \in Event
        /\ Tail(s) \in Seq(Event)
        /\ Len(Tail(s)) = Len(s) - 1
    BY <1>1, <1>2
  <1>4. Len(s) > 1 => Tail(s) # <<>>
    <2> SUFFICES ASSUME Len(s) > 1, Tail(s) = <<>> PROVE FALSE
      OBVIOUS
    <2>1. Len(Tail(s)) = 0
      BY EmptySeq
    <2>2. Len(s) \in Nat
      BY LenProperties
    <2>3. Len(s) - 1 = 0
      BY <1>3, <2>1
    <2>4. \A n \in Nat : n > 1 => n - 1 # 0
      OBVIOUS
    <2> QED BY <2>2, <2>3, <2>4, Zenon
  <1> QED BY <1>1, <1>2, <1>3, <1>4

LEMMA AdvanceTypes ==
    ASSUME TypeOK, NEW q \in Requests, pc[q] # "idle", Advance(q)
    PROVE  /\ pc' \in [Requests -> {"idle", "check", "save", "receipt", "apply", "queue"}]
           /\ todo' \in [Requests -> Seq(Event)]
           /\ \A p \in Requests : pc'[p] # "idle" => todo'[p] # <<>>
  BY CurrentEvent DEF TypeOK, Advance

LEMMA InFlightTypes ==
    ASSUME TypeOK
    PROVE  InFlight \subseteq Keys \X Hashes
  BY CurrentEvent, EventTypes DEF InFlight, Busy

LEMMA ReceiptsStay == [Next]_vars => receipts' = receipts
  BY DEF Next, vars

LEMMA TypeStep == TypeOK /\ [Next]_vars => TypeOK'
  <1> SUFFICES ASSUME TypeOK, [Next]_vars PROVE TypeOK'
    OBVIOUS
  <1>r. receipts' \in BOOLEAN
    BY ReceiptsStay DEF TypeOK
  <1> USE ConstantsAssumption, <1>r
  <1>1. CASE Start
    BY <1>1 DEF TypeOK, Start, history, counters
  <1>2. ASSUME NEW q \in Requests, NEW batch \in Batches, Receive(q, batch)
        PROVE  TypeOK'
    BY <1>2 DEF TypeOK, Receive, history, counters
  <1>3. ASSUME NEW q \in Requests, Reject(q) PROVE TypeOK'
    BY <1>3 DEF TypeOK, Reject, history, counters
  <1>4. ASSUME NEW q \in Requests, Skip(q) PROVE TypeOK'
    BY <1>4, CurrentEvent, EventTypes, AdvanceTypes DEF TypeOK, Skip, counters
  <1>5. ASSUME NEW q \in Requests, Record(q) PROVE TypeOK'
    BY <1>5, CurrentEvent, EventTypes DEF TypeOK, Record, Recorded, history, counters
  <1>6. ASSUME NEW q \in Requests, Bypass(q) PROVE TypeOK'
    BY <1>6 DEF TypeOK, Bypass, AfterCheck, history, counters
  <1>7. ASSUME NEW q \in Requests, SaveDedup(q) PROVE TypeOK'
    <2>1. dedupFile' \in [Keys -> Hashes \cup {NoHash}]
      BY <1>7 DEF TypeOK, SaveDedup, Nothing
    <2>2. unsaved' \in BOOLEAN
      BY <1>7 DEF SaveDedup
    <2>3. failedSaves' \in Nat
      BY <1>7 DEF TypeOK, SaveDedup
    <2> QED BY <1>7, <2>1, <2>2, <2>3 DEF TypeOK, SaveDedup, AfterCheck
  <1>8. ASSUME NEW q \in Requests, Resume(q) PROVE TypeOK'
    BY <1>8 DEF TypeOK, Resume, history, counters
  <1>9. ASSUME NEW q \in Requests, Apply(q) PROVE TypeOK'
    BY <1>9, CurrentEvent, HandledTypes DEF TypeOK, Apply, history, counters
  <1>10. ASSUME NEW q \in Requests, Queue(q) PROVE TypeOK'
    <2>1. Head(todo[q]) \in Event
      BY <1>10, CurrentEvent DEF Queue
    <2>2. /\ shown' \in [Rids -> Hashes \cup {NoHash}]
          /\ newest' \in [Keys -> Hashes \cup {NoHash}]
          /\ queued' \subseteq Keys \X Hashes
          /\ cut' \subseteq Rids
          /\ outdated' \subseteq Keys
      BY <1>10, <2>1, HandledTypes, EventTypes DEF Queue, TypeOK
    <2> QED BY <1>10, <2>2, AdvanceTypes DEF TypeOK, Queue, counters
  <1>11. CASE Crash
    <2>1. cut' \subseteq Rids
      BY <1>11, CurrentEvent, EventTypes DEF Crash, TypeOK
    <2>2. lost' \subseteq Keys \X Hashes
      BY <1>11, InFlightTypes DEF Crash, TypeOK
    <2>3. up' \in BOOLEAN /\ unsaved' \in BOOLEAN
      BY <1>11 DEF Crash, TypeOK
    <2>4. /\ dedup' \in [Keys -> Hashes \cup {NoHash}]
          /\ dedupFile' \in [Keys -> Hashes \cup {NoHash}]
          /\ cache' \in [Rids -> Hashes \cup {NoHash}]
          /\ halts' \in Nat /\ failedSaves' \in Nat
      BY <1>11 DEF TypeOK, Crash, Nothing, NoBundles
    <2>5. /\ pc' = [q \in Requests |-> "idle"]
          /\ todo' = [q \in Requests |-> <<>>]
          /\ UNCHANGED <<disk, shown, newest, queued, skipped, outdated>>
      BY <1>11 DEF Crash
    <2> QED BY <2>1, <2>2, <2>3, <2>4, <2>5 DEF TypeOK
  <1>12. CASE UNCHANGED vars
    BY <1>12 DEF TypeOK, vars, history, counters
  <1> QED
    BY <1>1, <1>2, <1>3, <1>4, <1>5, <1>6, <1>7, <1>8, <1>9, <1>10, <1>11, <1>12
    DEF Next

-----------------------------------------------------------------------------
(* What the actions do to the requests, and to the contents in flight.     *)

LEMMA AdvanceMoves ==
    ASSUME TypeOK, NEW q \in Requests, pc[q] # "idle", Advance(q)
    PROVE  /\ pc'[q] \in {"idle", "check"}
           /\ \A p \in Requests \ {q} : pc'[p] = pc[p] /\ todo'[p] = todo[p]
  BY DEF TypeOK, Advance

(* Apart from those that start to emit, requests in flight stay as they    *)
(* are, go one step further, or queue their event.                         *)
LEMMA FlightStep ==
    ASSUME TypeOK, Next, ~Crash
    PROVE  InFlight \subseteq InFlight' \cup queued'
  <1> SUFFICES ASSUME NEW p \in Requests, pc[p] \in Busy, Checked(Head(todo[p]))
               PROVE  Content(Head(todo[p])) \in InFlight' \cup queued'
    BY DEF InFlight
  <1> DEFINE Stays == pc'[p] \in Busy /\ todo'[p] = todo[p]
  <1>0. Stays => Content(Head(todo[p])) \in InFlight'
    BY DEF InFlight
  <1>1. CASE Start
    BY <1>0, <1>1 DEF Start
  <1>2. ASSUME NEW q \in Requests, NEW batch \in Batches, Receive(q, batch)
        PROVE  Stays
    BY <1>2 DEF Receive, TypeOK, Busy
  <1>3. ASSUME NEW q \in Requests, Reject(q) PROVE Stays
    BY <1>3 DEF Reject, TypeOK, Busy
  <1>4. ASSUME NEW q \in Requests, Skip(q) PROVE Stays
    BY <1>4, AdvanceMoves DEF Skip, Busy
  <1>5. ASSUME NEW q \in Requests, Record(q) PROVE Stays
    BY <1>5 DEF Record, TypeOK, Busy
  <1>6. ASSUME NEW q \in Requests, Bypass(q) PROVE Stays
    BY <1>6 DEF Bypass, TypeOK, Busy
  <1>7. ASSUME NEW q \in Requests, SaveDedup(q) PROVE Stays
    BY <1>7 DEF SaveDedup, AfterCheck, TypeOK, Busy
  <1>8. ASSUME NEW q \in Requests, Resume(q) PROVE Stays
    BY <1>8 DEF Resume, TypeOK, Busy
  <1>9. ASSUME NEW q \in Requests, Apply(q) PROVE Stays
    BY <1>9 DEF Apply, TypeOK, Busy
  <1>10. ASSUME NEW q \in Requests, Queue(q)
         PROVE  Stays \/ Content(Head(todo[p])) \in queued'
    <2>1. CASE p = q
      BY <1>10, <2>1 DEF Queue
    <2>2. CASE p # q
      BY <1>10, <2>2, AdvanceMoves DEF Queue, Busy
    <2> QED BY <2>1, <2>2
  <1> QED
    BY <1>0, <1>1, <1>2, <1>3, <1>4, <1>5, <1>6, <1>7, <1>8, <1>9, <1>10
    DEF Next

(* Nothing that was queued, in flight or lost is ever unaccounted for.     *)
LEMMA AccountGrows ==
    ASSUME TypeOK, [Next]_vars
    PROVE  queued \cup InFlight \cup lost \subseteq
               queued' \cup InFlight' \cup lost'
  <1>1. CASE Crash
    BY <1>1 DEF Crash
  <1>2. CASE Next /\ ~Crash
    <2>1. queued \subseteq queued' /\ lost \subseteq lost'
      BY <1>2 DEF Next, history, counters, Start, Receive, Reject, Skip, Record, Bypass,
                  SaveDedup, Resume, Apply, Queue
    <2> QED BY <1>2, <2>1, FlightStep
  <1>3. CASE UNCHANGED vars
    BY <1>3 DEF vars, history, counters, InFlight
  <1> QED BY <1>1, <1>2, <1>3

-----------------------------------------------------------------------------
(* Each part of the inductive invariant is kept by every step.             *)

LEMMA OneRunsStep == IInv /\ [Next]_vars => OneRuns'
  <1> SUFFICES ASSUME IInv, [Next]_vars PROVE OneRuns'
    OBVIOUS
  <1>r. receipts' = receipts
    BY ReceiptsStay
  <1> USE <1>r DEF IInv, OneRuns
  <1>1. CASE Start
    BY <1>1 DEF Start
  <1>2. ASSUME NEW q \in Requests, NEW batch \in Batches, Receive(q, batch)
        PROVE  OneRuns'
    BY <1>2 DEF Receive, LoopFree, TypeOK
  <1>3. ASSUME NEW q \in Requests, Reject(q) PROVE OneRuns'
    BY <1>3 DEF Reject, TypeOK
  <1>4. ASSUME NEW q \in Requests, Skip(q) PROVE OneRuns'
    BY <1>4, AdvanceMoves DEF Skip
  <1>5. ASSUME NEW q \in Requests, Record(q) PROVE OneRuns'
    BY <1>5 DEF Record, TypeOK
  <1>6. ASSUME NEW q \in Requests, Bypass(q) PROVE OneRuns'
    BY <1>6 DEF Bypass, AfterCheck, TypeOK
  <1>7. ASSUME NEW q \in Requests, SaveDedup(q) PROVE OneRuns'
    BY <1>7 DEF SaveDedup, AfterCheck, TypeOK
  <1>8. ASSUME NEW q \in Requests, Resume(q) PROVE OneRuns'
    BY <1>8 DEF Resume, LoopFree, TypeOK
  <1>9. ASSUME NEW q \in Requests, Apply(q) PROVE OneRuns'
    BY <1>9 DEF Apply, TypeOK
  <1>10. ASSUME NEW q \in Requests, Queue(q) PROVE OneRuns'
    BY <1>10, AdvanceMoves DEF Queue
  <1>11. CASE Crash
    BY <1>11 DEF Crash
  <1>12. CASE UNCHANGED vars
    BY <1>12 DEF vars
  <1> QED
    BY <1>1, <1>2, <1>3, <1>4, <1>5, <1>6, <1>7, <1>8, <1>9, <1>10, <1>11, <1>12
    DEF Next

(* A step by a request leaves the process up.                              *)
LEMMA StillUp ==
    ASSUME IInv, Next, ~Start, ~Crash
    PROVE  up /\ up'
  BY DEF Next, IInv, OneRuns, Receive, Reject, Skip, Record, Bypass, SaveDedup,
         Resume, Apply, Queue

LEMMA NothingBeforeStartStep == IInv /\ [Next]_vars => NothingBeforeStart'
  <1> SUFFICES ASSUME IInv, [Next]_vars PROVE NothingBeforeStart'
    OBVIOUS
  <1>1. CASE Start
    BY <1>1 DEF Start, NothingBeforeStart
  <1>2. CASE Crash
    BY <1>2 DEF Crash, NothingBeforeStart, IInv, TypeOK
  <1>3. CASE Next /\ ~Start /\ ~Crash
    BY <1>3, StillUp DEF NothingBeforeStart
  <1>4. CASE UNCHANGED vars
    BY <1>4 DEF vars, history, counters, NothingBeforeStart, IInv
  <1> QED BY <1>1, <1>2, <1>3, <1>4

(* The hashes: every step that does not record one keeps them, and the     *)
(* one that does has its content in flight.                                *)
LEMMA TablesStep ==
    ASSUME IInv, Next
    PROVE  \/ /\ dedup' \in {dedup, dedupFile, Nothing}
              /\ dedupFile' \in {dedup, dedupFile, Nothing}
           \/ /\ \E q \in Requests : Record(q)
              /\ dedupFile' = dedupFile
  BY DEF Next, Start, Receive, Reject, Skip, Record, Bypass, SaveDedup, Resume,
         Apply, Queue, Crash

LEMMA HashesAccountedStep == IInv /\ [Next]_vars => HashesAccounted'
  <1> SUFFICES ASSUME IInv, [Next]_vars, NEW k \in Keys
               PROVE  /\ dedup'[k] # NoHash =>
                             <<k, dedup'[k]>> \in queued' \cup InFlight' \cup lost'
                      /\ dedupFile'[k] # NoHash =>
                             <<k, dedupFile'[k]>> \in queued' \cup InFlight' \cup lost'
    BY DEF HashesAccounted
  <1>1. /\ dedup[k] # NoHash =>
               <<k, dedup[k]>> \in queued' \cup InFlight' \cup lost'
        /\ dedupFile[k] # NoHash =>
               <<k, dedupFile[k]>> \in queued' \cup InFlight' \cup lost'
    BY AccountGrows DEF IInv, HashesAccounted
  <1>2. CASE /\ dedup' \in {dedup, dedupFile, Nothing}
             /\ dedupFile' \in {dedup, dedupFile, Nothing}
    BY <1>1, <1>2 DEF Nothing
  <1>3. ASSUME NEW q \in Requests, Record(q), dedupFile' = dedupFile
        PROVE  dedup'[k] # NoHash =>
                   <<k, dedup'[k]>> \in queued' \cup InFlight' \cup lost'
    <2> DEFINE e == Head(todo[q])
    <2>1. /\ pc[q] = "check" /\ Checked(e) /\ e \in Event
          /\ dedup' = [dedup EXCEPT ![Key(e)] = e.hash]
          /\ pc'[q] = "save" /\ todo' = todo
      BY <1>3, CurrentEvent DEF Record, Recorded, IInv, TypeOK
    <2>2. Content(e) \in InFlight'
      BY <2>1 DEF InFlight, Busy
    <2>3. CASE k = Key(e)
      BY <2>1, <2>2, <2>3 DEF Content, IInv, TypeOK
    <2>4. CASE k # Key(e)
      BY <1>1, <2>1, <2>4 DEF IInv, TypeOK
    <2> QED BY <2>3, <2>4
  <1>4. CASE UNCHANGED vars
    BY <1>1, <1>4 DEF vars
  <1> QED BY <1>1, <1>2, <1>3, <1>4, TablesStep

LEMMA OnlyCrashesLoseStep == IInv /\ [Next]_vars => OnlyCrashesLose'
  <1> SUFFICES ASSUME IInv, [Next]_vars
               PROVE  skipped' \subseteq queued' \cup InFlight' \cup lost'
    BY DEF OnlyCrashesLose
  <1>1. skipped \subseteq queued' \cup InFlight' \cup lost'
    BY AccountGrows DEF IInv, OnlyCrashesLose
  <1>2. ASSUME NEW q \in Requests, Skip(q)
        PROVE  skipped' \subseteq queued' \cup InFlight' \cup lost'
    <2> DEFINE e == Head(todo[q])
    <2>1. /\ Key(e) \in Keys /\ Checked(e) /\ e.hash # NoHash
          /\ dedup[Key(e)] = e.hash
          /\ skipped' = skipped \cup {Content(e)}
      BY <1>2, CurrentEvent, EventTypes DEF Skip, Checked, IInv
    <2>2. Content(e) \in queued \cup InFlight \cup lost
      BY <2>1 DEF Content, IInv, HashesAccounted
    <2> QED BY <1>1, <2>1, <2>2, AccountGrows DEF IInv
  <1>3. skipped' = skipped \/ \E q \in Requests : Skip(q)
    BY DEF Next, vars, history, counters, Start, Receive, Reject, Record, Bypass, SaveDedup,
           Resume, Apply, Queue, Crash
  <1> QED BY <1>1, <1>2, <1>3

(* A request that is past the check has its key in the tables.             *)
LEMMA RecordedFirstStep == IInv /\ [Next]_vars => RecordedFirst'
  <1> SUFFICES ASSUME IInv, [Next]_vars,
                      NEW p \in Requests, pc'[p] \in Busy,
                      Checked(Head(todo'[p]))
               PROVE  LET e == Head(todo'[p])
                      IN  /\ dedup'[Key(e)] # NoHash
                          /\ pc'[p] # "save" => dedupFile'[Key(e)] # NoHash \/ unsaved'
                          /\ ~receipts => dedup'[Key(e)] = e.hash
                          /\ ~receipts /\ pc'[p] # "save" =>
                                 dedupFile'[Key(e)] = e.hash \/ unsaved'
    BY ReceiptsStay DEF RecordedFirst
  <1> DEFINE e == Head(todo[p])
             Goal == /\ todo'[p] = todo[p]
                     /\ dedup'[Key(e)] # NoHash
                     /\ pc'[p] # "save" => dedupFile'[Key(e)] # NoHash \/ unsaved'
                     /\ ~receipts => dedup'[Key(e)] = e.hash
                     /\ ~receipts /\ pc'[p] # "save" =>
                            dedupFile'[Key(e)] = e.hash \/ unsaved'
             Was == /\ pc[p] \in Busy
                    /\ todo'[p] = todo[p]
                    /\ pc'[p] # "save" => pc[p] # "save"
  <1>0. /\ TypeOK /\ OneRuns /\ RecordedFirst /\ MemoryRemembers
      BY DEF IInv
  <1>1. Was /\ UNCHANGED <<dedup, dedupFile, unsaved>> => Goal
    BY <1>0 DEF RecordedFirst
  <1>2. CASE Start
    BY <1>0, <1>2 DEF Start, OneRuns, Busy
  <1>3. ASSUME NEW q \in Requests, NEW batch \in Batches, Receive(q, batch)
        PROVE  Goal
    BY <1>0, <1>1, <1>3 DEF Receive, history, TypeOK, Busy
  <1>4. ASSUME NEW q \in Requests, Reject(q) PROVE Goal
    BY <1>0, <1>1, <1>4 DEF Reject, history, TypeOK, Busy
  <1>5. ASSUME NEW q \in Requests, Skip(q) PROVE Goal
    BY <1>0, <1>1, <1>5, AdvanceMoves DEF Skip, Busy
  <1>6. ASSUME NEW q \in Requests, Record(q) PROVE Goal
    <2> DEFINE f == Head(todo[q])
    <2>1. /\ pc[q] = "check" /\ Checked(f) /\ f \in Event /\ Key(f) \in Keys
          /\ dedup' = [dedup EXCEPT ![Key(f)] = f.hash]
          /\ f.hash # NoHash
          /\ pc'[q] = "save" /\ todo' = todo /\ dedupFile' = dedupFile
          /\ unsaved' = unsaved
          /\ \A r \in Requests \ {q} : pc'[r] = pc[r]
      BY <1>0, <1>6, CurrentEvent, EventTypes, ConstantsAssumption
      DEF Record, Recorded, TypeOK, Checked, history
    <2>2. CASE p = q
      BY <1>0, <2>1, <2>2 DEF TypeOK
    <2>3. CASE p # q
      <3>1. pc[p] = "receipt" /\ receipts
        BY <1>0, <2>1, <2>3 DEF OneRuns, Busy
      <3>2. dedup[Key(e)] # NoHash /\ (dedupFile[Key(e)] # NoHash \/ unsaved)
        BY <1>0, <3>1, <2>1 DEF RecordedFirst, Busy
      <3> QED BY <1>0, <2>1, <3>1, <3>2 DEF TypeOK
    <2> QED BY <2>2, <2>3
  <1>7. ASSUME NEW q \in Requests, Bypass(q) PROVE Goal
    BY <1>0, <1>1, <1>7 DEF Bypass, history, TypeOK, Busy, AfterCheck
  <1>8. ASSUME NEW q \in Requests, SaveDedup(q) PROVE Goal
    <2>1. /\ pc[q] = "save" /\ todo' = todo /\ dedup' = dedup
          /\ dedupFile' = dedup \/ unsaved'
          /\ \A r \in Requests \ {q} : pc'[r] = pc[r]
      BY <1>0, <1>8 DEF SaveDedup, TypeOK
    <2>2. pc[p] \in Busy
      BY <2>1 DEF Busy
    <2> QED BY <1>0, <2>1, <2>2 DEF RecordedFirst
  <1>9. ASSUME NEW q \in Requests, Resume(q) PROVE Goal
    BY <1>0, <1>1, <1>9 DEF Resume, history, TypeOK, Busy
  <1>10. ASSUME NEW q \in Requests, Apply(q) PROVE Goal
    BY <1>0, <1>1, <1>10 DEF Apply, history, TypeOK, Busy
  <1>11. ASSUME NEW q \in Requests, Queue(q) PROVE Goal
    BY <1>0, <1>1, <1>11, AdvanceMoves DEF Queue, Busy
  <1>12. CASE Crash
    BY <1>12 DEF Crash, Busy
  <1>13. CASE UNCHANGED vars
    BY <1>1, <1>13 DEF vars, history
  <1> QED
    BY <1>2, <1>3, <1>4, <1>5, <1>6, <1>7, <1>8, <1>9, <1>10, <1>11, <1>12, <1>13
    DEF Next

(* What the steps do to the tables and to the history of queueing: those   *)
(* that are not listed leave all of it as it is.                           *)
LEMMA HistoryStep ==
    ASSUME [Next]_vars
    PROVE  \/ Start \/ Crash
           \/ \E q \in Requests : Record(q) \/ SaveDedup(q) \/ Queue(q)
           \/ UNCHANGED <<up, dedup, dedupFile, newest, queued, lost, unsaved, outdated>>
  BY DEF Next, vars, history, Receive, Reject, Skip, Bypass, Resume, Apply

LEMMA MemoryRemembersStep == IInv /\ [Next]_vars => MemoryRemembers'
  <1> SUFFICES ASSUME IInv, [Next]_vars, up', NEW k \in Keys, newest'[k] # NoHash
               PROVE  dedup'[k] # NoHash \/ k \in outdated'
    BY DEF MemoryRemembers
  <1>0. /\ TypeOK
        /\ up /\ newest[k] # NoHash => dedup[k] # NoHash \/ k \in outdated
    BY DEF IInv, MemoryRemembers
  <1>1. CASE Start
    BY <1>1 DEF Start, IInv, RestartRemembers
  <1>2. CASE Crash
    BY <1>2 DEF Crash
  <1>3. ASSUME NEW q \in Requests, Record(q)
        PROVE  dedup'[k] # NoHash \/ k \in outdated'
    <2> DEFINE f == Head(todo[q])
    <2>1. /\ Key(f) \in Keys /\ f.hash # NoHash
          /\ dedup' = [dedup EXCEPT ![Key(f)] = f.hash]
          /\ UNCHANGED <<up, newest, outdated>>
      BY <1>0, <1>3, CurrentEvent, EventTypes DEF Record, Recorded, Checked, history
    <2> QED BY <1>0, <2>1 DEF TypeOK
  <1>4. ASSUME NEW q \in Requests, SaveDedup(q)
        PROVE  dedup'[k] # NoHash \/ k \in outdated'
    BY <1>0, <1>4 DEF SaveDedup
  <1>5. ASSUME NEW q \in Requests, Queue(q)
        PROVE  dedup'[k] # NoHash \/ k \in outdated'
    <2> DEFINE e == Head(todo[q])
    <2>1. /\ Checked(e) => dedup[Key(e)] # NoHash
          /\ newest' = IF Checked(e) THEN [newest EXCEPT ![Key(e)] = e.hash]
                       ELSE newest
          /\ outdated' = IF Checked(e) THEN outdated \ {Key(e)} ELSE outdated
          /\ UNCHANGED <<up, dedup>>
      BY <1>5 DEF Queue, IInv, RecordedFirst, Busy
    <2> QED BY <1>0, <2>1 DEF TypeOK
  <1> QED BY <1>0, <1>1, <1>2, <1>3, <1>4, <1>5, HistoryStep

LEMMA RestartRemembersStep == IInv /\ [Next]_vars => RestartRemembers'
  <1> SUFFICES ASSUME IInv, [Next]_vars, NEW k \in Keys, newest'[k] # NoHash
               PROVE  dedupFile'[k] # NoHash \/ unsaved' \/ k \in outdated'
    BY DEF RestartRemembers
  <1>0. /\ TypeOK
        /\ newest[k] # NoHash => dedupFile[k] # NoHash \/ unsaved \/ k \in outdated
    BY DEF IInv, RestartRemembers
  <1>1. CASE Start
    BY <1>0, <1>1 DEF Start
  <1>2. CASE Crash
    BY <1>0, <1>2 DEF Crash
  <1>3. ASSUME NEW q \in Requests, Record(q)
        PROVE  dedupFile'[k] # NoHash \/ unsaved' \/ k \in outdated'
    BY <1>0, <1>3 DEF Record, history
  <1>4. ASSUME NEW q \in Requests, SaveDedup(q)
        PROVE  dedupFile'[k] # NoHash \/ unsaved' \/ k \in outdated'
    <2>1. up /\ newest[k] # NoHash
      BY <1>4 DEF SaveDedup, IInv, OneRuns
    <2> QED BY <1>4, <2>1 DEF SaveDedup, IInv, MemoryRemembers
  <1>5. ASSUME NEW q \in Requests, Queue(q)
        PROVE  dedupFile'[k] # NoHash \/ unsaved' \/ k \in outdated'
    <2> DEFINE e == Head(todo[q])
    <2>1. /\ Checked(e) => dedupFile[Key(e)] # NoHash \/ unsaved
          /\ newest' = IF Checked(e) THEN [newest EXCEPT ![Key(e)] = e.hash]
                       ELSE newest
          /\ outdated' = IF Checked(e) THEN outdated \ {Key(e)} ELSE outdated
          /\ UNCHANGED <<dedupFile, unsaved>>
      BY <1>5 DEF Queue, IInv, RecordedFirst, Busy
    <2> QED BY <1>0, <2>1 DEF TypeOK
  <1> QED BY <1>0, <1>1, <1>2, <1>3, <1>4, <1>5, HistoryStep

(* The contents in flight without receipts: what runs, and nothing else.   *)
LEMMA OneInFlight ==
    ASSUME IInv, ~receipts, NEW q \in Requests, pc[q] \notin {"idle", "receipt"}
    PROVE  /\ pc[q] \notin Busy => InFlight = {}
           /\ ~Checked(Head(todo[q])) => InFlight = {}
           /\ InFlight \subseteq {Content(Head(todo[q]))}
  BY DEF IInv, OneRuns, InFlight, Busy

LEMMA ComparedWithNewestStep == IInv /\ [Next]_vars => ComparedWithNewest'
  <1> SUFFICES ASSUME IInv, [Next]_vars, ~receipts, NEW k \in Keys
               PROVE  /\ up' => Current(dedup, k)'
                      /\ unsaved' \/ Current(dedupFile, k)'
    BY ReceiptsStay DEF ComparedWithNewest
  <1>0. /\ TypeOK /\ OneRuns /\ RecordedFirst
        /\ up => Current(dedup, k)
        /\ unsaved \/ Current(dedupFile, k)
    BY DEF IInv, ComparedWithNewest
  <1>1. CASE Start
    <2>1. /\ dedup' = dedupFile /\ dedupFile' = dedupFile /\ newest' = newest
          /\ lost' = lost /\ InFlight' = InFlight
          /\ outdated' = IF unsaved THEN {l \in Keys : dedupFile[l] # newest[l]}
                         ELSE outdated
      BY <1>1 DEF Start, InFlight
    <2> QED BY <1>0, <2>1 DEF Current
  <1>2. CASE Crash
    <2>1. /\ ~up' /\ newest' = newest /\ outdated' = outdated
          /\ lost' = lost \cup InFlight
          /\ unsaved' \/ (unsaved' = unsaved /\ dedupFile' = dedupFile)
      BY <1>2 DEF Crash
    <2> QED BY <1>0, <2>1 DEF Current
  <1>3. ASSUME NEW q \in Requests, Record(q)
        PROVE  Current(dedup, k)' /\ (unsaved' \/ Current(dedupFile, k)')
    <2> DEFINE e == Head(todo[q])
    <2>1. /\ pc[q] = "check" /\ Checked(e) /\ e \in Event /\ up
          /\ dedup' = [dedup EXCEPT ![Key(e)] = e.hash]
          /\ pc'[q] = "save" /\ todo' = todo
          /\ UNCHANGED <<dedupFile, newest, lost, outdated, unsaved>>
      BY <1>0, <1>3, CurrentEvent DEF Record, Recorded, TypeOK, OneRuns, history
    <2>2. Content(e) \in InFlight'
      BY <2>1 DEF InFlight, Busy
    <2>3. InFlight = {}
      BY <2>1, OneInFlight DEF Busy
    <2>4. Current(dedup, k)'
      <3>1. CASE k = Key(e)
        BY <1>0, <2>1, <2>2, <3>1 DEF Content, Current, TypeOK
      <3>2. CASE k # Key(e)
        BY <1>0, <2>1, <2>3, <3>2 DEF Current, TypeOK
      <3> QED BY <3>1, <3>2
    <2>5. unsaved' \/ Current(dedupFile, k)'
      BY <1>0, <2>1, <2>3 DEF Current
    <2> QED BY <2>4, <2>5
  <1>4. ASSUME NEW q \in Requests, SaveDedup(q)
        PROVE  Current(dedup, k)' /\ (unsaved' \/ Current(dedupFile, k)')
    <2> DEFINE e == Head(todo[q])
    <2>1. /\ pc[q] = "save" /\ up
          /\ pc'[q] \in Busy /\ todo' = todo
          /\ dedupFile' = dedup \/ unsaved'
          /\ UNCHANGED <<dedup, newest, lost, outdated>>
      BY <1>0, <1>4 DEF SaveDedup, AfterCheck, TypeOK, OneRuns, Busy
    <2>2. InFlight \subseteq {Content(e)} /\ (~Checked(e) => InFlight = {})
      BY <2>1, OneInFlight
    <2>3. Checked(e) => Content(e) \in InFlight'
      BY <2>1 DEF InFlight
    <2>4. Current(dedup, k)'
      BY <1>0, <2>1, <2>2, <2>3 DEF Current
    <2> QED BY <2>1, <2>4 DEF Current
  <1>5. ASSUME NEW q \in Requests, Queue(q)
        PROVE  Current(dedup, k)' /\ (unsaved' \/ Current(dedupFile, k)')
    <2> DEFINE e == Head(todo[q])
    <2>1. /\ pc[q] = "queue" /\ up
          /\ newest' = IF Checked(e) THEN [newest EXCEPT ![Key(e)] = e.hash]
                       ELSE newest
          /\ outdated' = IF Checked(e) THEN outdated \ {Key(e)} ELSE outdated
          /\ UNCHANGED <<dedup, dedupFile, lost, unsaved>>
          /\ Checked(e) => /\ dedup[Key(e)] = e.hash
                           /\ dedupFile[Key(e)] = e.hash \/ unsaved
      BY <1>0, <1>5 DEF Queue, RecordedFirst, OneRuns, Busy
    <2>2. InFlight \subseteq {Content(e)} /\ (~Checked(e) => InFlight = {})
      BY <2>1, OneInFlight
    <2>3. CASE Checked(e) /\ k = Key(e)
      BY <1>0, <2>1, <2>3 DEF Current, TypeOK
    <2>4. CASE ~(Checked(e) /\ k = Key(e))
      <3>1. newest'[k] = newest[k] /\ (k \in outdated => k \in outdated')
        BY <1>0, <2>1, <2>4 DEF TypeOK
      <3>2. \A h : <<k, h>> \notin InFlight
        BY <2>2, <2>4 DEF Content
      <3> QED BY <1>0, <2>1, <3>1, <3>2 DEF Current
    <2> QED BY <2>3, <2>4
  <1>6. ASSUME NEW q \in Requests,
               \/ \E batch \in Batches : Receive(q, batch)
               \/ Reject(q) \/ Skip(q) \/ Bypass(q) \/ Resume(q) \/ Apply(q)
        PROVE  InFlight \subseteq InFlight'
    <2> SUFFICES ASSUME NEW p \in Requests, pc[p] \in Busy, Checked(Head(todo[p]))
                 PROVE  Content(Head(todo[p])) \in InFlight'
      BY DEF InFlight
    <2>1. todo'[p] = todo[p] /\ pc'[p] \in Busy
      BY <1>0, <1>6, AdvanceMoves
      DEF Receive, Reject, Skip, Bypass, Resume, Apply, AfterCheck, TypeOK, Busy
    <2> QED BY <2>1 DEF InFlight
  <1>7. CASE UNCHANGED vars
    BY <1>0, <1>7 DEF vars, history, InFlight, Current
  <1>8. ASSUME NEW q \in Requests,
               \/ \E batch \in Batches : Receive(q, batch)
               \/ Reject(q) \/ Skip(q) \/ Bypass(q) \/ Resume(q) \/ Apply(q)
        PROVE  UNCHANGED <<up, dedup, dedupFile, newest, lost, unsaved, outdated>>
    BY <1>8 DEF Receive, Reject, Skip, Bypass, Resume, Apply, history
  <1>9. ASSUME UNCHANGED <<up, dedup, dedupFile, newest, lost, unsaved, outdated>>,
               InFlight \subseteq InFlight'
        PROVE  /\ up' => Current(dedup, k)'
               /\ unsaved' \/ Current(dedupFile, k)'
    BY <1>0, <1>9 DEF Current
  <1> QED BY <1>1, <1>2, <1>3, <1>4, <1>5, <1>6, <1>7, <1>8, <1>9 DEF Next

(* Emission: nothing but its two halves changes the bundles or what the    *)
(* queue shows of them, as long as the process is up.                      *)
LEMMA BundlesStep ==
    ASSUME [Next]_vars
    PROVE  \/ Start \/ Crash
           \/ \E q \in Requests : Apply(q) \/ Queue(q)
           \/ UNCHANGED <<up, cache, disk, shown, cut, halts>>
  BY DEF Next, vars, history, counters, Receive, Reject, Skip, Record, Bypass, SaveDedup, Resume

LEMMA QueueingStep ==
    ASSUME IInv, [Next]_vars, ~Crash, NEW p \in Requests, ~Apply(p)
    PROVE  pc'[p] = "queue" =>
               /\ pc[p] = "queue" /\ todo'[p] = todo[p]
               /\ \A q \in Requests : ~Apply(q) /\ ~Queue(q)
  <1> USE DEF IInv
  <1>0. /\ TypeOK
        /\ pc[p] = "queue" =>
              \A q \in Requests : q # p => pc[q] \in {"idle", "receipt"}
    BY DEF OneRuns
  <1>1. ASSUME NEW q \in Requests, Apply(q), pc'[p] = "queue" PROVE FALSE
    BY <1>0, <1>1 DEF Apply, TypeOK
  <1>2. ASSUME NEW q \in Requests, Queue(q), pc'[p] = "queue" PROVE FALSE
    BY <1>0, <1>2, AdvanceMoves DEF Queue
  <1>3. ASSUME NEW q \in Requests, Skip(q), pc'[p] = "queue"
        PROVE  pc[p] = "queue" /\ todo'[p] = todo[p]
    BY <1>0, <1>3, AdvanceMoves DEF Skip
  <1>4. ASSUME NEW q \in Requests, pc'[p] = "queue",
               \/ \E batch \in Batches : Receive(q, batch)
               \/ Reject(q) \/ Record(q) \/ Bypass(q) \/ SaveDedup(q) \/ Resume(q)
        PROVE  pc[p] = "queue" /\ todo'[p] = todo[p]
    BY <1>0, <1>4 DEF Receive, Reject, Record, Bypass, SaveDedup, Resume,
                      AfterCheck, TypeOK
  <1>5. CASE Start \/ UNCHANGED vars
    BY <1>5, <1>1, <1>2 DEF Start, vars
  <1> QED BY <1>1, <1>2, <1>3, <1>4, <1>5 DEF Next

LEMMA EmissionInTwoHalvesStep == IInv /\ [Next]_vars => EmissionInTwoHalves'
  <1> SUFFICES ASSUME IInv, [Next]_vars, NEW p \in Requests, pc'[p] = "queue",
                      LET e == Head(todo'[p])
                      IN  HasBundle(e) \/ e.kind = "forget" \/ e.rid \notin cut'
               PROVE  LET e == Head(todo'[p])
                      IN  /\ e.rid \in Durable =>
                                disk'[e.rid] = Handled(shown', e)[e.rid]
                          /\ halts' = 0 => cache'[e.rid] = Handled(shown', e)[e.rid]
    BY DEF EmissionInTwoHalves, Handled, HasBundle
  <1> DEFINE e == Head(todo[p])
  <1>0. TypeOK /\ OneRuns /\ EmissionInTwoHalves /\ CacheFollowsQueue /\ NothingBeforeStart
    BY DEF IInv
  <1>1. CASE Crash
    BY <1>1 DEF Crash
  <1>2. CASE Apply(p)
    <2>1. /\ e \in Event /\ e.rid \in Rids /\ pc[p] = "apply"
          /\ todo' = todo /\ UNCHANGED <<up, shown, cut, halts>>
          /\ cache' = Handled(cache, e)
          /\ disk' = IF e.rid \in Durable THEN Handled(disk, e) ELSE disk
      BY <1>0, <1>2, CurrentEvent, EventTypes DEF Apply, history, counters
    <2>2. \A q \in Requests : pc[q] # "queue"
      BY <1>0, <2>1 DEF OneRuns
    <2>3. CASE HasBundle(e) \/ e.kind = "forget"
      <3>1. /\ Handled(cache, e)[e.rid] = Handled(shown, e)[e.rid]
            /\ Handled(disk, e)[e.rid] = Handled(shown, e)[e.rid]
        <4>0. /\ cache \in [Rids -> Hashes \cup {NoHash}]
              /\ disk \in [Rids -> Hashes \cup {NoHash}]
              /\ shown \in [Rids -> Hashes \cup {NoHash}]
          BY <1>0 DEF TypeOK
        <4>1. CASE HasBundle(e)
          BY <2>1, <4>0, <4>1, HandledTypes, Zenon
        <4>2. CASE ~HasBundle(e)
          BY <2>1, <2>3, <4>0, <4>2, HandledTypes, Zenon
        <4> QED BY <4>1, <4>2
      <3> QED BY <2>1, <3>1
    <2>4. CASE e.rid \notin cut /\ ~HasBundle(e) /\ e.kind # "forget"
      <3>1. /\ e.rid \in Durable => disk[e.rid] = shown[e.rid]
            /\ halts = 0 => cache[e.rid] = shown[e.rid]
        BY <1>0, <2>1, <2>2, <2>4 DEF CacheFollowsQueue, OneRuns
      <3>2. Handled(cache, e) = cache /\ Handled(disk, e) = disk /\ Handled(shown, e) = shown
        BY <1>0, <2>1, <2>4, HandledTypes DEF TypeOK
      <3> QED BY <2>1, <3>1, <3>2
    <2> QED BY <2>1, <2>3, <2>4
  <1>3. CASE ~Crash /\ ~Apply(p)
    <2>1. /\ pc[p] = "queue" /\ todo'[p] = todo[p]
          /\ \A q \in Requests : ~Apply(q) /\ ~Queue(q)
      BY <1>3, QueueingStep
    <2>2. ~Start
      BY <1>0, <2>1 DEF Start, OneRuns
    <2>3. UNCHANGED <<up, cache, disk, shown, cut, halts>>
      BY <1>3, <2>1, <2>2, BundlesStep
    <2> QED BY <1>0, <2>1, <2>3 DEF EmissionInTwoHalves
  <1> QED BY <1>1, <1>2, <1>3

LEMMA CacheFollowsQueueStep == IInv /\ [Next]_vars => CacheFollowsQueue'
  <1> SUFFICES ASSUME IInv, [Next]_vars, NEW r \in Rids, r \notin cut',
                      \A q \in Requests : pc'[q] = "queue" => Head(todo'[q]).rid # r
               PROVE  /\ r \in Durable => disk'[r] = shown'[r]
                      /\ up' /\ halts' = 0 => cache'[r] = shown'[r]
    BY DEF CacheFollowsQueue
  <1> DEFINE Quiet == \A q \in Requests : pc[q] = "queue" => Head(todo[q]).rid # r
  <1>0. /\ TypeOK /\ OneRuns /\ EmissionInTwoHalves /\ NothingBeforeStart
        /\ r \notin cut /\ Quiet => /\ r \in Durable => disk[r] = shown[r]
                                    /\ up /\ halts = 0 => cache[r] = shown[r]
    BY DEF IInv, CacheFollowsQueue
  <1>1. CASE Start
    <2>1. Quiet /\ r \notin cut
      BY <1>0, <1>1 DEF Start, OneRuns, history, counters
    <2> QED BY <1>0, <1>1, <2>1 DEF Start, history, counters, NothingBeforeStart
  <1>2. CASE Crash
    <2>1. Quiet /\ r \notin cut
      BY <1>2 DEF Crash
    <2> QED BY <1>0, <1>2, <2>1 DEF Crash
  <1>3. ASSUME NEW q \in Requests, Apply(q)
        PROVE  /\ r \in Durable => disk'[r] = shown'[r]
               /\ up' /\ halts' = 0 => cache'[r] = shown'[r]
    <2> DEFINE e == Head(todo[q])
    <2>1. /\ e \in Event /\ pc[q] = "apply" /\ pc'[q] = "queue"
          /\ todo' = todo /\ UNCHANGED <<up, shown, cut, halts>>
          /\ cache' = Handled(cache, e)
          /\ disk' = IF e.rid \in Durable THEN Handled(disk, e) ELSE disk
      BY <1>0, <1>3, CurrentEvent DEF Apply, history, counters, TypeOK
    <2>2. e.rid # r /\ Quiet
      BY <1>0, <2>1 DEF OneRuns
    <2> QED BY <1>0, <2>1, <2>2, HandledTypes DEF TypeOK
  <1>4. ASSUME NEW q \in Requests, Queue(q)
        PROVE  /\ r \in Durable => disk'[r] = shown'[r]
               /\ up' /\ halts' = 0 => cache'[r] = shown'[r]
    <2> DEFINE e == Head(todo[q])
    <2>1. /\ e \in Event /\ pc[q] = "queue"
          /\ shown' = Handled(shown, e)
          /\ cut' = IF HasBundle(e) \/ e.kind = "forget" THEN cut \ {e.rid} ELSE cut
          /\ UNCHANGED <<up, cache, disk, halts>>
      BY <1>0, <1>4, CurrentEvent DEF Queue, counters
    <2>2. CASE e.rid = r
      <3>1. HasBundle(e) \/ e.kind = "forget" \/ e.rid \notin cut
        BY <2>1, <2>2
      <3> QED BY <1>0, <2>1, <2>2, <3>1 DEF EmissionInTwoHalves
    <2>3. CASE e.rid # r
      <3>1. Quiet /\ r \notin cut
        BY <1>0, <2>1, <2>3 DEF OneRuns
      <3>2. shown'[r] = shown[r]
        BY <1>0, <2>1, <2>3, HandledTypes DEF TypeOK
      <3> QED BY <1>0, <2>1, <3>1, <3>2
    <2> QED BY <2>2, <2>3
  <1>5. CASE /\ UNCHANGED <<up, cache, disk, shown, cut, halts>>
             /\ ~Crash /\ \A q \in Requests : ~Apply(q) /\ ~Queue(q)
    <2>1. ASSUME NEW p \in Requests, pc[p] = "queue"
          PROVE  pc'[p] = "queue" /\ todo'[p] = todo[p]
      BY <1>0, <1>5, <2>1, AdvanceMoves
      DEF Next, vars, Start, Receive, Reject, Skip, Record, Bypass, SaveDedup,
          Resume, TypeOK, OneRuns
    <2>2. Quiet
      BY <2>1
    <2> QED BY <1>0, <1>5, <2>2
  <1> QED BY <1>1, <1>2, <1>3, <1>4, <1>5, BundlesStep

-----------------------------------------------------------------------------
LEMMA Start_IInv == Init => IInv
  <1> SUFFICES ASSUME Init PROVE IInv
    OBVIOUS
  <1>1. TypeOK
    <2>1. up \in BOOLEAN /\ unsaved \in BOOLEAN
      BY DEF Init
    <2> QED BY <2>1 DEF Init, TypeOK, Nothing, NoBundles
  <1>2. OneRuns /\ NothingBeforeStart
    BY DEF Init, OneRuns, NothingBeforeStart
  <1>3. HashesAccounted /\ RecordedFirst /\ MemoryRemembers /\ EmissionInTwoHalves
    BY DEF Init, HashesAccounted, RecordedFirst, MemoryRemembers,
           EmissionInTwoHalves, Nothing, Busy
  <1>4. OnlyCrashesLose /\ CacheFollowsQueue /\ ComparedWithNewest /\ RestartRemembers
    BY DEF Init, OnlyCrashesLose, CacheFollowsQueue, ComparedWithNewest, Current,
           RestartRemembers, Nothing
  <1> QED BY <1>1, <1>2, <1>3, <1>4 DEF IInv

(* The inductive invariant, on which the other theorems rest.              *)
THEOREM IngestInvariant == Spec => []IInv
  <1>1. IInv /\ [Next]_vars => IInv'
    BY TypeStep, OneRunsStep, NothingBeforeStartStep, HashesAccountedStep,
       RecordedFirstStep, MemoryRemembersStep, EmissionInTwoHalvesStep,
       OnlyCrashesLoseStep, CacheFollowsQueueStep, ComparedWithNewestStep,
       RestartRemembersStep
    DEF IInv
  <1> QED BY Start_IInv, <1>1, PTL DEF Spec

(* The variables of Ingest keep their types, and a request that is not     *)
(* idle has an event to work on.                                           *)
THEOREM IngestTypes == Spec => []TypeOK
  <1>1. IInv => TypeOK
    BY DEF IInv
  <1> QED BY IngestInvariant, <1>1, PTL

(* Refused content was queued, is about to be, or died with the process.   *)
THEOREM LossNeedsCrash == Spec => []OnlyCrashesLose
  <1>1. IInv => OnlyCrashesLose
    BY DEF IInv
  <1> QED BY IngestInvariant, <1>1, PTL

(* The bundle cache agrees with the order of the delivery queue.           *)
THEOREM CacheAgreesWithQueue == Spec => []CacheFollowsQueue
  <1>1. IInv => CacheFollowsQueue
    BY DEF IInv
  <1> QED BY IngestInvariant, <1>1, PTL

(* Without receipts, events are compared with the newest queued one.       *)
THEOREM ComparisonIsCurrent == Spec => []ComparedWithNewest
  <1>1. IInv => ComparedWithNewest
    BY DEF IInv
  <1> QED BY IngestInvariant, <1>1, PTL

(* With receipts or without, over failed writes, crashes and restarts: a   *)
(* key that was queued is in the dedup file, but between a write that      *)
(* failed or was cut short and what makes good for it.                     *)
THEOREM RestartKeepsKeys == Spec => []RestartRemembers
  <1>1. IInv => RestartRemembers
    BY DEF IInv
  <1> QED BY IngestInvariant, <1>1, PTL

(* In memory and in its file, the deduplication state follows the queue:   *)
(* the two theorems above together.                                        *)
THEOREM DedupAgreesWithQueue == Spec => []DedupFollowsQueue
  <1>1. ComparedWithNewest /\ RestartRemembers => DedupFollowsQueue
    BY DEF DedupFollowsQueue
  <1> QED BY ComparisonIsCurrent, RestartKeepsKeys, <1>1, PTL

=============================================================================
