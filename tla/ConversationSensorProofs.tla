---------------------- MODULE ConversationSensorProofs ----------------------
(***************************************************************************)
(* Proofs about the sensors of conversations: the Discourse forum, and the *)
(* sessions of Claude Code.  Each part is about one of the two.            *)
(***************************************************************************)
EXTENDS DiscourseSensor, ClaudeSessions, SequenceTheorems, FiniteSetTheorems, TLAPS

-----------------------------------------------------------------------------
(***************************************************************************)
(* Proofs about the Discourse sensor, for every set of items and every     *)
(* value of the bounds: what it has on record was received, as long as     *)
(* nothing goes wrong it knows what the coordinator has, and it repeats    *)
(* itself no more often than something went wrong.                         *)
(***************************************************************************)

-----------------------------------------------------------------------------
(* A run that has a document to send has one at the head.                  *)
LEMMA HeadIsADoc ==
    ASSUME TypeOK, docs # <<>>
    PROVE  Head(docs) \in Doc /\ Tail(docs) \in Seq(Doc)
BY HeadTailProperties DEF TypeOK

LEMMA DocFields == ASSUME NEW d \in Doc PROVE d.item \in Items /\ d.version \in Version
BY DEF Doc

(* Marking an item keeps the state a state and touches no hash.            *)
LEMMA MarkedState ==
    ASSUME NEW s \in State, NEW i \in Items
    PROVE  /\ Marked(s, i) \in State
           /\ Marked(s, i).hash = s.hash
           /\ Marked(s, i).processed = s.processed \cup {i}
BY DEF Marked, State

LEMMA VersionsAreNumbers == Version \subseteq Nat \ {0} /\ Version \subseteq 0..MaxVersions
BY ConstantsAssumption DEF Version

LEMMA RecordedState ==
    ASSUME NEW s \in State, NEW i \in Items, NEW v \in Version
    PROVE  /\ [Marked(s, i) EXCEPT !.hash[i] = v] \in State
           /\ [Marked(s, i) EXCEPT !.hash[i] = v].processed = s.processed \cup {i}
           /\ [Marked(s, i) EXCEPT !.hash[i] = v].hash = [s.hash EXCEPT ![i] = v]
<1> DEFINE m == Marked(s, i)
<1>1. m \in State /\ m.hash = s.hash /\ m.processed = s.processed \cup {i}
    BY MarkedState
<1>2. v \in 0..MaxVersions BY VersionsAreNumbers
<1> HIDE DEF m
<1>3. /\ [m EXCEPT !.hash[i] = v] \in State
      /\ [m EXCEPT !.hash[i] = v].processed = m.processed
      /\ [m EXCEPT !.hash[i] = v].hash = [m.hash EXCEPT ![i] = v]
    BY <1>1, <1>2 DEF State
<1> QED BY <1>1, <1>3 DEF m

(* A counter per item stays one when an entry is counted up or left alone. *)
LEMMA CountedUp ==
    ASSUME NEW f \in [Items -> Nat], NEW i \in Items, NEW c
    PROVE  /\ [f EXCEPT ![i] = @ + 1] \in [Items -> Nat]
           /\ [f EXCEPT ![i] = IF c THEN @ + 1 ELSE @] \in [Items -> Nat]
<1>1. f[i] \in Nat /\ f[i] + 1 \in Nat OBVIOUS
<1>2. \A n \in Nat : [f EXCEPT ![i] = n] \in [Items -> Nat] OBVIOUS
<1>3. (IF c THEN f[i] + 1 ELSE f[i]) \in Nat BY <1>1, Zenon
<1> QED BY <1>1, <1>2, <1>3, Zenon

LEMMA InitTypes == Init => TypeOK
<1> SUFFICES ASSUME Init PROVE TypeOK OBVIOUS
<1>1. 1 \in Version BY ConstantsAssumption DEF Version
<1>2. EmptyState \in State BY ConstantsAssumption DEF EmptyState, State
<1>3. <<>> \in Seq(Doc) BY EmptySeq
<1>4. /\ posted \in [Items -> Version] /\ state \in State /\ file \in State
      /\ found \in Seq(Doc) /\ docs \in Seq(Doc)
    BY <1>1, <1>2, <1>3 DEF Init
<1>5. /\ seen \in [Items -> SUBSET Version] /\ network \subseteq Request
      /\ answered \in BOOLEAN /\ phase = "down"
    BY Zenon DEF Init
<1>6. 0 \in 0..MaxVersions /\ 0 \in 0..MaxHalts /\ 0 \in 0..MaxFailures /\ 0 \in 0..MaxResets
    BY ConstantsAssumption
<1>7. /\ last \in [Items -> 0..MaxVersions] /\ sent \in Nat
      /\ repeats \in [Items -> Nat] /\ backwards \in [Items -> Nat]
      /\ lost \in [Items -> Nat]
    BY <1>6 DEF Init
<1>8. halts \in 0..MaxHalts /\ failures \in 0..MaxFailures /\ resets \in 0..MaxResets
    BY <1>6 DEF Init
<1> QED BY <1>4, <1>5, <1>7, <1>8 DEF TypeOK

(* The types hold after every step that starts where the types hold and a  *)
(* sending run has a document.                                             *)
LEMMA TypesStep ==
    ASSUME TypeOK, SendsADocument, [Next]_vars
    PROVE  TypeOK'
<1> USE DEF TypeOK
<1>1. ASSUME NEW i \in Items, Edit(i) PROVE TypeOK'
    <2>1. posted[i] + 1 \in Version
        BY <1>1, ConstantsAssumption DEF Edit, Version
    <2>2. posted' \in [Items -> Version] BY <1>1, <2>1 DEF Edit
    <2> QED BY <1>1, <2>2 DEF Edit, sensor, wire, record
<1>2. CASE Start BY <1>2 DEF Start, wire, record
<1>3. ASSUME NEW i \in Items, Read(i) PROVE TypeOK'
    <2>1. [item |-> i, version |-> posted[i]] \in Doc BY DEF Doc
    <2>2. found' \in Seq(Doc) BY <1>3, <2>1, AppendProperties DEF Read
    <2> QED BY <1>3, <2>2 DEF Read, wire, record
<1>4. CASE EndForum
    <2>1. docs' \in Seq(Doc) BY <1>4, ConcatProperties DEF EndForum
    <2>2. found' \in Seq(Doc) BY <1>4, EmptySeq DEF EndForum
    <2> QED BY <1>4, <2>1, <2>2 DEF EndForum, wire, record
<1>5. CASE ForumFails
    <2>1. found' \in Seq(Doc) BY <1>5, EmptySeq DEF ForumFails
    <2>2. failures' \in 0..MaxFailures BY <1>5, ConstantsAssumption DEF ForumFails
    <2> QED BY <1>5, <2>1, <2>2 DEF ForumFails, wire, record
<1>6. CASE EndCollecting BY <1>6 DEF EndCollecting, wire, record
<1>7. ASSUME phase \in {"sending", "waiting"}, NextDoc
      PROVE  /\ docs' \in Seq(Doc)
             /\ phase' \in {"sending", "sleeping"}
             /\ Head(docs).item \in Items /\ Head(docs).version \in Version
    BY <1>7, HeadIsADoc, DocFields DEF SendsADocument, NextDoc
<1>8. CASE Malformed
    <2>1. [state EXCEPT !.pending = @ \cup {Head(docs).item}] \in State
        BY <1>7, <1>8 DEF Malformed, State
    <2> QED BY <1>7, <1>8, <2>1 DEF Malformed, wire, record
<1>9. CASE Unchanged
    <2>1. Marked(state, Head(docs).item) \in State
        BY <1>7, <1>9, MarkedState DEF Unchanged
    <2> QED BY <1>7, <1>9, <2>1 DEF Unchanged, wire, record
<1>10. CASE Send
    <2>1. Head(docs).item \in Items /\ Head(docs).version \in Version
        BY <1>10, HeadIsADoc, DocFields DEF SendsADocument, Send
    <2>2. [state EXCEPT !.pending = @ \cup {Head(docs).item}] \in State
        BY <2>1 DEF State
    <2>3. network' \subseteq Request BY <1>10, <2>1, SMTT(30) DEF Send, Request
    <2>4. sent' \in Nat /\ phase' = "waiting" /\ state' \in State
        BY <1>10, <2>2 DEF Send
    <2>5. answered' \in BOOLEAN BY <1>10, Zenon DEF Send
    <2> QED BY <1>10, <2>3, <2>4, <2>5 DEF Send, record
<1>11. ASSUME NEW q \in network, Arrive(q) PROVE TypeOK'
    <2>1. q.item \in Items /\ q.version \in Version BY DEF Request
    <2>2. q.version \in 0..MaxVersions BY <2>1, VersionsAreNumbers
    <2>3. answered' \in BOOLEAN BY <1>11, Zenon DEF Arrive
    <2>4. seen' \in [Items -> SUBSET Version] BY <1>11, <2>1 DEF Arrive
    <2>5. repeats' \in [Items -> Nat] /\ backwards' \in [Items -> Nat]
        BY <1>11, <2>1, CountedUp, Zenon DEF Arrive
    <2>6. last' \in [Items -> 0..MaxVersions] BY <1>11, <2>2 DEF Arrive
    <2>7. network' \subseteq Request BY <1>11 DEF Arrive
    <2> QED BY <1>11, <2>3, <2>4, <2>5, <2>6, <2>7 DEF Arrive, sensor
<1>12. CASE Confirmed
    <2>1. state' \in State BY <1>7, <1>12, RecordedState DEF Confirmed
    <2> QED BY <1>7, <1>12, <2>1 DEF Confirmed, record
<1>13. ASSUME NEW w \in BOOLEAN, Failed(w) PROVE TypeOK'
    <2>1. state' \in State BY <1>7, <1>13 DEF Failed, State
    <2>2. failures' \in 0..MaxFailures BY <1>13, ConstantsAssumption DEF Failed
    <2>3. network' \subseteq Request BY <1>13 DEF Failed
    <2>4. lost' \in [Items -> Nat]
        <3>1. [lost EXCEPT ![Head(docs).item] = @ + 1] \in [Items -> Nat]
            BY <1>7, <1>13, CountedUp, Zenon DEF Failed
        <3> QED BY <1>13, <3>1 DEF Failed
    <2> QED BY <1>7, <1>13, <2>1, <2>2, <2>3, <2>4 DEF Failed, record
<1>14. CASE Wake BY <1>14 DEF Wake, wire, record
<1>15. ASSUME NEW w \in BOOLEAN, Halt(w) PROVE TypeOK'
    <2>1. EmptyState \in State BY ConstantsAssumption DEF EmptyState, State
    <2>2. found' \in Seq(Doc) /\ docs' \in Seq(Doc) BY <1>15, EmptySeq DEF Halt
    <2>3. halts' \in 0..MaxHalts BY <1>15, ConstantsAssumption DEF Halt
    <2>4. network' \subseteq Request BY <1>15 DEF Halt
    <2> QED BY <1>15, <2>1, <2>2, <2>3, <2>4 DEF Halt, record
<1>16. ASSUME NEW i \in Items, Reset(i) PROVE TypeOK'
    <2>1. file' \in State BY <1>16 DEF Reset, State
    <2>2. resets' \in 0..MaxResets BY <1>16, ConstantsAssumption, SMTT(30) DEF Reset
    <2> QED BY <1>16, <2>1, <2>2 DEF Reset, sensor, wire, record
<1>17. CASE NotSent
    <2>1. docs' \in Seq(Doc) BY <1>17, EmptySeq DEF NotSent
    <2>2. failures' \in 0..MaxFailures BY <1>17, ConstantsAssumption DEF NotSent
    <2> QED BY <1>17, <2>1, <2>2 DEF NotSent, wire, record
<1>18. CASE UNCHANGED vars BY <1>18 DEF vars
<1> QED BY <1>1, <1>2, <1>3, <1>4, <1>5, <1>6, <1>8, <1>9, <1>10, <1>11, <1>12,
           <1>13, <1>14, <1>15, <1>16, <1>17, <1>18 DEF Next

-----------------------------------------------------------------------------
LEMMA SendsADocumentStep ==
    ASSUME SendsADocument, [Next]_vars
    PROVE  SendsADocument'
<1> USE DEF SendsADocument
<1>1. ASSUME UNCHANGED <<phase, docs>> PROVE SendsADocument' BY <1>1
<1>2. ASSUME phase' \in {"down", "collecting", "sleeping"} PROVE SendsADocument' BY <1>2
<1>3. ASSUME NextDoc PROVE SendsADocument' BY <1>3 DEF NextDoc
<1>4. CASE EndCollecting BY <1>4 DEF EndCollecting
<1>5. CASE Send BY <1>5 DEF Send
<1>6. CASE EndForum BY <1>6 DEF EndForum
<1> QED BY <1>1, <1>2, <1>3, <1>4, <1>5, <1>6 DEF Next, vars, sensor, Edit, Start, Read,
      ForumFails, NotSent, Malformed, Unchanged, Arrive, Confirmed, Failed, Wake, Halt,
      Reset

(* What reached the coordinator once reached it for good.                  *)
LEMMA SeenGrows ==
    ASSUME TypeOK, [Next]_vars
    PROVE  \A i \in Items : seen[i] \subseteq seen'[i]
<1>1. ASSUME NEW q \in network, Arrive(q) PROVE \A i \in Items : seen[i] \subseteq seen'[i]
    BY <1>1 DEF Arrive, TypeOK
<1>2. ASSUME UNCHANGED seen PROVE \A i \in Items : seen[i] \subseteq seen'[i] BY <1>2
<1> QED BY <1>1, <1>2 DEF Next, vars, record, Edit, Start, Read, EndForum, ForumFails,
      EndCollecting, NotSent, Malformed, Unchanged, Send, Confirmed, Failed, Wake, Halt,
      Reset

(* The sensor's own record, in memory and on disk, is of what arrived.     *)
LEMMA RecordsStep ==
    ASSUME TypeOK, TypeOK', RecordsOnlyWhatArrived, SendsADocument, AnswerIsForTheHead,
           [Next]_vars
    PROVE  RecordsOnlyWhatArrived'
<1> DEFINE Fine(s) ==
        \A i \in Items :
            /\ s.hash[i] # 0 => s.hash[i] \in seen'[i]
            /\ i \in s.processed => seen'[i] # {}
<1>1. Fine(state) /\ Fine(file)
    BY SeenGrows DEF RecordsOnlyWhatArrived, SentIsSeen
<1>2. SUFFICES Fine(state') /\ Fine(file')
    BY DEF RecordsOnlyWhatArrived, SentIsSeen
<1>3. ASSUME phase \in {"sending", "waiting"}
      PROVE  Head(docs).item \in Items /\ Head(docs).version \in Version
    BY <1>3, HeadIsADoc, DocFields DEF SendsADocument
<1>4. state \in State /\ file \in State BY DEF TypeOK
<1>5. CASE UNCHANGED <<state, file>> BY <1>1, <1>5
<1>6. CASE Start BY <1>1, <1>6 DEF Start
<1>7. CASE EndForum BY <1>1, <1>7 DEF EndForum
<1>8. CASE Malformed BY <1>1, <1>4, <1>8 DEF Malformed, State
<1>9. CASE Unchanged
    <2>1. Fine(file') BY <1>1, <1>9 DEF Unchanged
    <2>2. /\ state'.hash = state.hash
          /\ state'.processed = state.processed \cup {Head(docs).item}
          /\ state.hash[Head(docs).item] # 0
        BY <1>3, <1>4, <1>9, MarkedState, VersionsAreNumbers DEF Unchanged
    <2>3. Head(docs).item \in Items BY <1>3, <1>9 DEF Unchanged
    <2>4. state.hash[Head(docs).item] \in seen'[Head(docs).item] BY <1>1, <2>2, <2>3
    <2>5. seen'[Head(docs).item] # {} BY <2>4
    <2> QED BY <1>1, <2>1, <2>2, <2>5
<1>10. CASE Send BY <1>1, <1>4, <1>10 DEF Send, State
<1>11. CASE Confirmed
    <2> DEFINE i == Head(docs).item
               v == Head(docs).version
    <2>1. i \in Items /\ v \in Version BY <1>3, <1>11 DEF Confirmed
    <2>2. v \in seen'[i] BY <1>11, <2>1, SeenGrows DEF AnswerIsForTheHead, Confirmed
    <2>3. /\ state'.hash = [state.hash EXCEPT ![i] = v]
          /\ state'.processed = state.processed \cup {i}
        BY <1>4, <1>11, <2>1, RecordedState DEF Confirmed
    <2>4. state.hash \in [Items -> 0..MaxVersions] BY <1>4 DEF State
    <2>5. Fine(file') BY <1>1, <1>11 DEF Confirmed
    <2> HIDE DEF i, v
    <2> QED BY <1>1, <2>1, <2>2, <2>3, <2>4, <2>5
<1>12. ASSUME NEW w \in BOOLEAN, Failed(w) PROVE Fine(state') /\ Fine(file')
    BY <1>1, <1>4, <1>12 DEF Failed, State
<1>13. ASSUME NEW w \in BOOLEAN, Halt(w) PROVE Fine(state') /\ Fine(file')
    BY <1>1, <1>13 DEF Halt, EmptyState
<1>14. ASSUME NEW i \in Items, Reset(i) PROVE Fine(state') /\ Fine(file')
    BY <1>1, <1>4, <1>14 DEF Reset, State, sensor
<1> HIDE DEF Fine
<1> QED BY <1>5, <1>6, <1>7, <1>8, <1>9, <1>10, <1>11, <1>12, <1>13, <1>14
      DEF Next, vars, sensor, Edit, Read, ForumFails, EndCollecting, NotSent, Arrive, Wake

-----------------------------------------------------------------------------
(* Steps that are neither sends, nor arrivals, nor the end of a wait leave *)
(* the wire alone; if they move the documents, nothing is waited for.      *)
Quiet ==
    /\ UNCHANGED <<network, sent, answered, lost, halts, last>>
    /\ UNCHANGED <<phase, docs>> \/ (phase # "waiting" /\ phase' # "waiting")

LEMMA WhichAreQuiet ==
    ASSUME [Next]_vars
    PROVE  \/ Quiet
           \/ Send
           \/ \E q \in network : Arrive(q)
           \/ Confirmed
           \/ \E w \in BOOLEAN : Failed(w)
           \/ \E w \in BOOLEAN : Halt(w)
<1> USE DEF Quiet, wire, record, sensor
<1>1. ASSUME NEW i \in Items, Edit(i) PROVE Quiet BY <1>1 DEF Edit
<1>2. CASE Start BY <1>2 DEF Start
<1>3. ASSUME NEW i \in Items, Read(i) PROVE Quiet BY <1>3 DEF Read
<1>4. CASE EndForum BY <1>4 DEF EndForum
<1>5. CASE ForumFails BY <1>5 DEF ForumFails
<1>6. CASE EndCollecting BY <1>6 DEF EndCollecting
<1>7. CASE Malformed BY <1>7 DEF Malformed, NextDoc
<1>8. CASE Unchanged BY <1>8 DEF Unchanged, NextDoc
<1>9. CASE Wake BY <1>9 DEF Wake
<1>10. ASSUME NEW i \in Items, Reset(i) PROVE Quiet BY <1>10 DEF Reset
<1>11. CASE UNCHANGED vars BY <1>11 DEF vars
<1>12. CASE NotSent BY <1>12 DEF NotSent
<1> HIDE DEF Quiet
<1> QED BY <1>1, <1>2, <1>3, <1>4, <1>5, <1>6, <1>7, <1>8, <1>9, <1>10, <1>11, <1>12, Zenon
      DEF Next

LEMMA AwaitedStep ==
    ASSUME TypeOK, AwaitedIsTheHead, [Next]_vars
    PROVE  AwaitedIsTheHead'
<1> USE DEF AwaitedIsTheHead
<1>1. CASE Quiet BY <1>1 DEF Quiet
<1>2. CASE Send
    <2> SUFFICES ASSUME NEW q \in network'
                 PROVE  /\ q.number =< sent'
                        /\ q.number = sent' => /\ q.item = Head(docs').item
                                               /\ q.version = Head(docs').version
        OBVIOUS
    <2>1. sent \in Nat /\ sent' = sent + 1 /\ docs' = docs BY <1>2 DEF Send, TypeOK
    <2>2. CASE q \in network
        <3>1. q.number =< sent /\ q.number \in Nat BY <2>2 DEF TypeOK, Request
        <3> QED BY <2>1, <3>1
    <2>3. CASE q = [item |-> Head(docs).item, version |-> Head(docs).version,
                    number |-> sent + 1]
        BY <2>1, <2>3
    <2> QED BY <1>2, <2>2, <2>3 DEF Send
<1>3. ASSUME NEW q \in network, Arrive(q) PROVE AwaitedIsTheHead'
    BY <1>3 DEF Arrive, sensor
<1>4. CASE Confirmed BY <1>4 DEF Confirmed, NextDoc
<1>5. ASSUME NEW w \in BOOLEAN, Failed(w) PROVE AwaitedIsTheHead'
    BY <1>5 DEF Failed, NextDoc
<1>6. ASSUME NEW w \in BOOLEAN, Halt(w) PROVE AwaitedIsTheHead'
    BY <1>6 DEF Halt
<1> QED BY <1>1, <1>2, <1>3, <1>4, <1>5, <1>6, WhichAreQuiet

(* Two requests that are both the newest are one and the same.             *)
LEMMA OneNewest ==
    ASSUME TypeOK, AwaitedIsTheHead, phase = "waiting",
           NEW q \in network, NEW p \in network, q.number = sent, p.number = sent
    PROVE  p = q
<1>1. q \in Request /\ p \in Request BY DEF TypeOK
<1>2. q.item = p.item /\ q.version = p.version /\ q.number = p.number
    BY DEF AwaitedIsTheHead
<1>3. \A r \in Request : r = [item |-> r.item, version |-> r.version, number |-> r.number]
    BY DEF Request
<1> QED BY <1>1, <1>2, <1>3, Zenon

LEMMA AnswerStep ==
    ASSUME TypeOK, AwaitedIsTheHead, AnswerIsForTheHead, NoStrays, SendsADocument,
           [Next]_vars
    PROVE  AnswerIsForTheHead'
<1> DEFINE i == Head(docs).item
           v == Head(docs).version
<1>1. CASE Quiet
    <2> SUFFICES ASSUME answered' PROVE AnswerIsForTheHead' BY DEF AnswerIsForTheHead
    <2>1. answered /\ UNCHANGED <<phase, docs, lost, halts, last>>
        BY <1>1 DEF Quiet, AnswerIsForTheHead
    <2>2. i \in Items BY <2>1, HeadIsADoc, DocFields DEF AnswerIsForTheHead, SendsADocument
    <2>3. seen[i] \subseteq seen'[i] BY <2>2, SeenGrows
    <2> QED BY <2>1, <2>3 DEF AnswerIsForTheHead
<1>2. ASSUME ~answered' PROVE AnswerIsForTheHead' BY <1>2 DEF AnswerIsForTheHead
<1>3. ASSUME NEW q \in network, Arrive(q), answered' PROVE AnswerIsForTheHead'
    <2>1. /\ UNCHANGED <<phase, docs, lost, halts>>
          /\ seen' = [seen EXCEPT ![q.item] = @ \cup {q.version}]
          /\ last' = [last EXCEPT ![q.item] = q.version]
          /\ answered \/ (phase = "waiting" /\ q.number = sent)
        BY <1>3 DEF Arrive, sensor
    <2>2. phase = "waiting" BY <2>1 DEF AnswerIsForTheHead
    <2>3. i \in Items BY <2>2, HeadIsADoc, DocFields DEF SendsADocument
    <2>4. seen[i] \subseteq seen'[i] BY <2>3, SeenGrows
    <2>5. CASE q.number = sent
        <3>1. q.item = i /\ q.version = v BY <2>2, <2>5 DEF AwaitedIsTheHead
        <3>2. v \in seen'[i] /\ last'[i] = v BY <2>1, <2>3, <3>1 DEF TypeOK
        <3> QED BY <2>1, <2>2, <3>2 DEF AnswerIsForTheHead
    <2>6. CASE q.number # sent
        <3>1. answered BY <2>1, <2>6
        <3>2. v \in seen'[i] BY <2>4, <3>1 DEF AnswerIsForTheHead
        <3>3. ~(lost[q.item] = 0 /\ halts = 0) BY <2>6 DEF NoStrays
        <3>4. lost[i] = 0 /\ halts = 0 => last'[i] = v
            BY <2>1, <2>3, <3>1, <3>3 DEF AnswerIsForTheHead, TypeOK
        <3> QED BY <2>1, <2>2, <3>2, <3>4 DEF AnswerIsForTheHead
    <2> QED BY <2>5, <2>6
<1>4. CASE Send BY <1>2, <1>4 DEF Send
<1>5. CASE Confirmed BY <1>2, <1>5 DEF Confirmed
<1>6. ASSUME NEW w \in BOOLEAN, Failed(w) PROVE AnswerIsForTheHead' BY <1>2, <1>6 DEF Failed
<1>7. ASSUME NEW w \in BOOLEAN, Halt(w) PROVE AnswerIsForTheHead' BY <1>2, <1>7 DEF Halt
<1> QED BY <1>1, <1>2, <1>3, <1>4, <1>5, <1>6, <1>7, WhichAreQuiet

LEMMA StraysStep ==
    ASSUME TypeOK, AwaitedIsTheHead, AnswerIsForTheHead, NoStrays, SendsADocument,
           [Next]_vars
    PROVE  NoStrays'
<1> DEFINE i == Head(docs).item
<1>1. CASE Quiet
    BY <1>1 DEF Quiet, NoStrays
<1>2. CASE Send
    <2>1. sent' = sent + 1 /\ phase' = "waiting" /\ ~answered' /\ phase = "sending"
        BY <1>2 DEF Send
    <2>2. \A q \in network' : q.number = sent' \/ q \in network BY <1>2 DEF Send
    <2>3. lost' = lost /\ halts' = halts BY <1>2 DEF Send
    <2>4. \A q \in network : ~(lost[q.item] = 0 /\ halts = 0) BY <2>1 DEF NoStrays
    <2> QED BY <2>1, <2>2, <2>3, <2>4 DEF NoStrays
<1>3. ASSUME NEW q \in network, Arrive(q) PROVE NoStrays'
    <2>1. /\ network' = network \ {q}
          /\ UNCHANGED <<phase, sent, lost, halts>>
          /\ answered' = (answered \/ (phase = "waiting" /\ q.number = sent))
        BY <1>3 DEF Arrive, sensor
    <2> SUFFICES ASSUME NEW p \in network', lost[p.item] = 0, halts = 0
                 PROVE  phase = "waiting" /\ p.number = sent /\ ~answered'
        BY <2>1 DEF NoStrays
    <2>2. phase = "waiting" /\ p.number = sent /\ ~answered BY <2>1 DEF NoStrays
    <2>3. q.number # sent BY <2>1, <2>2, OneNewest
    <2> QED BY <2>1, <2>2, <2>3
<1>4. CASE Confirmed
    <2>1. network' = network /\ lost' = lost /\ halts' = halts /\ answered
        BY <1>4 DEF Confirmed
    <2> QED BY <2>1 DEF NoStrays
<1>5. ASSUME NEW w \in BOOLEAN, Failed(w) PROVE NoStrays'
    <2> SUFFICES ASSUME NEW p \in network', lost'[p.item] = 0, halts' = 0
                 PROVE  FALSE
        BY DEF NoStrays
    <2>1. phase = "waiting" /\ halts' = halts BY <1>5 DEF Failed
    <2>2. p \in network /\ p.item \in Items BY <1>5 DEF Failed, Newest, TypeOK, Request
    <2>3. i \in Items BY <2>1, HeadIsADoc, DocFields DEF SendsADocument
    <2>4. lost[p.item] = 0
        <3>1. lost[i] + 1 # 0 /\ lost[i] \in Nat BY <2>3 DEF TypeOK
        <3>2. lost' = lost \/ lost' = [lost EXCEPT ![i] = @ + 1] BY <1>5 DEF Failed
        <3> QED BY <2>2, <2>3, <3>1, <3>2 DEF TypeOK
    <2>5. p.number = sent /\ ~answered BY <2>1, <2>2, <2>4 DEF NoStrays
    <2>6. p.item = i BY <2>1, <2>2, <2>5 DEF AwaitedIsTheHead
    <2>7. CASE w
        BY <1>5, <2>2, <2>5, <2>7 DEF Failed, Newest
    <2>8. CASE ~w
        <3>1. lost' = [lost EXCEPT ![i] = @ + 1] BY <1>5, <2>8 DEF Failed
        <3>2. lost'[i] = lost[i] + 1 /\ lost[i] \in Nat BY <2>3, <3>1 DEF TypeOK
        <3> QED BY <2>6, <3>2
    <2> QED BY <2>7, <2>8
<1>6. ASSUME NEW w \in BOOLEAN, Halt(w) PROVE NoStrays'
    <2>1. halts' = halts + 1 /\ halts \in Nat BY <1>6, ConstantsAssumption DEF Halt, TypeOK
    <2>2. halts' # 0 BY <2>1
    <2> QED BY <2>2 DEF NoStrays
<1> QED BY <1>1, <1>2, <1>3, <1>4, <1>5, <1>6, WhichAreQuiet

LEMMA FreshStep ==
    ASSUME TypeOK, FirstRunIsFresh, [Next]_vars
    PROVE  FirstRunIsFresh'
<1> USE DEF FirstRunIsFresh
<1>1. ASSUME NEW w \in BOOLEAN, Halt(w) PROVE FirstRunIsFresh'
    <2>1. halts' = halts + 1 /\ halts \in Nat BY <1>1, ConstantsAssumption DEF Halt, TypeOK
    <2> QED BY <2>1
<1>2. ASSUME phase' # "down" PROVE FirstRunIsFresh' BY <1>2
<1>3. ASSUME UNCHANGED <<phase, state, file, halts>> PROVE FirstRunIsFresh' BY <1>3
<1>4. ASSUME NEW i \in Items, Reset(i) PROVE FirstRunIsFresh'
    BY <1>4 DEF Reset, sensor, EmptyState
<1>5. ASSUME NextDoc PROVE phase' # "down" BY <1>5 DEF NextDoc
<1>6. ASSUME NEW i \in Items, Edit(i) PROVE FirstRunIsFresh' BY <1>3, <1>6 DEF Edit, sensor
<1>7. ASSUME NEW i \in Items, Read(i) PROVE FirstRunIsFresh' BY <1>2, <1>7 DEF Read
<1>8. ASSUME NEW q \in network, Arrive(q) PROVE FirstRunIsFresh'
    BY <1>3, <1>8 DEF Arrive, sensor
<1>9. ASSUME NEW w \in BOOLEAN, Failed(w) PROVE FirstRunIsFresh' BY <1>2, <1>5, <1>9 DEF Failed
<1>10. CASE Start BY <1>2, <1>10 DEF Start
<1>11. CASE EndForum \/ ForumFails \/ EndCollecting \/ NotSent
    BY <1>2, <1>11 DEF EndForum, ForumFails, EndCollecting, NotSent
<1>12. CASE Malformed \/ Unchanged \/ Confirmed
    BY <1>2, <1>5, <1>12 DEF Malformed, Unchanged, Confirmed
<1>13. CASE Send \/ Wake BY <1>2, <1>13 DEF Send, Wake
<1>14. CASE UNCHANGED vars BY <1>3, <1>14 DEF vars
<1> HIDE DEF FirstRunIsFresh
<1> QED BY <1>1, <1>4, <1>6, <1>7, <1>8, <1>9, <1>10, <1>11, <1>12, <1>13, <1>14, Zenon
      DEF Next

LEMMA HashStep ==
    ASSUME TypeOK, HashIsCurrent, AwaitedIsTheHead, AnswerIsForTheHead, NoStrays,
           SendsADocument, FirstRunIsFresh, [Next]_vars
    PROVE  HashIsCurrent'
<1> DEFINE h == Head(docs).item
           v == Head(docs).version
           Kept == /\ state'.hash = state.hash
                   /\ UNCHANGED <<last, lost, halts>>
                   /\ UNCHANGED <<answered, docs>> \/ ~answered
<1>1. ASSUME Kept PROVE HashIsCurrent' BY <1>1 DEF HashIsCurrent
<1>2. ASSUME phase # "waiting" PROVE ~answered BY <1>2 DEF AnswerIsForTheHead
<1>3. state \in State BY DEF TypeOK
<1>4. ASSUME phase \in {"sending", "waiting"} PROVE h \in Items /\ v \in Version
    BY <1>4, HeadIsADoc, DocFields DEF SendsADocument
<1>5. ASSUME NEW i \in Items, Edit(i) PROVE HashIsCurrent'
    BY <1>1, <1>5 DEF Edit, sensor, wire, record
<1>6. CASE Start
    <2>1. state' = file /\ UNCHANGED <<last, lost, halts, docs, answered>> /\ phase = "down"
        BY <1>6 DEF Start, wire, record
    <2>2. CASE halts = 0
        <3>1. state' = state BY <2>1, <2>2 DEF FirstRunIsFresh
        <3> QED BY <1>1, <2>1, <3>1
    <2>3. CASE halts # 0 BY <2>1, <2>3 DEF HashIsCurrent
    <2> QED BY <2>2, <2>3
<1>7. ASSUME NEW i \in Items, Read(i) PROVE HashIsCurrent'
    BY <1>1, <1>7 DEF Read, wire, record
<1>8. CASE EndForum BY <1>1, <1>2, <1>8 DEF EndForum, wire, record
<1>9. CASE ForumFails BY <1>1, <1>9 DEF ForumFails, wire, record
<1>10. CASE EndCollecting BY <1>1, <1>10 DEF EndCollecting, wire, record
<1>11. CASE Malformed
    <2>1. state'.hash = state.hash BY <1>3, <1>11 DEF Malformed, State
    <2> QED BY <1>1, <1>2, <1>11, <2>1 DEF Malformed, wire, record
<1>12. CASE Unchanged
    <2>1. state'.hash = state.hash BY <1>3, <1>4, <1>12, MarkedState DEF Unchanged
    <2> QED BY <1>1, <1>2, <1>12, <2>1 DEF Unchanged, wire, record
<1>13. CASE Send
    <2>1. state'.hash = state.hash BY <1>3, <1>13 DEF Send, State
    <2> QED BY <1>1, <1>2, <1>13, <2>1 DEF Send, record
<1>14. ASSUME NEW q \in network, Arrive(q) PROVE HashIsCurrent'
    <2>1. /\ UNCHANGED <<phase, state, docs, lost, halts>>
          /\ last' = [last EXCEPT ![q.item] = q.version]
          /\ answered' = (answered \/ (phase = "waiting" /\ q.number = sent))
        BY <1>14 DEF Arrive, sensor
    <2> SUFFICES ASSUME NEW i \in Items, lost[i] = 0, halts = 0, ~(answered' /\ h = i)
                 PROVE  state.hash[i] = last'[i]
        BY <2>1 DEF HashIsCurrent
    <2>2. state.hash[i] = last[i] BY <2>1 DEF HashIsCurrent
    <2>3. CASE q.item = i
        <3>1. phase = "waiting" /\ q.number = sent BY <2>3 DEF NoStrays
        <3>2. answered' /\ h = i BY <2>1, <2>3, <3>1 DEF AwaitedIsTheHead
        <3> QED BY <3>2
    <2>4. CASE q.item # i BY <2>1, <2>2, <2>4 DEF TypeOK
    <2> QED BY <2>3, <2>4
<1>15. CASE Confirmed
    <2>1. h \in Items /\ v \in Version BY <1>4, <1>15 DEF Confirmed
    <2>2. state'.hash = [state.hash EXCEPT ![h] = v] BY <1>3, <1>15, <2>1, RecordedState DEF Confirmed
    <2>3. UNCHANGED <<last, lost, halts>> /\ answered BY <1>15 DEF Confirmed, record
    <2> SUFFICES ASSUME NEW i \in Items, lost[i] = 0, halts = 0
                 PROVE  state'.hash[i] = last[i]
        BY <2>3 DEF HashIsCurrent
    <2>4. CASE i = h BY <1>3, <2>2, <2>3, <2>4 DEF AnswerIsForTheHead, State
    <2>5. CASE i # h
        <3>1. state.hash[i] = last[i] BY <2>5 DEF HashIsCurrent
        <3> QED BY <1>3, <2>2, <2>5, <3>1 DEF State
    <2> QED BY <2>4, <2>5
<1>16. ASSUME NEW w \in BOOLEAN, Failed(w) PROVE HashIsCurrent'
    <2>1. /\ phase = "waiting" /\ UNCHANGED <<last, halts>>
          /\ state'.hash = state.hash
        BY <1>3, <1>16 DEF Failed, record, State
    <2>2. h \in Items BY <1>4, <2>1
    <2> SUFFICES ASSUME NEW i \in Items, lost'[i] = 0, halts = 0
                 PROVE  state.hash[i] = last[i]
        BY <2>1 DEF HashIsCurrent
    <2>3. lost[h] \in Nat /\ lost[h] + 1 # 0 BY <2>2 DEF TypeOK
    <2>4. lost' = lost \/ lost' = [lost EXCEPT ![h] = @ + 1] BY <1>16 DEF Failed
    <2>5. lost[i] = 0 BY <2>3, <2>4 DEF TypeOK
    <2>6. answered => lost'[h] # 0 BY <1>16, <2>2, <2>3 DEF Failed, TypeOK
    <2> QED BY <2>5, <2>6 DEF HashIsCurrent
<1>17. ASSUME NEW w \in BOOLEAN, Halt(w) PROVE HashIsCurrent'
    <2>1. halts' = halts + 1 /\ halts \in Nat BY <1>17, ConstantsAssumption DEF Halt, TypeOK
    <2>2. halts' # 0 BY <2>1
    <2> QED BY <2>2 DEF HashIsCurrent
<1>18. CASE Wake BY <1>1, <1>18 DEF Wake, wire, record
<1>19. ASSUME NEW i \in Items, Reset(i) PROVE HashIsCurrent'
    BY <1>1, <1>19 DEF Reset, sensor, wire, record
<1>20. CASE UNCHANGED vars BY <1>1, <1>20 DEF vars
<1>21. CASE NotSent BY <1>1, <1>2, <1>21 DEF NotSent, wire, record
<1> QED BY <1>5, <1>6, <1>7, <1>8, <1>9, <1>10, <1>11, <1>12, <1>13, <1>14, <1>15,
           <1>16, <1>17, <1>18, <1>19, <1>20, <1>21, Zenon DEF Next

-----------------------------------------------------------------------------
LEMMA FoundStep ==
    ASSUME FoundWhileCollecting, [Next]_vars
    PROVE  FoundWhileCollecting'
<1> USE DEF FoundWhileCollecting
<1>1. ASSUME phase' = "collecting" PROVE FoundWhileCollecting' BY <1>1
<1>2. ASSUME found' = <<>> PROVE FoundWhileCollecting' BY <1>2
<1>3. ASSUME UNCHANGED <<phase, found>> PROVE FoundWhileCollecting' BY <1>3
<1>4. ASSUME phase # "collecting", UNCHANGED found PROVE FoundWhileCollecting' BY <1>4
<1> HIDE DEF FoundWhileCollecting
<1>5. CASE EndCollecting \/ NotSent BY <1>2, <1>5 DEF EndCollecting, NotSent
<1>6. CASE EndForum \/ ForumFails BY <1>2, <1>6 DEF EndForum, ForumFails
<1>7. CASE Malformed \/ Unchanged \/ Confirmed \/ Send
    BY <1>4, <1>7 DEF Malformed, Unchanged, Confirmed, Send
<1>8. CASE Start \/ Wake BY <1>1, <1>8 DEF Start, Wake
<1>9. ASSUME NEW w \in BOOLEAN, Failed(w) PROVE FoundWhileCollecting'
    BY <1>4, <1>9 DEF Failed
<1>10. ASSUME NEW w \in BOOLEAN, Halt(w) PROVE FoundWhileCollecting'
    BY <1>2, <1>10 DEF Halt
<1>11. ASSUME NEW i \in Items, Read(i) PROVE FoundWhileCollecting'
    BY <1>1, <1>11 DEF Read
<1>12. ASSUME NEW i \in Items, Edit(i) \/ Reset(i) PROVE FoundWhileCollecting'
    BY <1>3, <1>12 DEF Edit, Reset, sensor
<1>13. ASSUME NEW q \in network, Arrive(q) PROVE FoundWhileCollecting'
    BY <1>3, <1>13 DEF Arrive, sensor
<1>14. CASE UNCHANGED vars BY <1>3, <1>14 DEF vars
<1> QED BY <1>5, <1>6, <1>7, <1>8, <1>9, <1>10, <1>11, <1>12, <1>13, <1>14, Zenon DEF Next

(* Every document to be sent is one, with a number for its version.        *)
LEMMA ToSendTypes ==
    ASSUME TypeOK
    PROVE  /\ ToSend \in Seq(Doc)
           /\ Len(ToSend) \in Nat /\ DOMAIN ToSend = 1..Len(ToSend)
           /\ \A a \in DOMAIN ToSend : /\ ToSend[a] \in Doc
                                       /\ ToSend[a].item \in Items
                                       /\ ToSend[a].version \in Nat
<1>1. ToSend \in Seq(Doc) BY ConcatProperties DEF TypeOK, ToSend
<1>2. Len(ToSend) \in Nat /\ DOMAIN ToSend = 1..Len(ToSend) BY <1>1, LenProperties
<1>3. \A a \in DOMAIN ToSend : ToSend[a] \in Doc BY <1>1, <1>2, ElementOfSeq
<1> QED BY <1>1, <1>2, <1>3, VersionsAreNumbers DEF Doc

(* What a step does to the documents to be sent: nothing, or one is added, *)
(* or the first of them or more are gone.                                  *)
LEMMA ToSendChanges ==
    ASSUME TypeOK, TypeOK', SendsADocument, FoundWhileCollecting, [Next]_vars
    PROVE  \/ ToSend' = ToSend
           \/ \E i \in Items :
                 /\ Read(i)
                 /\ ToSend' = Append(ToSend, [item |-> i, version |-> posted[i]])
           \/ /\ UNCHANGED <<posted, last>> /\ network' \subseteq network
              /\ \/ ToSend # <<>> /\ ToSend' = Tail(ToSend)
                 \/ \E n \in 0..Len(ToSend) :
                       /\ Len(ToSend') = n
                       /\ \A a \in 1..n : ToSend'[a] = ToSend[a]
<1> DEFINE Gone == /\ UNCHANGED <<posted, last>> /\ network' \subseteq network
                   /\ \/ ToSend # <<>> /\ ToSend' = Tail(ToSend)
                      \/ \E n \in 0..Len(ToSend) :
                            /\ Len(ToSend') = n
                            /\ \A a \in 1..n : ToSend'[a] = ToSend[a]
           Added == \E i \in Items :
                       /\ Read(i)
                       /\ ToSend' = Append(ToSend, [item |-> i, version |-> posted[i]])
           Same == ToSend' = ToSend
<1> SUFFICES Gone \/ Same \/ Added OBVIOUS
<1>1. ASSUME UNCHANGED <<docs, found>> PROVE Same BY <1>1 DEF ToSend
<1>2. ASSUME docs' = <<>>, found' = <<>>, UNCHANGED <<posted, last>>, network' \subseteq network
      PROVE  Gone
    <2>1. ToSend' = <<>> BY <1>2, ConcatEmptySeq, EmptySeq DEF ToSend
    <2>2. Len(ToSend') = 0 /\ 0 \in 0..Len(ToSend) BY <2>1, ToSendTypes, EmptySeq
    <2> QED BY <1>2, <2>2
<1>3. ASSUME NextDoc, phase \in {"sending", "waiting"}, UNCHANGED <<posted, last, found>>,
             network' \subseteq network
      PROVE  Gone
    <2>1. docs # <<>> /\ found = <<>> BY <1>3 DEF SendsADocument, FoundWhileCollecting
    <2>2. ToSend = docs /\ ToSend' = docs'
        BY <1>3, <2>1, ConcatEmptySeq DEF ToSend, TypeOK
    <2> QED BY <1>3, <2>1, <2>2 DEF NextDoc
<1>4. CASE EndForum
    <2>1. docs' = ToSend /\ found' = <<>> BY <1>4 DEF EndForum, ToSend
    <2> QED BY <2>1, ToSendTypes, ConcatEmptySeq DEF ToSend
<1>5. CASE ForumFails
    <2>1. docs \in Seq(Doc) /\ found \in Seq(Doc) BY DEF TypeOK
    <2>2. ToSend' = docs BY <1>5, <2>1, ConcatEmptySeq DEF ForumFails, ToSend
    <2>3. Len(docs) \in Nat /\ Len(found) \in Nat BY <2>1, LenProperties
    <2>4. Len(docs) \in 0..Len(ToSend) /\ \A a \in 1..Len(docs) : docs[a] = ToSend[a]
        BY <2>1, <2>3, ConcatProperties DEF ToSend
    <2> QED BY <1>5, <2>2, <2>4 DEF ForumFails, wire, record
<1>6. ASSUME NEW i \in Items, Read(i)
      PROVE  Added
    <2> DEFINE d == [item |-> i, version |-> posted[i]]
    <2>1. d \in Doc /\ docs \in Seq(Doc) /\ found \in Seq(Doc) /\ <<d>> \in Seq(Doc)
        BY DEF Doc, TypeOK
    <2>2. docs' = docs /\ found' = Append(found, d) BY <1>6 DEF Read
    <2> HIDE DEF d
    <2>3. Append(found, d) = found \o <<d>> BY <2>1, AppendIsConcat
    <2>4. docs \o (found \o <<d>>) = (docs \o found) \o <<d>> BY <2>1, ConcatAssociative
    <2>5. Append(ToSend, d) = ToSend \o <<d>> BY <2>1, ToSendTypes, AppendIsConcat
    <2>6. ToSend' = Append(ToSend, d) BY <2>2, <2>3, <2>4, <2>5 DEF ToSend
    <2> QED BY <1>6, <2>6 DEF d
<1>7. CASE NotSent BY <1>2, <1>7 DEF NotSent, wire, record
<1>8. ASSUME NEW w \in BOOLEAN, Halt(w) PROVE Gone
    BY <1>2, <1>8 DEF Halt, record
<1>9. CASE Malformed BY <1>3, <1>9 DEF Malformed, wire, record
<1>10. CASE Unchanged BY <1>3, <1>10 DEF Unchanged, wire, record
<1>11. CASE Confirmed BY <1>3, <1>11 DEF Confirmed, record
<1>12. ASSUME NEW w \in BOOLEAN, Failed(w) PROVE Gone
    BY <1>3, <1>12 DEF Failed, record
<1>13. ASSUME NEW i \in Items, Edit(i) \/ Reset(i) PROVE Same
    BY <1>1, <1>13 DEF Edit, Reset, sensor
<1>14. ASSUME NEW q \in network, Arrive(q) PROVE Same
    BY <1>1, <1>14 DEF Arrive, sensor
<1>15. CASE Start \/ EndCollecting \/ Send \/ Wake \/ UNCHANGED vars
    BY <1>1, <1>15 DEF Start, EndCollecting, Send, Wake, vars
<1> HIDE DEF Gone, Added, Same
<1> QED
    BY <1>4, <1>5, <1>6, <1>7, <1>8, <1>9, <1>10, <1>11, <1>12, <1>13, <1>14, <1>15, Zenon
    DEF Next

(* What moves when the documents to be sent stay the same: an item is      *)
(* edited, its document is sent, or a request for it arrives.              *)
LEMMA OthersMove ==
    ASSUME [Next]_vars
    PROVE  \/ \E i \in Items : Edit(i) \/ Read(i)
           \/ Send
           \/ \E q \in network : Arrive(q)
           \/ UNCHANGED <<posted, last>> /\ network' \subseteq network
BY DEF Next, vars, wire, record, Start, EndForum, ForumFails, EndCollecting, NotSent,
       Malformed, Unchanged, Confirmed, Failed, Wake, Halt, Reset

(* A sequence of which a beginning is left rises if all of it did.         *)
LEMMA BeginningRises ==
    ASSUME NEW s \in Seq(Doc), NEW t \in Seq(Doc), NEW k \in {0, 1},
           Len(t) + k =< Len(s), \A a \in 1..Len(t) : t[a] = s[a + k]
    PROVE  /\ InOrder(s) => InOrder(t)
           /\ \A i \in Items, v \in Nat : AheadOf(s, i, v) => AheadOf(t, i, v)
           /\ \A a \in DOMAIN t : \E b \in DOMAIN s : t[a] = s[b]
<1>1. /\ Len(s) \in Nat /\ DOMAIN s = 1..Len(s)
      /\ Len(t) \in Nat /\ DOMAIN t = 1..Len(t)
    BY LenProperties
<1>2. \A a \in DOMAIN t : a + k \in DOMAIN s /\ t[a] = s[a + k] BY <1>1
<1>3. \A a, b \in DOMAIN t : a < b => a + k < b + k BY <1>1
<1> QED BY <1>2, <1>3 DEF InOrder, AheadOf

(* Versions are numbers wherever they occur.                               *)
LEMMA VersionTypes ==
    ASSUME TypeOK
    PROVE  /\ \A i \in Items : last[i] \in Nat /\ posted[i] \in Nat
           /\ \A q \in network : q.item \in Items /\ q.version \in Nat
<1>1. /\ \A v \in Version : v \in Nat
      /\ \A v \in 0..MaxVersions : v \in Nat
    BY ConstantsAssumption DEF Version
<1>2. /\ \A i \in Items : last[i] \in 0..MaxVersions /\ posted[i] \in Version
      /\ \A q \in network : q.item \in Items /\ q.version \in Version
    BY DEF TypeOK, Request
<1> QED BY <1>1, <1>2

LEMMA VersionsRiseStep ==
    ASSUME TypeOK, TypeOK', SendsADocument, FoundWhileCollecting, VersionsRise,
           [Next]_vars
    PROVE  VersionsRise'
<1> DEFINE s == ToSend
           t == ToSend'
<1>1. /\ s \in Seq(Doc) /\ Len(s) \in Nat /\ DOMAIN s = 1..Len(s)
      /\ \A a \in DOMAIN s : s[a] \in Doc /\ s[a].item \in Items /\ s[a].version \in Nat
    BY ToSendTypes
<1>2. t \in Seq(Doc) /\ Len(t) \in Nat /\ DOMAIN t = 1..Len(t)
    <2>1. t \in Seq(Doc) BY ConcatProperties DEF TypeOK, ToSend
    <2> QED BY <2>1, LenProperties
<1>3. /\ \A i \in Items : last[i] \in Nat /\ posted[i] \in Nat
      /\ \A q \in network : q.item \in Items /\ q.version \in Nat
    BY VersionTypes
<1>4. ASSUME t = s, UNCHANGED <<posted, last>>, network' \subseteq network
      PROVE  VersionsRise'
    BY <1>4 DEF VersionsRise
<1>5. ASSUME UNCHANGED <<posted, last>>, network' \subseteq network,
             NEW k \in {0, 1}, Len(t) + k =< Len(s), \A a \in 1..Len(t) : t[a] = s[a + k]
      PROVE  VersionsRise'
    <2>1. /\ InOrder(t)
          /\ \A i \in Items, v \in Nat : AheadOf(s, i, v) => AheadOf(t, i, v)
          /\ \A a \in DOMAIN t : \E b \in DOMAIN s : t[a] = s[b]
        BY <1>1, <1>2, <1>5, BeginningRises DEF VersionsRise
    <2>2. \A a \in DOMAIN t : t[a].version =< posted[t[a].item]
        BY <2>1 DEF VersionsRise
    <2>3. /\ \A i \in Items : AheadOf(t, i, last[i]) /\ last[i] =< posted[i]
          /\ \A q \in network : AheadOf(t, q.item, q.version) /\ q.version =< posted[q.item]
        BY <1>3, <2>1 DEF VersionsRise
    <2> HIDE DEF s, t
    <2> QED BY <1>5, <2>1, <2>2, <2>3 DEF VersionsRise, t
<1>6. ASSUME NEW i \in Items, Edit(i) PROVE VersionsRise'
    <2>1. UNCHANGED <<docs, found, last, network>> BY <1>6 DEF Edit, sensor, wire, record
    <2>2. t = s BY <2>1 DEF ToSend
    <2>3. posted' = [posted EXCEPT ![i] = @ + 1] BY <1>6 DEF Edit
    <2>4. \A j \in Items : posted'[j] \in Nat /\ posted[j] =< posted'[j]
        <3>1. \A j \in Items : posted'[j] = posted[j] \/ posted'[j] = posted[j] + 1
            BY <2>3 DEF TypeOK
        <3> QED BY <1>3, <3>1
    <2>5. \A a \in DOMAIN t : t[a].version =< posted'[t[a].item]
        BY <1>1, <1>3, <2>2, <2>4 DEF VersionsRise
    <2>6. \A j \in Items : AheadOf(t, j, last'[j]) /\ last'[j] =< posted'[j]
        BY <1>3, <2>1, <2>2, <2>4 DEF VersionsRise
    <2>7. \A q \in network' : AheadOf(t, q.item, q.version) /\ q.version =< posted'[q.item]
        BY <1>3, <2>1, <2>2, <2>4 DEF VersionsRise
    <2> QED BY <2>2, <2>5, <2>6, <2>7 DEF VersionsRise
<1>7. ASSUME NEW i \in Items, Read(i),
             t = Append(s, [item |-> i, version |-> posted[i]])
      PROVE  VersionsRise'
    <2> DEFINE d == [item |-> i, version |-> posted[i]]
    <2>1. d \in Doc /\ d.item = i /\ d.version = posted[i] BY DEF Doc, TypeOK
    <2> HIDE DEF d
    <2>2. /\ Len(t) = Len(s) + 1 /\ t[Len(s) + 1] = d
          /\ \A a \in 1..Len(s) : t[a] = s[a]
        BY <1>1, <1>7, <2>1, AppendProperties DEF d
    <2>3. \A a \in DOMAIN t : (a \in DOMAIN s /\ t[a] = s[a]) \/ (a = Len(s) + 1 /\ t[a] = d)
        <3>1. \A a \in 1..(Len(s) + 1) : a \in 1..Len(s) \/ a = Len(s) + 1
            BY <1>1
        <3>2. DOMAIN t = 1..(Len(s) + 1) /\ DOMAIN s = 1..Len(s) BY <1>1, <1>2, <2>2
        <3> HIDE DEF s, t
        <3> QED BY <2>2, <3>1, <3>2
    <2>4. UNCHANGED <<posted, last, network>> BY <1>7 DEF Read, wire, record
    <2>5. \A a \in DOMAIN t : t[a].version =< posted[t[a].item]
        BY <1>3, <2>1, <2>3 DEF VersionsRise
    <2>6. InOrder(t)
        <3> SUFFICES ASSUME NEW a \in DOMAIN t, NEW b \in DOMAIN t, a < b,
                            t[a].item = t[b].item
                     PROVE  t[a].version =< t[b].version
            BY DEF InOrder
        <3>1. a \in DOMAIN s /\ t[a] = s[a] BY <1>1, <1>2, <2>2, <2>3
        <3>2. CASE t[b] = d BY <2>1, <2>5, <3>2
        <3>3. CASE b \in DOMAIN s /\ t[b] = s[b] BY <3>1, <3>3 DEF InOrder, VersionsRise
        <3> QED BY <2>3, <3>2, <3>3
    <2>7. \A j \in Items : AheadOf(t, j, last[j]) /\ last[j] =< posted[j]
        BY <2>1, <2>3 DEF AheadOf, VersionsRise
    <2>8. \A q \in network : AheadOf(t, q.item, q.version) /\ q.version =< posted[q.item]
        BY <2>1, <2>3 DEF AheadOf, VersionsRise
    <2> QED BY <2>4, <2>5, <2>6, <2>7, <2>8 DEF VersionsRise
<1>8. CASE Send
    <2> DEFINE r == [item |-> Head(docs).item, version |-> Head(docs).version,
                     number |-> sent + 1]
    <2>1. /\ UNCHANGED <<posted, last, docs, found>> /\ network' = network \cup {r}
          /\ phase = "sending"
        BY <1>8 DEF Send, record
    <2>2. docs # <<>> /\ found = <<>> BY <2>1 DEF SendsADocument, FoundWhileCollecting
    <2>3. t = s /\ s = docs BY <2>1, <2>2, ConcatEmptySeq DEF ToSend, TypeOK
    <2>4. 1 \in DOMAIN s /\ r.item = s[1].item /\ r.version = s[1].version
        BY <1>1, <2>2, <2>3, EmptySeq
    <2>5. AheadOf(s, r.item, r.version) /\ r.version =< posted[r.item]
        <3>1. \A a \in DOMAIN s : a = 1 \/ 1 < a BY <1>1
        <3>2. r.version =< r.version BY <1>1, <2>4
        <3> QED BY <2>4, <3>1, <3>2 DEF VersionsRise, InOrder, AheadOf
    <2> HIDE DEF r
    <2> QED BY <2>1, <2>3, <2>5 DEF VersionsRise
<1>9. ASSUME NEW q \in network, Arrive(q) PROVE VersionsRise'
    <2>1. /\ UNCHANGED <<posted, docs, found>> /\ network' = network \ {q}
          /\ last' = [last EXCEPT ![q.item] = q.version]
        BY <1>9 DEF Arrive, sensor
    <2>2. t = s BY <2>1 DEF ToSend
    <2>3. \A i \in Items : AheadOf(s, i, last'[i]) /\ last'[i] =< posted[i]
        BY <1>3, <2>1 DEF VersionsRise, TypeOK
    <2> QED BY <2>1, <2>2, <2>3 DEF VersionsRise
<1>10. ASSUME UNCHANGED <<posted, last>>, network' \subseteq network, s # <<>>, t = Tail(s)
       PROVE  VersionsRise'
    <2>1. Len(t) + 1 =< Len(s) /\ \A a \in 1..Len(t) : t[a] = s[a + 1]
        BY <1>1, <1>10, HeadTailProperties
    <2> QED BY <1>5, <1>10, <2>1
<1>11. ASSUME UNCHANGED <<posted, last>>, network' \subseteq network,
              NEW n \in 0..Len(s), Len(t) = n, \A a \in 1..n : t[a] = s[a]
       PROVE  VersionsRise'
    <2>1. Len(t) + 0 =< Len(s) /\ \A a \in 1..Len(t) : t[a] = s[a + 0]
        BY <1>1, <1>11
    <2> QED BY <1>5, <1>11, <2>1
<1>12. ASSUME NEW i \in Items, Read(i) PROVE VersionsRise'
    <2>1. UNCHANGED <<posted, last>> /\ network' = network BY <1>12 DEF Read, wire, record
    <2> QED BY <1>4, <1>7, <1>10, <1>11, <2>1, ToSendChanges
<1> QED BY <1>4, <1>6, <1>7, <1>8, <1>9, <1>10, <1>11, <1>12, ToSendChanges, OthersMove

(* The request that is waited for carries the newest version there has     *)
(* been of its item, and other requests are of items in trouble.           *)
LEMMA OvertakesStep ==
    ASSUME TypeOK, SendsADocument, FoundWhileCollecting, VersionsRise, NoStrays,
           AwaitedIsTheHead, OldNeverOvertakes, [Next]_vars
    PROVE  OldNeverOvertakes'
<1> USE DEF OldNeverOvertakes
<1>1. ASSUME UNCHANGED <<backwards, lost, halts>> PROVE OldNeverOvertakes' BY <1>1
<1>2. ASSUME NEW q \in network, Arrive(q) PROVE OldNeverOvertakes'
    <2>1. /\ UNCHANGED <<lost, halts>>
          /\ backwards' = [backwards EXCEPT ![q.item] =
                              IF q.version < last[q.item] THEN @ + 1 ELSE @]
        BY <1>2 DEF Arrive
    <2> SUFFICES ASSUME NEW i \in Items, lost[i] = 0, halts = 0
                 PROVE  backwards'[i] = 0
        BY <2>1
    <2>2. CASE q.item # i BY <2>1, <2>2 DEF TypeOK
    <2>3. CASE q.item = i
        <3>1. phase = "waiting" BY <2>3 DEF NoStrays
        <3>2. q.item = Head(docs).item /\ q.version = Head(docs).version
            BY <2>3, <3>1 DEF NoStrays, AwaitedIsTheHead
        <3>3. ToSend = docs /\ docs # <<>>
            BY <3>1, ConcatEmptySeq DEF SendsADocument, FoundWhileCollecting, ToSend, TypeOK
        <3>4. 1 \in DOMAIN ToSend /\ Head(docs) = ToSend[1]
            BY <3>3, ToSendTypes, EmptySeq
        <3>5. last[i] =< q.version BY <2>3, <3>2, <3>4 DEF VersionsRise, AheadOf
        <3>6. last[i] \in Nat /\ q.version \in Nat
            BY <2>3, VersionTypes
        <3>7. ~(q.version < last[i]) BY <3>5, <3>6
        <3> QED BY <2>1, <2>3, <3>7 DEF TypeOK
    <2> QED BY <2>2, <2>3
<1>3. ASSUME NEW w \in BOOLEAN, Failed(w) PROVE OldNeverOvertakes'
    <2> DEFINE h == Head(docs).item
    <2>1. UNCHANGED <<backwards, halts>> BY <1>3 DEF Failed, record
    <2>2. h \in Items BY <1>3, HeadIsADoc, DocFields DEF SendsADocument, Failed
    <2>3. lost' = lost \/ lost' = [lost EXCEPT ![h] = @ + 1] BY <1>3 DEF Failed
    <2>4. \A i \in Items : lost'[i] = 0 => lost[i] = 0 BY <2>2, <2>3, SMTT(30) DEF TypeOK
    <2> QED BY <2>1, <2>4
<1>4. ASSUME NEW w \in BOOLEAN, Halt(w) PROVE OldNeverOvertakes'
    <2>1. halts' = halts + 1 /\ halts \in Nat BY <1>4, ConstantsAssumption DEF Halt, TypeOK
    <2>2. halts' # 0 BY <2>1
    <2> QED BY <2>2
<1>5. CASE UNCHANGED <<record, lost, halts>> BY <1>1, <1>5 DEF record
<1> HIDE DEF OldNeverOvertakes
<1>6. \/ \E q \in network : Arrive(q)
      \/ \E w \in BOOLEAN : Failed(w) \/ Halt(w)
      \/ UNCHANGED <<record, lost, halts>>
    BY DEF Next, vars, record, Edit, Start, Read, EndForum, ForumFails, EndCollecting,
           NotSent, Malformed, Unchanged, Send, Confirmed, Wake, Reset
<1> QED BY <1>2, <1>3, <1>4, <1>5, <1>6

-----------------------------------------------------------------------------
(* The inductive invariant holds in every state of the sensor.             *)
THEOREM SensorInvariant == Spec => []IInv
<1>1. Init => IInv
    <2> SUFFICES ASSUME Init PROVE IInv OBVIOUS
    <2>1. network = {} /\ ~answered /\ phase = "down" /\ state = EmptyState
          /\ file = EmptyState
        BY DEF Init
    <2>2. RecordsOnlyWhatArrived
        BY <2>1 DEF RecordsOnlyWhatArrived, SentIsSeen, EmptyState
    <2>3. SendsADocument /\ AwaitedIsTheHead /\ AnswerIsForTheHead /\ NoStrays
          /\ FirstRunIsFresh
        BY <2>1 DEF SendsADocument, AwaitedIsTheHead, AnswerIsForTheHead, NoStrays,
                    FirstRunIsFresh
    <2>4. HashIsCurrent BY DEF Init, HashIsCurrent, EmptyState
    <2>5. FoundWhileCollecting /\ OldNeverOvertakes
        BY DEF Init, FoundWhileCollecting, OldNeverOvertakes
    <2>6. VersionsRise
        <3>1. ToSend = <<>> BY EmptySeq, ConcatEmptySeq DEF Init, ToSend
        <3>2. DOMAIN ToSend = {} BY <3>1, EmptySeq, LenProperties
        <3>3. \A i \in Items : last[i] = 0 /\ posted[i] = 1 BY DEF Init
        <3>4. \A i \in Items : last[i] =< posted[i]
            <4>1. 0 =< 1 OBVIOUS
            <4> QED BY <3>3, <4>1, Zenon
        <3> QED BY <2>1, <3>2, <3>4 DEF VersionsRise, InOrder, AheadOf
    <2> QED BY InitTypes, <2>2, <2>3, <2>4, <2>5, <2>6 DEF IInv
<1>2. IInv /\ [Next]_vars => IInv'
    <2> SUFFICES ASSUME IInv, [Next]_vars PROVE IInv' OBVIOUS
    <2>1. TypeOK' BY TypesStep DEF IInv
    <2> QED BY <2>1, RecordsStep, SendsADocumentStep, AwaitedStep, AnswerStep, StraysStep,
               FreshStep, HashStep, FoundStep, VersionsRiseStep, OvertakesStep DEF IInv
<1> QED BY <1>1, <1>2, PTL DEF Spec

(* Every variable of the sensor keeps its type.                            *)
THEOREM SensorTypes == Spec => []TypeOK
<1>1. IInv => TypeOK BY DEF IInv
<1> QED BY <1>1, SensorInvariant, PTL

(* The sensor passes over nothing that the coordinator has not received,   *)
(* whatever requests and answers are lost and whenever it crashes.         *)
THEOREM OnlyArrivedIsRecorded == Spec => []RecordsOnlyWhatArrived
<1>1. IInv => RecordsOnlyWhatArrived BY DEF IInv
<1> QED BY <1>1, SensorInvariant, PTL

(* The coordinator gets the versions of an item in order, if no request    *)
(* for it was given up and the sensor never went down.                     *)
THEOREM VersionsArriveInOrder == Spec => []OldNeverOvertakes
<1>1. IInv => OldNeverOvertakes BY DEF IInv
<1> QED BY <1>1, SensorInvariant, PTL

(* While nothing goes wrong for an item, the hash that decides between     *)
(* NEW, UPDATE and nothing is that of the coordinator's last version.      *)
THEOREM RecordedHashIsCurrent == Spec => []HashIsCurrent
<1>1. IInv => HashIsCurrent BY DEF IInv
<1> QED BY <1>1, SensorInvariant, PTL

-----------------------------------------------------------------------------
(* Steps after which the requests, the answer and the hashes are the same. *)
Calm ==
    /\ UNCHANGED <<network, sent, answered, lost, halts, last, repeats>>
    /\ UNCHANGED <<phase, docs>> \/ (phase # "waiting" /\ phase' # "waiting")
    /\ state'.hash = state.hash
    /\ phase' = "down" => phase = "down" /\ state' = state

LEMMA WhichAreCalm ==
    ASSUME TypeOK, SendsADocument, [Next]_vars
    PROVE  \/ Calm
           \/ Start
           \/ Send
           \/ \E q \in network : Arrive(q)
           \/ Confirmed
           \/ \E w \in BOOLEAN : Failed(w)
           \/ \E w \in BOOLEAN : Halt(w)
<1> USE DEF Calm, wire, record, sensor
<1>1. ASSUME NEW i \in Items, Edit(i) PROVE Calm BY <1>1 DEF Edit
<1>2. ASSUME NEW i \in Items, Read(i) PROVE Calm BY <1>2 DEF Read
<1>3. CASE EndForum BY <1>3 DEF EndForum
<1>4. CASE ForumFails BY <1>4 DEF ForumFails
<1>5. CASE EndCollecting BY <1>5 DEF EndCollecting
<1>6. CASE NotSent BY <1>6 DEF NotSent
<1>7. CASE Malformed BY <1>7 DEF Malformed, NextDoc, TypeOK, State
<1>8. CASE Unchanged
    <2>1. Head(docs).item \in Items
        BY <1>8, HeadIsADoc, DocFields DEF SendsADocument, Unchanged
    <2>2. state'.hash = state.hash BY <1>8, <2>1, MarkedState DEF Unchanged, TypeOK
    <2> QED BY <1>8, <2>2 DEF Unchanged, NextDoc
<1>9. CASE Wake BY <1>9 DEF Wake
<1>10. ASSUME NEW i \in Items, Reset(i) PROVE Calm BY <1>10 DEF Reset
<1>11. CASE UNCHANGED vars BY <1>11 DEF vars
<1> HIDE DEF Calm
<1> QED BY <1>1, <1>2, <1>3, <1>4, <1>5, <1>6, <1>7, <1>8, <1>9, <1>10, <1>11, Zenon
      DEF Next

(* Nothing is recorded while a request is waited for.                      *)
LEMMA NewsStep ==
    ASSUME TypeOK, SendsADocument, SentIsNews, [Next]_vars
    PROVE  SentIsNews'
<1> USE DEF SentIsNews
<1>1. CASE Calm BY <1>1 DEF Calm
<1>2. ASSUME phase' # "waiting" PROVE SentIsNews' BY <1>2
<1>3. CASE Start BY <1>2, <1>3 DEF Start
<1>4. CASE Send
    <2>1. state'.hash = state.hash BY <1>4 DEF Send, TypeOK, State
    <2> QED BY <1>4, <2>1 DEF Send
<1>5. ASSUME NEW q \in network, Arrive(q) PROVE SentIsNews' BY <1>5 DEF Arrive, sensor
<1>6. CASE Confirmed BY <1>2, <1>6 DEF Confirmed, NextDoc
<1>7. ASSUME NEW w \in BOOLEAN, Failed(w) PROVE SentIsNews' BY <1>2, <1>7 DEF Failed, NextDoc
<1>8. ASSUME NEW w \in BOOLEAN, Halt(w) PROVE SentIsNews' BY <1>2, <1>8 DEF Halt
<1> QED BY <1>1, <1>3, <1>4, <1>5, <1>6, <1>7, <1>8, WhichAreCalm

(* A request is answered when it has left the network.                     *)
LEMMA GoneStep ==
    ASSUME TypeOK, SendsADocument, AwaitedIsTheHead, AnswerIsForTheHead, AnsweredIsGone,
           [Next]_vars
    PROVE  AnsweredIsGone'
<1> USE DEF AnsweredIsGone
<1>1. CASE Calm BY <1>1 DEF Calm
<1>2. ASSUME ~answered' PROVE AnsweredIsGone' BY <1>2
<1>3. CASE Start BY <1>3 DEF Start, wire
<1>4. CASE Send BY <1>2, <1>4 DEF Send
<1>5. ASSUME NEW q \in network, Arrive(q) PROVE AnsweredIsGone'
    <2>1. /\ network' = network \ {q} /\ sent' = sent
          /\ answered' = (answered \/ (phase = "waiting" /\ q.number = sent))
        BY <1>5 DEF Arrive
    <2> QED BY <2>1, OneNewest
<1>6. CASE Confirmed BY <1>2, <1>6 DEF Confirmed
<1>7. ASSUME NEW w \in BOOLEAN, Failed(w) PROVE AnsweredIsGone' BY <1>2, <1>7 DEF Failed
<1>8. ASSUME NEW w \in BOOLEAN, Halt(w) PROVE AnsweredIsGone' BY <1>2, <1>8 DEF Halt
<1> QED BY <1>1, <1>3, <1>4, <1>5, <1>6, <1>7, <1>8, WhichAreCalm

(* What is in memory ends with the process.                                *)
LEMMA DownStep ==
    ASSUME TypeOK, SendsADocument, DownIsEmpty, [Next]_vars
    PROVE  DownIsEmpty'
<1> USE DEF DownIsEmpty
<1>0. EmptyState' = EmptyState BY DEF EmptyState
<1>1. CASE Calm BY <1>0, <1>1 DEF Calm
<1>2. ASSUME phase' # "down" PROVE DownIsEmpty' BY <1>2
<1>3. CASE Start BY <1>2, <1>3 DEF Start
<1>4. CASE Send BY <1>2, <1>4 DEF Send
<1>5. ASSUME NEW q \in network, Arrive(q) PROVE DownIsEmpty' BY <1>0, <1>5 DEF Arrive, sensor
<1>6. CASE Confirmed BY <1>2, <1>6 DEF Confirmed, NextDoc
<1>7. ASSUME NEW w \in BOOLEAN, Failed(w) PROVE DownIsEmpty' BY <1>2, <1>7 DEF Failed, NextDoc
<1>8. ASSUME NEW w \in BOOLEAN, Halt(w) PROVE DownIsEmpty' BY <1>0, <1>8 DEF Halt
<1> QED BY <1>1, <1>3, <1>4, <1>5, <1>6, <1>7, <1>8, WhichAreCalm

(* What is to be sent was to be sent before, or has just been read.        *)
LEMMA NothingElseToSend ==
    ASSUME TypeOK, TypeOK', SendsADocument, FoundWhileCollecting, [Next]_vars
    PROVE  \A a \in DOMAIN ToSend' :
              \/ \E b \in DOMAIN ToSend : ToSend'[a] = ToSend[b]
              \/ \E i \in Items : ToSend'[a] = [item |-> i, version |-> posted[i]]
<1> DEFINE s == ToSend
           t == ToSend'
<1>1. s \in Seq(Doc) /\ Len(s) \in Nat /\ DOMAIN s = 1..Len(s)
    BY ToSendTypes
<1>2. t \in Seq(Doc) /\ Len(t) \in Nat /\ DOMAIN t = 1..Len(t)
    <2>1. t \in Seq(Doc) BY ConcatProperties DEF TypeOK, ToSend
    <2> QED BY <2>1, LenProperties
<1> SUFFICES ASSUME NEW a \in DOMAIN t
             PROVE  \/ \E b \in DOMAIN s : t[a] = s[b]
                    \/ \E i \in Items : t[a] = [item |-> i, version |-> posted[i]]
    OBVIOUS
<1>3. ASSUME NEW i \in Items, t = Append(s, [item |-> i, version |-> posted[i]])
      PROVE  (\E b \in DOMAIN s : t[a] = s[b]) \/ t[a] = [item |-> i, version |-> posted[i]]
    <2> DEFINE d == [item |-> i, version |-> posted[i]]
    <2>1. d \in Doc BY DEF Doc, TypeOK
    <2> HIDE DEF d
    <2>2. /\ Len(t) = Len(s) + 1 /\ t[Len(s) + 1] = d
          /\ \A b \in 1..Len(s) : t[b] = s[b]
        BY <1>1, <1>3, <2>1, AppendProperties DEF d
    <2>3. a \in 1..Len(s) \/ a = Len(s) + 1 BY <1>1, <1>2, <2>2
    <2> QED BY <1>1, <2>2, <2>3 DEF d
<1>4. ASSUME s # <<>>, t = Tail(s) PROVE \E b \in DOMAIN s : t[a] = s[b]
    <2>1. Len(t) = Len(s) - 1 /\ t[a] = s[a + 1] BY <1>1, <1>2, <1>4, HeadTailProperties
    <2>2. a + 1 \in DOMAIN s BY <1>1, <1>2, <2>1
    <2> QED BY <2>1, <2>2
<1>5. ASSUME NEW n \in 0..Len(s), Len(t) = n, \A b \in 1..n : t[b] = s[b]
      PROVE  \E b \in DOMAIN s : t[a] = s[b]
    BY <1>1, <1>2, <1>5
<1>6. ASSUME t = s PROVE \E b \in DOMAIN s : t[a] = s[b] BY <1>6
<1> HIDE DEF s, t
<1> QED BY <1>3, <1>4, <1>5, <1>6, ToSendChanges DEF s, t

(* A step makes a repeat possible only by a change of the record or of the *)
(* version that arrived last.                                              *)
LEMMA OnlyRecordMatters ==
    ASSUME TypeOK, TypeOK', SendsADocument, FoundWhileCollecting, VersionsRise, [Next]_vars,
           NEW i \in Items, last'[i] = last[i], OnRecord(i) # last[i], MayRepeat(i)'
    PROVE  MayRepeat(i)
<1>1. \A j \in Items : last[j] \in Nat /\ posted[j] \in Nat /\ last[j] =< posted[j]
    BY VersionTypes DEF VersionsRise
<1>2. CASE posted'[i] = last[i]
    <2>1. posted[i] = last[i]
        <3>1. posted' = posted \/ \E j \in Items : posted' = [posted EXCEPT ![j] = @ + 1]
            BY DEF Next, vars, sensor, Edit, Start, Read, EndForum, ForumFails, EndCollecting,
                   NotSent, Malformed, Unchanged, Send, Arrive, Confirmed, Failed, Wake, Halt,
                   Reset
        <3>2. posted'[i] = posted[i] \/ posted'[i] = posted[i] + 1 BY <3>1 DEF TypeOK
        <3> QED BY <1>1, <1>2, <3>2
    <2> QED BY <2>1 DEF MayRepeat
<1>3. ASSUME NEW a \in DOMAIN ToSend', ToSend'[a] = [item |-> i, version |-> last[i]]
      PROVE  MayRepeat(i)
    <2>1. ASSUME NEW j \in Items, ToSend'[a] = [item |-> j, version |-> posted[j]]
          PROVE  posted[i] = last[i]
        <3>1. [item |-> j, version |-> posted[j]] = [item |-> i, version |-> last[i]]
            BY <1>3, <2>1
        <3> QED BY <3>1, Zenon
    <2> QED BY <1>3, <2>1, NothingElseToSend DEF MayRepeat
<1> QED BY <1>2, <1>3 DEF MayRepeat

(* The debt of an item stays paid: a trouble is added to a debt that grows *)
(* by one at most, and without one a stray that is gone pays for the       *)
(* repeat, or for the possibility of one, that it leaves.                  *)
Paid(i) ==
    \/ /\ repeats'[i] = repeats[i] /\ (Strays(i))' \subseteq Strays(i)
       /\ \/ lost'[i] + halts' = lost[i] + halts + 1
          \/ MayRepeat(i)' => MayRepeat(i)
    \/ /\ repeats'[i] = repeats[i] /\ lost'[i] + halts' = lost[i] + halts + 1
       /\ \E q : (Strays(i))' \subseteq Strays(i) \cup {q}
       /\ MayRepeat(i)' => MayRepeat(i)
    \/ /\ \E q \in Strays(i) : (Strays(i))' = Strays(i) \ {q}
       /\ \/ repeats'[i] = repeats[i]
          \/ repeats'[i] = repeats[i] + 1 /\ (MayRepeat(i)' => MayRepeat(i))
    \/ /\ (Strays(i))' \subseteq Strays(i) /\ ~MayRepeat(i)'
       /\ repeats'[i] = repeats[i] + 1 /\ MayRepeat(i)

LEMMA DebtPaid ==
    ASSUME TypeOK, TypeOK', IsFiniteSet(network), NEW i \in Items, Debt(i) =< lost[i] + halts,
           lost[i] + halts =< lost'[i] + halts', Paid(i)
    PROVE  (Debt(i))' =< lost'[i] + halts'
<1>0. /\ repeats[i] \in Nat /\ lost[i] \in Nat /\ halts \in Nat
      /\ repeats'[i] \in Nat /\ lost'[i] \in Nat /\ halts' \in Nat
    BY ConstantsAssumption DEF TypeOK
<1>1. PICK r, l \in Nat : r = repeats[i] /\ l = lost[i] + halts
    BY <1>0
<1>2. PICK t, m \in Nat : t = repeats'[i] /\ m = lost'[i] + halts'
    BY <1>0
<1>3. PICK S, T : S = Strays(i) /\ T = (Strays(i))' OBVIOUS
<1>4. IsFiniteSet(S)
    <2>1. S \subseteq network BY <1>3 DEF Strays
    <2> QED BY <2>1, FS_Subset
<1>5. PICK b, c \in {0, 1} : /\ b = (IF MayRepeat(i) THEN 1 ELSE 0)
                             /\ c = (IF MayRepeat(i)' THEN 1 ELSE 0)
    OBVIOUS
<1>6. Cardinality(S) \in Nat BY <1>4, FS_CardinalityType
<1>7. ASSUME T \subseteq S PROVE Cardinality(T) \in Nat /\ Cardinality(T) =< Cardinality(S)
    BY <1>4, <1>7, FS_Subset, FS_CardinalityType
<1>8. ASSUME NEW q, T \subseteq S \cup {q}
      PROVE  Cardinality(T) \in Nat /\ Cardinality(T) =< Cardinality(S) + 1
    <2>1. IsFiniteSet(S \cup {q}) /\ Cardinality(S \cup {q}) \in {Cardinality(S), Cardinality(S) + 1}
        BY <1>4, FS_AddElement
    <2>2. IsFiniteSet(T) /\ Cardinality(T) =< Cardinality(S \cup {q})
        BY <1>8, <2>1, FS_Subset
    <2> QED BY <1>6, <2>1, <2>2, FS_CardinalityType
<1>9. ASSUME NEW q \in S, T = S \ {q} PROVE Cardinality(T) \in Nat /\ Cardinality(T) = Cardinality(S) - 1
    BY <1>4, <1>9, FS_RemoveElement, FS_CardinalityType
<1>10. r + Cardinality(S) + b =< l /\ l =< m
    BY <1>1, <1>2, <1>3, <1>5 DEF Debt
<1> SUFFICES t + Cardinality(T) + c =< m
    BY <1>2, <1>3, <1>5 DEF Debt
<1>11. (MayRepeat(i)' => MayRepeat(i)) => c =< b
    BY <1>5
<1>12. CASE t = r /\ T \subseteq S /\ (m = l + 1 \/ c =< b)
    BY <1>1, <1>2, <1>5, <1>6, <1>7, <1>10, <1>12
<1>13. ASSUME t = r, m = l + 1, c =< b, NEW q, T \subseteq S \cup {q}
       PROVE  t + Cardinality(T) + c =< m
    BY <1>1, <1>2, <1>5, <1>6, <1>8, <1>10, <1>13
<1>14. ASSUME t = r \/ (t = r + 1 /\ c =< b), NEW q \in S, T = S \ {q}
       PROVE  t + Cardinality(T) + c =< m
    <2>1. PICK k, n \in Nat : k = Cardinality(S) /\ n = Cardinality(T) /\ n = k - 1
        BY <1>6, <1>9, <1>14
    <2>2. r + k + b =< l /\ l =< m BY <1>10, <2>1
    <2>3. t + n + c =< m BY <1>1, <1>2, <1>5, <1>14, <2>1, <2>2
    <2> QED BY <2>1, <2>3
<1>15. CASE t = r + 1 /\ T \subseteq S /\ b = 1 /\ c = 0
    BY <1>1, <1>2, <1>5, <1>6, <1>7, <1>10, <1>15
<1>16. /\ ~MayRepeat(i)' => c = 0
       /\ MayRepeat(i) => b = 1
    BY <1>5
<1> HIDE DEF MayRepeat, Strays
<1> QED BY <1>1, <1>2, <1>3, <1>11, <1>12, <1>13, <1>14, <1>15, <1>16 DEF Paid

(* A step sends one request at most.                                       *)
LEMMA NetworkStaysFinite ==
    ASSUME IsFiniteSet(network), [Next]_vars
    PROVE  IsFiniteSet(network')
<1>1. network' \subseteq network \/ \E q : network' = network \cup {q}
    BY DEF Next, vars, wire, Edit, Start, Read, EndForum, ForumFails, EndCollecting, NotSent,
           Malformed, Unchanged, Send, Arrive, Confirmed, Failed, Wake, Halt, Reset
<1> QED BY <1>1, FS_Subset, FS_AddElement

(* Every step pays the debt of every item.                                 *)
LEMMA PaidStep ==
    ASSUME IInv, TypeOK', RepeatInv, [Next]_vars, NEW i \in Items
    PROVE  Paid(i) /\ lost[i] + halts =< lost'[i] + halts'
<1> DEFINE Goal == Paid(i) /\ lost[i] + halts =< lost'[i] + halts'
           h == Head(docs)
<1>1. /\ TypeOK /\ SendsADocument /\ FoundWhileCollecting /\ VersionsRise /\ AwaitedIsTheHead
      /\ AnswerIsForTheHead /\ SentIsNews /\ AnsweredIsGone /\ DownIsEmpty
    BY DEF IInv, RepeatInv
<1>2. halts \in Nat /\ lost[i] \in Nat /\ repeats[i] \in Nat
    BY <1>1, ConstantsAssumption DEF TypeOK
<1>3. ASSUME last'[i] = last[i], OnRecord(i)' = OnRecord(i)
      PROVE  MayRepeat(i)' => MayRepeat(i)
    BY <1>1, <1>3, OnlyRecordMatters DEF MayRepeat
<1>4. ASSUME phase \in {"sending", "waiting"}
      PROVE  h \in Doc /\ h.item \in Items /\ h.version \in Nat
    BY <1>1, <1>4, HeadIsADoc, DocFields, VersionsAreNumbers DEF SendsADocument
<1>6. ASSUME UNCHANGED <<repeats, last, lost, halts>>, OnRecord(i)' = OnRecord(i),
             (Strays(i))' \subseteq Strays(i)
      PROVE  Goal
    BY <1>2, <1>3, <1>6 DEF Paid
<1>7. CASE Calm
    <2>1. OnRecord(i)' = OnRecord(i)
        BY <1>1, <1>7 DEF Calm, OnRecord, AnswerIsForTheHead
    <2>2. (Strays(i))' \subseteq Strays(i) BY <1>7 DEF Calm, Strays
    <2> QED BY <1>1, <1>6, <1>7, <2>1, <2>2 DEF Calm
<1>8. CASE Start
    <2>1. /\ UNCHANGED <<repeats, last, lost, halts, network, sent, answered, posted>>
          /\ phase = "down" /\ phase' = "collecting" /\ state = EmptyState
        BY <1>1, <1>8 DEF Start, wire, record, DownIsEmpty
    <2>2. OnRecord(i) = 0
        BY <1>1, <2>1 DEF OnRecord, AnswerIsForTheHead, EmptyState
    <2>3. last[i] = 0 => ~MayRepeat(i)'
        <3>1. posted[i] # 0 BY <1>1, VersionsAreNumbers DEF TypeOK
        <3>2. \A a \in DOMAIN ToSend' : ToSend'[a] \in Doc /\ ToSend'[a].version # 0
            <4>1. ToSend' = ToSend BY <1>8 DEF Start, ToSend
            <4> QED BY <1>1, <4>1, ToSendTypes, DocFields, VersionsAreNumbers
        <3>3. [item |-> i, version |-> 0].version = 0 OBVIOUS
        <3> QED BY <2>1, <3>1, <3>2, <3>3 DEF MayRepeat
    <2>4. MayRepeat(i)' => MayRepeat(i)
        BY <1>1, <2>1, <2>2, <2>3, OnlyRecordMatters
    <2>5. (Strays(i))' \subseteq Strays(i) BY <2>1 DEF Strays
    <2> QED BY <1>1, <1>2, <2>1, <2>4, <2>5 DEF Paid
<1>9. CASE Send
    <2>1. /\ UNCHANGED <<repeats, last, lost, halts, docs>> /\ sent' = sent + 1 /\ sent \in Nat
          /\ phase = "sending" /\ phase' = "waiting" /\ ~answered'
          /\ state'.hash = state.hash
        BY <1>1, <1>9 DEF Send, record, TypeOK, State
    <2>2. PICK q : network' = network \cup {q} /\ q.number = sent + 1
        <3> DEFINE q == [item |-> h.item, version |-> h.version, number |-> sent + 1]
        <3>1. network' = network \cup {q} /\ q.number = sent + 1 BY <1>9 DEF Send
        <3> QED BY <3>1
    <2>3. ~answered BY <1>1, <2>1 DEF AnswerIsForTheHead
    <2>4. OnRecord(i)' = OnRecord(i) BY <2>1, <2>3 DEF OnRecord
    <2>5. (Strays(i))' \subseteq Strays(i) BY <2>1, <2>2 DEF Strays
    <2> QED BY <1>6, <2>1, <2>4, <2>5
<1>10. ASSUME NEW q \in network, Arrive(q) PROVE Goal
    <2>1. /\ UNCHANGED <<posted, phase, state, docs, found, lost, halts, sent>>
          /\ network' = network \ {q}
          /\ answered' = (answered \/ (phase = "waiting" /\ q.number = sent))
          /\ last' = [last EXCEPT ![q.item] = q.version]
          /\ repeats' = [repeats EXCEPT ![q.item] = IF q.version = last[q.item] THEN @ + 1 ELSE @]
        BY <1>10 DEF Arrive, sensor
    <2>2. q.item \in Items /\ q.version \in Nat BY <1>1, VersionTypes
    <2>3. (Strays(i))' \subseteq Strays(i)
        BY <2>1 DEF Strays
    <2>4. phase = "waiting" /\ q.number = sent => q.item = h.item /\ q.version = h.version
        BY <1>1 DEF AwaitedIsTheHead
    <2>5. CASE q.item # i
        <3>1. repeats'[i] = repeats[i] /\ last'[i] = last[i]
            BY <1>1, <2>1, <2>2, <2>5 DEF TypeOK
        <3>2. OnRecord(i)' = OnRecord(i)
            BY <2>1, <2>4, <2>5 DEF OnRecord
        <3> QED BY <1>2, <1>3, <2>1, <2>3, <3>1, <3>2 DEF Paid
    <2>6. CASE q.item = i /\ phase = "waiting" /\ q.number = sent
        <3>1. last'[i] = q.version /\ OnRecord(i)' = q.version
            BY <1>1, <2>1, <2>2, <2>4, <2>6 DEF OnRecord, TypeOK
        <3>2. ~MayRepeat(i)' BY <3>1 DEF MayRepeat
        <3>3. CASE q.version = last[i]
            <4>1. repeats'[i] = repeats[i] + 1 BY <1>1, <2>1, <2>6, <3>3 DEF TypeOK
            <4>2. OnRecord(i) # last[i]
                BY <1>1, <2>4, <2>6, <3>3 DEF OnRecord, AnsweredIsGone, SentIsNews
            <4>3. h = [item |-> i, version |-> last[i]]
                BY <1>4, <2>4, <2>6, <3>3 DEF Doc
            <4>4. \E a \in DOMAIN ToSend : ToSend[a] = h
                <5>1. docs # <<>> /\ found = <<>>
                    BY <1>1, <2>6 DEF SendsADocument, FoundWhileCollecting
                <5>2. ToSend = docs BY <1>1, <5>1, ConcatEmptySeq DEF ToSend, TypeOK
                <5>3. 1 \in DOMAIN ToSend /\ ToSend[1] = h
                    BY <1>1, <5>1, <5>2, ToSendTypes, EmptySeq
                <5> QED BY <5>3
            <4>5. MayRepeat(i) BY <4>2, <4>3, <4>4, Zenon DEF MayRepeat
            <4> QED BY <1>2, <2>1, <2>3, <3>2, <4>1, <4>5 DEF Paid
        <3>4. CASE q.version # last[i]
            <4>1. repeats'[i] = repeats[i] BY <1>1, <2>1, <2>6, <3>4 DEF TypeOK
            <4> QED BY <1>2, <2>1, <2>3, <3>2, <4>1 DEF Paid
        <3> QED BY <3>3, <3>4
    <2>7. CASE q.item = i /\ ~(phase = "waiting" /\ q.number = sent)
        <3>1. q \in Strays(i) /\ (Strays(i))' = Strays(i) \ {q}
            BY <2>1, <2>7 DEF Strays
        <3>2. OnRecord(i)' = OnRecord(i) BY <2>1, <2>7 DEF OnRecord
        <3>3. CASE q.version = last[i]
            <4>1. repeats'[i] = repeats[i] + 1 /\ last'[i] = last[i]
                BY <1>1, <2>1, <2>7, <3>3 DEF TypeOK
            <4> QED BY <1>2, <1>3, <2>1, <2>3, <3>1, <3>2, <4>1 DEF Paid
        <3>4. CASE q.version # last[i]
            <4>1. repeats'[i] = repeats[i] BY <1>1, <2>1, <2>7, <3>4 DEF TypeOK
            <4> QED BY <1>2, <2>1, <2>3, <3>1, <4>1 DEF Paid
        <3> QED BY <3>3, <3>4
    <2> QED BY <2>5, <2>6, <2>7
<1>11. CASE Confirmed
    <2>1. /\ UNCHANGED <<repeats, last, lost, halts, network, sent>>
          /\ phase = "waiting" /\ phase' # "waiting" /\ answered /\ ~answered'
        BY <1>11 DEF Confirmed, NextDoc, record
    <2>2. state'.hash = [state.hash EXCEPT ![h.item] = h.version]
        <3>1. h.item \in Items /\ h.version \in Version
            BY <1>1, <2>1, HeadIsADoc, DocFields DEF SendsADocument
        <3>2. state \in State BY <1>1 DEF TypeOK
        <3> QED BY <1>11, <3>1, <3>2, RecordedState DEF Confirmed
    <2>3. OnRecord(i)' = OnRecord(i)
        BY <1>1, <1>4, <2>1, <2>2 DEF OnRecord, TypeOK, State
    <2>4. (Strays(i))' \subseteq Strays(i) BY <1>1, <2>1 DEF Strays, AnsweredIsGone
    <2> QED BY <1>1, <1>6, <2>1, <2>3, <2>4
<1>12. ASSUME NEW w \in BOOLEAN, Failed(w) PROVE Goal
    <2>1. /\ UNCHANGED <<repeats, last, halts, sent>> /\ state'.hash = state.hash
          /\ phase = "waiting" /\ phase' # "waiting" /\ ~answered'
          /\ network' = IF w THEN network \ Newest ELSE network
          /\ lost' = IF w /\ ~answered THEN lost ELSE [lost EXCEPT ![h.item] = @ + 1]
        BY <1>1, <1>12 DEF Failed, NextDoc, record, TypeOK, State
    <2>2. network' \subseteq network BY <2>1
    <2>3. h.item \in Items BY <1>4, <2>1
    <2>4. \A q \in network : q.number = sent => q.item = h.item
        BY <1>1, <2>1 DEF AwaitedIsTheHead
    <2>5. ASSUME answered \/ w \/ h.item # i PROVE (Strays(i))' \subseteq Strays(i)
        BY <1>1, <2>1, <2>2, <2>4, <2>5 DEF Strays, AnsweredIsGone, Newest
    <2>6. CASE w /\ ~answered
        BY <1>6, <2>1, <2>2, <2>5, <2>6 DEF OnRecord
    <2>7. CASE ~(w /\ ~answered) /\ h.item # i
        <3>1. lost'[i] = lost[i] BY <1>1, <2>1, <2>3, <2>7 DEF TypeOK
        <3>2. OnRecord(i)' = OnRecord(i) BY <2>1, <2>7 DEF OnRecord
        <3> QED BY <1>2, <1>3, <2>1, <2>2, <2>5, <2>7, <3>1, <3>2 DEF Paid
    <2>8. CASE ~(w /\ ~answered) /\ h.item = i
        <3>1. lost'[i] = lost[i] + 1 BY <1>1, <2>1, <2>3, <2>8 DEF TypeOK
        <3>2. lost'[i] + halts' = lost[i] + halts + 1 BY <1>2, <2>1, <3>1
        <3>3. CASE answered BY <1>2, <2>1, <2>2, <2>5, <3>2, <3>3 DEF Paid
        <3>4. CASE ~answered
            <4>1. MayRepeat(i)' => MayRepeat(i) BY <1>3, <2>1, <3>4 DEF OnRecord
            <4>2. \E q : (Strays(i))' \subseteq Strays(i) \cup {q}
                <5>1. ASSUME \A q \in network : q.number # sent
                      PROVE  \E q : (Strays(i))' \subseteq Strays(i) \cup {q}
                    BY <2>1, <2>2, <5>1 DEF Strays
                <5>2. ASSUME NEW q \in network, q.number = sent
                      PROVE  (Strays(i))' \subseteq Strays(i) \cup {q}
                    BY <1>1, <2>1, <2>2, <5>2, OneNewest DEF Strays
                <5> QED BY <5>1, <5>2
            <4> QED BY <1>2, <2>1, <2>2, <3>2, <4>1, <4>2 DEF Paid
        <3> QED BY <3>3, <3>4
    <2> QED BY <2>6, <2>7, <2>8
<1>13. ASSUME NEW w \in BOOLEAN, Halt(w) PROVE Goal
    <2>1. /\ UNCHANGED <<repeats, last, lost, sent, posted>> /\ halts' = halts + 1
          /\ phase' = "down" /\ ~answered'
          /\ docs' = <<>> /\ found' = <<>>
          /\ network' = IF w /\ phase = "waiting" THEN network \ Newest ELSE network
        BY <1>13 DEF Halt, record
    <2>2. network' \subseteq network BY <2>1
    <2>3. lost'[i] + halts' = lost[i] + halts + 1 BY <1>2, <2>1
    <2>4. \A q \in network : phase = "waiting" /\ q.number = sent => q.item = h.item
        BY <1>1 DEF AwaitedIsTheHead
    <2>5. CASE phase # "waiting" \/ answered \/ w \/ h.item # i
        <3>1. (Strays(i))' \subseteq Strays(i)
            BY <1>1, <2>1, <2>2, <2>4, <2>5 DEF Strays, AnsweredIsGone, Newest
        <3> QED BY <1>2, <2>1, <2>2, <2>3, <3>1 DEF Paid
    <2>6. CASE phase = "waiting" /\ ~answered /\ ~w /\ h.item = i
        <3>1. \E q : (Strays(i))' \subseteq Strays(i) \cup {q}
            <4>1. ASSUME \A q \in network : q.number # sent
                  PROVE  \E q : (Strays(i))' \subseteq Strays(i) \cup {q}
                BY <2>2, <4>1 DEF Strays
            <4>2. ASSUME NEW q \in network, q.number = sent
                  PROVE  (Strays(i))' \subseteq Strays(i) \cup {q}
                BY <1>1, <2>2, <2>6, <4>2, OneNewest DEF Strays
            <4> QED BY <4>1, <4>2
        <3>2. ASSUME MayRepeat(i)' PROVE MayRepeat(i)
            <4>1. docs # <<>> /\ found = <<>>
                BY <1>1, <2>6 DEF SendsADocument, FoundWhileCollecting
            <4>2. ToSend = docs BY <1>1, <4>1, ConcatEmptySeq DEF ToSend, TypeOK
            <4>3. 1 \in DOMAIN ToSend /\ ToSend[1] = h
                BY <1>1, <4>1, <4>2, ToSendTypes, EmptySeq
            <4>4. DOMAIN ToSend' = {}
                <5>1. ToSend' = <<>> BY <2>1, EmptySeq, ConcatEmptySeq DEF ToSend
                <5> QED BY <5>1, EmptySeq, LenProperties
            <4>5. posted[i] = last[i] BY <2>1, <3>2, <4>4 DEF MayRepeat
            <4>6. last[i] =< h.version /\ h.version =< posted[i]
                BY <1>1, <2>6, <4>3 DEF VersionsRise, AheadOf
            <4>7. h.version = last[i] BY <1>1, <1>4, <2>6, <4>5, <4>6, VersionTypes
            <4>8. OnRecord(i) # last[i]
                BY <1>1, <2>6, <4>7 DEF OnRecord, SentIsNews
            <4> QED BY <4>5, <4>8 DEF MayRepeat
        <3>3. repeats'[i] = repeats[i] /\ lost[i] + halts =< lost'[i] + halts'
            BY <1>2, <2>1, <2>3
        <3>4. Paid(i) BY <2>3, <3>1, <3>2, <3>3, Zenon DEF Paid
        <3> QED BY <3>3, <3>4
    <2> QED BY <2>5, <2>6
<1> HIDE DEF Goal
<1> QED BY <1>1, <1>7, <1>8, <1>9, <1>10, <1>11, <1>12, <1>13, WhichAreCalm DEF Goal

(* The account of repeats balances in every state.                         *)
THEOREM RepeatsInvariant == Spec => [](IInv /\ RepeatInv)
<1>1. Init => RepeatInv
    <2> SUFFICES ASSUME Init PROVE RepeatInv OBVIOUS
    <2>1. network = {} /\ ~answered /\ phase = "down" /\ state = EmptyState
        BY DEF Init
    <2>2. IsFiniteSet(network) BY <2>1, FS_EmptySet
    <2>3. ASSUME NEW i \in Items PROVE Debt(i) =< lost[i] + halts
        <3>1. repeats[i] = 0 /\ lost[i] = 0 /\ halts = 0 /\ last[i] = 0 BY DEF Init
        <3>2. Cardinality(Strays(i)) = 0
            <4>1. Strays(i) = {} BY <2>1 DEF Strays
            <4> QED BY <4>1, FS_EmptySet
        <3>3. ~MayRepeat(i) BY <2>1, <3>1 DEF MayRepeat, OnRecord, EmptyState
        <3> QED BY <3>1, <3>2, <3>3 DEF Debt
    <2> QED BY <2>1, <2>2, <2>3 DEF RepeatInv, SentIsNews, AnsweredIsGone, DownIsEmpty,
                                    RepeatsAccounted
<1>2. IInv /\ IInv' /\ RepeatInv /\ [Next]_vars => RepeatInv'
    <2> SUFFICES ASSUME IInv, IInv', RepeatInv, [Next]_vars PROVE RepeatInv' OBVIOUS
    <2>1. SentIsNews' /\ AnsweredIsGone' /\ DownIsEmpty'
        BY NewsStep, GoneStep, DownStep DEF IInv, RepeatInv
    <2>2. TypeOK' BY DEF IInv
    <2>3. IsFiniteSet(network')
        BY NetworkStaysFinite DEF RepeatInv, RepeatsAccounted
    <2>4. ASSUME NEW i \in Items PROVE (Debt(i))' =< lost'[i] + halts'
        BY <2>2, PaidStep, DebtPaid DEF IInv, RepeatInv, RepeatsAccounted
    <2> QED BY <2>1, <2>3, <2>4 DEF RepeatInv, RepeatsAccounted
<1> QED BY <1>1, <1>2, SensorInvariant, PTL DEF Spec

(* A version reaches the coordinator twice in a row no more often than a   *)
(* request for its item was given up too early or the sensor went down.    *)
THEOREM RepeatsHaveExcuses == Spec => []RepeatsAreExcused
<1>1. IInv /\ RepeatInv => RepeatsAreExcused
    <2> SUFFICES ASSUME IInv, RepeatInv, NEW i \in Items
                 PROVE  repeats[i] =< lost[i] + halts
        BY DEF RepeatsAreExcused
    <2>0. repeats[i] \in Nat /\ lost[i] \in Nat /\ halts \in Nat
        BY ConstantsAssumption DEF IInv, TypeOK
    <2>1. PICK r, l \in Nat : r = repeats[i] /\ l = lost[i] + halts
        BY <2>0
    <2>2. PICK b \in {0, 1} : b = (IF MayRepeat(i) THEN 1 ELSE 0) OBVIOUS
    <2>3. PICK n \in Nat : n = Cardinality(Strays(i))
        <3>1. Strays(i) \subseteq network BY DEF Strays
        <3>2. IsFiniteSet(Strays(i)) BY <3>1, FS_Subset DEF RepeatInv, RepeatsAccounted
        <3> QED BY <3>2, FS_CardinalityType
    <2>4. r + n + b =< l BY <2>1, <2>2, <2>3 DEF RepeatInv, RepeatsAccounted, Debt
    <2> QED BY <2>1, <2>2, <2>3, <2>4
<1> QED BY <1>1, RepeatsInvariant, PTL

-----------------------------------------------------------------------------
(***************************************************************************)
(* Proofs of the safety properties of ClaudeSessions: for any transcripts, *)
(* and any number of runs, of ends of the processes and of failures.       *)
(***************************************************************************)

States == {"down", "idle", "storing", "extracting", "extracted", "refreshing", "backfilling"}

(* The operator's refresh of the tools of one session.                     *)
RefreshJob == [step : {"read", "deleted"}, session : Sessions, calls : [Tools -> Nat],
               left : SUBSET Tools]

Jobs == {NoJob} \cup StoreJob \cup ExtractJob \cup LinkJob \cup RefreshJob

SessionTypes ==
    /\ extractor \in Extractors
    /\ transcript \in [Sessions -> Nat] /\ log \in [Sessions -> Row]
    /\ linked \in [Sessions -> Nat] /\ episodes \in [Sessions -> SUBSET Versions]
    /\ pc \in [Processes -> States]
    /\ work \in [Processes -> SUBSET Known] /\ batch \in [Processes -> SUBSET Sessions]
    /\ job \in [Processes -> Jobs]

(* Whatever a process has of a transcript was in it, and what it recorded  *)
(* of the time is not later than what it read.                             *)
ReadBefore(k) == k.mtime <= transcript[k.session]

StoresSafely(j) ==
    j \in StoreJob => /\ j.content <= transcript[j.session]
                      /\ j.mtime <= j.content \/ j.session \in misread

Reading ==
    /\ \A s \in Sessions : /\ transcript[s] <= Len(Messages[s])
                           /\ log[s].chunks <= transcript[s]
    /\ \A p \in Processes : (\A k \in work[p] : ReadBefore(k)) /\ StoresSafely(job[p])

(* What is extracted or linked is what is stored, unless it was stored     *)
(* again since; what is extracted may also have been read short.           *)
ExtractsFits(j) ==
    j \in ExtractJob =>
        /\ j.session \notin overtaken \cup skimmed => j.content >= log[j.session].chunks
        /\ j.step = "posted" => j.content \in episodes[j.session]

LinksFits(j) ==
    j \in LinkJob /\ j.session \notin overtaken => j.content = log[j.session].chunks

Extracting ==
    /\ MarkedIsExtracted
    /\ \A p \in Processes : ExtractsFits(job[p]) /\ LinksFits(job[p])

(* A process extracts in one of the two ways only.                         *)
OneWay ==
    /\ \A p \in Processes : job[p] \in ExtractJob => pc[p] = "extracted"
    /\ extractor = "inline" =>
         \A p \in Processes : /\ job[p] \notin ExtractJob
                              /\ pc[p] \notin {"refreshing", "backfilling"} => batch[p] = {}
    /\ extractor = "batch" => \A p \in Processes : job[p] \notin LinkJob

Waits(p, s) == pc[p] \in {"extracting", "extracted"} /\ s \in batch[p]
Asks(p, s) == job[p] \in ExtractJob /\ job[p].session = s
Posted(p, s) == Asks(p, s) /\ job[p].step = "posted"

(* Session s is taken by one process at most, and an episode of it is due  *)
(* while it is not marked, unless one was just made.                       *)
Excused(s) ==
    /\ HasRow(s) /\ log[s].extracted # "after" => s \in due \/ \E q \in Processes : Posted(q, s)
    /\ \A p \in Processes : Waits(p, s) \/ (Asks(p, s) /\ ~Posted(p, s)) => s \in due
    /\ \A p, q \in Processes :
         (Waits(p, s) \/ Asks(p, s)) /\ (Waits(q, s) \/ Asks(q, s)) => p = q
    /\ \A p \in Processes : ~(Waits(p, s) /\ Asks(p, s))

Excuses == extractor = "batch" => \A s \in Sessions \ raced : Excused(s)

SessionsInv == SessionTypes /\ Reading /\ RecordedTimeIsSafe /\ Extracting /\ OneWay /\ Excuses

-----------------------------------------------------------------------------
(* The bounds of the data.                                                 *)
LEMMA VersionsAre ==
    /\ Versions \subseteq Nat
    /\ \A s \in Sessions : Len(Messages[s]) \in Nat /\ \A n \in 0..Len(Messages[s]) : n \in Versions
  BY SessionsAssumption DEF Versions

(* A transcript that grows has at least the chunks it had.                 *)
LEMMA ChunksGrow ==
    ASSUME NEW s \in Sessions, NEW v \in Nat, NEW w \in Nat, v <= w
    PROVE  Chunks(s, v) \subseteq Chunks(s, w)
  <1> SUFFICES ASSUME NEW i \in Chunks(s, v) PROVE i \in Chunks(s, w)
    OBVIOUS
  <1>1. i \in 1..v /\ Messages[s][i].by = "user" /\ \E k \in Turn(s, v, i) : HasText(s, k)
    BY DEF Chunks
  <1>2. Turn(s, v, i) \subseteq Turn(s, w, i)
    BY <1>1 DEF Turn
  <1> QED BY <1>1, <1>2 DEF Chunks

(* A tool is called a number of times.                                     *)
LEMMA CallsTyped ==
    ASSUME NEW s, NEW v \in Nat
    PROVE  CallsOf(s, v) \in [Tools -> Nat]
  <1> SUFFICES ASSUME NEW t \in Tools
               PROVE  Cardinality({i \in 1..v : Messages[s][i].by = "assistant" /\ t \in Messages[s][i].tools}) \in Nat
    BY DEF CallsOf
  <1>1. IsFiniteSet(1..v)
    BY FS_Interval
  <1>2. IsFiniteSet({i \in 1..v : Messages[s][i].by = "assistant" /\ t \in Messages[s][i].tools})
    BY <1>1, FS_Subset
  <1> QED BY <1>2, FS_CardinalityType

(* What a process has at hand is told by its step.                         *)
LEMMA JobKinds ==
    ASSUME NEW j \in Jobs
    PROVE  /\ j = NoJob <=> j.step = "none"
           /\ j \in StoreJob <=> j.step = "store"
           /\ j \in ExtractJob <=> j.step \in {"asking", "posted"}
           /\ j \in LinkJob <=> j.step = "linking"
           /\ j \in RefreshJob <=> j.step \in {"read", "deleted"}
           /\ j # NoJob => j.session \in Sessions
  BY DEF Jobs, NoJob, StoreJob, ExtractJob, LinkJob, RefreshJob

(* The first step of a session, as of the others: it starts from nothing.  *)
LEMMA SessionsInit == ClaudeInit => SessionsInv
  <1> SUFFICES ASSUME ClaudeInit PROVE SessionsInv
    OBVIOUS
  <1>1. NoJob \notin StoreJob /\ NoJob \notin ExtractJob /\ NoJob \notin LinkJob /\ NoJob \in Jobs
    BY DEF NoJob, StoreJob, ExtractJob, LinkJob, Jobs
  <1>2. \A s \in Sessions : 0 \in Versions
    BY VersionsAre
  <1>3. \A s \in Sessions : log[s] = NoRow /\ NoRow \in Row
    BY <1>2 DEF ClaudeInit, NoRow, Row
  <1>4. SessionTypes
    BY <1>1, <1>3 DEF ClaudeInit, SessionTypes, States
  <1>5. Reading /\ RecordedTimeIsSafe
    BY <1>1, <1>3, VersionsAre DEF ClaudeInit, NoRow, Reading, StoresSafely, RecordedTimeIsSafe
  <1>6. Extracting
    BY <1>1, <1>3 DEF ClaudeInit, NoRow, Extracting, MarkedIsExtracted, ExtractsFits, LinksFits
  <1>7. OneWay
    BY <1>1 DEF ClaudeInit, OneWay
  <1>8. Excuses
    BY <1>1, <1>3 DEF ClaudeInit, NoRow, Excuses, Excused, HasRow, Waits, Asks, Posted
  <1> QED BY <1>4, <1>5, <1>6, <1>7, <1>8 DEF SessionsInv

-----------------------------------------------------------------------------
(* A step of process p that stores and extracts nothing: it takes up or    *)
(* puts down what it does, and what it was extracting is due.              *)
LEMMA Moves ==
    ASSUME SessionsInv, SessionTypes', NEW p \in Processes,
           UNCHANGED <<extractor, transcript, log, linked, episodes,
                       misread, skimmed, raced, overtaken>>,
           due \subseteq due',
           \A q \in Processes \ {p} : /\ job'[q] = job[q] /\ pc'[q] = pc[q]
                                      /\ batch'[q] = batch[q] /\ work'[q] = work[q],
           job'[p] = job[p] \/ job'[p] = NoJob \/ job'[p] \in RefreshJob,
           job[p] \in ExtractJob => IF job'[p] = job[p] THEN pc'[p] = pc[p] ELSE job[p].session \in due',
           pc'[p] \in {"extracting", "extracted"} =>
               \/ batch'[p] = {}
               \/ pc[p] \in {"extracting", "extracted"} /\ batch'[p] \subseteq batch[p],
           pc'[p] \notin {"refreshing", "backfilling"} =>
               \/ batch'[p] = {}
               \/ pc[p] \notin {"refreshing", "backfilling"} /\ batch'[p] \subseteq batch[p],
           \A k \in work'[p] : ReadBefore(k)
    PROVE  SessionsInv'
  <1>1. /\ SessionTypes /\ Reading /\ RecordedTimeIsSafe /\ Extracting /\ OneWay /\ Excuses
    BY DEF SessionsInv
  <1>2. /\ \A q \in Processes : job[q] \in Jobs /\ job'[q] \in Jobs
        /\ NoJob \notin StoreJob /\ NoJob \notin ExtractJob /\ NoJob \notin LinkJob
        /\ \A j \in RefreshJob : j \notin StoreJob /\ j \notin ExtractJob /\ j \notin LinkJob
    BY <1>1 DEF SessionTypes, NoJob, StoreJob, ExtractJob, LinkJob, RefreshJob
  <1>3. \A q \in Processes : job'[q] \in StoreJob \cup ExtractJob \cup LinkJob => job'[q] = job[q]
    BY <1>2
  <1>4. Reading'
    BY <1>1, <1>3 DEF Reading, ReadBefore, StoresSafely
  <1>5. RecordedTimeIsSafe'
    BY <1>1 DEF RecordedTimeIsSafe
  <1>6. Extracting'
    BY <1>1, <1>3 DEF Extracting, MarkedIsExtracted, ExtractsFits, LinksFits
  <1>7. OneWay'
    BY <1>1, <1>3 DEF OneWay
  <1>8. Excuses'
    <2> SUFFICES ASSUME extractor = "batch", NEW s \in Sessions \ raced PROVE Excused(s)'
      BY DEF Excuses
    <2>1. Excused(s)
      BY <1>1 DEF Excuses
    <2>2. \A q \in Processes : /\ Waits(q, s)' => Waits(q, s)
                               /\ Asks(q, s)' => Asks(q, s)
                               /\ Posted(q, s)' => Posted(q, s)
                               /\ Asks(q, s)' /\ Posted(q, s) => Posted(q, s)'
                               /\ Posted(q, s) => Posted(q, s)' \/ s \in due'
      BY <1>3 DEF Waits, Asks, Posted
    <2> QED BY <2>1, <2>2 DEF Excused, HasRow
  <1> QED BY <1>4, <1>5, <1>6, <1>7, <1>8 DEF SessionsInv

(* What was found of a transcript is of a version.                         *)
LEMMA FoundTyped ==
    ASSUME SessionTypes, Reading, NEW s \in Sessions
    PROVE  LET k == [session |-> s, mtime |-> transcript[s]]
           IN  k \in Known /\ ReadBefore(k)
  <1>1. transcript[s] \in Nat /\ transcript[s] <= Len(Messages[s]) /\ Len(Messages[s]) \in Nat
    BY VersionsAre DEF SessionTypes, Reading
  <1>2. transcript[s] \in Versions
    BY <1>1, VersionsAre
  <1> QED BY <1>1, <1>2 DEF Known, ReadBefore

(* What a scan finds is of the versions that the transcripts have.         *)
LEMMA ScanBeginsKeeps == ASSUME SessionsInv, NEW p \in Processes, ScanBegins(p) PROVE SessionsInv'
  <1>1. SessionTypes /\ Reading
    BY DEF SessionsInv
  <1>2. /\ pc[p] = "idle" /\ pc' = [pc EXCEPT ![p] = "storing"]
        /\ UNCHANGED <<extractor, transcript, log, linked, batch, job, episodes, due,
                       misread, skimmed, raced, overtaken>>
    BY DEF ScanBegins, Go, database, history
  <1>3. PICK discovered \in SUBSET Sessions, uncounted \in SUBSET Sessions :
          work' = [work EXCEPT ![p] = {[session |-> s, mtime |-> transcript[s]] :
              s \in {t \in discovered : (~TooShort(t) \/ t \in uncounted) /\ NeedsProcessing(t)}}]
    BY DEF ScanBegins
  <1>4. PICK K : K = {[session |-> s, mtime |-> transcript[s]] :
              s \in {t \in discovered : (~TooShort(t) \/ t \in uncounted) /\ NeedsProcessing(t)}}
    OBVIOUS
  <1>5. K \subseteq Known /\ \A k \in K : ReadBefore(k)
    BY <1>1, <1>3, <1>4, FoundTyped
  <1>6. work' = [work EXCEPT ![p] = K]
    BY <1>3, <1>4
  <1>7. SessionTypes'
    BY <1>1, <1>2, <1>5, <1>6 DEF SessionTypes, States
  <1>8. /\ pc'[p] = "storing" /\ work'[p] = K
        /\ \A q \in Processes \ {p} : pc'[q] = pc[q] /\ work'[q] = work[q]
    BY <1>1, <1>2, <1>6 DEF SessionTypes
  <1> QED BY <1>2, <1>5, <1>7, <1>8, Moves DEF SessionsInv, OneWay

(* And so is what the hook is given.                                       *)
LEMMA HookBeginsKeeps == ASSUME SessionsInv, NEW s \in Sessions, HookBegins(s) PROVE SessionsInv'
  <1>1. SessionTypes /\ Reading
    BY DEF SessionsInv
  <1>2. PICK p \in Processes : p = "hook"
    BY DEF Processes
  <1>3. PICK k : k = [session |-> s, mtime |-> transcript[s]]
    OBVIOUS
  <1>4. /\ pc[p] = "down" /\ pc' = [pc EXCEPT ![p] = "storing"] /\ work' = [work EXCEPT ![p] = {k}]
        /\ UNCHANGED <<extractor, transcript, log, linked, batch, job, episodes, due,
                       misread, skimmed, raced, overtaken>>
    BY <1>2, <1>3 DEF HookBegins, Go, database, history
  <1>5. k \in Known /\ ReadBefore(k)
    BY <1>1, <1>3, FoundTyped
  <1>6. SessionTypes'
    BY <1>1, <1>4, <1>5 DEF SessionTypes, States
  <1>7. /\ pc'[p] = "storing" /\ work'[p] = {k}
        /\ \A q \in Processes \ {p} : pc'[q] = pc[q] /\ work'[q] = work[q]
    BY <1>1, <1>4 DEF SessionTypes
  <1> QED BY <1>4, <1>5, <1>6, <1>7, Moves DEF SessionsInv, OneWay

(* A store that fails, and the steps that only start or end something.     *)
LEMMA StoreFailsKeeps == ASSUME SessionsInv, NEW p \in Processes, job[p] \in StoreJob, StoreFails(p) PROVE SessionsInv'
  <1>1. SessionTypes /\ Reading /\ job[p] \notin ExtractJob
    BY DEF SessionsInv, StoreJob, ExtractJob
  <1>2. /\ job' = [job EXCEPT ![p] = NoJob]
        /\ UNCHANGED <<extractor, transcript, log, linked, pc, work, batch, episodes, due,
                       misread, skimmed, raced, overtaken>>
    BY DEF StoreFails, database, history
  <1>3. SessionTypes'
    BY <1>1, <1>2 DEF SessionTypes, Jobs
  <1>4. job'[p] = NoJob /\ \A q \in Processes \ {p} : job'[q] = job[q]
    BY <1>1, <1>2 DEF SessionTypes
  <1> QED BY <1>1, <1>2, <1>3, <1>4, Moves DEF Reading

(* Only pc changes, from or to a state in which nothing is extracted; or,  *)
(* with nothing in the batch, to the end of the extraction.                *)
LEMMA StateMoves ==
    ASSUME SessionsInv, NEW p \in Processes, NEW to \in States, Go(p, to),
           UNCHANGED <<extractor, transcript, log, linked, work, batch, job, episodes, due,
                       misread, skimmed, raced, overtaken>>,
           job[p] \notin ExtractJob,
           to \in {"extracting", "extracted"} => batch[p] = {},
           pc[p] \in {"refreshing", "backfilling"} => batch[p] = {}
    PROVE  SessionsInv'
  <1>1. SessionTypes /\ Reading
    BY DEF SessionsInv
  <1>2. SessionTypes' /\ pc'[p] = to /\ \A q \in Processes \ {p} : pc'[q] = pc[q]
    BY <1>1 DEF SessionTypes, Go
  <1> QED BY <1>1, <1>2, Moves DEF Reading

(* The steps that start or end something, with nothing in a batch.         *)
LEMMA StatesKeep ==
    ASSUME SessionsInv, \/ HookEnds \/ ErrandEnds \/ DaemonStarts \/ OperatorBegins
                        \/ \E p \in Processes : DeepBatch(p)
    PROVE  SessionsInv'
  <1>1. \A p \in Processes : job[p] \in ExtractJob => pc[p] = "extracted"
    BY DEF SessionsInv, OneWay
  <1>2. CASE HookEnds
    <2>1. PICK p \in Processes : p = "hook"
      BY DEF Processes
    <2>2. Go(p, "down") /\ pc[p] = "storing"
      BY <1>2, <2>1 DEF HookEnds
    <2> QED BY <1>1, <1>2, <2>2, StateMoves DEF HookEnds, database, history, States
  <1>3. CASE ErrandEnds
    <2>1. PICK p \in Processes : p = "operator"
      BY DEF Processes, Scanners
    <2>2. Go(p, "down") /\ pc[p] \in {"refreshing", "backfilling"} /\ batch[p] = {}
      BY <1>3, <2>1 DEF ErrandEnds
    <2> QED BY <1>1, <1>3, <2>2, StateMoves DEF ErrandEnds, database, history, States
  <1>4. CASE DaemonStarts
    <2>1. PICK p \in Processes : p = "daemon"
      BY DEF Processes, Scanners
    <2>2. Go(p, "idle") /\ pc[p] = "down"
      BY <1>4, <2>1 DEF DaemonStarts
    <2> QED BY <1>1, <1>4, <2>2, StateMoves DEF DaemonStarts, database, history, States
  <1>5. CASE OperatorBegins
    <2>1. PICK p \in Processes : p = "operator"
      BY DEF Processes, Scanners
    <2>2. Go(p, "idle") /\ pc[p] = "down"
      BY <1>5, <2>1 DEF OperatorBegins
    <2> QED BY <1>1, <1>5, <2>2, StateMoves DEF OperatorBegins, database, history, States
  <1>6. ASSUME NEW p \in Processes, DeepBatch(p) PROVE SessionsInv'
    <2>1. Go(p, "extracted") /\ pc[p] = "storing" /\ extractor = "inline"
      BY <1>6 DEF DeepBatch
    <2>2. batch[p] = {}
      BY <2>1 DEF SessionsInv, OneWay
    <2> QED BY <1>1, <1>6, <2>1, <2>2, StateMoves DEF DeepBatch, database, history, States
  <1> QED BY <1>2, <1>3, <1>4, <1>5, <1>6

(* A batch that is over leaves what it did not try as due as it was.       *)
LEMMA ScanEndsKeeps == ASSUME SessionsInv, NEW p \in Processes, ScanEnds(p) PROVE SessionsInv'
  <1>1. SessionTypes /\ Reading
    BY DEF SessionsInv
  <1>2. PICK to \in {"idle", "down"} : to = IF p = "daemon" THEN "idle" ELSE "down"
    OBVIOUS
  <1>3. /\ job[p] = NoJob /\ pc' = [pc EXCEPT ![p] = to] /\ batch' = [batch EXCEPT ![p] = {}]
        /\ UNCHANGED <<extractor, transcript, log, linked, work, job, episodes, due,
                       misread, skimmed, raced, overtaken>>
    BY <1>2 DEF ScanEnds, Go, Free, database, history
  <1>4. SessionTypes'
    BY <1>1, <1>3 DEF SessionTypes, States
  <1>5. /\ pc'[p] = to /\ batch'[p] = {}
        /\ \A q \in Processes \ {p} : pc'[q] = pc[q] /\ batch'[q] = batch[q]
    BY <1>1, <1>3 DEF SessionTypes
  <1>6. job[p] \notin ExtractJob
    BY <1>3 DEF NoJob, ExtractJob
  <1> QED BY <1>1, <1>3, <1>4, <1>5, <1>6, Moves DEF Reading

(* The process that ends had its session due, if it was extracting it.     *)
LEMMA HaltKeeps == ASSUME SessionsInv, NEW p \in Processes, Ends(p) PROVE SessionsInv'
  <1>1. SessionTypes /\ Reading
    BY DEF SessionsInv
  <1>2. /\ pc' = [pc EXCEPT ![p] = "down"] /\ work' = [work EXCEPT ![p] = {}]
        /\ batch' = [batch EXCEPT ![p] = {}] /\ job' = [job EXCEPT ![p] = NoJob]
        /\ due' = IF job[p] \in ExtractJob THEN due \cup {job[p].session} ELSE due
        /\ UNCHANGED <<extractor, transcript, log, linked, episodes,
                       misread, skimmed, raced, overtaken>>
    BY DEF Ends, Go, database
  <1>3. SessionTypes'
    BY <1>1, <1>2 DEF SessionTypes, States, Jobs
  <1>4. /\ pc'[p] = "down" /\ batch'[p] = {} /\ work'[p] = {} /\ job'[p] = NoJob
        /\ \A q \in Processes \ {p} : /\ pc'[q] = pc[q] /\ batch'[q] = batch[q]
                                      /\ work'[q] = work[q] /\ job'[q] = job[q]
    BY <1>1, <1>2 DEF SessionTypes
  <1>5. NoJob \notin ExtractJob
    BY DEF NoJob, ExtractJob
  <1> QED BY <1>2, <1>3, <1>4, <1>5, Moves

-----------------------------------------------------------------------------
(* The operator's refresh and backfill extract nothing.                    *)
LEMMA ErrandMoves ==
    ASSUME SessionsInv, NEW p \in Processes, NEW to \in States, NEW B \in SUBSET Sessions, NEW j \in Jobs,
           pc' = [pc EXCEPT ![p] = to], batch' = [batch EXCEPT ![p] = B], job' = [job EXCEPT ![p] = j],
           UNCHANGED <<extractor, transcript, log, linked, work, episodes, due,
                       misread, skimmed, raced, overtaken>>,
           j = job[p] \/ j = NoJob \/ j \in RefreshJob, job[p] \notin ExtractJob,
           \/ to \in {"refreshing", "backfilling"}
           \/ B = {} /\ to \in {"idle", "down"}
           \/ B = batch[p] /\ to = pc[p]
    PROVE  SessionsInv'
  <1>1. SessionTypes /\ Reading
    BY DEF SessionsInv
  <1>2. SessionTypes'
    BY <1>1 DEF SessionTypes
  <1>3. /\ pc'[p] = to /\ batch'[p] = B /\ job'[p] = j
        /\ \A q \in Processes \ {p} : pc'[q] = pc[q] /\ batch'[q] = batch[q] /\ job'[q] = job[q]
    BY <1>1 DEF SessionTypes
  <1> QED BY <1>1, <1>2, <1>3, Moves DEF Reading

(* What the operator reads again of the tools is stored by nobody else.    *)
LEMMA RefreshKeeps ==
    ASSUME SessionsInv, \/ RefreshBegins \/ BackfillBegins \/ RefreshDeletes
                        \/ \E s \in Sessions : RefreshReads(s)
                        \/ \E t \in Tools : RefreshInserts(t)
    PROVE  SessionsInv'
  <1> USE DEF database, history
  <1>1. PICK p \in Processes : p = "operator"
    BY DEF Processes, Scanners
  <1>2. SessionTypes /\ Reading /\ job[p] \in Jobs /\ pc[p] \in States /\ batch[p] \in SUBSET Sessions
    BY <1>1 DEF SessionsInv, SessionTypes
  <1>3. /\ pc = [pc EXCEPT ![p] = pc[p]] /\ batch = [batch EXCEPT ![p] = batch[p]]
        /\ job = [job EXCEPT ![p] = job[p]]
    BY <1>2 DEF SessionTypes
  <1>4. job[p] \in ExtractJob => pc[p] = "extracted"
    BY <1>1 DEF SessionsInv, OneWay
  <1>5. NoJob \in Jobs /\ RefreshJob \subseteq Jobs
    BY DEF Jobs
  <1>6. CASE RefreshBegins
    <2>1. PICK B \in SUBSET Sessions : B = {s \in Sessions : HasRow(s)}
      OBVIOUS
    <2>2. pc[p] = "idle" /\ pc' = [pc EXCEPT ![p] = "refreshing"] /\ batch' = [batch EXCEPT ![p] = B]
      BY <1>1, <1>6, <2>1 DEF RefreshBegins, Go
    <2>3. UNCHANGED <<extractor, transcript, log, linked, work, job, episodes, due,
                      misread, skimmed, raced, overtaken>>
      BY <1>6 DEF RefreshBegins
    <2> QED BY <1>2, <1>3, <1>4, <2>2, <2>3, ErrandMoves DEF States
  <1>7. CASE BackfillBegins
    <2>1. PICK B \in SUBSET Sessions :
            B = {s \in Sessions : Chunks(s, log[s].chunks) # {} /\ "poly" \notin log[s].embedded}
      OBVIOUS
    <2>2. pc[p] = "idle" /\ pc' = [pc EXCEPT ![p] = "backfilling"] /\ batch' = [batch EXCEPT ![p] = B]
      BY <1>1, <1>7, <2>1 DEF BackfillBegins, Go
    <2>3. UNCHANGED <<extractor, transcript, log, linked, work, job, episodes, due,
                      misread, skimmed, raced, overtaken>>
      BY <1>7 DEF BackfillBegins
    <2> QED BY <1>2, <1>3, <1>4, <2>2, <2>3, ErrandMoves DEF States
  <1>8. ASSUME NEW s \in Sessions, RefreshReads(s) PROVE SessionsInv'
    <2>1. PICK B \in SUBSET Sessions : B = batch[p] \ {s}
      BY <1>2
    <2>2. PICK v \in 0..transcript[s] :
            job' = IF CallsOf(s, v) = NoCalls THEN job
                   ELSE [job EXCEPT !["operator"] =
                            [step |-> "read", session |-> s, calls |-> CallsOf(s, v),
                             left |-> {t \in Tools : CallsOf(s, v)[t] > 0}]]
      BY <1>8 DEF RefreshReads
    <2>3. v \in Nat /\ CallsOf(s, v) \in [Tools -> Nat]
      BY <1>2, <2>2, CallsTyped DEF SessionTypes
    <2>4. PICK j : j = IF CallsOf(s, v) = NoCalls THEN job[p]
                       ELSE [step |-> "read", session |-> s, calls |-> CallsOf(s, v),
                             left |-> {t \in Tools : CallsOf(s, v)[t] > 0}]
      OBVIOUS
    <2>5. j = job[p] \/ j \in RefreshJob
      BY <2>3, <2>4 DEF RefreshJob
    <2>6. /\ pc[p] = "refreshing" /\ pc' = pc /\ batch' = [batch EXCEPT ![p] = B]
          /\ job' = [job EXCEPT ![p] = j]
      BY <1>1, <1>3, <1>8, <2>1, <2>2, <2>4 DEF RefreshReads
    <2>7. UNCHANGED <<extractor, transcript, log, linked, work, episodes, due,
                      misread, skimmed, raced, overtaken>>
      BY <1>8 DEF RefreshReads
    <2> QED BY <1>2, <1>3, <1>4, <1>5, <2>5, <2>6, <2>7, ErrandMoves DEF States
  <1>9. CASE RefreshDeletes
    <2>1. PICK r : r = job[p]
      OBVIOUS
    <2>2. r.step = "read" /\ r \in RefreshJob
      BY <1>1, <1>2, <1>9, <2>1, JobKinds DEF RefreshDeletes
    <2>3. PICK j : j = [r EXCEPT !.step = "deleted"]
      OBVIOUS
    <2>4. j \in RefreshJob /\ r \notin ExtractJob
      BY <2>2, <2>3 DEF RefreshJob, ExtractJob
    <2>5. job' = [job EXCEPT ![p] = j] /\ UNCHANGED <<pc, batch>>
      BY <1>1, <1>9, <2>1, <2>3 DEF RefreshDeletes
    <2>6. UNCHANGED <<extractor, transcript, log, linked, work, episodes, due,
                      misread, skimmed, raced, overtaken>>
      BY <1>9 DEF RefreshDeletes
    <2> QED BY <1>2, <1>3, <1>5, <2>1, <2>4, <2>5, <2>6, ErrandMoves DEF States
  <1>10. ASSUME NEW t \in Tools, RefreshInserts(t) PROVE SessionsInv'
    <2>1. PICK r : r = job[p]
      OBVIOUS
    <2>2. r.step = "deleted" /\ r \in RefreshJob
      BY <1>1, <1>2, <1>10, <2>1, JobKinds DEF RefreshInserts
    <2>3. PICK j : j = [r EXCEPT !.left = r.left \ {t}]
      OBVIOUS
    <2>4. j \in RefreshJob /\ r \notin ExtractJob
      BY <2>2, <2>3 DEF RefreshJob, ExtractJob
    <2>5. UNCHANGED <<extractor, transcript, log, linked, work, episodes, due,
                      misread, skimmed, raced, overtaken>>
      BY <1>10 DEF RefreshInserts
    <2>6. \/ /\ pc' = [pc EXCEPT ![p] = "down"] /\ batch' = [batch EXCEPT ![p] = {}]
             /\ job' = [job EXCEPT ![p] = NoJob]
          \/ UNCHANGED <<pc, batch>> /\ job' = [job EXCEPT ![p] = NoJob]
          \/ UNCHANGED <<pc, batch>> /\ job' = [job EXCEPT ![p] = j]
      BY <1>1, <1>10, <2>1, <2>3 DEF RefreshInserts, Go
    <2> QED BY <1>2, <1>3, <1>5, <2>1, <2>4, <2>5, <2>6, ErrandMoves DEF States
  <1> QED BY <1>6, <1>7, <1>8, <1>9, <1>10

-----------------------------------------------------------------------------
(* A transcript that grows leaves what was read of it behind.              *)
LEMMA WriteKeeps == ASSUME SessionsInv, NEW s \in Sessions, Write(s) PROVE SessionsInv'
  <1>1. SessionTypes /\ Reading
    BY DEF SessionsInv
  <1>2. /\ transcript[s] < Len(Messages[s]) /\ transcript' = [transcript EXCEPT ![s] = @ + 1]
        /\ UNCHANGED <<extractor, log, linked, pc, work, batch, job, episodes, due, misread,
                       skimmed, raced, overtaken>>
    BY DEF Write, database, process, history
  <1>3. SessionTypes'
    BY <1>1, <1>2 DEF SessionTypes
  <1>4. \A x \in Sessions : /\ transcript[x] \in Nat /\ transcript'[x] \in Nat
                            /\ transcript[x] <= transcript'[x]
                            /\ transcript'[x] <= Len(Messages[x])
    BY <1>1, <1>2, VersionsAre DEF SessionTypes, Reading
  <1>5. \A x \in Sessions : log'[x].chunks <= transcript'[x]
    <2> SUFFICES ASSUME NEW x \in Sessions PROVE log[x].chunks <= transcript'[x]
      BY <1>2
    <2>1. log[x].chunks <= transcript[x] /\ log[x].chunks \in Nat
      BY <1>1, VersionsAre DEF Reading, SessionTypes, Row
    <2> QED BY <1>4, <2>1
  <1>6. ASSUME NEW p \in Processes
        PROVE  (\A k \in work[p] : ReadBefore(k)') /\ StoresSafely(job[p])'
    <2>1. ASSUME NEW k \in work[p] PROVE ReadBefore(k)'
      <3>1. k \in Known
        BY <1>1 DEF SessionTypes
      <3>2. k.mtime \in Nat /\ k.session \in Sessions
        BY <3>1, VersionsAre DEF Known
      <3>3. k.mtime <= transcript[k.session]
        BY <1>1 DEF Reading, ReadBefore
      <3> QED BY <1>2, <1>4, <3>2, <3>3 DEF ReadBefore
    <2>2. StoresSafely(job[p])'
      <3> SUFFICES ASSUME job[p] \in StoreJob
                   PROVE  /\ job[p].content <= transcript'[job[p].session]
                          /\ job[p].mtime <= job[p].content \/ job[p].session \in misread
        BY <1>2 DEF StoresSafely
      <3>1. /\ job[p].content <= transcript[job[p].session] /\ job[p].content \in Nat
            /\ job[p].session \in Sessions
            /\ job[p].mtime <= job[p].content \/ job[p].session \in misread
        BY <1>1, VersionsAre DEF Reading, StoresSafely, StoreJob
      <3> QED BY <1>4, <3>1
    <2> QED BY <2>1, <2>2
  <1>7. Reading'
    BY <1>2, <1>4, <1>5, <1>6 DEF Reading
  <1>8. RecordedTimeIsSafe' /\ OneWay'
    BY <1>2 DEF SessionsInv, RecordedTimeIsSafe, OneWay
  <1>9. Extracting'
    <2>1. \A p \in Processes : ExtractsFits(job[p])' /\ LinksFits(job[p])'
      BY <1>2 DEF SessionsInv, Extracting, ExtractsFits, LinksFits
    <2>2. MarkedIsExtracted'
      BY <1>2 DEF SessionsInv, Extracting, MarkedIsExtracted
    <2> QED BY <2>1, <2>2 DEF Extracting
  <1>10. ASSUME NEW p \in Processes, NEW x \in Sessions
         PROVE  Waits(p, x)' = Waits(p, x) /\ Asks(p, x)' = Asks(p, x) /\ Posted(p, x)' = Posted(p, x)
    BY <1>2 DEF Waits, Asks, Posted
  <1>11. ASSUME NEW x \in Sessions, Excused(x) PROVE Excused(x)'
    BY <1>2, <1>10, <1>11 DEF Excused, HasRow
  <1>12. Excuses'
    BY <1>2, <1>11 DEF SessionsInv, Excuses
  <1> QED BY <1>3, <1>7, <1>8, <1>9, <1>12 DEF SessionsInv

(* The embeddings of the chunks say nothing of what is stored.             *)
LEMMA BackfillKeeps == ASSUME SessionsInv, NEW s \in Sessions, Backfill(s) PROVE SessionsInv'
  <1>1. SessionTypes /\ Reading
    BY DEF SessionsInv
  <1>2. PICK p \in Processes : p = "operator"
    BY DEF Processes, Scanners
  <1>3. PICK B \in SUBSET batch[p] : batch' = [batch EXCEPT ![p] = B]
    <2>1. batch[p] \ {s} \in SUBSET batch[p] /\ {} \in SUBSET batch[p]
      OBVIOUS
    <2> QED BY <1>2, <2>1 DEF Backfill
  <1>4. /\ pc[p] = "backfilling"
        /\ UNCHANGED <<extractor, transcript, linked, pc, work, job, episodes, due, misread,
                       skimmed, raced, overtaken>>
    BY <1>2 DEF Backfill, history
  <1>5. PICK r : r = [log[s] EXCEPT !.embedded = @ \cup {"poly"}]
    OBVIOUS
  <1>6. log' = log \/ log' = [log EXCEPT ![s] = r]
    BY <1>5 DEF Backfill
  <1>7. log[s] \in Row
    BY <1>1 DEF SessionTypes
  <1>8. /\ r \in Row /\ r.mtime = log[s].mtime /\ r.chunks = log[s].chunks
        /\ r.extracted = log[s].extracted
    BY <1>5, <1>7 DEF Row
  <1>9. /\ log' \in [Sessions -> Row]
        /\ \A x \in Sessions : /\ log'[x].mtime = log[x].mtime /\ log'[x].chunks = log[x].chunks
                               /\ log'[x].extracted = log[x].extracted
    BY <1>1, <1>6, <1>8 DEF SessionTypes
  <1>10. /\ batch' \in [Processes -> SUBSET Sessions]
         /\ \A q \in Processes : batch'[q] \subseteq batch[q]
    BY <1>1, <1>3 DEF SessionTypes
  <1>11. SessionTypes'
    BY <1>1, <1>4, <1>9, <1>10 DEF SessionTypes
  <1>12. Reading'
    BY <1>1, <1>4, <1>9 DEF Reading, ReadBefore, StoresSafely
  <1>13. RecordedTimeIsSafe' /\ MarkedIsExtracted'
    BY <1>4, <1>9 DEF SessionsInv, RecordedTimeIsSafe, Extracting, MarkedIsExtracted
  <1>14. \A q \in Processes : job[q] \in Jobs /\ (job[q] # NoJob => job[q].session \in Sessions)
    BY <1>1, JobKinds DEF SessionTypes
  <1>15. \A q \in Processes : ExtractsFits(job[q])' /\ LinksFits(job[q])'
    BY <1>4, <1>9 DEF SessionsInv, Extracting, ExtractsFits, LinksFits, ExtractJob, LinkJob
  <1>16. OneWay'
    BY <1>4, <1>10 DEF SessionsInv, OneWay
  <1>17. Excuses'
    BY <1>4, <1>9, <1>10 DEF SessionsInv, Excuses, Excused, HasRow, Waits, Asks, Posted
  <1> QED BY <1>4, <1>11, <1>12, <1>13, <1>15, <1>16, <1>17 DEF SessionsInv, Extracting

(* What could not be read to its end is not recorded as if it had been.    *)
LEMMA ParseKeeps == ASSUME SessionsInv, NEW p \in Processes, NEW k \in work[p], Parse(p, k) PROVE SessionsInv'
  <1>1. SessionTypes /\ Reading /\ job[p] = NoJob
    BY DEF SessionsInv, Parse, Free
  <1>2. PICK s : s = k.session
    OBVIOUS
  <1>3. s \in Sessions /\ k.mtime \in Versions /\ k.mtime \in Nat /\ k.mtime <= transcript[s]
    <2>1. k \in Known
      BY <1>1 DEF SessionTypes
    <2> QED BY <1>1, <1>2, <2>1, VersionsAre DEF Known, Reading, ReadBefore
  <1>4. PICK content \in 0..transcript[s] :
          /\ IF content = transcript[s] THEN UNCHANGED misread ELSE misread' = misread \cup {s}
          /\ job' = IF content = 0 THEN job ELSE [job EXCEPT ![p] = ToStore(k, content)]
    BY <1>2 DEF Parse
  <1>5. PICK W : W = work[p] \ {k}
    OBVIOUS
  <1>6. /\ work' = [work EXCEPT ![p] = W]
        /\ UNCHANGED <<extractor, transcript, log, linked, pc, batch, episodes, due, skimmed, raced, overtaken>>
    BY <1>5 DEF Parse, database
  <1>7. transcript[s] \in Nat /\ transcript[s] <= Len(Messages[s]) /\ content \in Nat /\ content <= transcript[s]
    BY <1>1, <1>3, <1>4 DEF SessionTypes, Reading
  <1>8. content \in Versions
    BY <1>3, <1>7, VersionsAre
  <1>9. PICK j : j = ToStore(k, content)
    OBVIOUS
  <1>10. /\ j \in StoreJob /\ j \in Jobs /\ j.session = s /\ j.content = content /\ j.mtime = k.mtime
         /\ j \notin ExtractJob /\ j \notin LinkJob
    BY <1>2, <1>3, <1>8, <1>9 DEF ToStore, StoreJob, Jobs, ExtractJob, LinkJob
  <1>11. /\ misread \subseteq misread'
         /\ j.mtime <= j.content \/ j.session \in misread'
    BY <1>3, <1>4, <1>10
  <1>12. PICK i : i = IF content = 0 THEN NoJob ELSE j
    OBVIOUS
  <1>13. NoJob \notin StoreJob /\ NoJob \notin ExtractJob /\ NoJob \notin LinkJob /\ NoJob \in Jobs
    BY DEF NoJob, StoreJob, ExtractJob, LinkJob, Jobs
  <1>14. job' \in [Processes -> Jobs] /\ job'[p] = i /\ \A q \in Processes \ {p} : job'[q] = job[q]
    BY <1>1, <1>4, <1>9, <1>10, <1>12, <1>13 DEF SessionTypes
  <1>15. /\ work' \in [Processes -> SUBSET Known]
         /\ \A q \in Processes : work'[q] \subseteq work[q]
    BY <1>1, <1>5, <1>6 DEF SessionTypes
  <1>16. SessionTypes'
    BY <1>1, <1>6, <1>14, <1>15 DEF SessionTypes
  <1>17. StoresSafely(i)'
    BY <1>6, <1>7, <1>10, <1>11, <1>12, <1>13 DEF StoresSafely
  <1>18. \A q \in Processes : StoresSafely(job[q])'
    <2> SUFFICES ASSUME NEW q \in Processes, q # p PROVE StoresSafely(job[q])'
      BY <1>14, <1>17 DEF StoresSafely
    <2> QED BY <1>1, <1>6, <1>11, <1>14 DEF Reading, StoresSafely
  <1>19. Reading'
    BY <1>1, <1>6, <1>15, <1>18 DEF Reading, ReadBefore
  <1>20. RecordedTimeIsSafe'
    BY <1>6, <1>11 DEF SessionsInv, RecordedTimeIsSafe
  <1>21. \A q \in Processes : /\ job'[q] \in ExtractJob <=> job[q] \in ExtractJob
                              /\ job'[q] \in LinkJob <=> job[q] \in LinkJob
                              /\ job'[q] \in ExtractJob \cup LinkJob => job'[q] = job[q]
    BY <1>1, <1>10, <1>12, <1>13, <1>14
  <1>22. Extracting'
    BY <1>6, <1>21 DEF SessionsInv, Extracting, MarkedIsExtracted, ExtractsFits, LinksFits
  <1>23. OneWay'
    BY <1>6, <1>21 DEF SessionsInv, OneWay
  <1>24. \A q \in Processes : \A x : /\ Waits(q, x)' <=> Waits(q, x)
                                     /\ Asks(q, x)' <=> Asks(q, x)
                                     /\ Posted(q, x)' <=> Posted(q, x)
    BY <1>6, <1>21 DEF Waits, Asks, Posted
  <1>25. Excuses'
    BY <1>6, <1>24 DEF SessionsInv, Excuses, Excused, HasRow
  <1> QED BY <1>16, <1>19, <1>20, <1>22, <1>23, <1>25 DEF SessionsInv

(* The transaction that stores a session: what was extracted of it is too  *)
(* old from then on, and what is being extracted is overtaken.             *)
LEMMA StoreCommitsKeeps ==
    ASSUME SessionsInv, NEW p \in Processes, job[p] \in StoreJob, StoreCommits(p) PROVE SessionsInv'
  <1>1. SessionTypes /\ Reading
    BY DEF SessionsInv
  <1>2. PICK j : j = job[p]
    OBVIOUS
  <1>3. PICK s \in Sessions : s = j.session
    BY <1>2 DEF StoreJob
  <1>4. j \in StoreJob /\ j.mtime \in Versions /\ j.content \in Versions /\ j.content \in Nat
    BY <1>2, VersionsAre DEF StoreJob
  <1>5. j.content <= transcript[s] /\ (j.mtime <= j.content \/ s \in misread)
    BY <1>1, <1>2, <1>3, <1>4 DEF Reading, StoresSafely
  <1>6. PICK i : i = IF extractor = "inline"
                     THEN [step |-> "linking", session |-> s, content |-> j.content] ELSE NoJob
    OBVIOUS
  <1>7. PICK r : r = Stored(log[s], j, Embeddings(p))
    OBVIOUS
  <1>8. /\ log' = [log EXCEPT ![s] = r] /\ job' = [job EXCEPT ![p] = i]
        /\ batch' = [q \in Processes |->
                        IF pc[q] = "backfilling" THEN batch[q] \ {s} ELSE batch[q]]
        /\ due' = due \cup {s}
        /\ overtaken' = IF At(s, ExtractJob \cup LinkJob) THEN overtaken \cup {s}
                                                          ELSE overtaken \ {s}
        /\ skimmed' = skimmed \ {s}
        /\ UNCHANGED <<extractor, transcript, linked, pc, work, episodes, misread, raced>>
    BY <1>2, <1>3, <1>6, <1>7 DEF StoreCommits
  <1>9. /\ r \in Row /\ r.mtime = j.mtime /\ r.chunks = j.content
        /\ r.extracted \in {"never", "before"}
    <2>1. log[s] \in Row
      BY <1>1 DEF SessionTypes
    <2>2. Setup[p] \in [provider : {"openai", "poly"}, ready : BOOLEAN]
      BY SessionsAssumption DEF Processes, Scanners
    <2>3. Embeddings(p) \subseteq {"openai", "poly"}
      BY <2>2 DEF Embeddings
    <2>4. PICK E \in SUBSET {"openai", "poly"} :
            E = IF Chunks(j.session, j.content) = {} THEN {} ELSE Embeddings(p)
      BY <2>3
    <2>5. PICK x \in {"never", "before"} : x = IF log[s].extracted = "never" THEN "never" ELSE "before"
      OBVIOUS
    <2>6. r = [log[s] EXCEPT !.mtime = j.mtime, !.chunks = j.content, !.extracted = x, !.embedded = E]
      BY <1>7, <2>4, <2>5 DEF Stored
    <2> QED BY <1>4, <2>1, <2>6 DEF Row
  <1>10. /\ i \in Jobs /\ i \notin ExtractJob /\ i \notin StoreJob
         /\ i \in LinkJob => extractor = "inline" /\ i.session = s /\ i.content = j.content
    BY <1>3, <1>4, <1>6 DEF NoJob, Jobs, StoreJob, ExtractJob, LinkJob
  <1>11. /\ log' \in [Sessions -> Row] /\ log'[s] = r
         /\ \A x \in Sessions \ {s} : log'[x] = log[x]
    BY <1>1, <1>8, <1>9 DEF SessionTypes
  <1>12. /\ job' \in [Processes -> Jobs] /\ job'[p] = i
         /\ \A q \in Processes \ {p} : job'[q] = job[q]
    BY <1>1, <1>8, <1>10 DEF SessionTypes
  <1>13. /\ batch' \in [Processes -> SUBSET Sessions]
         /\ \A q \in Processes : /\ batch'[q] \subseteq batch[q]
                                 /\ pc[q] # "backfilling" => batch'[q] = batch[q]
    BY <1>1, <1>8 DEF SessionTypes
  <1>14. SessionTypes'
    BY <1>1, <1>8, <1>11, <1>12, <1>13 DEF SessionTypes
  <1>15. Reading'
    BY <1>1, <1>5, <1>8, <1>9, <1>10, <1>11, <1>12 DEF Reading, ReadBefore, StoresSafely
  <1>16. RecordedTimeIsSafe'
    BY <1>5, <1>8, <1>9, <1>11 DEF SessionsInv, RecordedTimeIsSafe
  <1>17. \A x \in Sessions \ {s} : /\ x \in overtaken' <=> x \in overtaken
                                   /\ x \in due' <=> x \in due
                                   /\ x \in skimmed' <=> x \in skimmed
    BY <1>8
  <1>18. MarkedIsExtracted'
    <2> SUFFICES ASSUME NEW x \in Sessions, x \notin overtaken'
                 PROVE  /\ log'[x].extracted = "after" =>
                             \/ Chunks(x, log'[x].chunks) = {}
                             \/ \E v \in episodes[x] : v >= log'[x].chunks
                             \/ x \in skimmed'
                        /\ extractor = "inline" /\ x \notin due' => linked[x] = log'[x].chunks
      BY <1>8 DEF MarkedIsExtracted
    <2>1. CASE x = s
      BY <1>8, <1>9, <1>11, <2>1
    <2>2. CASE x # s
      BY <1>11, <1>17, <2>2 DEF SessionsInv, Extracting, MarkedIsExtracted
    <2> QED BY <2>1, <2>2
  <1>19. ASSUME NEW q \in Processes PROVE ExtractsFits(job[q])' /\ LinksFits(job[q])'
    <2>1. CASE q = p
      BY <1>9, <1>10, <1>11, <1>12, <2>1 DEF ExtractsFits, LinksFits
    <2>2. CASE q # p /\ job[q].session = s
      <3>1. job'[q] = job[q]
        BY <1>12, <2>2
      <3>2. job[q] \in ExtractJob \cup LinkJob => s \in overtaken'
        BY <1>8, <2>2 DEF At
      <3>3. ExtractsFits(job[q])
        BY DEF SessionsInv, Extracting
      <3> QED BY <1>8, <2>2, <3>1, <3>2, <3>3 DEF ExtractsFits, LinksFits
    <2>3. CASE q # p /\ job[q].session # s
      <3>1. job'[q] = job[q] /\ ExtractsFits(job[q]) /\ LinksFits(job[q])
        BY <1>12, <2>3 DEF SessionsInv, Extracting
      <3>2. job[q] \in ExtractJob \cup LinkJob => job[q].session \in Sessions \ {s}
        BY <2>3 DEF ExtractJob, LinkJob
      <3> QED BY <1>8, <1>11, <1>17, <3>1, <3>2 DEF ExtractsFits, LinksFits
    <2> QED BY <2>1, <2>2, <2>3
  <1>20. OneWay'
    BY <1>8, <1>10, <1>12, <1>13 DEF SessionsInv, OneWay
  <1>21. job[p] \notin ExtractJob
    BY DEF StoreJob, ExtractJob
  <1>22. \A q \in Processes : \A x : /\ Waits(q, x)' <=> Waits(q, x)
                                     /\ Asks(q, x)' <=> Asks(q, x)
                                     /\ Posted(q, x)' <=> Posted(q, x)
    BY <1>8, <1>10, <1>12, <1>13, <1>21 DEF Waits, Asks, Posted
  <1>23. Excuses'
    <2> SUFFICES ASSUME extractor = "batch", NEW x \in Sessions \ raced PROVE Excused(x)'
      BY <1>8 DEF Excuses
    <2>1. Excused(x)
      BY DEF SessionsInv, Excuses
    <2>2. CASE x = s
      BY <1>8, <1>22, <2>1, <2>2 DEF Excused
    <2>3. CASE x # s
      BY <1>11, <1>17, <1>22, <2>1, <2>3 DEF Excused, HasRow
    <2> QED BY <2>2, <2>3
  <1> QED BY <1>14, <1>15, <1>16, <1>18, <1>19, <1>20, <1>23 DEF SessionsInv, Extracting

(* What the backend links is what is stored, unless it was stored again.   *)
LEMMA LinkKeeps == ASSUME SessionsInv, NEW p \in Processes, Link(p) PROVE SessionsInv'
  <1>1. SessionTypes /\ Reading /\ job[p] \in LinkJob
    BY DEF SessionsInv, Link
  <1>2. PICK s \in Sessions : s = job[p].session
    BY <1>1 DEF LinkJob
  <1>3. PICK v : v = job[p].content
    OBVIOUS
  <1>4. v \in Nat /\ (s \notin overtaken => v = log[s].chunks)
    BY <1>1, <1>2, <1>3, VersionsAre DEF SessionsInv, Extracting, LinksFits, LinkJob
  <1>5. /\ job' = [job EXCEPT ![p] = NoJob]
        /\ UNCHANGED <<extractor, transcript, log, pc, work, batch, episodes,
                       misread, skimmed, raced, overtaken>>
        /\ \/ linked' = [linked EXCEPT ![s] = v] /\ due' = due \ {s}
           \/ UNCHANGED <<linked, due>>
           \/ linked' = [linked EXCEPT ![s] = v] /\ UNCHANGED due
    BY <1>2, <1>3 DEF Link, CallIngest
  <1>6. NoJob \notin StoreJob /\ NoJob \notin ExtractJob /\ NoJob \notin LinkJob /\ NoJob \in Jobs
    BY DEF NoJob, StoreJob, ExtractJob, LinkJob, Jobs
  <1>7. /\ job' \in [Processes -> Jobs] /\ job'[p] = NoJob
        /\ \A q \in Processes \ {p} : job'[q] = job[q]
    BY <1>1, <1>5, <1>6 DEF SessionTypes
  <1>8. /\ linked' \in [Sessions -> Nat]
        /\ \A x \in Sessions \ {s} : linked'[x] = linked[x] /\ (x \in due' <=> x \in due)
        /\ linked'[s] = v \/ (linked'[s] = linked[s] /\ (s \in due' <=> s \in due))
    <2>1. linked \in [Sessions -> Nat]
      BY <1>1 DEF SessionTypes
    <2>2. CASE linked' = [linked EXCEPT ![s] = v] /\ due' \in {due, due \ {s}}
      BY <1>4, <2>1, <2>2
    <2>3. CASE UNCHANGED <<linked, due>>
      BY <2>1, <2>3
    <2> QED BY <1>5, <2>2, <2>3
  <1>9. SessionTypes'
    BY <1>1, <1>5, <1>7, <1>8 DEF SessionTypes
  <1>10. Reading' /\ RecordedTimeIsSafe'
    BY <1>1, <1>5, <1>6, <1>7 DEF SessionsInv, Reading, ReadBefore, StoresSafely, RecordedTimeIsSafe
  <1>11. MarkedIsExtracted'
    BY <1>4, <1>5, <1>8 DEF SessionsInv, Extracting, MarkedIsExtracted
  <1>12. \A q \in Processes : ExtractsFits(job[q])' /\ LinksFits(job[q])'
    BY <1>5, <1>6, <1>7 DEF SessionsInv, Extracting, ExtractsFits, LinksFits
  <1>13. extractor # "batch"
    BY <1>1 DEF SessionsInv, OneWay
  <1>14. OneWay' /\ Excuses'
    BY <1>5, <1>6, <1>7, <1>13 DEF SessionsInv, OneWay, Excuses
  <1> QED BY <1>9, <1>10, <1>11, <1>12, <1>14 DEF SessionsInv, Extracting

(* What a batch takes of the rows is due, and is raced if it is taken.     *)
LEMMA SelectKeeps == ASSUME SessionsInv, NEW p \in Processes, Select(p) PROVE SessionsInv'
  <1>1. SessionTypes /\ Reading /\ job[p] = NoJob /\ pc[p] = "storing" /\ extractor = "batch"
    BY DEF SessionsInv, Select, Free
  <1>2. PICK B \in SUBSET {s \in Sessions : Eligible(s)} :
          batch' = [batch EXCEPT ![p] = B] /\ raced' = raced \cup {s \in B : InBatch(s)}
    BY DEF Select
  <1>3. /\ pc' = [pc EXCEPT ![p] = "extracting"]
        /\ UNCHANGED <<extractor, transcript, log, linked, work, job, episodes, due,
                       misread, skimmed, overtaken>>
    BY DEF Select, Go, database
  <1>4. /\ pc' \in [Processes -> States] /\ pc'[p] = "extracting" /\ batch'[p] = B
        /\ batch' \in [Processes -> SUBSET Sessions]
        /\ \A q \in Processes \ {p} : pc'[q] = pc[q] /\ batch'[q] = batch[q]
    BY <1>1, <1>2, <1>3 DEF SessionTypes, States
  <1>5. SessionTypes'
    BY <1>1, <1>3, <1>4 DEF SessionTypes
  <1>6. Reading' /\ RecordedTimeIsSafe'
    BY <1>1, <1>3 DEF SessionsInv, Reading, ReadBefore, StoresSafely, RecordedTimeIsSafe
  <1>7. Extracting'
    BY <1>3 DEF SessionsInv, Extracting, MarkedIsExtracted, ExtractsFits, LinksFits
  <1>8. job[p] \notin ExtractJob
    BY <1>1 DEF NoJob, ExtractJob
  <1>9. OneWay'
    BY <1>1, <1>3, <1>4, <1>8 DEF SessionsInv, OneWay
  <1>10. Excuses'
    <2> SUFFICES ASSUME NEW x \in Sessions \ raced' PROVE Excused(x)'
      BY <1>3 DEF Excuses
    <2>1. Excused(x) /\ (x \in B => ~InBatch(x) /\ Eligible(x))
      BY <1>1, <1>2 DEF SessionsInv, Excuses
    <2>2. \A q \in Processes : /\ Asks(q, x)' <=> Asks(q, x)
                               /\ Posted(q, x)' <=> Posted(q, x)
                               /\ q # p => (Waits(q, x)' <=> Waits(q, x))
      BY <1>3, <1>4 DEF Asks, Posted, Waits
    <2>3. ~Asks(p, x) /\ (Waits(p, x)' <=> x \in B)
      BY <1>4, <1>8 DEF Asks, Waits
    <2>4. HasRow(x)' <=> HasRow(x)
      BY <1>3 DEF HasRow
    <2>5. CASE x \in B
      <3>1. \A q \in Processes : ~Asks(q, x) /\ ~Posted(q, x) /\ ~Waits(q, x)
        BY <2>1, <2>5 DEF InBatch, At, Asks, Posted, Waits
      <3>2. HasRow(x) /\ log[x].extracted # "after"
        BY <2>1, <2>5 DEF Eligible
      <3>3. x \in due'
        BY <1>3, <2>1, <3>1, <3>2 DEF Excused
      <3>4. \A q \in Processes : /\ ~Asks(q, x)' /\ ~Posted(q, x)'
                                 /\ q # p => ~Waits(q, x)'
        BY <2>2, <3>1
      <3> QED BY <3>3, <3>4 DEF Excused
    <2>6. CASE x \notin B
      <3>1. \A q \in Processes : Waits(q, x)' => Waits(q, x)
        BY <2>2, <2>3, <2>6
      <3> QED BY <1>3, <2>1, <2>2, <2>4, <3>1 DEF Excused
    <2> QED BY <2>5, <2>6
  <1> QED BY <1>5, <1>6, <1>7, <1>9, <1>10 DEF SessionsInv

(* An attempt is counted, and marks the session if it succeeded.           *)
LEMMA AttemptedTyped ==
    ASSUME NEW row \in Row, NEW ok \in BOOLEAN, NEW r, r = Attempted(row, ok)
    PROVE  /\ r \in Row /\ r.mtime = row.mtime /\ r.chunks = row.chunks
           /\ r.extracted = IF ok THEN "after" ELSE row.extracted
  <1>1. PICK x \in {"never", "before", "after"} : x = IF ok THEN "after" ELSE row.extracted
    BY DEF Row
  <1>2. r = [row EXCEPT !.attempts = @ + 1, !.extracted = x]
    BY <1>1 DEF Attempted
  <1>3. row.attempts + 1 \in Nat
    BY DEF Row
  <1> QED BY <1>1, <1>2, <1>3 DEF Row

(* A session without text in its transcript is marked at once; the text of *)
(* another is no older than what is stored of it, or was read short.       *)
LEMMA ExtractKeeps == ASSUME SessionsInv, NEW p \in Processes, NEW s \in batch[p], Extract(p, s) PROVE SessionsInv'
  <1>1. /\ SessionTypes /\ Reading /\ job[p] = NoJob /\ s \in Sessions
        /\ pc[p] \in {"extracting", "extracted"}
    BY DEF SessionsInv, Extract, Free, SessionTypes
  <1>2. Waits(p, s)
    BY <1>1 DEF Waits
  <1>3. extractor # "inline" /\ extractor = "batch"
    BY <1>1, SessionsAssumption DEF SessionsInv, OneWay, SessionTypes
  <1>4. PICK B : B = batch[p] \ {s}
    OBVIOUS
  <1>5. /\ batch' = [batch EXCEPT ![p] = B] /\ pc' = [pc EXCEPT ![p] = "extracted"]
        /\ UNCHANGED <<extractor, transcript, linked, work, episodes, due, misread, raced, overtaken>>
    BY <1>4 DEF Extract, Go
  <1>6. PICK v \in 0..transcript[s] :
          \/ UNCHANGED <<log, job, skimmed>>
          \/ /\ \/ v = transcript[s] /\ UNCHANGED skimmed
                \/ skimmed' = skimmed \cup {s}
             /\ IF Chunks(s, v) = {}
                THEN log' = [log EXCEPT ![s] = Attempted(@, TRUE)] /\ UNCHANGED job
                ELSE /\ job' = [job EXCEPT ![p] = [step |-> "asking", session |-> s, content |-> v]]
                     /\ UNCHANGED log
    <2>1. 0 \in 0..transcript[s]
      BY <1>1 DEF SessionTypes
    <2> QED BY <2>1 DEF Extract
  <1>7. PICK r : r = Attempted(log[s], TRUE)
    OBVIOUS
  <1>8. PICK j : j = [step |-> "asking", session |-> s, content |-> v]
    OBVIOUS
  <1>9. \/ UNCHANGED <<log, job>>
        \/ Chunks(s, v) = {} /\ log' = [log EXCEPT ![s] = r] /\ UNCHANGED job
        \/ job' = [job EXCEPT ![p] = j] /\ UNCHANGED log
    BY <1>6, <1>7, <1>8 DEF Extract
  <1>10. /\ v \in Nat /\ v \in Versions /\ log[s].chunks \in Nat
         /\ UNCHANGED <<log, job>> \/ s \in skimmed' \/ log[s].chunks <= v
         /\ skimmed \subseteq skimmed'
    <2>1. transcript[s] <= Len(Messages[s]) /\ log[s].chunks <= transcript[s] /\ transcript[s] \in Nat
      BY <1>1 DEF Reading, SessionTypes
    <2>2. log[s].chunks \in Nat
      BY <1>1, VersionsAre DEF SessionTypes, Row
    <2>3. v \in Nat /\ v \in Versions
      BY <1>1, <2>1, VersionsAre
    <2> QED BY <1>6, <2>1, <2>2, <2>3
  <1>11. /\ r \in Row /\ r.mtime = log[s].mtime /\ r.chunks = log[s].chunks /\ r.extracted = "after"
    <2>1. log[s] \in Row
      BY <1>1 DEF SessionTypes
    <2> QED BY <1>7, <2>1, AttemptedTyped
  <1>12. /\ j \in Jobs /\ j \in ExtractJob /\ j \notin StoreJob /\ j \notin LinkJob
         /\ j.session = s /\ j.content = v /\ j.step = "asking"
    BY <1>1, <1>8, <1>10 DEF Jobs, ExtractJob, StoreJob, LinkJob
  <1>13. NoJob \notin StoreJob /\ NoJob \notin ExtractJob /\ NoJob \notin LinkJob
    BY DEF NoJob, StoreJob, ExtractJob, LinkJob
  <1>14. /\ log' \in [Sessions -> Row]
         /\ \A x \in Sessions : /\ log'[x].mtime = log[x].mtime /\ log'[x].chunks = log[x].chunks
                                /\ x # s => log'[x] = log[x]
         /\ log'[s] = log[s] \/ (log'[s] = r /\ Chunks(s, v) = {})
    BY <1>1, <1>9, <1>11 DEF SessionTypes
  <1>15. /\ job' \in [Processes -> Jobs]
         /\ \A q \in Processes \ {p} : job'[q] = job[q]
         /\ job'[p] = NoJob \/ (job'[p] = j /\ (s \in skimmed' \/ log[s].chunks <= v))
    <2>1. job \in [Processes -> Jobs] /\ log \in [Sessions -> Row]
      BY <1>1 DEF SessionTypes
    <2>2. CASE job' = [job EXCEPT ![p] = j] /\ job' # job
      BY <1>10, <1>12, <2>1, <2>2
    <2>3. CASE UNCHANGED job
      BY <1>1, <2>1, <2>3
    <2> QED BY <1>9, <2>2, <2>3
  <1>16. /\ pc' \in [Processes -> States] /\ pc'[p] = "extracted" /\ batch'[p] = B
         /\ batch' \in [Processes -> SUBSET Sessions]
         /\ \A q \in Processes \ {p} : pc'[q] = pc[q] /\ batch'[q] = batch[q]
    BY <1>1, <1>4, <1>5 DEF SessionTypes, States
  <1>17. SessionTypes'
    BY <1>1, <1>5, <1>14, <1>15, <1>16 DEF SessionTypes
  <1>18. Reading'
    BY <1>1, <1>5, <1>12, <1>13, <1>14, <1>15 DEF Reading, ReadBefore, StoresSafely
  <1>19. RecordedTimeIsSafe'
    BY <1>5, <1>14 DEF SessionsInv, RecordedTimeIsSafe
  <1>20. UNCHANGED log \/ s \in skimmed' \/ Chunks(s, log[s].chunks) \subseteq Chunks(s, v)
    BY <1>1, <1>10, ChunksGrow
  <1>21. MarkedIsExtracted'
    <2> SUFFICES ASSUME NEW x \in Sessions, x \notin overtaken, log'[x].extracted = "after"
                 PROVE  \/ Chunks(x, log'[x].chunks) = {}
                        \/ \E w \in episodes[x] : w >= log'[x].chunks
                        \/ x \in skimmed'
      BY <1>3, <1>5 DEF MarkedIsExtracted
    <2>1. CASE log'[x] = log[x]
      BY <1>10, <2>1 DEF SessionsInv, Extracting, MarkedIsExtracted
    <2>2. CASE x = s /\ Chunks(s, v) = {} /\ log' # log
      BY <1>1, <1>14, <1>20, <2>2
    <2> QED BY <1>14, <2>1, <2>2
  <1>22. \A q \in Processes : ExtractsFits(job[q])' /\ LinksFits(job[q])'
    <2>1. ExtractsFits(job[p])' /\ LinksFits(job[p])'
      BY <1>1, <1>5, <1>12, <1>13, <1>14, <1>15 DEF ExtractsFits, LinksFits
    <2>2. ASSUME NEW q \in Processes \ {p} PROVE ExtractsFits(job[q])' /\ LinksFits(job[q])'
      <3>1. job'[q] = job[q] /\ ExtractsFits(job[q]) /\ LinksFits(job[q])
        BY <1>15 DEF SessionsInv, Extracting
      <3>2. job[q] \in ExtractJob \cup LinkJob => job[q].session \in Sessions
        BY DEF ExtractJob, LinkJob
      <3> QED BY <1>5, <1>10, <1>14, <3>1, <3>2 DEF ExtractsFits, LinksFits
    <2> QED BY <2>1, <2>2
  <1>23. OneWay'
    BY <1>3, <1>5, <1>12, <1>13, <1>15, <1>16 DEF SessionsInv, OneWay
  <1>24. Excuses'
    <2> SUFFICES ASSUME NEW x \in Sessions \ raced PROVE Excused(x)'
      BY <1>5 DEF Excuses
    <2>1. Excused(x)
      BY <1>3 DEF SessionsInv, Excuses
    <2>2. \A q \in Processes \ {p} : /\ Asks(q, x)' <=> Asks(q, x)
                                     /\ Posted(q, x)' <=> Posted(q, x)
                                     /\ Waits(q, x)' <=> Waits(q, x)
      BY <1>15, <1>16 DEF Asks, Posted, Waits
    <2>3. ~Asks(p, x) /\ ~Posted(p, x) /\ ~Posted(p, x)'
      BY <1>1, <1>12, <1>13, <1>15 DEF Asks, Posted
    <2>4. HasRow(x)' <=> HasRow(x)
      BY <1>14 DEF HasRow
    <2>5. CASE x = s
      <3>1. ~Waits(p, x)'
        BY <1>4, <1>16, <2>5 DEF Waits
      <3>2. x \in due' /\ \A q \in Processes : q # p => ~Waits(q, x)' /\ ~Asks(q, x)'
        BY <1>2, <1>5, <2>1, <2>2, <2>5 DEF Excused
      <3> QED BY <3>1, <3>2 DEF Excused
    <2>6. CASE x # s
      <3>1. ~Asks(p, x)' /\ (Waits(p, x)' <=> Waits(p, x)) /\ log'[x] = log[x]
        BY <1>1, <1>4, <1>12, <1>13, <1>14, <1>15, <1>16, <2>6 DEF Asks, Waits
      <3> QED BY <1>5, <2>1, <2>2, <2>3, <2>4, <3>1 DEF Excused
    <2> QED BY <2>5, <2>6
  <1> QED BY <1>17, <1>18, <1>19, <1>21, <1>22, <1>23, <1>24 DEF SessionsInv, Extracting

(* An episode settles what was due, and no other process is at it.         *)
LEMMA PostEpisodeKeeps == ASSUME SessionsInv, NEW p \in Processes, PostEpisode(p) PROVE SessionsInv'
  <1>1. /\ SessionTypes /\ Reading
    BY DEF SessionsInv
  <1>2. PICK j : j = job[p]
    OBVIOUS
  <1>3. j \in ExtractJob /\ j.step = "asking" /\ j.session \in Sessions /\ j.content \in Versions
    <2>1. job[p] \in Jobs /\ job[p].step = "asking"
      BY <1>1 DEF SessionTypes, PostEpisode
    <2>2. j \in ExtractJob /\ j.step = "asking"
      BY <1>2, <2>1, JobKinds
    <2> QED BY <2>2 DEF ExtractJob
  <1>4. PICK s \in Sessions : s = j.session
    BY <1>3
  <1>5. PICK v : v = j.content
    OBVIOUS
  <1>6. PICK i : i = [j EXCEPT !.step = "posted"]
    OBVIOUS
  <1>7. /\ i \in ExtractJob /\ i \in Jobs /\ i \notin StoreJob /\ i \notin LinkJob
        /\ i.step = "posted" /\ i.session = s /\ i.content = v
    BY <1>3, <1>4, <1>5, <1>6 DEF ExtractJob, Jobs, StoreJob, LinkJob
  <1>8. /\ job' = [job EXCEPT ![p] = i] /\ due' = due \ {s}
        /\ episodes' = [episodes EXCEPT ![s] = @ \cup {v}]
        /\ UNCHANGED <<extractor, transcript, log, linked, pc, work, batch,
                       misread, skimmed, raced, overtaken>>
    BY <1>2, <1>4, <1>5, <1>6 DEF PostEpisode, database
  <1>9. /\ job' \in [Processes -> Jobs] /\ job'[p] = i
        /\ \A q \in Processes \ {p} : job'[q] = job[q]
    BY <1>1, <1>7, <1>8 DEF SessionTypes
  <1>10. /\ episodes' \in [Sessions -> SUBSET Versions] /\ v \in episodes'[s]
         /\ \A x \in Sessions : episodes[x] \subseteq episodes'[x]
    BY <1>1, <1>3, <1>5, <1>8 DEF SessionTypes
  <1>11. SessionTypes'
    BY <1>1, <1>8, <1>9, <1>10 DEF SessionTypes
  <1>12. Reading' /\ RecordedTimeIsSafe'
    BY <1>1, <1>7, <1>8, <1>9 DEF SessionsInv, Reading, ReadBefore, StoresSafely, RecordedTimeIsSafe
  <1>13. pc[p] = "extracted" /\ extractor # "inline" /\ extractor = "batch"
    BY <1>1, <1>2, <1>3, SessionsAssumption DEF SessionsInv, OneWay, SessionTypes
  <1>14. MarkedIsExtracted'
    BY <1>8, <1>10, <1>13 DEF SessionsInv, Extracting, MarkedIsExtracted
  <1>15. \A q \in Processes : ExtractsFits(job[q])' /\ LinksFits(job[q])'
    <2>1. ExtractsFits(job[p])
      BY DEF SessionsInv, Extracting
    <2>2. ExtractsFits(job[p])' /\ LinksFits(job[p])'
      BY <1>2, <1>3, <1>4, <1>5, <1>7, <1>8, <1>9, <1>10, <2>1 DEF ExtractsFits, LinksFits
    <2>3. ASSUME NEW q \in Processes \ {p} PROVE ExtractsFits(job[q])' /\ LinksFits(job[q])'
      <3>1. job'[q] = job[q] /\ ExtractsFits(job[q]) /\ LinksFits(job[q])
        BY <1>9 DEF SessionsInv, Extracting
      <3>2. job[q] \in ExtractJob => job[q].session \in Sessions
        BY DEF ExtractJob
      <3> QED BY <1>8, <1>10, <3>1, <3>2 DEF ExtractsFits, LinksFits
    <2> QED BY <2>2, <2>3
  <1>16. OneWay'
    BY <1>7, <1>8, <1>9, <1>13 DEF SessionsInv, OneWay
  <1>17. Excuses'
    <2> SUFFICES ASSUME NEW x \in Sessions \ raced PROVE Excused(x)'
      BY <1>8 DEF Excuses
    <2>1. Excused(x)
      BY <1>13 DEF SessionsInv, Excuses
    <2>2. \A q \in Processes : /\ Waits(q, x)' <=> Waits(q, x)
                               /\ Asks(q, x)' <=> Asks(q, x)
      BY <1>2, <1>3, <1>4, <1>7, <1>8, <1>9 DEF Waits, Asks
    <2>3. \A q \in Processes \ {p} : Posted(q, x)' <=> Posted(q, x)
      BY <1>9 DEF Posted, Asks
    <2>4. (HasRow(x)' <=> HasRow(x)) /\ log'[x] = log[x]
      BY <1>8 DEF HasRow
    <2>5. CASE x = s
      <3>1. Asks(p, x) /\ Posted(p, x)'
        BY <1>2, <1>3, <1>4, <1>7, <1>9, <2>5 DEF Asks, Posted
      <3>2. \A q \in Processes : ~Waits(q, x) /\ (q # p => ~Asks(q, x))
        BY <2>1, <3>1 DEF Excused
      <3> QED BY <2>2, <3>1, <3>2 DEF Excused
    <2>6. CASE x # s
      <3>1. ~Asks(p, x) /\ ~Posted(p, x) /\ ~Posted(p, x)'
        BY <1>2, <1>4, <1>7, <1>9, <2>6 DEF Asks, Posted
      <3>2. x \in due' <=> x \in due
        BY <1>8, <2>6
      <3> QED BY <2>1, <2>2, <2>3, <2>4, <3>1, <3>2 DEF Excused
    <2> QED BY <2>5, <2>6
  <1> QED BY <1>11, <1>12, <1>14, <1>15, <1>16, <1>17 DEF SessionsInv, Extracting

(* A session is marked after its episode; an attempt that fails is due.    *)
LEMMA FinishKeeps == ASSUME SessionsInv, NEW p \in Processes, Finish(p) PROVE SessionsInv'
  <1>1. SessionTypes /\ Reading /\ job[p] \in ExtractJob
    BY DEF SessionsInv, Finish
  <1>2. PICK j \in ExtractJob : j = job[p]
    BY <1>1
  <1>3. PICK s \in Sessions : s = j.session
    BY DEF ExtractJob
  <1>4. PICK ok \in BOOLEAN :
          /\ ok => j.step = "posted" /\ due' = due
          /\ ~ok => due' = due \cup {s}
          /\ log' = [log EXCEPT ![s] = Attempted(@, ok)] \/ (~ok /\ log' = log)
    <2>1. \/ j.step = "posted" /\ due' = due /\ log' = [log EXCEPT ![s] = Attempted(@, TRUE)]
          \/ due' = due \cup {s} /\ log' \in {log, [log EXCEPT ![s] = Attempted(@, FALSE)]}
      BY <1>2, <1>3 DEF Finish
    <2> QED BY <2>1
  <1>5. /\ job' = [job EXCEPT ![p] = NoJob]
        /\ UNCHANGED <<extractor, transcript, linked, pc, work, batch, episodes,
                       misread, skimmed, raced, overtaken>>
    BY DEF Finish
  <1>6. PICK r : r = IF log' = log /\ ~ok THEN log[s] ELSE Attempted(log[s], ok)
    OBVIOUS
  <1>7. /\ r \in Row /\ r.mtime = log[s].mtime /\ r.chunks = log[s].chunks
        /\ IF ok THEN r.extracted = "after" ELSE r.extracted = log[s].extracted
    <2>1. log[s] \in Row
      BY <1>1 DEF SessionTypes
    <2>2. PICK a : a = Attempted(log[s], ok)
      OBVIOUS
    <2>3. /\ a \in Row /\ a.mtime = log[s].mtime /\ a.chunks = log[s].chunks
          /\ a.extracted = IF ok THEN "after" ELSE log[s].extracted
      BY <2>1, <2>2, AttemptedTyped
    <2>4. r = a \/ (r = log[s] /\ ~ok)
      BY <1>6, <2>2
    <2> QED BY <2>1, <2>3, <2>4
  <1>8. /\ log' \in [Sessions -> Row] /\ log'[s] = r
        /\ \A x \in Sessions : /\ log'[x].mtime = log[x].mtime /\ log'[x].chunks = log[x].chunks
                               /\ x # s => log'[x] = log[x]
    <2>1. log \in [Sessions -> Row] /\ log' = [log EXCEPT ![s] = r]
      BY <1>1, <1>4, <1>6 DEF SessionTypes
    <2> QED BY <1>7, <2>1
  <1>9. NoJob \notin StoreJob /\ NoJob \notin ExtractJob /\ NoJob \notin LinkJob /\ NoJob \in Jobs
    BY DEF NoJob, StoreJob, ExtractJob, LinkJob, Jobs
  <1>10. /\ job' \in [Processes -> Jobs] /\ job'[p] = NoJob
         /\ \A q \in Processes \ {p} : job'[q] = job[q]
    BY <1>1, <1>5, <1>9 DEF SessionTypes
  <1>11. SessionTypes'
    BY <1>1, <1>5, <1>8, <1>10 DEF SessionTypes
  <1>12. Reading'
    BY <1>1, <1>5, <1>8, <1>9, <1>10 DEF Reading, ReadBefore, StoresSafely
  <1>13. RecordedTimeIsSafe'
    BY <1>5, <1>8 DEF SessionsInv, RecordedTimeIsSafe
  <1>14. extractor # "inline" /\ extractor = "batch"
    BY <1>1, SessionsAssumption DEF SessionsInv, OneWay, SessionTypes
  <1>15. ExtractsFits(j)
    BY <1>2 DEF SessionsInv, Extracting
  <1>16. MarkedIsExtracted'
    <2> SUFFICES ASSUME NEW x \in Sessions, x \notin overtaken, log'[x].extracted = "after"
                 PROVE  \/ Chunks(x, log'[x].chunks) = {}
                        \/ \E w \in episodes[x] : w >= log'[x].chunks
                        \/ x \in skimmed
      BY <1>5, <1>14 DEF MarkedIsExtracted
    <2>1. CASE log[x].extracted = "after"
      BY <1>8, <2>1 DEF SessionsInv, Extracting, MarkedIsExtracted
    <2>2. CASE x = s /\ ok
      BY <1>3, <1>4, <1>8, <1>15, <2>2 DEF ExtractsFits
    <2> QED BY <1>7, <1>8, <2>1, <2>2
  <1>17. ASSUME NEW q \in Processes PROVE ExtractsFits(job[q])' /\ LinksFits(job[q])'
    <2>1. CASE q = p
      BY <1>9, <1>10, <2>1 DEF ExtractsFits, LinksFits
    <2>2. CASE q # p
      <3>1. job'[q] = job[q] /\ ExtractsFits(job[q]) /\ LinksFits(job[q])
        BY <1>10, <2>2 DEF SessionsInv, Extracting
      <3>2. job[q] \in ExtractJob \cup LinkJob => job[q].session \in Sessions
        BY DEF ExtractJob, LinkJob
      <3> QED BY <1>5, <1>8, <3>1, <3>2 DEF ExtractsFits, LinksFits
    <2> QED BY <2>1, <2>2
  <1>18. OneWay'
    BY <1>5, <1>9, <1>10 DEF SessionsInv, OneWay
  <1>19. Excuses'
    <2> SUFFICES ASSUME NEW x \in Sessions \ raced PROVE Excused(x)'
      BY <1>5 DEF Excuses
    <2>1. Excused(x)
      BY <1>14 DEF SessionsInv, Excuses
    <2>2. \A q \in Processes \ {p} : /\ Asks(q, x)' <=> Asks(q, x)
                                     /\ Posted(q, x)' <=> Posted(q, x)
      BY <1>10 DEF Asks, Posted
    <2>3. ~Asks(p, x)' /\ ~Posted(p, x)'
      BY <1>9, <1>10 DEF Asks, Posted
    <2>4. \A q \in Processes : Waits(q, x)' <=> Waits(q, x)
      BY <1>5 DEF Waits
    <2>5. HasRow(x)' <=> HasRow(x)
      BY <1>8 DEF HasRow
    <2>6. due \subseteq due'
      BY <1>4
    <2>7. CASE x = s
      <3>1. x \in due' \/ log'[x].extracted = "after"
        BY <1>4, <1>7, <1>8, <2>7
      <3> QED BY <2>1, <2>2, <2>3, <2>4, <2>6, <3>1 DEF Excused
    <2>8. CASE x # s
      <3>1. ~Asks(p, x) /\ ~Posted(p, x) /\ log'[x] = log[x]
        BY <1>2, <1>3, <1>8, <2>8 DEF Asks, Posted
      <3> QED BY <2>1, <2>2, <2>3, <2>4, <2>5, <2>6, <3>1 DEF Excused
    <2> QED BY <2>7, <2>8
  <1> QED BY <1>11, <1>12, <1>13, <1>16, <1>17, <1>18, <1>19 DEF SessionsInv, Extracting

-----------------------------------------------------------------------------
(* Every step keeps the invariant.                                         *)
LEMMA SessionsStep == SessionsInv /\ [ClaudeNext]_claudeVars => SessionsInv'
  <1> SUFFICES ASSUME SessionsInv, [ClaudeNext]_claudeVars PROVE SessionsInv'
    OBVIOUS
  <1>1. ASSUME NEW p \in Processes, Step(p) PROVE SessionsInv'
    <2>1. CASE ScanBegins(p)
      BY <2>1, ScanBeginsKeeps
    <2>2. CASE Store(p)
      BY <2>2, StoreCommitsKeeps, StoreFailsKeeps DEF Store
    <2>3. CASE Link(p)
      BY <2>3, LinkKeeps
    <2>4. CASE Select(p)
      BY <2>4, SelectKeeps
    <2>5. CASE DeepBatch(p)
      BY <2>5, StatesKeep
    <2>6. CASE PostEpisode(p)
      BY <2>6, PostEpisodeKeeps
    <2>7. CASE Finish(p)
      BY <2>7, FinishKeeps
    <2>8. CASE ScanEnds(p)
      BY <2>8, ScanEndsKeeps
    <2>9. CASE \E k \in work[p] : Parse(p, k)
      BY <2>9, ParseKeeps
    <2>10. CASE \E s \in batch[p] : Extract(p, s)
      BY <2>10, ExtractKeeps
    <2> QED BY <1>1, <2>1, <2>2, <2>3, <2>4, <2>5, <2>6, <2>7, <2>8, <2>9, <2>10 DEF Step
  <1>2. CASE Errand
    BY <1>2, RefreshKeeps, BackfillKeeps, StatesKeep DEF Errand
  <1>3. CASE UNCHANGED claudeVars \/ \E s \in Listed : WriteIndex(s)
    <2>1. UNCHANGED <<extractor, transcript, log, linked, pc, work, batch, job, episodes,
                      due, misread, skimmed, raced, overtaken>>
      BY <1>3 DEF claudeVars, WriteIndex, database, process, history
    <2>2. SessionTypes' /\ Reading' /\ RecordedTimeIsSafe'
      BY <2>1 DEF SessionsInv, SessionTypes, Reading, ReadBefore, StoresSafely, RecordedTimeIsSafe
    <2>3. Extracting' /\ OneWay'
      BY <2>1 DEF SessionsInv, Extracting, MarkedIsExtracted, ExtractsFits, LinksFits, OneWay
    <2>4. \A q \in Processes : \A x : /\ Waits(q, x)' <=> Waits(q, x)
                                      /\ Asks(q, x)' <=> Asks(q, x)
                                      /\ Posted(q, x)' <=> Posted(q, x)
      BY <2>1 DEF Waits, Asks, Posted
    <2>5. Excuses'
      BY <2>1, <2>4 DEF SessionsInv, Excuses, Excused, HasRow
    <2> QED BY <2>2, <2>3, <2>5 DEF SessionsInv
  <1> QED BY <1>1, <1>2, <1>3, HaltKeeps, StatesKeep, WriteKeeps, HookBeginsKeeps DEF ClaudeNext

(* The inductive invariant: what a process has at hand of a transcript was *)
(* in it, what is extracted is what was stored unless it was stored again, *)
(* and an episode is due of whatever is taken to be extracted.             *)
THEOREM SessionsInvariant == ClaudeSpec => []SessionsInv
  <1> QED BY SessionsInit, SessionsStep, PTL DEF ClaudeSpec

(* No process records a time that is later than what it stored, so that    *)
(* the next scan finds what is missing.                                    *)
THEOREM RecordedTimes == ClaudeSpec => []RecordedTimeIsSafe
  <1>1. SessionsInv => RecordedTimeIsSafe
    BY DEF SessionsInv
  <1> QED BY <1>1, SessionsInvariant, PTL

(* A session that was not stored while it was extracted, nor read short,   *)
(* is marked only after an episode of all that is stored; and what is      *)
(* linked is what is stored.  (_extract_single_session, process_session)   *)
THEOREM MarkedSessions == ClaudeSpec => []MarkedIsExtracted
  <1>1. SessionsInv => MarkedIsExtracted
    BY DEF SessionsInv, Extracting
  <1> QED BY <1>1, SessionsInvariant, PTL

(* No second episode of what is stored is made without a reason.           *)
THEOREM SecondEpisodes == ClaudeSpec => EpisodesAreExcused
  <1>1. SessionsInv /\ [ClaudeNext]_claudeVars =>
          [\A p \in Processes, s \in Sessions :
             PostEpisode(p) /\ job[p].session = s => s \in due \cup raced]_claudeVars
    <2> SUFFICES ASSUME SessionsInv, NEW p \in Processes, NEW s \in Sessions,
                        PostEpisode(p), job[p].session = s, s \notin raced
                 PROVE  s \in due
      OBVIOUS
    <2>1. job[p] \in Jobs /\ job[p].step = "asking"
      BY DEF SessionsInv, SessionTypes, PostEpisode
    <2>2. job[p] \in ExtractJob
      BY <2>1, JobKinds
    <2>3. extractor = "batch"
      BY <2>2, SessionsAssumption DEF SessionsInv, OneWay, SessionTypes
    <2>4. Asks(p, s) /\ ~Posted(p, s)
      BY <2>1, <2>2 DEF Asks, Posted
    <2> QED BY <2>3, <2>4 DEF SessionsInv, Excuses, Excused
  <1> QED BY <1>1, SessionsInvariant, PTL DEF ClaudeSpec, EpisodesAreExcused

=============================================================================
