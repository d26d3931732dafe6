-------------------------- MODULE FederationProofs --------------------------
(***************************************************************************)
(* Proofs about a node among others: the federation, and the identity that *)
(* a node has in it.  Each part is about one of the two.                   *)
(***************************************************************************)
EXTENDS Federation, NodeIdentity, TLAPS

-----------------------------------------------------------------------------
(* Proofs about the federation.  What is said of the contact's edge and what *)
(* is said of the peers' edges rest on nothing in common but the types, and  *)
(* are each an invariant of their own.                                       *)

(* The book that counts: the one in memory, or the one it will be read from. *)
Held == IF up THEN book ELSE file

(***************************************************************************)
(* The invariants.                                                           *)
(***************************************************************************)
(* A request that is waited for is of the kind that the call is at, and has  *)
(* not been answered.                                                        *)
WaitsForNew == \A q \in wire : q.new => call = q.kind /\ ~answered

(* handshake_with runs only where there was no book, so that no edge from    *)
(* the contact is in it until the contact has answered.                      *)
CallsWithoutBook ==
    /\ book.uses # "none" => Contact \in book.peers
    /\ file.uses # "none" => Contact \in file.peers
    /\ call \in {"health", "handshake"} => book.uses = "none" /\ file.uses = "none"
    /\ call = "approve" => Contact \in book.peers
    /\ call # "idle" => up
    /\ answered => call \in {"handshake", "approve"}

(* The contact approved, or a reason why it need not have.                   *)
GrantedOrExcused == granted = "approved" \/ astray \/ Contact \in overtaken

(* An approval that is answered was granted.  Outside of an approval the     *)
(* edge in the book was granted, and in the file, unless a save failed.      *)
UsesWasGranted ==
    /\ call = "approve" /\ answered => GrantedOrExcused
    /\ call # "approve" =>
        /\ book.uses = "approved" => GrantedOrExcused
        /\ file.uses = "approved" => GrantedOrExcused \/ behind
    /\ ~up /\ behind => astray

ContactInv == WaitsForNew /\ CallsWithoutBook /\ UsesWasGranted

(* The request that a peer waits for is of the kind that its step says,      *)
(* under its name of now, and has no reply yet: there is one at most.        *)
AsksOnce ==
    \A r \in requests :
        r.new => /\ name[NodeOf[r.name]] = r.name
                 /\ reply[NodeOf[r.name]] = "none"
                 /\ step[NodeOf[r.name]] =
                        IF r.kind = "handshake" THEN "shaking" ELSE "approving"

(* The file has the edges of the book, unless a save failed.                 *)
FileFollows ==
    /\ up /\ ~behind => file.serves = book.serves
    /\ ~up /\ behind => astray

HasEdge(b, p) == \E m \in Names : NodeOf[m] = p /\ b.serves[m] = "approved"
Late(p) == \E n \in overtaken \ {Contact} : NodeOf[n] = p
Believes(p) == step[p] = "joined" \/ (step[p] = "approving" /\ reply[p] = "ok")

(* A peer that was told that its edge is approved has one in the book that   *)
(* counts, or the excuse.                                                    *)
BelievedIsHeld == \A p \in Peers : Believes(p) => HasEdge(Held, p) \/ astray \/ Late(p)

PeersInv == AsksOnce /\ FileFollows /\ BelievedIsHeld

(***************************************************************************)
(* Books.                                                                    *)
(***************************************************************************)
(* A peer is entered, and the edge to it gets a status.                      *)
LEMMA EntersBook ==
  ASSUME NEW b \in Book, NEW n \in Names, NEW c, c = [b EXCEPT !.peers = @ \cup {n}]
  PROVE  c \in Book /\ c.peers = b.peers \cup {n} /\ c.serves = b.serves /\ c.uses = b.uses
BY DEF Book

LEMMA EdgeOfBook ==
  ASSUME NEW b \in Book, NEW n \in Names, NEW s \in Status,
         NEW c, c = [b EXCEPT !.serves[n] = s]
  PROVE  /\ c \in Book
         /\ c.peers = b.peers /\ c.uses = b.uses
         /\ c.serves[n] = s
         /\ \A m \in Names \ {n} : c.serves[m] = b.serves[m]
BY DEF Book

(* The contact is entered, and the edge from it gets a status.               *)
LEMMA UseOfBook ==
  ASSUME NEW b \in Book, NEW s \in Status,
         NEW c, c = [b EXCEPT !.peers = @ \cup {Contact}, !.uses = s]
  PROVE  c \in Book /\ Contact \in c.peers /\ c.uses = s /\ c.serves = b.serves
BY DEF Book

LEMMA UseAlone ==
  ASSUME NEW b \in Book, NEW s \in Status, NEW c, c = [b EXCEPT !.uses = s]
  PROVE  c \in Book /\ c.peers = b.peers /\ c.uses = s /\ c.serves = b.serves
BY DEF Book

(* The book without peers.                                                   *)
LEMMA EmptyBook ==
  /\ NoBook \in Book /\ NoBook.peers = {} /\ NoBook.uses = "none"
  /\ \A n \in Names : NoBook.serves[n] = "none"
BY DEF NoBook, Book, Status

(* One more failure is within the bound.                                     *)
LEMMA FailureCounted ==
  ASSUME TypeOK, failures < MaxFailures, failures' = failures + 1
  PROVE  failures' \in 0..MaxFailures
BY ConstantsAssumption DEF TypeOK

(* The file is replaced, or the save fails.                                  *)
LEMMA SavedBook ==
  ASSUME TypeOK, NEW b \in Book, Save(b)
  PROVE  /\ file' \in Book /\ behind' \in BOOLEAN /\ failures' \in 0..MaxFailures
         /\ \/ file' = b /\ behind' = FALSE
            \/ file' = file /\ behind' = TRUE
<1>1. CASE file' = b /\ behind' = FALSE /\ UNCHANGED failures
  BY <1>1 DEF TypeOK
<1>2. CASE /\ failures < MaxFailures /\ failures' = failures + 1
           /\ behind' = TRUE /\ UNCHANGED file
  BY <1>2, FailureCounted DEF TypeOK
<1> QED
  BY <1>1, <1>2 DEF Save

(* What a handshake and an approval that arrive do to the book.              *)
LEMMA ProposedBook ==
  ASSUME TypeOK, NEW r \in requests, HandshakeArrives(r)
  PROVE  /\ r.name \in Names /\ book' \in Book /\ file' \in Book
         /\ book'.peers = book.peers \cup {r.name} /\ book'.uses = book.uses
         /\ book'.serves[r.name] = "proposed"
         /\ \A m \in Names \ {r.name} : book'.serves[m] = book.serves[m]
         /\ failures' \in 0..MaxFailures
         /\ \/ file' = book' /\ behind' = FALSE
            \/ /\ behind' = TRUE
               /\ \/ file' = file
                  \/ file'.uses = book'.uses /\ file'.peers = book'.peers
<1> DEFINE entered == [book EXCEPT !.peers = @ \cup {r.name}]
<1>1. r.name \in Names /\ book \in Book /\ file \in Book
  BY DEF TypeOK
<1>2. /\ entered \in Book /\ entered.peers = book.peers \cup {r.name}
      /\ entered.serves = book.serves /\ entered.uses = book.uses
  BY <1>1, EntersBook
<1>3. book' = [entered EXCEPT !.serves[r.name] = "proposed"] /\ SaveTwice(entered, book')
  BY DEF HandshakeArrives
<1> HIDE DEF entered
<1>4. /\ book' \in Book
      /\ book'.peers = entered.peers /\ book'.uses = entered.uses
      /\ book'.serves[r.name] = "proposed"
      /\ \A m \in Names \ {r.name} : book'.serves[m] = entered.serves[m]
  BY <1>1, <1>2, <1>3, EdgeOfBook DEF Status
<1>5. CASE Save(book')
  BY <1>1, <1>2, <1>4, <1>5, SavedBook
<1>6. CASE /\ failures < MaxFailures /\ failures' = failures + 1
           /\ behind' = TRUE /\ file' = entered
  BY <1>1, <1>2, <1>4, <1>6, FailureCounted
<1> QED
  BY <1>3, <1>5, <1>6 DEF SaveTwice

LEMMA ApprovedBook ==
  ASSUME TypeOK, NEW r \in requests, ApproveArrives(r)
  PROVE  /\ r.name \in Names /\ book' \in Book /\ file' \in Book
         /\ book'.peers = book.peers /\ book'.uses = book.uses
         /\ book'.serves[r.name] = "approved"
         /\ \A m \in Names \ {r.name} : book'.serves[m] = book.serves[m]
         /\ failures' \in 0..MaxFailures
         /\ \/ file' = book' /\ behind' = FALSE
            \/ file' = file /\ behind' = TRUE
            \/ file' = file /\ behind' = behind /\ book' = book
<1>1. r.name \in Names /\ book \in Book /\ file \in Book
  BY DEF TypeOK
<1>2. /\ book' \in Book /\ book'.peers = book.peers /\ book'.uses = book.uses
      /\ book'.serves[r.name] = "approved"
      /\ \A m \in Names \ {r.name} : book'.serves[m] = book.serves[m]
  BY <1>1, EdgeOfBook DEF ApproveArrives, Status
<1>3. CASE UNCHANGED <<file, behind, failures>> /\ book' = book
  BY <1>1, <1>2, <1>3 DEF TypeOK
<1>4. CASE Save(book')
  BY <1>1, <1>2, <1>4, SavedBook
<1> QED
  BY <1>3, <1>4 DEF ApproveArrives

(***************************************************************************)
(* Requests.                                                                 *)
(***************************************************************************)
Calls == [kind : {"handshake", "approve"}, new : BOOLEAN]
Asked == [kind : {"handshake", "approve"}, name : Names, new : BOOLEAN]

(* What is sent, and what is given up: the same, but not waited for.         *)
LEMMA OldCall ==
  ASSUME NEW q \in Calls
  PROVE  Old(q) \in Calls /\ ~Old(q).new
BY DEF Old, Calls

LEMMA NewCall ==
  ASSUME NEW kind \in {"handshake", "approve"}
  PROVE  [kind |-> kind, new |-> TRUE] \in Calls
BY DEF Calls

LEMMA NewRequest ==
  ASSUME TypeOK, NEW kind \in {"handshake", "approve"}, NEW p \in Peers
  PROVE  [kind |-> kind, name |-> name[p], new |-> TRUE] \in Asked
<1>1. name[p] \in Names
  BY DEF TypeOK
<1> QED
  BY <1>1 DEF Asked

LEMMA OldRequest ==
  ASSUME NEW r \in Asked
  PROVE  Old(r) \in Asked /\ ~Old(r).new /\ Old(r).name = r.name /\ Old(r).kind = r.kind
BY DEF Old, Asked

(* The coordinator's own request is given up: nothing new is on its way.     *)
LEMMA GivenUpCalls ==
  ASSUME TypeOK, NEW w \in BOOLEAN, GivenUp(w)
  PROVE  wire' \subseteq Calls /\ \A q \in wire' : ~q.new
<1>1. wire \subseteq Calls
  BY DEF TypeOK, Calls
<1>2. CASE wire' = {q \in wire : ~q.new}
  BY <1>1, <1>2
<1>3. CASE wire' = {Old(q) : q \in wire}
  BY <1>1, <1>3, OldCall
<1> QED
  BY <1>2, <1>3 DEF GivenUp

(* A peer gives up: of its requests none is new any more.                    *)
LEMMA GivenUpRequests ==
  ASSUME TypeOK, NEW p \in Peers, NEW w \in BOOLEAN, PeerGivesUp(p, w)
  PROVE  /\ requests' \subseteq Asked
         /\ \A r \in requests' : r.new => r \in requests /\ NodeOf[r.name] # p
<1>1. requests \subseteq Asked
  BY DEF TypeOK, Asked
<1>2. CASE requests' = {r \in requests : NodeOf[r.name] # p \/ ~r.new}
  BY <1>1, <1>2
<1>3. CASE requests' = {IF NodeOf[r.name] = p THEN Old(r) ELSE r : r \in requests}
  BY <1>1, <1>3, OldRequest
<1> QED
  BY <1>2, <1>3 DEF PeerGivesUp

(* The reply to a request reaches the peer that waits for it.                *)
LEMMA RepliedTo ==
  ASSUME TypeOK, NEW r \in requests, NEW a \in Answer, Replied(r, a)
  PROVE  /\ reply' \in [Peers -> Answer]
         /\ NodeOf[r.name] \in Peers
         /\ \A p \in Peers : reply'[p] = IF r.new /\ p = NodeOf[r.name] THEN a ELSE reply[p]
<1>1. r.name \in Names
  BY DEF TypeOK
<1>2. NodeOf[r.name] \in Peers
  BY <1>1, ConstantsAssumption
<1> QED
  BY <1>2 DEF Replied, TypeOK

(***************************************************************************)
(* The types.                                                                *)
(***************************************************************************)
(* A process that ends.                                                      *)
LEMMA EndedTypes ==
  ASSUME TypeOK, Ended, NEW w \in BOOLEAN, GivenUp(w),
         file' \in Book, behind' \in BOOLEAN, failures' \in 0..MaxFailures
  PROVE  TypeOK'
<1>1. wire' \subseteq Calls
  BY GivenUpCalls
<1>2. halts' \in 0..MaxHalts
  BY ConstantsAssumption DEF Ended, TypeOK
<1> QED
  BY <1>1, <1>2, EmptyBook DEF Ended, TypeOK, theirs, Calls

(* The variables keep their types while handshake_with runs.                 *)
LEMMA CallTypes ==
  ASSUME TypeOK,
         \/ \E w \in BOOLEAN : HealthAnswered(w) \/ HandshakeFails(w) \/ ApprovalFails(w)
         \/ HandshakeAnswered \/ HandshakeAnsweredManual \/ ApprovalAnswered
         \/ \E q \in wire : ContactTakes(q)
  PROVE  TypeOK'
<1>0. {"none", "proposed", "approved"} = Status /\ book \in Book
  BY DEF Status, TypeOK
<1>1. ASSUME NEW w \in BOOLEAN, HealthAnswered(w) PROVE TypeOK'
  <2>1. wire' \subseteq Calls /\ keys' \subseteq Names \cup {Contact}
    <3>1. wire \subseteq Calls
      BY DEF TypeOK, Calls
    <3> QED
      BY <1>1, <3>1, NewCall DEF HealthAnswered, TypeOK
  <2> QED
    BY <1>1, <2>1 DEF HealthAnswered, TypeOK, theirs, bounds, Calls
<1>2. ASSUME NEW w \in BOOLEAN, HandshakeFails(w) PROVE TypeOK'
  <2>1. wire' \subseteq Calls /\ failures' \in 0..MaxFailures
    BY <1>2, GivenUpCalls, FailureCounted DEF HandshakeFails
  <2> QED
    BY <1>2, <2>1 DEF HandshakeFails, TypeOK, ours, theirs, Calls
<1>3. ASSUME NEW w \in BOOLEAN, ApprovalFails(w) PROVE TypeOK'
  <2>1. wire' \subseteq Calls /\ failures' \in 0..MaxFailures
    BY <1>3, GivenUpCalls, FailureCounted DEF ApprovalFails
  <2>2. book' \in Book
    BY <1>0, <1>3, UseAlone DEF ApprovalFails
  <2> QED
    BY <1>3, <2>1, <2>2 DEF ApprovalFails, TypeOK, theirs, Calls
<1>4. CASE HandshakeAnswered
  <2>1. book' \in Book
    BY <1>0, <1>4, UseOfBook DEF HandshakeAnswered
  <2>2. wire' \subseteq Calls /\ keys' \subseteq Names \cup {Contact}
    <3>1. wire \subseteq Calls
      BY DEF TypeOK, Calls
    <3> QED
      BY <1>4, <3>1, NewCall DEF HandshakeAnswered, TypeOK
  <2> QED
    BY <1>4, <2>1, <2>2 DEF HandshakeAnswered, TypeOK, theirs, bounds, Calls
<1>5. CASE HandshakeAnsweredManual
  <2>1. book' \in Book
    BY <1>0, <1>5, UseOfBook DEF HandshakeAnsweredManual
  <2>2. file' \in Book /\ behind' \in BOOLEAN /\ failures' \in 0..MaxFailures
    BY <1>5, <2>1, SavedBook DEF HandshakeAnsweredManual
  <2> QED
    BY <1>5, <2>1, <2>2 DEF HandshakeAnsweredManual, TypeOK, theirs
<1>6. CASE ApprovalAnswered
  <2>1. file' \in Book /\ behind' \in BOOLEAN /\ failures' \in 0..MaxFailures
    BY <1>0, <1>6, SavedBook DEF ApprovalAnswered
  <2> QED
    BY <1>6, <2>1 DEF ApprovalAnswered, TypeOK, theirs
<1>7. ASSUME NEW q \in wire, ContactTakes(q) PROVE TypeOK'
  <2>1. q.new \in BOOLEAN
    BY DEF TypeOK
  <2>2. granted' \in Status /\ answered' \in BOOLEAN
    BY <1>0, <1>7, <2>1 DEF ContactTakes, TypeOK
  <2>3. overtaken' \subseteq Names \cup {Contact} /\ wire' \subseteq wire
    BY <1>7 DEF ContactTakes, TypeOK
  <2> QED
    BY <1>7, <2>2, <2>3 DEF ContactTakes, TypeOK, ours, theirs, bounds
<1> QED
  BY <1>1, <1>2, <1>3, <1>4, <1>5, <1>6, <1>7

(* The variables keep their types when a request arrives.                    *)
LEMMA ArrivalTypes ==
  ASSUME TypeOK, NEW r \in requests,
         HandshakeArrives(r) \/ ApproveArrives(r) \/ ApproveRefused(r)
  PROVE  TypeOK'
<1>0. "ok" \in Answer /\ "no" \in Answer /\ r.name \in Names
  BY DEF Answer, TypeOK
<1>1. CASE HandshakeArrives(r)
  <2>1. reply' \in [Peers -> Answer]
    BY <1>0, <1>1, RepliedTo DEF HandshakeArrives
  <2>2. keys' \subseteq Names \cup {Contact} /\ overtaken' \subseteq Names \cup {Contact}
    BY <1>0, <1>1 DEF HandshakeArrives, LearnKey, TypeOK
  <2>3. /\ book' \in Book /\ file' \in Book /\ behind' \in BOOLEAN
        /\ failures' \in 0..MaxFailures
    BY <1>1, ProposedBook
  <2> QED
    BY <1>1, <2>1, <2>2, <2>3 DEF HandshakeArrives, Reached, TypeOK, calling
<1>2. CASE ApproveArrives(r)
  <2>1. reply' \in [Peers -> Answer]
    BY <1>0, <1>2, RepliedTo DEF ApproveArrives
  <2>2. /\ book' \in Book /\ file' \in Book /\ behind' \in BOOLEAN
        /\ failures' \in 0..MaxFailures
    BY <1>2, ApprovedBook DEF TypeOK
  <2> QED
    BY <1>2, <2>1, <2>2 DEF ApproveArrives, Reached, TypeOK, calling
<1>3. CASE ApproveRefused(r)
  <2>1. reply' \in [Peers -> Answer]
    BY <1>0, <1>3, RepliedTo DEF ApproveRefused
  <2> QED
    BY <1>3, <2>1 DEF ApproveRefused, Reached, TypeOK, ours, calling, bounds
<1> QED
  BY <1>1, <1>2, <1>3

(* The variables keep their types in the steps of a peer.                    *)
LEMMA PeerTypes ==
  ASSUME TypeOK, NEW p \in Peers,
         \/ Poll(p) \/ PeerShakes(p) \/ PeerApproves(p) \/ PeerJoins(p) \/ PeerRefused(p)
         \/ \E w \in BOOLEAN : PeerGivesUp(p, w)
         \/ \E n \in Names, again \in BOOLEAN : PeerMigrates(p, n, again)
  PROVE  TypeOK'
<1>1. CASE Poll(p)
  BY <1>1 DEF Poll, TypeOK, ours, calling, bounds
<1>2. ASSUME NEW kind \in {"handshake", "approve"}, NEW next \in {"shaking", "approving"},
             PeerAsks(p, kind), step' = [step EXCEPT ![p] = next]
      PROVE  TypeOK'
  <2>1. requests' \subseteq Asked
    <3>1. requests \subseteq Asked
      BY DEF TypeOK, Asked
    <3> QED
      BY <1>2, <3>1, NewRequest DEF PeerAsks
  <2>2. reply' \in [Peers -> Answer]
    BY <1>2 DEF PeerAsks, TypeOK, Answer
  <2>3. step' \in [Peers -> {"apart", "shaking", "approving", "joined"}]
    BY <1>2 DEF TypeOK
  <2> QED
    BY <1>2, <2>1, <2>2, <2>3 DEF PeerAsks, TypeOK, ours, calling, bounds, Asked
<1>3. CASE PeerShakes(p) \/ PeerApproves(p)
  BY <1>2, <1>3 DEF PeerShakes, PeerApproves
<1>4. CASE PeerJoins(p) \/ PeerRefused(p)
  BY <1>4 DEF PeerJoins, PeerRefused, TypeOK, ours, calling, bounds
<1>5. ASSUME NEW w \in BOOLEAN, PeerGivesUp(p, w) PROVE TypeOK'
  <2>1. requests' \subseteq Asked /\ failures' \in 0..MaxFailures
    BY <1>5, GivenUpRequests, FailureCounted DEF PeerGivesUp
  <2>2. step' \in [Peers -> {"apart", "shaking", "approving", "joined"}]
    BY <1>5 DEF PeerGivesUp, TypeOK
  <2> QED
    BY <1>5, <2>1, <2>2 DEF PeerGivesUp, TypeOK, ours, calling, Asked
<1>6. ASSUME NEW n \in Names, NEW again \in BOOLEAN, PeerMigrates(p, n, again)
      PROVE  TypeOK'
  <2>1. migrations' \in 0..MaxMigrations
    BY <1>6, ConstantsAssumption DEF PeerMigrates, TypeOK
  <2>2. name' \in [Peers -> Names] /\ \A q \in Peers : NodeOf[name'[q]] = q
    BY <1>6 DEF PeerMigrates, TypeOK
  <2>3. step' \in [Peers -> {"apart", "shaking", "approving", "joined"}]
    BY <1>6 DEF PeerMigrates, TypeOK
  <2> QED
    BY <1>6, <2>1, <2>2, <2>3 DEF PeerMigrates, TypeOK, ours, calling
<1> QED
  BY <1>1, <1>3, <1>4, <1>5, <1>6

(* The variables keep their types.                                           *)
LEMMA TypeOKStep ==
  ASSUME TypeOK, [Next]_vars
  PROVE  TypeOK'
<1>1. CASE Start
  BY <1>1, ConstantsAssumption DEF Start, TypeOK, theirs, bounds
<1>2. CASE Stop
  <2>1. book \in Book
    BY DEF TypeOK
  <2> QED
    BY <1>2, <2>1, SavedBook, EndedTypes DEF Stop
<1>3. ASSUME NEW w \in BOOLEAN, Crash(w) PROVE TypeOK'
  BY <1>3, EndedTypes DEF Crash, TypeOK
<1>4. CASE UNCHANGED vars
  BY <1>4 DEF vars, TypeOK, ours, calling, theirs, bounds
<1> QED
  BY <1>1, <1>2, <1>3, <1>4, CallTypes, ArrivalTypes, PeerTypes DEF Next

(* Every variable keeps its type.                                            *)
THEOREM TypeCorrect == Spec => []TypeOK
<1>1. Init => TypeOK
  <2> SUFFICES ASSUME Init PROVE TypeOK
    OBVIOUS
  <2>1. /\ up \in BOOLEAN /\ book \in Book /\ file \in Book
        /\ keys \subseteq Names \cup {Contact}
    BY EmptyBook DEF Init
  <2>2. /\ call \in {"idle", "health", "handshake", "approve"} /\ answered \in BOOLEAN
        /\ wire \subseteq [kind : {"handshake", "approve"}, new : BOOLEAN]
        /\ granted \in Status
    BY DEF Init, Status
  <2>3. /\ name \in [Peers -> Names] /\ \A p \in Peers : NodeOf[name[p]] = p
        /\ step \in [Peers -> {"apart", "shaking", "approving", "joined"}]
    BY DEF Init
  <2>4. /\ requests \subseteq [kind : {"handshake", "approve"}, name : Names, new : BOOLEAN]
        /\ reply \in [Peers -> Answer]
        /\ told \in [Peers -> {"nothing", "served", "empty", "refused"}]
    BY DEF Init, Answer
  <2>5. /\ auto \in BOOLEAN /\ behind \in BOOLEAN /\ astray \in BOOLEAN
        /\ overtaken \subseteq Names \cup {Contact}
    BY DEF Init
  <2>6. /\ halts \in 0..MaxHalts /\ failures \in 0..MaxFailures
        /\ migrations \in 0..MaxMigrations
    BY ConstantsAssumption DEF Init
  <2> QED
    BY <2>1, <2>2, <2>3, <2>4, <2>5, <2>6 DEF TypeOK
<1>2. TypeOK /\ [Next]_vars => TypeOK'
  BY TypeOKStep
<1> QED
  BY <1>1, <1>2, PTL DEF Spec

(***************************************************************************)
(* The edge from the contact.                                                *)
(***************************************************************************)
(* A peer's request leaves what is said of the contact as it is.             *)
LEMMA ArrivalKeepsContact ==
  ASSUME TypeOK, ContactInv, NEW r \in requests,
         HandshakeArrives(r) \/ ApproveArrives(r) \/ ApproveRefused(r)
  PROVE  ContactInv'
<1> USE DEF ContactInv, WaitsForNew, CallsWithoutBook, UsesWasGranted, GrantedOrExcused
<1>1. CASE HandshakeArrives(r)
  <2>1. /\ r.name # Contact
        /\ book'.peers = book.peers \cup {r.name} /\ book'.uses = book.uses
        /\ \/ file' = book' /\ behind' = FALSE
           \/ /\ behind' = TRUE
              /\ file' = file \/ (file'.uses = book'.uses /\ file'.peers = book'.peers)
    BY <1>1, ProposedBook, ConstantsAssumption
  <2>2. /\ up /\ up' = up /\ UNCHANGED calling /\ astray' = astray
        /\ Contact \in overtaken' <=> Contact \in overtaken
    BY <1>1, <2>1 DEF HandshakeArrives, Reached
  <2> QED
    BY <2>1, <2>2 DEF calling
<1>2. CASE ApproveArrives(r)
  <2>1. /\ book'.peers = book.peers /\ book'.uses = book.uses
        /\ \/ file' = book' /\ behind' = FALSE
           \/ file' = file /\ behind' = TRUE
           \/ file' = file /\ behind' = behind /\ book' = book
    BY <1>2, ApprovedBook
  <2>2. up /\ up' = up /\ UNCHANGED calling /\ astray' = astray /\ overtaken' = overtaken
    BY <1>2 DEF ApproveArrives, Reached
  <2> QED
    BY <2>1, <2>2 DEF calling
<1>3. CASE ApproveRefused(r)
  BY <1>3 DEF ApproveRefused, Reached, ours, calling
<1> QED
  BY <1>1, <1>2, <1>3

(* The coordinator ends, and its call with it.                               *)
LEMMA EndKeepsContact ==
  ASSUME TypeOK, ContactInv, Ended, NEW w \in BOOLEAN, GivenUp(w),
         \/ file' = file /\ behind' = behind
         \/ Save(book)
  PROVE  ContactInv'
<1> USE DEF ContactInv, WaitsForNew, CallsWithoutBook, UsesWasGranted, GrantedOrExcused
<1>1. \A q \in wire' : ~q.new
  BY GivenUpCalls
<1>2. /\ up /\ ~up' /\ book' = NoBook /\ call' = "idle" /\ answered' = FALSE
      /\ astray' = (astray \/ behind' \/ (call = "approve" /\ file'.uses = "approved"))
      /\ granted' = granted /\ overtaken' = overtaken
  BY DEF Ended
<1>3. /\ file' \in Book
      /\ \/ file' = file /\ behind' = behind
         \/ file' = book /\ behind' = FALSE
         \/ file' = file /\ behind' = TRUE
  BY SavedBook DEF TypeOK
<1>4. WaitsForNew'
  BY <1>1
<1>5. CallsWithoutBook'
  BY <1>2, <1>3, EmptyBook
<1>6. UsesWasGranted'
  <2>1. ~up' /\ call' = "idle" /\ ~answered' /\ book'.uses = "none"
    BY <1>2, EmptyBook
  <2>2. behind' => astray'
    BY <1>2
  <2>3. file'.uses = "approved" => GrantedOrExcused' \/ astray'
    <3>1. CASE astray'
      BY <3>1
    <3>2. CASE ~astray'
      <4>1. ~behind' /\ ~(call = "approve" /\ file'.uses = "approved")
        BY <1>2, <3>2
      <4>2. file'.uses = "approved" => GrantedOrExcused
        BY <1>3, <4>1
      <4> QED
        BY <1>2, <4>2
    <3> QED
      BY <3>1, <3>2
  <2> QED
    BY <2>1, <2>2, <2>3
<1> QED
  BY <1>4, <1>5, <1>6

(* The steps of handshake_with and of the contact.                           *)
LEMMA CallKeepsContact ==
  ASSUME TypeOK, ContactInv,
         \/ \E w \in BOOLEAN : HealthAnswered(w) \/ HandshakeFails(w) \/ ApprovalFails(w)
         \/ HandshakeAnswered \/ HandshakeAnsweredManual \/ ApprovalAnswered
         \/ \E q \in wire : ContactTakes(q)
  PROVE  ContactInv'
<1>0. /\ book \in Book /\ "approved" \in Status /\ "proposed" \in Status
      /\ wire \subseteq Calls
  BY DEF TypeOK, Status, Calls
<1>1. ASSUME NEW w \in BOOLEAN, HealthAnswered(w) PROVE ContactInv'
  <2>1. WaitsForNew'
    BY <1>0, <1>1 DEF HealthAnswered, ContactInv, WaitsForNew, Calls
  <2>2. CallsWithoutBook' /\ UsesWasGranted'
    BY <1>1 DEF HealthAnswered, ContactInv, CallsWithoutBook, UsesWasGranted,
                GrantedOrExcused
  <2> QED
    BY <2>1, <2>2 DEF ContactInv
<1>2. ASSUME NEW w \in BOOLEAN, HandshakeFails(w) PROVE ContactInv'
  <2>1. WaitsForNew'
    BY <1>2, GivenUpCalls DEF HandshakeFails, WaitsForNew
  <2>2. CallsWithoutBook' /\ UsesWasGranted'
    BY <1>2 DEF HandshakeFails, ours, ContactInv, CallsWithoutBook, UsesWasGranted,
                GrantedOrExcused
  <2> QED
    BY <2>1, <2>2 DEF ContactInv
<1>3. ASSUME NEW w \in BOOLEAN, ApprovalFails(w) PROVE ContactInv'
  <2>1. WaitsForNew'
    BY <1>3, GivenUpCalls DEF ApprovalFails, WaitsForNew
  <2>2. book'.uses = "proposed" /\ book'.peers = book.peers
    BY <1>0, <1>3, UseAlone DEF ApprovalFails
  <2>3. /\ up' = up /\ call = "approve" /\ call' = "idle" /\ ~answered'
        /\ \/ file' = book'
           \/ file' = file /\ behind' = TRUE
    BY <1>3 DEF ApprovalFails
  <2>4. CallsWithoutBook' /\ UsesWasGranted'
    BY <2>2, <2>3 DEF ContactInv, CallsWithoutBook, UsesWasGranted
  <2> QED
    BY <2>1, <2>4 DEF ContactInv
<1>4. CASE HandshakeAnswered
  <2>1. Contact \in book'.peers /\ book'.uses = "approved"
    <3>1. book' = [book EXCEPT !.peers = @ \cup {Contact}, !.uses = "approved"]
      BY <1>4 DEF HandshakeAnswered
    <3> QED
      BY <1>0, <3>1 DEF Book
  <2>2. WaitsForNew'
    BY <1>4 DEF HandshakeAnswered, ContactInv, WaitsForNew
  <2>3. /\ up' = up /\ call = "handshake" /\ call' = "approve" /\ ~answered'
        /\ file' = file /\ behind' = behind /\ astray' = astray
    BY <1>4 DEF HandshakeAnswered
  <2>4. CallsWithoutBook' /\ UsesWasGranted'
    BY <2>1, <2>3 DEF ContactInv, CallsWithoutBook, UsesWasGranted
  <2> QED
    BY <2>2, <2>4 DEF ContactInv
<1>5. CASE HandshakeAnsweredManual
  <2>1. book' \in Book /\ Contact \in book'.peers /\ book'.uses = "proposed"
    <3>1. book' = [book EXCEPT !.peers = @ \cup {Contact}, !.uses = "proposed"]
      BY <1>5 DEF HandshakeAnsweredManual
    <3> QED
      BY <1>0, <3>1 DEF Book
  <2>2. \/ file' = book' /\ behind' = FALSE
        \/ file' = file /\ behind' = TRUE
    BY <1>5, <2>1, SavedBook DEF HandshakeAnsweredManual
  <2>3. WaitsForNew'
    BY <1>5 DEF HandshakeAnsweredManual, ContactInv, WaitsForNew
  <2>4. up' = up /\ call = "handshake" /\ call' = "idle" /\ ~answered'
    BY <1>5 DEF HandshakeAnsweredManual
  <2>5. CallsWithoutBook' /\ UsesWasGranted'
    BY <2>1, <2>2, <2>4 DEF ContactInv, CallsWithoutBook, UsesWasGranted
  <2> QED
    BY <2>3, <2>5 DEF ContactInv
<1>6. CASE ApprovalAnswered
  <2>1. \/ file' = book /\ behind' = FALSE
        \/ file' = file /\ behind' = TRUE
    BY <1>0, <1>6, SavedBook DEF ApprovalAnswered
  <2>2. WaitsForNew'
    BY <1>6 DEF ApprovalAnswered, ContactInv, WaitsForNew
  <2>3. /\ up' = up /\ call = "approve" /\ answered /\ call' = "idle" /\ ~answered'
        /\ book' = book /\ granted' = granted /\ astray' = astray
        /\ overtaken' = overtaken
    BY <1>6 DEF ApprovalAnswered
  <2>4. CallsWithoutBook' /\ UsesWasGranted'
    BY <2>1, <2>3 DEF ContactInv, CallsWithoutBook, UsesWasGranted, GrantedOrExcused
  <2> QED
    BY <2>2, <2>4 DEF ContactInv
<1>7. ASSUME NEW q \in wire, ContactTakes(q) PROVE ContactInv'
  <2>1. /\ q.kind \in {"handshake", "approve"} /\ q.new \in BOOLEAN
        /\ up' = up /\ call' = call /\ book' = book /\ file' = file
        /\ behind' = behind /\ astray' = astray
        /\ wire' = wire \ {q} /\ answered' = (answered \/ q.new)
        /\ q.new => call = q.kind
    BY <1>0, <1>7 DEF ContactTakes, ours, Calls, ContactInv, WaitsForNew
  <2>2. WaitsForNew'
    \* At most one request is new: it is of the kind of the call.
    <3> SUFFICES ASSUME NEW o \in wire, o # q, o.new PROVE call = o.kind /\ ~answered'
      BY <2>1 DEF WaitsForNew
    <3>1. call = o.kind /\ ~answered
      BY DEF ContactInv, WaitsForNew
    <3>2. ~q.new
      BY <1>0, <2>1, <3>1 DEF Calls
    <3> QED
      BY <2>1, <3>1, <3>2
  <2>3. CallsWithoutBook'
    BY <2>1 DEF ContactInv, CallsWithoutBook
  <2>4. CASE q.kind = "handshake" /\ q.new
    BY <1>7, <2>1, <2>2, <2>3, <2>4
       DEF ContactTakes, ContactInv, CallsWithoutBook, UsesWasGranted
  <2>5. CASE ~(q.kind = "handshake" /\ q.new)
    <3>1. GrantedOrExcused'
      BY <1>7, <2>1, <2>5 DEF ContactTakes, GrantedOrExcused
    <3> QED
      BY <2>1, <2>2, <2>3, <3>1 DEF ContactInv, UsesWasGranted
  <2> QED
    BY <2>4, <2>5
<1> QED
  BY <1>1, <1>2, <1>3, <1>4, <1>5, <1>6, <1>7

(* Every step keeps what is said of the contact.                             *)
LEMMA ContactStep ==
  ASSUME TypeOK, ContactInv, [Next]_vars
  PROVE  ContactInv'
<1>1. CASE Start
  <2>1. /\ ~up /\ up' /\ book' = file /\ file' = file /\ wire' = wire
        /\ call' = IF file.peers = {} THEN "health" ELSE "idle"
        /\ UNCHANGED <<answered, granted, behind, astray, overtaken>>
    BY <1>1 DEF Start
  <2>2. call = "idle" /\ ~answered /\ \A q \in wire : ~q.new
    BY <2>1 DEF ContactInv, CallsWithoutBook, WaitsForNew, TypeOK
  <2>3. WaitsForNew'
    BY <2>1, <2>2 DEF WaitsForNew
  <2>4. CallsWithoutBook' /\ UsesWasGranted'
    BY <2>1, <2>2 DEF ContactInv, CallsWithoutBook, UsesWasGranted, GrantedOrExcused
  <2> QED
    BY <2>3, <2>4 DEF ContactInv
<1>2. CASE Stop
  BY <1>2, EndKeepsContact DEF Stop
<1>3. ASSUME NEW w \in BOOLEAN, Crash(w) PROVE ContactInv'
  BY <1>3, EndKeepsContact DEF Crash
<1>4. ASSUME UNCHANGED <<up, book, file, call, wire, answered, granted, behind, astray,
                         overtaken>>
      PROVE  ContactInv'
  BY <1>4 DEF ContactInv, WaitsForNew, CallsWithoutBook, UsesWasGranted, GrantedOrExcused
<1>5. ASSUME NEW p \in Peers,
             \/ Poll(p) \/ PeerShakes(p) \/ PeerApproves(p) \/ PeerJoins(p)
             \/ PeerRefused(p) \/ \E w \in BOOLEAN : PeerGivesUp(p, w)
             \/ \E n \in Names, again \in BOOLEAN : PeerMigrates(p, n, again)
      PROVE  ContactInv'
  BY <1>4, <1>5 DEF Poll, PeerShakes, PeerApproves, PeerJoins, PeerRefused, PeerGivesUp,
                    PeerMigrates, PeerAsks, ours, calling
<1>6. CASE UNCHANGED vars
  BY <1>4, <1>6 DEF vars, ours, calling
<1> QED
  BY <1>1, <1>2, <1>3, <1>5, <1>6, CallKeepsContact, ArrivalKeepsContact DEF Next

(* Outside of an approval, an edge from the contact that the coordinator     *)
(* takes for approved was approved by the contact, unless a handshake of     *)
(* ours arrived late there or a restart read a file of a wrong time.         *)
THEOREM ApprovedEdgeIsGranted == Spec => []ApprovedIsGranted
<1>1. Init => ContactInv
  BY EmptyBook DEF Init, ContactInv, WaitsForNew, CallsWithoutBook, UsesWasGranted
<1>2. TypeOK /\ ContactInv /\ [Next]_vars => ContactInv'
  BY ContactStep
<1>3. ContactInv => ApprovedIsGranted
  BY DEF ContactInv, UsesWasGranted, GrantedOrExcused, ApprovedIsGranted
<1> QED
  BY <1>1, <1>2, <1>3, TypeCorrect, PTL DEF Spec

(***************************************************************************)
(* The edges of the peers.                                                   *)
(***************************************************************************)
(* Two requests of a peer that it waits for are the same.                    *)
LEMMA NewIsUnique ==
  ASSUME TypeOK, AsksOnce, NEW r \in requests, NEW o \in requests,
         r.new, o.new, NodeOf[r.name] = NodeOf[o.name]
  PROVE  r = o
<1>1. r \in Asked /\ o \in Asked
  BY DEF TypeOK, Asked
<1>2. r.name = o.name /\ r.kind = o.kind
  BY <1>1 DEF AsksOnce, Asked
<1>3. r.new = o.new
  BY <1>1 DEF Asked
<1> QED
  BY <1>1, <1>2, <1>3 DEF Asked

(* A request that arrives is answered, and its peer waits for no other.      *)
LEMMA ArrivalAsksOnce ==
  ASSUME TypeOK, AsksOnce, NEW r \in requests, NEW a \in Answer, Reached(r), Replied(r, a),
         UNCHANGED <<name, step>>
  PROVE  AsksOnce'
<1> SUFFICES ASSUME NEW o \in requests', o.new
             PROVE  /\ name[NodeOf[o.name]] = o.name
                    /\ reply'[NodeOf[o.name]] = "none"
                    /\ step[NodeOf[o.name]] =
                         IF o.kind = "handshake" THEN "shaking" ELSE "approving"
  BY DEF AsksOnce
<1>1. o \in requests /\ o # r
  BY DEF Reached
<1>2. ~(r.new /\ NodeOf[o.name] = NodeOf[r.name])
  BY <1>1, NewIsUnique
<1>3. NodeOf[o.name] \in Peers
  BY <1>1, ConstantsAssumption DEF TypeOK
<1>4. reply'[NodeOf[o.name]] = reply[NodeOf[o.name]]
  BY <1>2, <1>3, RepliedTo
<1> QED
  BY <1>1, <1>4 DEF AsksOnce

(* A handshake that arrives takes an edge away: from a peer that waits for   *)
(* the answer and believes nothing yet, or late, which is the excuse.        *)
LEMMA HandshakeKeepsPeers ==
  ASSUME TypeOK, PeersInv, NEW r \in requests, HandshakeArrives(r)
  PROVE  PeersInv'
<1>1. /\ up /\ up' /\ Reached(r) /\ Replied(r, "ok") /\ r.kind = "handshake"
      /\ name' = name /\ step' = step /\ astray' = astray
      /\ overtaken' = IF r.new THEN overtaken \ {r.name} ELSE overtaken \cup {r.name}
  BY DEF HandshakeArrives, Reached
<1>2. /\ r.name \in Names /\ r.name # Contact
      /\ \A m \in Names \ {r.name} : book'.serves[m] = book.serves[m]
      /\ file' = book' \/ behind' = TRUE
  BY ProposedBook, ConstantsAssumption
<1>3. AsksOnce'
  BY <1>1, ArrivalAsksOnce DEF PeersInv, Answer
<1>4. FileFollows'
  BY <1>1, <1>2 DEF FileFollows
<1>5. ASSUME NEW p \in Peers, Believes(p)'
      PROVE  HasEdge(Held, p)' \/ astray' \/ Late(p)'
  <2>1. CASE NodeOf[r.name] # p
    <3>1. reply'[p] = reply[p]
      BY <1>1, <2>1, RepliedTo DEF Answer
    <3>2. HasEdge(book, p) \/ astray \/ Late(p)
      BY <1>1, <1>5, <3>1 DEF Believes, PeersInv, BelievedIsHeld, Held
    <3>3. HasEdge(book, p) => HasEdge(book, p)'
      BY <1>2, <2>1 DEF HasEdge
    <3>4. Late(p) => Late(p)'
      BY <1>1, <2>1 DEF Late
    <3> QED
      BY <1>1, <3>2, <3>3, <3>4 DEF Held, HasEdge
  <2>2. CASE NodeOf[r.name] = p /\ r.new
    <3>1. step[p] = "shaking"
      BY <1>1, <2>2 DEF PeersInv, AsksOnce
    <3> QED
      BY <1>1, <1>5, <3>1 DEF Believes
  <2>3. CASE NodeOf[r.name] = p /\ ~r.new
    BY <1>1, <1>2, <2>3 DEF Late
  <2> QED
    BY <2>1, <2>2, <2>3
<1> QED
  BY <1>3, <1>4, <1>5 DEF PeersInv, BelievedIsHeld

(* An approval that arrives gives its peer the edge, before the answer.      *)
LEMMA ApproveKeepsPeers ==
  ASSUME TypeOK, PeersInv, NEW r \in requests, ApproveArrives(r)
  PROVE  PeersInv'
<1>1. /\ up /\ up' /\ Reached(r) /\ Replied(r, "ok")
      /\ name' = name /\ step' = step /\ astray' = astray /\ overtaken' = overtaken
  BY DEF ApproveArrives, Reached
<1>2. /\ r.name \in Names /\ book'.serves[r.name] = "approved"
      /\ \A m \in Names \ {r.name} : book'.serves[m] = book.serves[m]
      /\ \/ file' = book'
         \/ behind' = TRUE
         \/ file' = file /\ behind' = behind /\ book' = book
  BY ApprovedBook
<1>3. AsksOnce'
  BY <1>1, ArrivalAsksOnce DEF PeersInv, Answer
<1>4. FileFollows'
  BY <1>1, <1>2 DEF FileFollows, PeersInv
<1>5. ASSUME NEW p \in Peers, Believes(p)'
      PROVE  HasEdge(Held, p)' \/ astray' \/ Late(p)'
  <2>1. CASE NodeOf[r.name] = p
    BY <1>1, <1>2, <2>1 DEF HasEdge, Held
  <2>2. CASE NodeOf[r.name] # p
    <3>1. reply'[p] = reply[p]
      BY <1>1, <2>2, RepliedTo DEF Answer
    <3>2. HasEdge(book, p) \/ astray \/ Late(p)
      BY <1>1, <1>5, <3>1 DEF Believes, PeersInv, BelievedIsHeld, Held
    <3>3. HasEdge(book, p) => HasEdge(book, p)'
      BY <1>2 DEF HasEdge
    <3>4. Late(p) => Late(p)'
      BY <1>1 DEF Late
    <3> QED
      BY <1>1, <3>2, <3>3, <3>4 DEF Held, HasEdge
  <2> QED
    BY <2>1, <2>2
<1> QED
  BY <1>3, <1>4, <1>5 DEF PeersInv, BelievedIsHeld

(* A refusal that arrives makes no peer believe anything.                    *)
LEMMA RefusalKeepsPeers ==
  ASSUME TypeOK, PeersInv, NEW r \in requests, ApproveRefused(r)
  PROVE  PeersInv'
<1>1. /\ Reached(r) /\ Replied(r, "no") /\ UNCHANGED <<up, book, file, behind>>
      /\ name' = name /\ step' = step /\ astray' = astray /\ overtaken' = overtaken
  BY DEF ApproveRefused, Reached, ours
<1>2. AsksOnce'
  BY <1>1, ArrivalAsksOnce DEF PeersInv, Answer
<1>3. \A p \in Peers : reply'[p] = "ok" => reply[p] = "ok"
  BY <1>1, RepliedTo DEF Answer
<1> QED
  BY <1>1, <1>2, <1>3
     DEF PeersInv, FileFollows, BelievedIsHeld, Believes, Held, HasEdge, Late

(* The coordinator ends: what it held is in the file, or the end is astray.  *)
LEMMA EndKeepsPeers ==
  ASSUME TypeOK, PeersInv, Ended,
         \/ file' = file /\ behind' = behind
         \/ file' = book /\ behind' = FALSE
         \/ file' = file /\ behind' = TRUE
  PROVE  PeersInv'
<1>1. /\ up /\ ~up' /\ UNCHANGED <<name, step, requests, reply, overtaken>>
      /\ behind' \/ astray => astray'
  BY DEF Ended, theirs
<1>2. ~behind' => file'.serves = book.serves
  BY <1>1 DEF PeersInv, FileFollows
<1>3. AsksOnce'
  BY <1>1 DEF PeersInv, AsksOnce
<1>4. FileFollows'
  BY <1>1 DEF FileFollows
<1>5. BelievedIsHeld'
  BY <1>1, <1>2 DEF PeersInv, BelievedIsHeld, Believes, Held, HasEdge, Late
<1> QED
  BY <1>3, <1>4, <1>5 DEF PeersInv

(* The steps of handshake_with and of the contact leave the peers' edges.    *)
LEMMA CallKeepsPeers ==
  ASSUME TypeOK, PeersInv,
         /\ UNCHANGED <<up, name, step, requests, reply, astray>>
         /\ overtaken' \ {Contact} = overtaken \ {Contact}
         /\ book'.serves = book.serves
         /\ \/ file' = book'
            \/ file' = file /\ (behind' = TRUE \/ behind' = behind),
         up \/ (file' = file /\ behind' = behind)
  PROVE  PeersInv'
<1>1. AsksOnce'
  BY DEF PeersInv, AsksOnce
<1>2. FileFollows'
  BY DEF PeersInv, FileFollows
<1>3. BelievedIsHeld'
  BY DEF PeersInv, BelievedIsHeld, Believes, Held, HasEdge, Late
<1> QED
  BY <1>1, <1>2, <1>3 DEF PeersInv

(* The steps of a peer.                                                      *)
LEMMA PeerKeepsPeers ==
  ASSUME TypeOK, PeersInv, NEW p \in Peers,
         \/ Poll(p) \/ PeerShakes(p) \/ PeerApproves(p) \/ PeerJoins(p) \/ PeerRefused(p)
         \/ \E w \in BOOLEAN : PeerGivesUp(p, w)
         \/ \E n \in Names, again \in BOOLEAN : PeerMigrates(p, n, again)
  PROVE  PeersInv'
<1>1. UNCHANGED <<up, book, file, behind, astray, overtaken>>
  BY DEF Poll, PeerShakes, PeerApproves, PeerJoins, PeerRefused, PeerGivesUp, PeerMigrates,
         PeerAsks, ours
<1>2. FileFollows'
  BY <1>1 DEF PeersInv, FileFollows
<1>3. ASSUME \A q \in Peers : Believes(q)' => Believes(q) PROVE BelievedIsHeld'
  BY <1>1, <1>3 DEF PeersInv, BelievedIsHeld, Held, HasEdge, Late
<1>4. ASSUME NEW r \in requests, r.new, NodeOf[r.name] = p
      PROVE  step[p] \in {"shaking", "approving"} /\ reply[p] = "none"
  BY <1>4 DEF PeersInv, AsksOnce
<1>5. CASE Poll(p)
  BY <1>1, <1>2, <1>3, <1>5 DEF Poll, PeersInv, AsksOnce, Believes
<1>6. ASSUME NEW kind \in {"handshake", "approve"}, PeerAsks(p, kind),
             step' = [step EXCEPT ![p] = IF kind = "handshake" THEN "shaking" ELSE "approving"],
             \A r \in requests : r.new => NodeOf[r.name] # p
      PROVE  PeersInv'
  <2> DEFINE asked == [kind |-> kind, name |-> name[p], new |-> TRUE]
  <2>1. /\ requests' = requests \cup {asked} /\ name' = name
        /\ reply' = [reply EXCEPT ![p] = "none"]
    BY <1>6 DEF PeerAsks
  <2>2. /\ reply'[p] = "none"
        /\ step'[p] = IF kind = "handshake" THEN "shaking" ELSE "approving"
        /\ \A q \in Peers \ {p} : reply'[q] = reply[q] /\ step'[q] = step[q]
    BY <1>6, <2>1 DEF TypeOK
  <2>3. asked.kind = kind /\ asked.name = name[p] /\ NodeOf[asked.name] = p
    BY DEF TypeOK
  <2>4. \A r \in requests : NodeOf[r.name] \in Peers
    BY ConstantsAssumption DEF TypeOK
  <2> HIDE DEF asked
  <2>5. AsksOnce'
    BY <1>6, <2>1, <2>2, <2>3, <2>4 DEF PeersInv, AsksOnce
  <2>6. BelievedIsHeld'
    BY <1>3, <2>2 DEF Believes
  <2> QED
    BY <1>2, <2>5, <2>6 DEF PeersInv
<1>7. CASE PeerShakes(p)
  BY <1>4, <1>6, <1>7 DEF PeerShakes
<1>8. CASE PeerApproves(p)
  BY <1>4, <1>6, <1>8 DEF PeerApproves
<1>9. CASE PeerJoins(p) \/ PeerRefused(p)
  <2>1. /\ requests' = requests /\ name' = name /\ reply' = reply
        /\ step[p] = "approving" /\ reply[p] # "none"
        /\ step'[p] = "apart" \/ (reply[p] = "ok" /\ step'[p] = "joined")
        /\ \A q \in Peers \ {p} : step'[q] = step[q]
    BY <1>9 DEF PeerJoins, PeerRefused, TypeOK
  <2>2. \A r \in requests : NodeOf[r.name] \in Peers
    BY ConstantsAssumption DEF TypeOK
  <2>3. AsksOnce'
    BY <1>4, <2>1, <2>2 DEF PeersInv, AsksOnce
  <2>4. BelievedIsHeld'
    BY <1>3, <2>1 DEF Believes
  <2> QED
    BY <1>2, <2>3, <2>4 DEF PeersInv
<1>10. ASSUME NEW w \in BOOLEAN, PeerGivesUp(p, w) PROVE PeersInv'
  <2>1. /\ name' = name /\ reply' = reply /\ step'[p] = "apart"
        /\ \A q \in Peers \ {p} : step'[q] = step[q]
    BY <1>10 DEF PeerGivesUp, TypeOK
  <2>2. \A r \in requests' : r.new => r \in requests /\ NodeOf[r.name] # p
    BY <1>10, GivenUpRequests
  <2>3. \A r \in requests : NodeOf[r.name] \in Peers
    BY ConstantsAssumption DEF TypeOK
  <2>4. AsksOnce'
    BY <2>1, <2>2, <2>3 DEF PeersInv, AsksOnce
  <2>5. BelievedIsHeld'
    BY <1>3, <2>1 DEF Believes
  <2> QED
    BY <1>2, <2>4, <2>5 DEF PeersInv
<1>11. ASSUME NEW n \in Names, NEW again \in BOOLEAN, PeerMigrates(p, n, again)
       PROVE  PeersInv'
  <2>1. /\ requests' = requests /\ reply' = reply
        /\ step[p] \in {"apart", "joined"} /\ step'[p] \in {"apart", step[p]}
        /\ \A q \in Peers \ {p} : step'[q] = step[q] /\ name'[q] = name[q]
    BY <1>11 DEF PeerMigrates, TypeOK
  <2>2. \A r \in requests : NodeOf[r.name] \in Peers
    BY ConstantsAssumption DEF TypeOK
  <2>3. AsksOnce'
    BY <1>4, <2>1, <2>2 DEF PeersInv, AsksOnce
  <2>4. BelievedIsHeld'
    BY <1>3, <2>1 DEF Believes
  <2> QED
    BY <1>2, <2>3, <2>4 DEF PeersInv
<1> QED
  BY <1>5, <1>7, <1>8, <1>9, <1>10, <1>11

(* Every step keeps what is said of the peers.                               *)
LEMMA PeersStep ==
  ASSUME TypeOK, ContactInv, PeersInv, [Next]_vars
  PROVE  PeersInv'
<1>0. /\ book \in Book /\ "approved" \in Status /\ "proposed" \in Status
      /\ call # "idle" => up
  BY DEF TypeOK, Status, ContactInv, CallsWithoutBook
<1>1. CASE Start
  <2>1. /\ ~up /\ up' /\ book' = file /\ file' = file
        /\ UNCHANGED <<name, step, requests, reply, behind, astray, overtaken>>
    BY <1>1 DEF Start, theirs
  <2>2. AsksOnce' /\ FileFollows'
    BY <2>1 DEF PeersInv, AsksOnce, FileFollows
  <2>3. BelievedIsHeld'
    BY <2>1 DEF PeersInv, BelievedIsHeld, Believes, Held, HasEdge, Late
  <2> QED
    BY <2>2, <2>3 DEF PeersInv
<1>2. CASE Stop
  BY <1>0, <1>2, SavedBook, EndKeepsPeers DEF Stop
<1>3. ASSUME NEW w \in BOOLEAN, Crash(w) PROVE PeersInv'
  BY <1>3, EndKeepsPeers DEF Crash
<1>4. ASSUME NEW w \in BOOLEAN, HealthAnswered(w) \/ HandshakeFails(w) PROVE PeersInv'
  BY <1>4, CallKeepsPeers DEF HealthAnswered, HandshakeFails, theirs, ours
<1>5. ASSUME NEW w \in BOOLEAN, ApprovalFails(w) PROVE PeersInv'
  <2>1. book'.serves = book.serves
    BY <1>0, <1>5, UseAlone DEF ApprovalFails
  <2>2. /\ up /\ UNCHANGED <<up, name, step, requests, reply, astray, overtaken>>
        /\ file' = book' \/ (file' = file /\ behind' = TRUE)
    BY <1>0, <1>5 DEF ApprovalFails, theirs
  <2> QED
    BY <2>1, <2>2, CallKeepsPeers
<1>6. CASE HandshakeAnswered
  <2>1. book'.serves = book.serves
    <3>1. book' = [book EXCEPT !.peers = @ \cup {Contact}, !.uses = "approved"]
      BY <1>6 DEF HandshakeAnswered
    <3> QED
      BY <1>0, <3>1 DEF Book
  <2>2. /\ up /\ UNCHANGED <<up, name, step, requests, reply, astray, overtaken>>
        /\ file' = file /\ behind' = behind
    BY <1>0, <1>6 DEF HandshakeAnswered, theirs
  <2> QED
    BY <2>1, <2>2, CallKeepsPeers
<1>7. CASE HandshakeAnsweredManual
  <2>1. book' \in Book /\ book'.serves = book.serves
    <3>1. book' = [book EXCEPT !.peers = @ \cup {Contact}, !.uses = "proposed"]
      BY <1>7 DEF HandshakeAnsweredManual
    <3> QED
      BY <1>0, <3>1 DEF Book
  <2>2. file' = book' \/ (file' = file /\ behind' = TRUE)
    BY <1>7, <2>1, SavedBook DEF HandshakeAnsweredManual
  <2>3. up /\ UNCHANGED <<up, name, step, requests, reply, astray, overtaken>>
    BY <1>0, <1>7 DEF HandshakeAnsweredManual, theirs
  <2> QED
    BY <2>1, <2>2, <2>3, CallKeepsPeers
<1>8. CASE ApprovalAnswered
  <2>1. file' = book \/ (file' = file /\ behind' = TRUE)
    BY <1>0, <1>8, SavedBook DEF ApprovalAnswered
  <2>2. up /\ UNCHANGED <<up, book, name, step, requests, reply, astray, overtaken>>
    BY <1>0, <1>8 DEF ApprovalAnswered, theirs
  <2> QED
    BY <2>1, <2>2, CallKeepsPeers
<1>9. ASSUME NEW q \in wire, ContactTakes(q) PROVE PeersInv'
  BY <1>9, CallKeepsPeers DEF ContactTakes, theirs, ours
<1>10. CASE UNCHANGED vars
  BY <1>10, CallKeepsPeers DEF vars, theirs, ours
<1> QED
  BY <1>1, <1>2, <1>3, <1>4, <1>5, <1>6, <1>7, <1>8, <1>9, <1>10,
     HandshakeKeepsPeers, ApproveKeepsPeers, RefusalKeepsPeers, PeerKeepsPeers DEF Next

(* A peer that believes it has an approved edge has one, over restarts and   *)
(* changes of name, unless a handshake of its own arrived late or a restart  *)
(* read a file that a failed save left behind.                               *)
THEOREM PeersAreRight == Spec => []PeersBelieveRightly
<1>1. Init => ContactInv /\ PeersInv
  BY EmptyBook DEF Init, ContactInv, WaitsForNew, CallsWithoutBook, UsesWasGranted,
     PeersInv, AsksOnce, FileFollows, BelievedIsHeld, Believes
<1>2. TypeOK /\ ContactInv /\ PeersInv /\ [Next]_vars => ContactInv' /\ PeersInv'
  BY ContactStep, PeersStep
<1>3. TypeOK /\ PeersInv => PeersBelieveRightly
  <2> SUFFICES ASSUME TypeOK, PeersInv, NEW p \in Peers, step[p] = "joined"
               PROVE  Serves(Held, name[p]) \/ astray \/ Late(p)
    BY DEF PeersBelieveRightly, Held, Late
  <2>1. NodeOf[name[p]] = p
    BY DEF TypeOK
  <2>2. HasEdge(Held, p) \/ astray \/ Late(p)
    BY DEF PeersInv, BelievedIsHeld, Believes
  <2> QED
    BY <2>1, <2>2 DEF HasEdge, Serves, SameNode
<1> QED
  BY <1>1, <1>2, <1>3, TypeCorrect, PTL DEF Spec

-----------------------------------------------------------------------------
(* Proofs about the node's identity: each part of the invariant over each    *)
(* step of the resolution, of the node and of its end.                       *)

(* The RIDs of the key, of the environment, drawn ones and none are distinct. *)
LEMMA IdsDiffer ==
  /\ KeyId \notin DrawnIds /\ EnvId \notin DrawnIds /\ NoId \notin DrawnIds
  /\ KeyId # EnvId /\ KeyId # NoId /\ EnvId # NoId
  /\ Ids = DrawnIds \cup {KeyId, EnvId}
BY DEF KeyId, EnvId, NoId, DrawnIds, Ids

(* The variables keep their types.                                           *)
LEMMA IdentityTypesStep ==
  ASSUME IdentityTypeOK, ResolvedSoFar, [IdentityNext]_identityVars
  PROVE  IdentityTypeOK'
<1>1. CASE StartNamed
  BY <1>1, IdsDiffer DEF StartNamed, Runs, files, IdentityTypeOK
<1>2. CASE StartWithFile
  BY <1>2, IdsDiffer DEF StartWithFile, Runs, files, IdentityTypeOK
<1>3. ASSUME NEW id \in DrawnIds, StartDrawing(id) PROVE IdentityTypeOK'
  BY <1>3, IdsDiffer DEF StartDrawing, files, IdentityTypeOK
<1>4. CASE StartWithKey
  BY <1>4, IdsDiffer DEF StartWithKey, files, IdentityTypeOK
<1>5. CASE LoadOrMakeKey
  BY <1>5, IdsDiffer DEF LoadOrMakeKey, IdentityTypeOK
<1>6. CASE KeyUnreadable
  BY <1>6, IdsDiffer DEF KeyUnreadable, files, IdentityTypeOK
<1>7. CASE CheckOldId
  BY <1>7, IdsDiffer DEF CheckOldId, files, IdentityTypeOK
<1>8. CASE BackUpOldId
  BY <1>8, IdsDiffer DEF BackUpOldId, IdentityTypeOK, ResolvedSoFar
<1>9. CASE RenameInPeers
  BY <1>9, IdsDiffer DEF RenameInPeers, Renamed, IdentityTypeOK
<1>10. CASE PersistId
  BY <1>10, IdsDiffer DEF PersistId, Runs, IdentityTypeOK, ResolvedSoFar
<1>11. CASE SavePeers
  BY <1>11, IdsDiffer DEF SavePeers, IdentityTypeOK, ResolvedSoFar
<1>12. CASE Ends
  BY <1>12, IdsDiffer DEF Ends, IdentityTypeOK
<1>13. CASE RemoveTornKey
  BY <1>13, IdsDiffer DEF RemoveTornKey, IdentityTypeOK
<1>14. CASE UNCHANGED identityVars
  BY <1>14 DEF identityVars, files, IdentityTypeOK
<1> QED
  BY <1>1, <1>2, <1>3, <1>4, <1>5, <1>6, <1>7, <1>8, <1>9, <1>10, <1>11,
     <1>12, <1>13, <1>14 DEF IdentityNext

(* What the phases say.                                                      *)
LEMMA ResolvedSoFarStep ==
  ASSUME IdentityTypeOK, ResolvedSoFar, [IdentityNext]_identityVars
  PROVE  ResolvedSoFar'
<1>1. CASE StartNamed
  BY <1>1, IdsDiffer DEF StartNamed, Runs, files, IdentityTypeOK, ResolvedSoFar
<1>2. CASE StartWithFile
  BY <1>2, IdsDiffer DEF StartWithFile, Runs, files, IdentityTypeOK, ResolvedSoFar
<1>3. ASSUME NEW id \in DrawnIds, StartDrawing(id) PROVE ResolvedSoFar'
  BY <1>3, IdsDiffer DEF StartDrawing, files, IdentityTypeOK, ResolvedSoFar
<1>4. CASE StartWithKey
  BY <1>4, IdsDiffer DEF StartWithKey, files, IdentityTypeOK, ResolvedSoFar
<1>5. CASE LoadOrMakeKey
  BY <1>5, IdsDiffer DEF LoadOrMakeKey, IdentityTypeOK, ResolvedSoFar
<1>6. CASE KeyUnreadable
  BY <1>6, IdsDiffer DEF KeyUnreadable, files, IdentityTypeOK, ResolvedSoFar
<1>7. CASE CheckOldId
  BY <1>7, IdsDiffer DEF CheckOldId, files, IdentityTypeOK, ResolvedSoFar
<1>8. CASE BackUpOldId
  BY <1>8, IdsDiffer DEF BackUpOldId, IdentityTypeOK, ResolvedSoFar
<1>9. CASE RenameInPeers
  BY <1>9, IdsDiffer DEF RenameInPeers, Renamed, IdentityTypeOK, ResolvedSoFar
<1>10. CASE PersistId
  BY <1>10, IdsDiffer DEF PersistId, Runs, IdentityTypeOK, ResolvedSoFar
<1>11. CASE SavePeers
  BY <1>11, IdsDiffer DEF SavePeers, IdentityTypeOK, ResolvedSoFar
<1>12. CASE Ends
  BY <1>12, IdsDiffer DEF Ends, IdentityTypeOK, ResolvedSoFar
<1>13. CASE RemoveTornKey
  BY <1>13, IdsDiffer DEF RemoveTornKey, IdentityTypeOK, ResolvedSoFar
<1>14. CASE UNCHANGED identityVars
  BY <1>14 DEF identityVars, files, ResolvedSoFar
<1> QED
  BY <1>1, <1>2, <1>3, <1>4, <1>5, <1>6, <1>7, <1>8, <1>9, <1>10, <1>11,
     <1>12, <1>13, <1>14 DEF IdentityNext

(* The names in the file of peers.                                           *)
LEMMA NamesAreKnownStep ==
  ASSUME IdentityTypeOK, ResolvedSoFar, NamesAreKnown, [IdentityNext]_identityVars
  PROVE  NamesAreKnown'
<1>1. CASE StartNamed
  BY <1>1, IdsDiffer DEF StartNamed, Runs, files, IdentityTypeOK, ResolvedSoFar, NamesAreKnown
<1>2. CASE StartWithFile
  BY <1>2, IdsDiffer DEF StartWithFile, Runs, files, IdentityTypeOK, ResolvedSoFar, NamesAreKnown
<1>3. ASSUME NEW id \in DrawnIds, StartDrawing(id) PROVE NamesAreKnown'
  BY <1>3, IdsDiffer DEF StartDrawing, files, IdentityTypeOK, ResolvedSoFar, NamesAreKnown
<1>4. CASE StartWithKey
  BY <1>4, IdsDiffer DEF StartWithKey, files, IdentityTypeOK, ResolvedSoFar, NamesAreKnown
<1>5. CASE LoadOrMakeKey
  BY <1>5, IdsDiffer DEF LoadOrMakeKey, IdentityTypeOK, ResolvedSoFar, NamesAreKnown
<1>6. CASE KeyUnreadable
  BY <1>6, IdsDiffer DEF KeyUnreadable, files, IdentityTypeOK, ResolvedSoFar, NamesAreKnown
<1>7. CASE CheckOldId
  BY <1>7, IdsDiffer DEF CheckOldId, files, IdentityTypeOK, ResolvedSoFar, NamesAreKnown
<1>8. CASE BackUpOldId
  BY <1>8, IdsDiffer DEF BackUpOldId, IdentityTypeOK, ResolvedSoFar, NamesAreKnown
<1>9. CASE RenameInPeers
  BY <1>9, IdsDiffer DEF RenameInPeers, Renamed, IdentityTypeOK, ResolvedSoFar, NamesAreKnown
<1>10. CASE PersistId
  BY <1>10, IdsDiffer, ZenonT(30) DEF PersistId, Runs, IdentityTypeOK, ResolvedSoFar, NamesAreKnown
<1>11. CASE SavePeers
  BY <1>11, IdsDiffer DEF SavePeers, IdentityTypeOK, ResolvedSoFar, NamesAreKnown
<1>12. CASE Ends
  BY <1>12, IdsDiffer DEF Ends, IdentityTypeOK, ResolvedSoFar, NamesAreKnown
<1>13. CASE RemoveTornKey
  BY <1>13, IdsDiffer DEF RemoveTornKey, IdentityTypeOK, ResolvedSoFar, NamesAreKnown
<1>14. CASE UNCHANGED identityVars
  BY <1>14 DEF identityVars, files, NamesAreKnown
<1> QED
  BY <1>1, <1>2, <1>3, <1>4, <1>5, <1>6, <1>7, <1>8, <1>9, <1>10, <1>11,
     <1>12, <1>13, <1>14 DEF IdentityNext

(* The RID of the key in .node_id.                                           *)
LEMMA KeyIdIsPersistedStep ==
  ASSUME IdentityTypeOK, ResolvedSoFar, KeyIdIsPersisted, [IdentityNext]_identityVars
  PROVE  KeyIdIsPersisted'
<1>1. CASE StartNamed
  BY <1>1, IdsDiffer DEF StartNamed, Runs, files, IdentityTypeOK, ResolvedSoFar, KeyIdIsPersisted
<1>2. CASE StartWithFile
  BY <1>2, IdsDiffer DEF StartWithFile, Runs, files, IdentityTypeOK, ResolvedSoFar, KeyIdIsPersisted
<1>3. ASSUME NEW id \in DrawnIds, StartDrawing(id) PROVE KeyIdIsPersisted'
  BY <1>3, IdsDiffer DEF StartDrawing, files, IdentityTypeOK, ResolvedSoFar, KeyIdIsPersisted
<1>4. CASE StartWithKey
  BY <1>4, IdsDiffer DEF StartWithKey, files, IdentityTypeOK, ResolvedSoFar, KeyIdIsPersisted
<1>5. CASE LoadOrMakeKey
  BY <1>5, IdsDiffer DEF LoadOrMakeKey, IdentityTypeOK, ResolvedSoFar, KeyIdIsPersisted
<1>6. CASE KeyUnreadable
  BY <1>6, IdsDiffer DEF KeyUnreadable, files, IdentityTypeOK, ResolvedSoFar, KeyIdIsPersisted
<1>7. CASE CheckOldId
  BY <1>7, IdsDiffer DEF CheckOldId, files, IdentityTypeOK, ResolvedSoFar, KeyIdIsPersisted
<1>8. CASE BackUpOldId
  BY <1>8, IdsDiffer DEF BackUpOldId, IdentityTypeOK, ResolvedSoFar, KeyIdIsPersisted
<1>9. CASE RenameInPeers
  BY <1>9, IdsDiffer DEF RenameInPeers, Renamed, IdentityTypeOK, ResolvedSoFar, KeyIdIsPersisted
<1>10. CASE PersistId
  BY <1>10, IdsDiffer DEF PersistId, Runs, IdentityTypeOK, ResolvedSoFar, KeyIdIsPersisted
<1>11. CASE SavePeers
  BY <1>11, IdsDiffer DEF SavePeers, IdentityTypeOK, ResolvedSoFar, KeyIdIsPersisted
<1>12. CASE Ends
  BY <1>12, IdsDiffer DEF Ends, IdentityTypeOK, ResolvedSoFar, KeyIdIsPersisted
<1>13. CASE RemoveTornKey
  BY <1>13, IdsDiffer DEF RemoveTornKey, IdentityTypeOK, ResolvedSoFar, KeyIdIsPersisted
<1>14. CASE UNCHANGED identityVars
  BY <1>14 DEF identityVars, files, KeyIdIsPersisted
<1> QED
  BY <1>1, <1>2, <1>3, <1>4, <1>5, <1>6, <1>7, <1>8, <1>9, <1>10, <1>11,
     <1>12, <1>13, <1>14 DEF IdentityNext

(* The drawn RID in .node_id or its backup.                                  *)
LEMMA DrawnIsKeptStep ==
  ASSUME IdentityTypeOK, ResolvedSoFar, DrawnIsKept, [IdentityNext]_identityVars
  PROVE  DrawnIsKept'
<1>1. CASE StartNamed
  BY <1>1, IdsDiffer DEF StartNamed, Runs, files, IdentityTypeOK, ResolvedSoFar, DrawnIsKept
<1>2. CASE StartWithFile
  BY <1>2, IdsDiffer DEF StartWithFile, Runs, files, IdentityTypeOK, ResolvedSoFar, DrawnIsKept
<1>3. ASSUME NEW id \in DrawnIds, StartDrawing(id) PROVE DrawnIsKept'
  BY <1>3, IdsDiffer DEF StartDrawing, files, IdentityTypeOK, ResolvedSoFar, DrawnIsKept
<1>4. CASE StartWithKey
  BY <1>4, IdsDiffer DEF StartWithKey, files, IdentityTypeOK, ResolvedSoFar, DrawnIsKept
<1>5. CASE LoadOrMakeKey
  BY <1>5, IdsDiffer DEF LoadOrMakeKey, IdentityTypeOK, ResolvedSoFar, DrawnIsKept
<1>6. CASE KeyUnreadable
  BY <1>6, IdsDiffer DEF KeyUnreadable, files, IdentityTypeOK, ResolvedSoFar, DrawnIsKept
<1>7. CASE CheckOldId
  BY <1>7, IdsDiffer DEF CheckOldId, files, IdentityTypeOK, ResolvedSoFar, DrawnIsKept
<1>8. CASE BackUpOldId
  BY <1>8, IdsDiffer DEF BackUpOldId, IdentityTypeOK, ResolvedSoFar, DrawnIsKept
<1>9. CASE RenameInPeers
  BY <1>9, IdsDiffer DEF RenameInPeers, Renamed, IdentityTypeOK, ResolvedSoFar, DrawnIsKept
<1>10. CASE PersistId
  BY <1>10, IdsDiffer DEF PersistId, Runs, IdentityTypeOK, ResolvedSoFar, DrawnIsKept
<1>11. CASE SavePeers
  BY <1>11, IdsDiffer DEF SavePeers, IdentityTypeOK, ResolvedSoFar, DrawnIsKept
<1>12. CASE Ends
  BY <1>12, IdsDiffer DEF Ends, IdentityTypeOK, ResolvedSoFar, DrawnIsKept
<1>13. CASE RemoveTornKey
  BY <1>13, IdsDiffer DEF RemoveTornKey, IdentityTypeOK, ResolvedSoFar, DrawnIsKept
<1>14. CASE UNCHANGED identityVars
  BY <1>14 DEF identityVars, files, DrawnIsKept
<1> QED
  BY <1>1, <1>2, <1>3, <1>4, <1>5, <1>6, <1>7, <1>8, <1>9, <1>10, <1>11,
     <1>12, <1>13, <1>14 DEF IdentityNext

(* The invariant, of which the theorems below are consequences.              *)
THEOREM IdentityInvariant == IdentitySpec => []IInv
<1>1. IdentityInit => IInv
  BY IdsDiffer DEF IdentityInit, IInv, IdentityTypeOK, ResolvedSoFar, NamesAreKnown,
                   KeyIdIsPersisted, DrawnIsKept
<1>2. IInv /\ [IdentityNext]_identityVars => IInv'
  BY IdentityTypesStep, ResolvedSoFarStep, NamesAreKnownStep, KeyIdIsPersistedStep,
     DrawnIsKeptStep DEF IInv
<1> QED
  BY <1>1, <1>2, PTL DEF IdentitySpec

(* A migration that is cut short is completed by the next start with a key:  *)
(* under the RID of its key the node has no other name among its peers.      *)
THEOREM MigrationIsCompleted == IdentitySpec => []NamedByKey
<1>1. IInv => NamedByKey
  BY DEF IInv, NamesAreKnown, NamedByKey
<1> QED
  BY <1>1, IdentityInvariant, PTL

(* The node does not fall back to an RID that it has migrated from.          *)
THEOREM NoWayBack == IdentitySpec => []KeyIdStays
<1>1. IInv => KeyIdStays
  BY DEF IInv, KeyIdIsPersisted, KeyIdStays
<1> QED
  BY <1>1, IdentityInvariant, PTL

(* The migration backs up what it replaces, wherever it is cut short.        *)
THEOREM OldIdIsBackedUp == IdentitySpec => []OldIdIsKept
<1>1. IInv => OldIdIsKept
  BY DEF IInv, DrawnIsKept, OldIdIsKept
<1> QED
  BY <1>1, IdentityInvariant, PTL

=============================================================================
