------------------------------ MODULE Federation ------------------------------
(***************************************************************************)
(* A coordinator among other KOI-net nodes: peers come to it, shake hands, *)
(* approve the edge it proposes and poll over that edge; and it comes to   *)
(* its first contact itself, once, when it starts and knows nobody.        *)
(*                                                                         *)
(* The coordinator's handlers do not await anything between their first    *)
(* read and last write, so each is one step; handshake_with waits three    *)
(* times, and they run in between.  Edges and peers are saved to a file.   *)
(* The public keys that were learnt are not.                               *)
(*                                                                         *)
(* Requests are signed.  The peers and the first contact run other code.   *)
(* A peer does what handshake_with does on this side: it approves at once, *)
(* takes an approval that is not answered for none, and starts again.      *)
(* An edge is filed under the names of its two ends, and a node may have a *)
(* short and a long name; edges and keys are looked up under either.       *)
(***************************************************************************)
EXTENDS Naturals, FiniteSets

CONSTANTS
    Peers,         \* the nodes that come to the coordinator
    Names,         \* the node RIDs they use
    NodeOf,        \* NodeOf[n] is the peer whose RID n is
    Long,          \* the names with the long form of the hash
    Contact,       \* the RID of the first contact
    Configured,    \* the names whose keys KOI_PUBLIC_KEYS_JSON gives
    MaxHalts,      \* bound on how often the coordinator ends
    MaxFailures,   \* bound on the requests and saves that fail
    MaxMigrations  \* bound on how often peers change their names

ASSUME ConstantsAssumption ==
    /\ NodeOf \in [Names -> Peers]
    /\ Long \subseteq Names /\ Configured \subseteq Names
    /\ Contact \notin Names
    /\ {MaxHalts, MaxFailures, MaxMigrations} \subseteq Nat

VARIABLES
    auto,       \* KOI_NET_AUTO_APPROVE_EDGES
    up,         \* the coordinator runs
    book,       \* known_peers and edges
    file,       \* coordinator_peers.json
    keys,       \* the names in envelope_public_keys
    call,       \* where handshake_with waits, "idle" if it does not run
    wire,       \* its requests that have not reached the contact; those that are
                \* not new have been given up
    answered,   \* the contact has answered the request that is waited for
    granted,    \* the contact's own status of the edge from it to us
    name,       \* name[p]: the name under which p appears now
    step,       \* step[p]: how far p has come
    requests,   \* requests of peers that have not reached the coordinator
    reply,      \* reply[p]: the coordinator's answer to p's newest request
    told,       \* told[p]: what p's last poll was answered
    behind,     \* history: the last save failed
    astray,     \* history: a restart read a file that a failed save left
                \* behind, or that was saved while an approval was under way
    overtaken,  \* history: the names, and Contact, of which a handshake that
                \* was given up arrived after a newer one was sent
    halts, failures, migrations    \* counters of the bounds

ours == <<book, file, keys, behind>>
calling == <<call, wire, answered, granted>>
theirs == <<name, step, requests, reply, told>>
bounds == <<halts, failures, migrations>>
vars == <<auto, up, ours, calling, theirs, astray, overtaken, bounds>>

Status == {"none", "proposed", "approved"}
Book == [peers : SUBSET (Names \cup {Contact}),
         serves : [Names -> Status],    \* the edges from us to a peer
         uses : Status]                 \* the edge from the contact to us
NoBook == [peers |-> {}, serves |-> [n \in Names |-> "none"], uses |-> "none"]
Answer == {"none", "ok", "no"}

TypeOK ==
    /\ auto \in BOOLEAN /\ up \in BOOLEAN
    /\ book \in Book /\ file \in Book
    /\ keys \subseteq Names \cup {Contact}
    /\ call \in {"idle", "health", "handshake", "approve"}
    /\ wire \subseteq [kind : {"handshake", "approve"}, new : BOOLEAN]
    /\ answered \in BOOLEAN /\ granted \in Status
    /\ name \in [Peers -> Names] /\ \A p \in Peers : NodeOf[name[p]] = p
    /\ step \in [Peers -> {"apart", "shaking", "approving", "joined"}]
    /\ requests \subseteq [kind : {"handshake", "approve"}, name : Names, new : BOOLEAN]
    /\ reply \in [Peers -> Answer]
    /\ told \in [Peers -> {"nothing", "served", "empty", "refused"}]
    /\ behind \in BOOLEAN /\ astray \in BOOLEAN
    /\ overtaken \subseteq Names \cup {Contact}
    /\ halts \in 0..MaxHalts /\ failures \in 0..MaxFailures
    /\ migrations \in 0..MaxMigrations

-----------------------------------------------------------------------------
Init ==
    /\ auto \in BOOLEAN
    /\ up = FALSE
    /\ book = NoBook /\ file = NoBook
    /\ keys = {}
    /\ call = "idle" /\ wire = {} /\ answered = FALSE
    /\ granted = "none"
    /\ name \in [Peers -> Names \ Long] /\ \A p \in Peers : NodeOf[name[p]] = p
    /\ step = [p \in Peers |-> "apart"]
    /\ requests = {}
    /\ reply = [p \in Peers |-> "none"]
    /\ told = [p \in Peers |-> "nothing"]
    /\ behind = FALSE /\ astray = FALSE /\ overtaken = {}
    /\ halts = 0 /\ failures = 0 /\ migrations = 0

\* _save_peers replaces the file, or logs an exception and leaves it.
Save(b) ==
    \/ file' = b /\ behind' = FALSE /\ UNCHANGED failures
    \/ failures < MaxFailures /\ failures' = failures + 1
       /\ behind' = TRUE /\ UNCHANGED file

\* process_handshake saves twice; the second of the saves alone may fail.
SaveTwice(first, second) ==
    \/ Save(second)
    \/ failures < MaxFailures /\ failures' = failures + 1
       /\ behind' = TRUE /\ file' = first

SameNode(m, n) == NodeOf[m] = NodeOf[n]

\* _lookup_public_key: by the exact name, or for a short name by the one long
\* name that it abbreviates.
Known(n) ==
    \/ n \in keys
    \/ n \notin Long /\ Cardinality({m \in keys \cap Long : SameNode(m, n)}) = 1

\* Mutant: an edge under another name of the node does not count.
ServesExactly(b, n) == b.serves[n] = "approved"

\* _has_approved_edge_for_peer.
Serves(b, n) == \E m \in Names : SameNode(m, n) /\ b.serves[m] = "approved"

-----------------------------------------------------------------------------
(* The process begins: peers and edges are read from the file, keys from   *)
(* the environment.  Without known peers, handshake_with is started.       *)
Start ==
    /\ ~up
    /\ up' = TRUE
    /\ book' = file
    /\ keys' = Configured
    /\ call' = IF file.peers = {} THEN "health" ELSE "idle"
    /\ UNCHANGED <<auto, file, wire, answered, granted, theirs, behind, astray,
                   overtaken, bounds>>

Old(q) == [q EXCEPT !.new = FALSE]

\* The request that is waited for is withdrawn, or stays on its way.
GivenUp(w) == wire' = IF w THEN {q \in wire : ~q.new} ELSE {Old(q) : q \in wire}

Ended ==
    /\ up
    /\ halts < MaxHalts
    /\ halts' = halts + 1
    /\ up' = FALSE
    /\ book' = NoBook /\ keys' = {}
    /\ call' = "idle" /\ answered' = FALSE
    /\ astray' = (astray \/ behind' \/ (call = "approve" /\ file'.uses = "approved"))
    /\ UNCHANGED <<auto, granted, theirs, overtaken, migrations>>

(* The process crashes; its request is withdrawn or stays on its way.      *)
Crash(w) ==
    /\ UNCHANGED <<file, behind, failures>>
    /\ Ended
    /\ GivenUp(w)

(* stop(): the peers are saved as they are.                                *)
Stop ==
    /\ Save(book)
    /\ Ended
    /\ GivenUp(FALSE)

-----------------------------------------------------------------------------
(* handshake_with, from one await to the next.                             *)

\* _try_learn_key_from_health has its answer, or none; the handshake is sent.
HealthAnswered(learnt) ==
    /\ call = "health"
    /\ keys' = IF learnt THEN keys \cup {Contact} ELSE keys
    /\ call' = "handshake"
    /\ wire' = wire \cup {[kind |-> "handshake", new |-> TRUE]}
    /\ answered' = FALSE
    /\ UNCHANGED <<auto, up, book, file, granted, theirs, behind, astray,
                   overtaken, bounds>>

(* The contact answers with its profile and the edge that it proposes,     *)
(* which is approved at once; nothing is saved yet.                        *)
HandshakeAnswered ==
    /\ call = "handshake" /\ answered /\ auto
    /\ keys' = keys \cup {Contact}
    /\ book' = [book EXCEPT !.peers = @ \cup {Contact}, !.uses = "approved"]
    /\ call' = "approve"
    /\ wire' = wire \cup {[kind |-> "approve", new |-> TRUE]}
    /\ answered' = FALSE
    /\ UNCHANGED <<auto, up, file, granted, theirs, behind, astray,
                   overtaken, bounds>>

(* The same with approval left to the operator.                            *)
HandshakeAnsweredManual ==
    /\ call = "handshake" /\ answered /\ ~auto
    /\ keys' = keys \cup {Contact}
    /\ book' = [book EXCEPT !.peers = @ \cup {Contact}, !.uses = "proposed"]
    /\ Save(book')
    /\ call' = "idle" /\ answered' = FALSE
    /\ UNCHANGED <<auto, up, wire, granted, theirs, astray, overtaken,
                   halts, migrations>>

(* No answer, an error, or one that fails verification: it is given up.    *)
HandshakeFails(w) ==
    /\ call = "handshake"
    /\ failures < MaxFailures
    /\ failures' = failures + 1
    /\ call' = "idle" /\ answered' = FALSE
    /\ GivenUp(w)
    /\ UNCHANGED <<auto, up, ours, granted, theirs, astray, overtaken,
                   halts, migrations>>

ApprovalAnswered ==
    /\ call = "approve" /\ answered
    /\ Save(book)
    /\ call' = "idle" /\ answered' = FALSE
    /\ UNCHANGED <<auto, up, book, keys, wire, granted, theirs, astray,
                   overtaken, halts, migrations>>

\* Mutant: the edge is not put back.
ApprovalFailsKept(w) ==
    /\ call = "approve"
    /\ failures < MaxFailures
    /\ failures' = failures + 1
    /\ file' = book /\ behind' = FALSE
    /\ call' = "idle" /\ answered' = FALSE
    /\ GivenUp(w)
    /\ UNCHANGED <<auto, up, book, keys, granted, theirs, astray,
                   overtaken, halts, migrations>>

(* No answer or an error: the edge is put back to PROPOSED and saved,      *)
(* unless that fails too.                                                  *)
ApprovalFails(w) ==
    /\ call = "approve"
    /\ failures < MaxFailures
    /\ failures' = failures + 1
    /\ book' = [book EXCEPT !.uses = "proposed"]
    /\ \/ file' = book' /\ behind' = FALSE
       \/ UNCHANGED file /\ behind' = TRUE
    /\ call' = "idle" /\ answered' = FALSE
    /\ GivenUp(w)
    /\ UNCHANGED <<auto, up, keys, granted, theirs, astray, overtaken,
                   halts, migrations>>

(* The contact, other code: it does what the handlers below do.            *)
ContactTakes(q) ==
    /\ wire' = wire \ {q}
    /\ granted' = IF q.kind = "handshake" THEN "proposed" ELSE "approved"
    /\ answered' = (answered \/ q.new)
    /\ overtaken' = IF q.kind = "handshake"
                    THEN IF q.new THEN overtaken \ {Contact}
                                         ELSE overtaken \cup {Contact}
                    ELSE overtaken
    /\ UNCHANGED <<auto, up, ours, call, theirs, astray, bounds>>

-----------------------------------------------------------------------------
(* The coordinator's endpoints, as a peer's request r reaches them.        *)

Replied(r, a) == reply' = IF r.new THEN [reply EXCEPT ![NodeOf[r.name]] = a]
                                   ELSE reply
Reached(r) == up /\ requests' = requests \ {r}

\* _try_learn_public_key_from_handshake, for a node whose key is not known: the
\* key in its profile, which must be the one that its name is made of.
LearnKey(n) == IF Known(n) THEN keys ELSE keys \cup {n}

\* Mutant: the key of a peer in the book is not learnt again.
HandshakeLearnsOnce(r) ==
    /\ Reached(r) /\ r.kind = "handshake"
    /\ keys' = IF r.name \in book.peers THEN keys ELSE keys \cup {r.name}
    /\ LET entered == [book EXCEPT !.peers = @ \cup {r.name}]
       IN  /\ book' = [entered EXCEPT !.serves[r.name] = "proposed"]
           /\ SaveTwice(entered, book')
    /\ Replied(r, "ok")
    /\ overtaken' = IF r.new THEN overtaken \ {r.name} ELSE overtaken \cup {r.name}
    /\ UNCHANGED <<auto, up, calling, name, step, told, astray, halts, migrations>>

(* /koi-net/handshake: a key that is not known is learnt from the request, *)
(* the peer is forgotten and entered again, and an edge to it is proposed, *)
(* whatever the status of the edge was.                                    *)
HandshakeArrives(r) ==
    /\ Reached(r) /\ r.kind = "handshake"
    /\ keys' = LearnKey(r.name)
    /\ LET entered == [book EXCEPT !.peers = @ \cup {r.name}]
       IN  /\ book' = [entered EXCEPT !.serves[r.name] = "proposed"]
           /\ SaveTwice(entered, book')
    /\ Replied(r, "ok")
    /\ overtaken' = IF r.new THEN overtaken \ {r.name} ELSE overtaken \cup {r.name}
    /\ UNCHANGED <<auto, up, calling, name, step, told, astray, halts, migrations>>

(* /koi-net/edges/approve for an edge there is, by a node with a key.      *)
ApproveArrives(r) ==
    /\ Reached(r) /\ r.kind = "approve"
    /\ Known(r.name) /\ book.serves[r.name] # "none"
    /\ book' = [book EXCEPT !.serves[r.name] = "approved"]
    /\ IF book' = book THEN UNCHANGED <<file, behind, failures>> ELSE Save(book')
    /\ Replied(r, "ok")
    /\ UNCHANGED <<auto, up, keys, calling, name, step, told, astray, overtaken,
                   halts, migrations>>

(* The same refused: no key, or no such edge.                              *)
ApproveRefused(r) ==
    /\ Reached(r) /\ r.kind = "approve"
    /\ ~Known(r.name) \/ book.serves[r.name] = "none"
    /\ Replied(r, "no")
    /\ UNCHANGED <<auto, up, ours, calling, name, step, told, astray, overtaken,
                   bounds>>

(* /koi-net/events/poll with KOI_NET_REQUIRE_APPROVED_EDGE_FOR_POLL: no key *)
(* gives an error, no approved edge an empty answer with status 200.        *)
Poll(p) ==
    /\ up /\ step[p] = "joined"
    /\ told' = [told EXCEPT ![p] = IF ~Known(name[p]) THEN "refused"
                                   ELSE IF Serves(book, name[p]) THEN "served"
                                   ELSE "empty"]
    /\ UNCHANGED <<auto, up, ours, calling, name, step, requests, reply, astray,
                   overtaken, bounds>>

-----------------------------------------------------------------------------
(* The peers, other code.                                                  *)

PeerAsks(p, kind) ==
    /\ requests' = requests \cup {[kind |-> kind, name |-> name[p], new |-> TRUE]}
    /\ reply' = [reply EXCEPT ![p] = "none"]
    /\ UNCHANGED <<auto, up, ours, calling, name, told, astray, overtaken, bounds>>

\* A peer that has no edge, or whose poll met with an error, shakes hands.
PeerShakes(p) ==
    /\ step[p] = "apart" \/ (step[p] = "joined" /\ told[p] = "refused")
    /\ step' = [step EXCEPT ![p] = "shaking"]
    /\ PeerAsks(p, "handshake")

PeerApproves(p) ==
    /\ step[p] = "shaking" /\ reply[p] = "ok"
    /\ step' = [step EXCEPT ![p] = "approving"]
    /\ PeerAsks(p, "approve")

PeerJoins(p) ==
    /\ step[p] = "approving" /\ reply[p] = "ok"
    /\ step' = [step EXCEPT ![p] = "joined"]
    /\ told' = [told EXCEPT ![p] = "nothing"]
    /\ UNCHANGED <<auto, up, ours, calling, name, requests, reply, astray,
                   overtaken, bounds>>

PeerRefused(p) ==
    /\ step[p] = "approving" /\ reply[p] = "no"
    /\ step' = [step EXCEPT ![p] = "apart"]
    /\ UNCHANGED <<auto, up, ours, calling, name, requests, reply, told, astray,
                   overtaken, bounds>>

\* No answer: the request is withdrawn, still on its way, or has arrived.
PeerGivesUp(p, w) ==
    /\ step[p] \in {"shaking", "approving"}
    /\ failures < MaxFailures
    /\ failures' = failures + 1
    /\ step' = [step EXCEPT ![p] = "apart"]
    /\ requests' = IF w THEN {r \in requests : NodeOf[r.name] # p \/ ~r.new}
                        ELSE {IF NodeOf[r.name] = p THEN Old(r) ELSE r : r \in requests}
    /\ UNCHANGED <<auto, up, ours, calling, name, reply, told, astray, overtaken,
                   halts, migrations>>

(* A peer gets another name, in practice the long one, as koi_node.py does *)
(* in its own migration, and shakes hands anew; or it just goes on.        *)
PeerMigrates(p, n, again) ==
    /\ migrations < MaxMigrations
    /\ NodeOf[n] = p /\ n # name[p]
    /\ step[p] \in {"apart", "joined"}
    /\ migrations' = migrations + 1
    /\ name' = [name EXCEPT ![p] = n]
    /\ step' = [step EXCEPT ![p] = IF again THEN "apart" ELSE @]
    /\ UNCHANGED <<auto, up, ours, calling, requests, reply, told, astray,
                   overtaken, halts, failures>>

-----------------------------------------------------------------------------
Next ==
    \/ Start \/ Stop
    \/ HandshakeAnswered \/ HandshakeAnsweredManual \/ ApprovalAnswered
    \/ \E w \in BOOLEAN : \/ Crash(w) \/ HealthAnswered(w)
                          \/ HandshakeFails(w) \/ ApprovalFails(w)
    \/ \E q \in wire : ContactTakes(q)
    \/ \E r \in requests : HandshakeArrives(r) \/ ApproveArrives(r) \/ ApproveRefused(r)
    \/ \E p \in Peers :
          \/ Poll(p)
          \/ PeerShakes(p) \/ PeerApproves(p) \/ PeerJoins(p) \/ PeerRefused(p)
          \/ \E w \in BOOLEAN : PeerGivesUp(p, w)
          \/ \E n \in Names, again \in BOOLEAN : PeerMigrates(p, n, again)

Spec == Init /\ [][Next]_vars

(* systemd restarts the coordinator, requests on their way arrive or are   *)
(* given up, and a peer goes on shaking hands and polling.                 *)
Fairness ==
    /\ WF_vars(Start)
    /\ \A p \in Peers :
          /\ WF_vars(Poll(p)) /\ WF_vars(PeerShakes(p)) /\ WF_vars(PeerApproves(p))
          /\ WF_vars(PeerJoins(p)) /\ WF_vars(PeerRefused(p))
          /\ WF_vars(\E r \in requests : /\ NodeOf[r.name] = p
                                         /\ \/ HandshakeArrives(r)
                                            \/ ApproveArrives(r) \/ ApproveRefused(r))
FairSpec == Spec /\ Fairness

-----------------------------------------------------------------------------
(* A peer that believes it has an approved edge has one, in the book or,   *)
(* while the coordinator is down, in the file, over restarts and changes of *)
(* its name, unless one of its handshakes arrived late or a restart read a  *)
(* file that a failed save left behind.                                     *)
PeersBelieveRightly ==
    \A p \in Peers :
        step[p] = "joined" =>
            \/ Serves(IF up THEN book ELSE file, name[p])
            \/ astray
            \/ \E n \in overtaken \ {Contact} : NodeOf[n] = p

(* handshake_with marks the contact's edge as approved before the contact  *)
(* has heard of it.  Outside of that time an edge marked as approved is    *)
(* one that the contact approved, unless a handshake of ours arrived late  *)
(* there, or we restarted from a file of that time.                        *)
ApprovedIsGranted ==
    (book.uses = "approved" /\ call # "approve") =>
        (granted = "approved" \/ astray \/ Contact \in overtaken)

(* Every peer is served in the end, though the coordinator forgets their   *)
(* keys when it restarts: it refuses the poll, and the peer shakes hands   *)
(* again.  What the peer cannot notice are the exceptions: a late          *)
(* handshake of its own, and a file that a failed save left behind.        *)
EventuallyServed ==
    \A p \in Peers :
        <>[](\/ told[p] = "served"
             \/ astray \/ \E n \in overtaken \ {Contact} : NodeOf[n] = p)

=============================================================================
