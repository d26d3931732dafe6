------------------------------ MODULE EventQueue ------------------------------
(***************************************************************************)
(* The delivery queue of a full KOI node (koi_protocol/nodes/koi_node.py)  *)
(* as the coordinator's HTTP endpoints drive it: events are queued, handed *)
(* to the peers that poll, confirmed, cleaned up, written to the queue     *)
(* file, and read back after a stop or a crash.                            *)
(*                                                                         *)
(* The coordinator is one asyncio event loop and none of these handlers    *)
(* awaits anything between its first read and its last write of the queue, *)
(* so each handler is one step.                                            *)
(*                                                                         *)
(* Event ids are uuids in the code and 1, 2, 3, ... here, in the order in  *)
(* which queue_event draws them.  event_queue is only ever appended to and *)
(* filtered, and the file keeps its order, so the list is always sorted by *)
(* this number and a set of ids stands for it.                             *)
(***************************************************************************)
EXTENDS Naturals, FiniteSets

CONSTANTS
    Nodes,         \* the ids under which peers poll and confirm
    Types,         \* RID type prefixes, what an approved edge filters by
    TypeOf,        \* TypeOf[e] is the RID type of the e-th queued event
    Limits,        \* the values of max_events that peers ask for, 0 for no limit
    MaxEvents,     \* bound on the number of events ever queued
    MaxHalts,      \* bound on how often the process ends
    SavesCanFail   \* whether writing the queue file may raise

EventId == 1..MaxEvents

ASSUME ConstantsAssumption ==
    /\ MaxEvents \in Nat /\ MaxHalts \in Nat
    /\ Limits \subseteq Nat
    /\ SavesCanFail \in BOOLEAN
    /\ TypeOf \in [EventId -> Types]

VARIABLES
    up,            \* the coordinator process is running
    queue,         \* event_queue with its QueuedEvent objects
    pending,       \* the keys of pending_deliveries
    file,          \* what coordinator_event_queue.json holds
    subscribers,   \* event_subscribers
    next,          \* the id the next queued event gets
    overdue,       \* events 1..overdue are older than delivery_timeout_seconds
    handed,        \* handed[e][n]: how many responses to n carried event e
    halts          \* how often the process has ended

vars == <<up, queue, pending, file, subscribers, next, overdue, handed, halts>>

(***************************************************************************)
(* A queue value: the events it holds and, for each, the nodes that        *)
(* received it and the nodes that confirmed it.  An event that leaves      *)
(* takes its marks with it; what they last were is kept as history.        *)
(***************************************************************************)
QueueValue == [ids : SUBSET EventId,
               delivered : [EventId -> SUBSET Nodes],
               confirmed : [EventId -> SUBSET Nodes]]

EmptyQueue == [ids |-> {},
               delivered |-> [e \in EventId |-> {}],
               confirmed |-> [e \in EventId |-> {}]]

TypeOK ==
    /\ up \in BOOLEAN
    /\ queue \in QueueValue
    /\ pending \subseteq EventId
    /\ file \in QueueValue
    /\ subscribers \subseteq Nodes
    /\ next \in 1..(MaxEvents + 1)
    /\ overdue \in 0..MaxEvents
    /\ handed \in [EventId -> [Nodes -> Nat]]
    /\ halts \in 0..MaxHalts

-----------------------------------------------------------------------------
(* The operations on a queue value that the handlers are made of.          *)

Appended(q, e) == [q EXCEPT !.ids = @ \cup {e}]

Without(q, S) == [q EXCEPT !.ids = @ \ S]

MarkedDelivered(q, n, S) ==
    [q EXCEPT !.delivered =
        [e \in EventId |-> IF e \in S THEN q.delivered[e] \cup {n}
                                      ELSE q.delivered[e]]]

MarkedConfirmed(q, n, S) ==
    [q EXCEPT !.confirmed =
        [e \in EventId |-> IF e \in S THEN q.confirmed[e] \cup {n}
                                      ELSE q.confirmed[e]]]

\* Delivered to someone, and confirmed by everyone it was delivered to.
Settled(q) == {e \in q.ids : /\ q.delivered[e] # {}
                             /\ q.delivered[e] \subseteq q.confirmed[e]}

\* Mutants: an off-by-one in the age test, and expiry left out.
ExpiredEarly(q) == {e \in q.ids : e <= overdue + 1}
ExpiredNever(q) == {}

Expired(q) == {e \in q.ids : e <= overdue}

\* _rid_matches_types; no types means no filter.
Matches(e, types) == types = {} \/ TypeOf[e] \in types

\* The events a poll by n may carry, and the first k of them.
Undelivered(q, n, types) ==
    {e \in q.ids : n \notin q.delivered[e] /\ Matches(e, types)}

\* Mutant: the newest events go first.
FirstOfReversed(S, k) == {e \in S : k = 0 \/ Cardinality({d \in S : d > e}) < k}

FirstOf(S, k) ==
    {e \in S : k = 0 \/ Cardinality({d \in S : d < e}) < k}

(***************************************************************************)
(* _save_event_queue replaces the file as a whole.  It logs an exception   *)
(* and goes on, so if writing can fail the file may also stay as it is.    *)
(***************************************************************************)
Save(version) == file' = version \/ (SavesCanFail /\ UNCHANGED file)

-----------------------------------------------------------------------------
Init ==
    /\ up = FALSE
    /\ queue = EmptyQueue
    /\ pending = {}
    /\ file = EmptyQueue
    /\ subscribers = {}
    /\ next = 1
    /\ overdue = 0
    /\ handed = [e \in EventId |-> [n \in Nodes |-> 0]]
    /\ halts = 0

(* Construction and start(): the queue file is read back.                  *)
Start ==
    /\ ~up
    /\ up' = TRUE
    /\ queue' = file
    /\ pending' = file.ids
    /\ UNCHANGED <<file, subscribers, next, overdue, handed, halts>>

(* queue_event, called by broadcast_event for every ingested event.        *)
QueueEvent ==
    /\ up
    /\ next <= MaxEvents
    /\ queue' = Appended(queue, next)
    /\ pending' = pending \cup {next}
    /\ next' = next + 1
    /\ Save(queue')
    /\ UNCHANGED <<up, subscribers, overdue, handed, halts>>

(* get_queued_events_for_delivery: the events are marked, and the marks    *)
(* saved, before the response that carries them exists.                    *)
Deliver(n, k, types) ==
    LET S == FirstOf(Undelivered(queue, n, types), k) IN
    /\ up
    /\ queue' = MarkedDelivered(queue, n, S)
    /\ handed' = [e \in EventId |->
                    IF e \in S THEN [handed[e] EXCEPT ![n] = @ + 1]
                               ELSE handed[e]]
    /\ IF S = {} THEN UNCHANGED file ELSE Save(queue')
    /\ UNCHANGED <<up, pending, next, overdue, halts>>

(* GET and POST /events/poll.                                              *)
Poll(n, k) ==
    /\ Deliver(n, k, {})
    /\ subscribers' = subscribers \cup {n}

(* POST /koi-net/events/poll, signed, under the types of the peer's edges. *)
KoiNetPoll(n, k, types) ==
    /\ Deliver(n, k, types)
    /\ UNCHANGED subscribers

(* POST /events/confirm: a peer confirms ids that responses gave it.  Ids  *)
(* the queue no longer knows are skipped.                                  *)
Confirm(n, S) ==
    LET marked == MarkedConfirmed(queue, n, S \cap pending)
        done   == Settled(marked)
    IN
    /\ up
    /\ \A e \in S : handed[e][n] > 0
    /\ queue' = Without(marked, done)
    /\ pending' = pending \ done
    /\ Save(queue')
    /\ UNCHANGED <<up, subscribers, next, overdue, handed, halts>>

(* One round of _cleanup_loop.  It saves after each of its two halves that *)
(* removes something, so the file can keep the result of the first alone.  *)
Cleanup ==
    LET confirmed == Settled(queue)
        kept      == Without(queue, confirmed)
        late      == Expired(kept)
    IN
    /\ up
    /\ queue' = Without(kept, late)
    /\ pending' = pending \ (confirmed \cup late)
    /\ \/ confirmed \cup late # {} /\ Save(queue')
       \/ confirmed # {} /\ late # {} /\ SavesCanFail /\ file' = kept
       \/ confirmed \cup late = {} /\ UNCHANGED file
    /\ UNCHANGED <<up, subscribers, next, overdue, handed, halts>>

(* The process ends, and its memory with it.                               *)
Halt ==
    /\ up
    /\ halts < MaxHalts
    /\ halts' = halts + 1
    /\ up' = FALSE
    /\ queue' = EmptyQueue
    /\ pending' = {}
    /\ subscribers' = {}
    /\ UNCHANGED <<next, overdue, handed>>

(* stop() saves once more before the end; a crash does not.                *)
Stop == Halt /\ Save(queue)

Crash == Halt /\ UNCHANGED file

(* Time: older events pass the delivery timeout first.                     *)
GrowOld(e) ==
    /\ overdue < e /\ e < next
    /\ overdue' = e
    /\ UNCHANGED <<up, queue, pending, file, subscribers, next, handed, halts>>

Next ==
    \/ Start
    \/ QueueEvent
    \/ \E n \in Nodes, k \in Limits : Poll(n, k)
    \/ \E n \in Nodes, k \in Limits, types \in SUBSET Types : KoiNetPoll(n, k, types)
    \/ \E n \in Nodes, S \in SUBSET EventId : Confirm(n, S)
    \/ Cleanup
    \/ Stop
    \/ Crash
    \/ \E e \in EventId : GrowOld(e)

Spec == Init /\ [][Next]_vars

(* A started process runs its cleanup loop, systemd restarts it, and time  *)
(* passes.  Nothing is assumed of the peers.                               *)
FairSpec ==
    /\ Spec
    /\ WF_vars(Start)
    /\ WF_vars(Cleanup)
    /\ \A e \in EventId : WF_vars(GrowOld(e))

-----------------------------------------------------------------------------
(* What the queue should guarantee.                                        *)

\* The two structures that hold the queued events agree: confirm_delivery
\* looks events up in pending_deliveries and the polls walk event_queue.
PendingMatchesQueue == pending = queue.ids

\* Events of one RID type, and with them the NEW, UPDATE and FORGET of one RID,
\* are handed to a node in the order in which they were queued, whatever limits
\* and edge filters its polls used and whatever was cleaned up or lost between.
InOrder(q) ==
    \A n \in Nodes : \A d, e \in q.ids :
        /\ d < e /\ TypeOf[d] = TypeOf[e]
        /\ n \in q.delivered[e]
        => n \in q.delivered[d]

DeliveredInOrder == InOrder(queue) /\ InOrder(file)

\* A node is handed an event at most once, across polls under any filter,
\* cleanups, crashes and restarts; if the queue file cannot always be written,
\* at most once per run of the process.
AtMostOnce ==
    \A e \in EventId, n \in Nodes :
        handed[e][n] <= 1 + (IF SavesCanFail THEN halts ELSE 0)

\* The file never knows more than the process that writes it, so a restart can
\* repeat a delivery but cannot suppress one; and if every write succeeds it
\* knows as much, so that a crash between two handlers loses nothing.
FileKeepsUp ==
    up => /\ \A e \in queue.ids \cap file.ids :
                /\ file.delivered[e] \subseteq queue.delivered[e]
                /\ file.confirmed[e] \subseteq queue.confirmed[e]
          /\ ~SavesCanFail => file = queue

\* While the process runs, an event leaves the queue only when every node that
\* was handed it has confirmed it, or when it is older than the delivery timeout.
OnlyDoneEventsLeave ==
    [][up' => \A e \in queue.ids \ queue'.ids :
                 \/ e <= overdue
                 \/ /\ queue.delivered[e] # {}
                    /\ queue.delivered[e] \subseteq queue'.confirmed[e]]_vars

\* The queue implements DeliveryContract when every write of the file succeeds.
\* The file stands for the offers, so that they outlive the process.
Contract == INSTANCE DeliveryContract WITH
    Events    <- EventId,
    published <- 1..(next - 1),
    offered   <- file.ids,
    received  <- [e \in EventId |-> {n \in Nodes : handed[e][n] > 0}],
    acked     <- file.confirmed,
    old       <- 1..overdue

ImplementsContract == Contract!Spec

\* Nothing stays in the queue or its file forever: the delivery timeout and the
\* cleanup loop bound both, even if no peer ever polls or confirms.
EventuallyGone ==
    \A e \in EventId : e \in queue.ids ~> e \notin queue.ids \cup file.ids

-----------------------------------------------------------------------------
(* What makes these invariants inductive.                                  *)

\* Ids are given in order, and time cannot run ahead of them.
IdsGivenInOrder ==
    /\ \A e \in queue.ids \cup file.ids : e < next
    /\ overdue < next

\* An event that was not queued yet was neither handed out nor marked.
NothingBeforeQueueing ==
    \A e \in EventId : e >= next =>
        /\ \A n \in Nodes : handed[e][n] = 0
        /\ queue.delivered[e] = {} /\ file.delivered[e] = {}
        /\ queue.confirmed[e] = {} /\ file.confirmed[e] = {}

\* Handings that no mark in memory shows happened in earlier runs of the
\* process, and only if a write of the file failed then.
EarlierRuns == IF SavesCanFail THEN halts ELSE 0

\* A node marked as delivered was handed the event, and one not so marked was
\* handed it in an earlier run at most.
MarksTrackHandings ==
    \A e \in EventId, n \in Nodes :
        /\ n \in queue.delivered[e] \cup file.delivered[e] => handed[e][n] > 0
        /\ e \in queue.ids /\ n \notin queue.delivered[e] => handed[e][n] <= EarlierRuns
        /\ e \in file.ids /\ n \notin file.delivered[e] => SavesCanFail \/ handed[e][n] = 0
        /\ ~up => ~SavesCanFail \/ handed[e][n] <= halts

\* A process that does not run holds nothing in memory.
MemoryIsVolatile == ~up => queue = EmptyQueue

IInv ==
    /\ PendingMatchesQueue
    /\ DeliveredInOrder
    /\ AtMostOnce
    /\ FileKeepsUp
    /\ IdsGivenInOrder
    /\ NothingBeforeQueueing
    /\ MarksTrackHandings
    /\ MemoryIsVolatile

=============================================================================
