----------------------------- MODULE DiscordSensor -----------------------------
(***************************************************************************)
(* The sensor of Discord messages.  Unlike the polling sensors it is told  *)
(* of messages by the gateway and handles each event in a task of its own, *)
(* beside the collections of recent messages, one when the bot is ready    *)
(* and one every hour: several requests for one message may be under way,  *)
(* and they reach the coordinator in any order.  It keeps no file.         *)
(* One channel is looked at.                                               *)
(***************************************************************************)
EXTENDS Naturals, FiniteSets

CONSTANTS
    Messages,      \* in the order in which they are posted
    Changing,      \* bound: those that may be edited or deleted
    LastVersion,   \* bound on the versions of a message
    HistoryLimit,  \* how many messages a collection reads (limit=100)
    Collectors,    \* the collections that may be under way together
    MaxStops,      \* bound on how often the process ends
    MaxErrors      \* bound on the requests and readings that fail and on the
                   \* events that are not dispatched

ASSUME DiscordAssumption ==
    /\ Messages \subseteq Nat \ {0} /\ IsFiniteSet(Messages)
    /\ Changing \subseteq Messages
    /\ {LastVersion, HistoryLimit} \subseteq Nat \ {0}
    /\ {MaxStops, MaxErrors} \subseteq Nat
    /\ "live" \notin Collectors

VARIABLES
    connected,  \* the bot is connected
    ready,      \* on_ready has started the node, which now has a session
    shown,      \* the version of each message, 0 before it is posted
    deleted,    \* the messages that were deleted
    since,      \* messages before this one are older than a day
    batch,      \* what each collection has read and not dealt with
    requests,   \* requests under way or given up that have not arrived
    processed,  \* processed_messages
    held,       \* what the coordinator has under each RID
    missed,     \* history: messages with an event that was not dispatched
    refused,    \* history: those with a request that failed
    crossed,    \* history: those of which two versions were under way at once
    stops, errors     \* counters of the bounds

channel == <<shown, deleted, since>>
excuses == <<missed, refused, crossed>>
discordVars == <<connected, ready, channel, batch, requests, processed, held, excuses, stops, errors>>

Versions == 1..LastVersion
Doc == [msg : Messages, version : Versions]
Request == [kind : {"NEW", "UPDATE", "FORGET"}, msg : Messages, version : Versions,
            by : Collectors \cup {"live"}, state : {"open", "taken", "given up"}]

\* document_to_rid has no case for Discord: the RID is the generic one, ...
MessageRid(m) == <<"regen.discord", m>>
\* ... and DiscordMessageRID, which only on_message_delete uses, is another.
ForgetRid(m) == <<"orn", m>>
Rids == {MessageRid(m) : m \in Messages} \cup {ForgetRid(m) : m \in Messages}

Posted == {m \in Messages : shown[m] # 0}
InFlight(m) == {r \in requests : r.msg = m}
Busy(c) == \E r \in requests : r.by = c /\ r.state # "given up"

\* Another version of m is under way, or was read and will be sent.
Crosses(m, v) ==
    \/ \E r \in InFlight(m) : r.version # v
    \/ /\ m \notin processed
       /\ \E c \in Collectors : \E d \in batch[c] : d.msg = m /\ d.version # v

-----------------------------------------------------------------------------
\* emit_new_event, emit_update_event and emit_forget_event: without a session
\* the request fails at once.  The outcome is not looked at, and the message
\* counts as processed.
Emit(kind, m, v, by) ==
    /\ crossed' = IF Crosses(m, v) THEN crossed \cup {m} ELSE crossed
    /\ IF ready
       THEN /\ requests' = requests \cup {[kind |-> kind, msg |-> m, version |-> v,
                                           by |-> by, state |-> "open"]}
            /\ UNCHANGED <<processed, refused>>
       ELSE /\ refused' = refused \cup {m}
            /\ processed' = IF kind = "FORGET" THEN processed ELSE processed \cup {m}
            /\ UNCHANGED requests

\* An event of the channel: the gateway dispatches it or, be it that the bot is
\* not connected or that it does not know the message, does not.
Dispatch(kind, m, v) ==
    \/ connected /\ Emit(kind, m, v, "live") /\ UNCHANGED <<missed, errors>>
    \/ /\ IF connected THEN /\ errors < MaxErrors /\ errors' = errors + 1
                            /\ missed' = missed \cup {m}
              ELSE UNCHANGED <<missed, errors>>
       /\ crossed' = IF Crosses(m, v) THEN crossed \cup {m} ELSE crossed
       /\ UNCHANGED <<requests, processed, refused>>

quiet == <<connected, ready, since, batch, held, stops>>

\* on_message
OnMessage(m) ==
    /\ shown[m] = 0 /\ \A n \in Messages : n < m => shown[n] # 0
    /\ shown' = [shown EXCEPT ![m] = 1]
    /\ Dispatch("NEW", m, 1)
    /\ UNCHANGED <<deleted, quiet>>

\* Mutant: a processed message is skipped, whether it is historical or not.
EditsSkipped(m) ==
    /\ m \in (Posted \cap Changing) \ deleted /\ shown[m] < LastVersion
    /\ shown' = [shown EXCEPT ![m] = @ + 1]
    /\ IF m \in processed THEN UNCHANGED <<requests, processed, excuses, errors>>
                          ELSE Dispatch("UPDATE", m, shown'[m])
    /\ UNCHANGED <<deleted, quiet>>

\* on_message_edit
OnMessageEdit(m) ==
    /\ m \in (Posted \cap Changing) \ deleted /\ shown[m] < LastVersion
    /\ shown' = [shown EXCEPT ![m] = @ + 1]
    /\ Dispatch("UPDATE", m, shown'[m])
    /\ UNCHANGED <<deleted, quiet>>

\* on_message_delete
OnMessageDelete(m) ==
    /\ m \in (Posted \cap Changing) \ deleted
    /\ deleted' = deleted \cup {m}
    /\ Dispatch("FORGET", m, shown[m])
    /\ UNCHANGED <<shown, quiet>>

AgeOut ==
    /\ since \in Posted /\ since' = since + 1
    /\ UNCHANGED <<connected, ready, shown, deleted, batch, requests, processed, held, excuses,
                   stops, errors>>

-----------------------------------------------------------------------------
\* What a collection reads: the oldest messages of the last day.
Recent == {m \in Posted \ deleted : m >= since}
History == {m \in Recent : Cardinality({n \in Recent : n <= m}) <= HistoryLimit}

\* Mutant: messages are collected at the start only.
CollectFirst(c) ==
    /\ connected /\ ready /\ batch[c] = {} /\ ~Busy(c)
    /\ batch' = [batch EXCEPT ![c] = {[msg |-> m, version |-> shown[m]] :
                                       m \in IF processed = {} THEN History ELSE {}}]
    /\ UNCHANGED <<connected, ready, channel, requests, processed, held, excuses, stops, errors>>

\* collect_recent_messages, after on_ready and in periodic_collection.
CollectRecent(c) ==
    /\ connected /\ ready /\ batch[c] = {} /\ ~Busy(c)
    /\ \/ batch' = [batch EXCEPT ![c] = {[msg |-> m, version |-> shown[m]] : m \in History}]
          /\ UNCHANGED errors
       \/ errors < MaxErrors /\ errors' = errors + 1 /\ UNCHANGED batch
    /\ UNCHANGED <<connected, ready, channel, requests, processed, held, excuses, stops>>

\* process_message with is_historical, for the oldest message that was read.
ProcessHistorical(c) ==
    /\ ready /\ ~Busy(c)
    /\ \E d \in batch[c] :
         /\ \A e \in batch[c] : d.msg <= e.msg
         /\ batch' = [batch EXCEPT ![c] = @ \ {d}]
         /\ IF d.msg \in processed THEN UNCHANGED <<requests, processed, refused, crossed>>
                                   ELSE Emit("NEW", d.msg, d.version, c)
    /\ UNCHANGED <<connected, ready, channel, held, missed, stops, errors>>

-----------------------------------------------------------------------------
\* The coordinator takes a request: it keeps what came last, and drops what it
\* has under the RID of a FORGET.
Reaches(r) ==
    /\ r.state # "taken"
    /\ held' = IF r.kind = "FORGET" THEN [held EXCEPT ![ForgetRid(r.msg)] = 0]
                                    ELSE [held EXCEPT ![MessageRid(r.msg)] = r.version]
    /\ requests' = (requests \ {r}) \cup
                     (IF r.state = "open" THEN {[r EXCEPT !.state = "taken"]} ELSE {})
    /\ UNCHANGED <<connected, ready, channel, batch, processed, excuses, stops, errors>>

MarkProcessed(r) ==
    processed' = IF r.kind = "FORGET" THEN processed ELSE processed \cup {r.msg}

\* broadcast_event returns, and process_message goes on.
Answered(r) ==
    /\ r.state = "taken" /\ requests' = requests \ {r}
    /\ MarkProcessed(r)
    /\ UNCHANGED <<connected, ready, channel, batch, held, excuses, stops, errors>>

\* It returns false, after a time-out too, and process_message goes on likewise.
GivenUp(r) ==
    /\ r.state # "given up" /\ errors < MaxErrors /\ errors' = errors + 1
    /\ requests' = (requests \ {r}) \cup
                     (IF r.state = "open" THEN {[r EXCEPT !.state = "given up"]} ELSE {})
    /\ refused' = refused \cup {r.msg}
    /\ MarkProcessed(r)
    /\ UNCHANGED <<connected, ready, channel, batch, held, missed, crossed, stops>>

-----------------------------------------------------------------------------
\* run: the bot connects.
Run ==
    /\ ~connected /\ connected' = TRUE
    /\ UNCHANGED <<ready, channel, batch, requests, processed, held, excuses, stops, errors>>

\* on_ready starts the node; events may be dispatched before.
OnReady ==
    /\ connected /\ ~ready /\ ready' = TRUE
    /\ UNCHANGED <<connected, channel, batch, requests, processed, held, excuses, stops, errors>>

\* The process ends and with it all it knows.  What was sent may arrive yet.
Stops ==
    /\ connected /\ stops < MaxStops /\ stops' = stops + 1
    /\ connected' = FALSE /\ ready' = FALSE
    /\ batch' = [c \in Collectors |-> {}] /\ processed' = {}
    /\ requests' = {[r EXCEPT !.state = "given up"] : r \in {s \in requests : s.state # "taken"}}
    /\ missed' = {} /\ refused' = {} /\ crossed' = {r.msg : r \in requests'}
    /\ UNCHANGED <<channel, held, errors>>

DiscordInit ==
    /\ connected = FALSE /\ ready = FALSE
    /\ shown = [m \in Messages |-> 0] /\ deleted = {} /\ since = 1
    /\ batch = [c \in Collectors |-> {}] /\ requests = {} /\ processed = {}
    /\ held = [rid \in Rids |-> 0]
    /\ missed = {} /\ refused = {} /\ crossed = {}
    /\ stops = 0 /\ errors = 0

DiscordNext ==
    \/ \E m \in Messages : OnMessage(m) \/ OnMessageEdit(m) \/ OnMessageDelete(m)
    \/ \E c \in Collectors : CollectRecent(c) \/ ProcessHistorical(c)
    \/ \E r \in requests : Reaches(r) \/ Answered(r) \/ GivenUp(r)
    \/ AgeOut \/ Run \/ OnReady \/ Stops

\* The tasks go on, an operator starts the bot again, and a request that does
\* not fail is taken and answered.
Fairness ==
    /\ WF_discordVars(Run) /\ WF_discordVars(OnReady)
    /\ \A c \in Collectors : WF_discordVars(CollectRecent(c)) /\ WF_discordVars(ProcessHistorical(c))
    /\ WF_discordVars(\E r \in requests : Answered(r) \/ (r.state = "open" /\ Reaches(r)))

DiscordSpec == DiscordInit /\ [][DiscordNext]_discordVars
FairDiscordSpec == DiscordSpec /\ Fairness

-----------------------------------------------------------------------------
DiscordTypeOK ==
    /\ {connected, ready} \subseteq BOOLEAN
    /\ shown \in [Messages -> Versions \cup {0}] /\ deleted \subseteq Posted
    /\ since \in Nat
    /\ batch \in [Collectors -> SUBSET Doc] /\ requests \subseteq Request
    /\ processed \subseteq Posted
    /\ held \in [Rids -> Versions \cup {0}]
    /\ missed \cup refused \cup crossed \subseteq Messages
    /\ stops \in 0..MaxStops /\ errors \in 0..MaxErrors

(* Once nothing is under way for a message that counts as processed, the   *)
(* coordinator has its current version, unless in this life of the process *)
(* an event of it was not dispatched, a request for it failed, or two      *)
(* versions of it were under way at once: an edit while the first request  *)
(* was open, or after a collection had read the message.                   *)
(* (process_message, collect_recent_messages and on_message_edit)          *)
HeldIsCurrent ==
    \A m \in processed \ (deleted \cup missed \cup refused \cup crossed) :
        InFlight(m) = {} => held[MessageRid(m)] = shown[m]

(* Every message reaches the coordinator, by its event or else by a        *)
(* collection, unless it is deleted before, a request for it failed, it is *)
(* a day old by then, or there were as many older ones as are read.        *)
(* (sensors/discord/README.md:77, collect_recent_messages)                 *)
EventuallyHeld == \A m \in Messages :
    (m \in Posted) ~> \/ held[MessageRid(m)] # 0
                      \/ m \in deleted \cup refused
                      \/ m < since \/ m \in Recent \ History

=============================================================================
