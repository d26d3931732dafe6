--------------------------- MODULE DeliveryContract ---------------------------
(***************************************************************************)
(* What the delivery queue promises the peers, without the list, the file, *)
(* the polls' limits and the process: an event is published once, offered  *)
(* to everybody, handed to a node at most once, and withdrawn only when it *)
(* is old or when those who got it, and there are some, have acknowledged  *)
(* it.  A crash is not visible at this level.                              *)
(***************************************************************************)
CONSTANTS Nodes, Events

VARIABLES
    published,   \* the events there have been
    offered,     \* those that can still be handed out
    received,    \* received[e]: the nodes that were handed e
    acked,       \* acked[e]: the nodes that acknowledged e
    old          \* the events older than the delivery timeout

cvars == <<published, offered, received, acked, old>>

Init ==
    /\ published = {} /\ offered = {} /\ old = {}
    /\ received = [e \in Events |-> {}]
    /\ acked = [e \in Events |-> {}]

Publish(e) ==
    /\ e \notin published
    /\ published' = published \cup {e}
    /\ offered' = offered \cup {e}
    /\ UNCHANGED <<received, acked, old>>

Hand(n, S) ==
    /\ S \subseteq offered
    /\ \A e \in S : n \notin received[e]
    /\ received' = [e \in Events |-> IF e \in S THEN received[e] \cup {n}
                                                ELSE received[e]]
    /\ UNCHANGED <<published, offered, acked, old>>

Done(e) == received[e] # {} /\ received[e] \subseteq acked[e]

\* Node n acknowledges S; events that this completes are withdrawn with it.
Acknowledge(n, S) ==
    /\ \A e \in S : n \in received[e]
    /\ acked' = [e \in Events |-> IF e \in S THEN acked[e] \cup {n} ELSE acked[e]]
    /\ offered' = {e \in offered : ~Done(e)'}
    /\ UNCHANGED <<published, received, old>>

Withdraw(S) ==
    /\ \A e \in S : e \in old \/ Done(e)
    /\ offered' = offered \ S
    /\ UNCHANGED <<published, received, acked, old>>

Age(S) ==
    /\ old' = old \cup (S \cap published)
    /\ UNCHANGED <<published, offered, received, acked>>

Next ==
    \/ \E e \in Events : Publish(e)
    \/ \E n \in Nodes, S \in SUBSET Events : Hand(n, S) \/ Acknowledge(n, S)
    \/ \E S \in SUBSET Events : Withdraw(S) \/ Age(S)

Spec == Init /\ [][Next]_cvars

=============================================================================
