--------------------------- MODULE MCClaudeSessions ---------------------------
(* Instances of ClaudeSessions for TLC: a session that grows, and one without
   text that is too short for a scan, but listed in an index. *)
EXTENDS ClaudeSessions

CONSTANTS long, brief, edit, search

Message(by, text, tools) == [by |-> by, text |-> text, tools |-> tools]

MCMessages == [s \in Sessions |->
    IF s = brief THEN <<Message("user", FALSE, {})>>
    ELSE <<Message("user", TRUE, {}), Message("assistant", FALSE, Tools)>>]

\* The daemon and the hook use OpenAI, the operator its predecessor.
MCSetup == [p \in Processes |->
    [provider |-> IF p = "operator" THEN "poly" ELSE "openai", ready |-> TRUE]]

=============================================================================
