--------------------------- MODULE MCWebsiteSensor ---------------------------
(* Instances of WebsiteSensor for TLC: a start page and pages linked to it. *)
EXTENDS WebsiteSensor

CONSTANTS home, page

MCLinks == [p \in Pages |-> IF p = home THEN Pages \ {home} ELSE {home}]

MCMaxVersion == [p \in Pages |-> IF p = home THEN 2 ELSE 1]

=============================================================================
