---------------------------- MODULE MCNotionSensor ----------------------------
(* Instances of NotionSensor for TLC: two pages, one with comments and a
   recording. *)
EXTENDS NotionSensor

CONSTANTS page, other, c1, c2, text, secret, address

MCBlocks == [p \in Pages |-> IF p = page THEN <<c1, c2>> ELSE <<>>]

\* A page is edited where it is not read, a comment goes and comes back.
MCVersions == [d \in Pages \cup Comments |->
    CASE d = page -> {1, 2} [] d = c1 -> {0, 1} [] OTHER -> {1}]

Block(kind, t) == [kind |-> kind, text |-> t]

\* The versions of the page differ in nothing but what is not read: a section
\* that is excluded, and a property with an address.  (An edit of what is read
\* takes the same steps, and the second version is news then.)
MCSheet == [d \in Pages \cup Comments |-> [v \in Versions[d] \ {0} |->
    [body |-> <<Block("text", text)>> \o
              IF d = page
              THEN <<Block("excluded", text), Block("text", IF v = 2 THEN secret ELSE text),
                     Block("heading", address), Block("recording", text)>>
              ELSE <<>>,
     properties |-> IF d # page THEN <<>>
                    ELSE <<[type |-> "email", value |-> IF v = 2 THEN address ELSE text],
                           [type |-> "status", value |-> text]>>]]]

=============================================================================
