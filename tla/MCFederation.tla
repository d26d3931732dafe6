----------------------------- MODULE MCFederation -----------------------------
(* One peer with a short and a long name, and the first contact.           *)
EXTENDS Federation

MCPeers == {"p"}
MCNames == {"p16", "p64"}
MCNodeOf == [n \in MCNames |-> "p"]
MCLong == {"p64"}

=============================================================================
