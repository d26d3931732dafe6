---------------------------- MODULE MCDiscordSensor ----------------------------
(* Instance of DiscordSensor for TLC: two messages, of which a collection
   reads one and the first of which may be changed. *)
EXTENDS DiscordSensor
=============================================================================
