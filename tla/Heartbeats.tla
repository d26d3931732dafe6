------------------------------ MODULE Heartbeats ------------------------------
(* The heartbeats of the sensors, as far as they differ.  A sensor sends one *)
(* when it starts, and the loop that it begins then sends one every 30       *)
(* minutes.  It is an event like any other, sent once, whose failure is only *)
(* logged.  What it says of the sensor is left out.                          *)
EXTENDS Naturals

(* by: through the sensor's node, which retries nothing, or in a request of  *)
(* its own.  first: what the loop does first.                                *)
Heartbeat(by, first) == [by |-> by, first |-> first]

Website     == Heartbeat("node", "sleep")
Medium      == Heartbeat("node", "sleep")
Rss         == Heartbeat("node", "sleep")
Newsletters == Heartbeat("node", "sleep")
Github      == Heartbeat("node", "sleep")
Gitlab      == Heartbeat("node", "sleep")
Podcast     == Heartbeat("node", "sleep")
Youtube     == Heartbeat("node", "sleep")
Twitter     == Heartbeat("node", "sleep")
Discord     == Heartbeat("node", "sleep")
Discourse   == Heartbeat("node", "sleep")
Ledger      == Heartbeat("node", "sleep")
Notion      == Heartbeat("node", "sleep")

(* The retry in this loop is never reached: send_heartbeat_event lets no     *)
(* exception out.                                                            *)
Telegram    == Heartbeat("request", "beat")

HeartbeatOf ==
  [website |-> Website, medium |-> Medium, rss |-> Rss, newsletters |-> Newsletters,
   github |-> Github, gitlab |-> Gitlab, podcast |-> Podcast, youtube |-> Youtube,
   twitter |-> Twitter, discord |-> Discord, discourse |-> Discourse,
   ledger |-> Ledger, notion |-> Notion, telegram |-> Telegram]

(* Intervals from the start of a sensor to the first heartbeat of its loop.  *)
FirstWait(sensor, every) == IF HeartbeatOf[sensor].first = "beat" THEN 0 ELSE every
=============================================================================
