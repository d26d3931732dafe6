------------------------------ MODULE MCSensors ------------------------------
(* Instances of Sensors for TLC: three items, the first of which changes.
   Depending on the sensor, one of the others is not asked for, one is too
   short, or both; one may be listed no more. *)
EXTENDS Sensors

MCMaxVersions == [i \in Items |-> IF i = 1 THEN 2 ELSE 1]
OneVersion == [i \in Items |-> 1]

MCForeign == [s \in Sensors |->
    IF s \in {"github", "gitlab", "newsletters", "mbox"} THEN {2} ELSE {}]

MCShort == [s \in Sensors |->
    CASE s \in {"github", "gitlab", "mbox"} -> {3}
      [] s \in {"rss", "telegram", "substack"} -> {2}
      [] OTHER -> {}]

MCFleeting == [s \in Sensors |->
    CASE s \in {"github", "newsletters"} -> {1}
      [] s \in {"rss", "github_activity", "podcast"} -> {3}
      [] OTHER -> {}]

NoItems == [s \in Sensors |-> {}]

=============================================================================
