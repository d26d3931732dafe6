-------------------------------- MODULE Sensors --------------------------------
(***************************************************************************)
(* The polling sensors together: each behaviour is the life of one of      *)
(* them, with what its source shows and what becomes of its requests.      *)
(***************************************************************************)
EXTENDS RepositorySensors, FeedSensors, MessageSensors

Process == RepositorySensor \/ FeedSensor \/ MessageSensor

Environment ==
    \/ \E i \in Items : Publish(i) \/ Withdraw(i)
    \/ Arrive
    \/ \E d \in late : ArriveLate(d)

Next == Process \/ Environment \/ Halt \/ Start

Spec == ProcessInit /\ [][Next]_vars

\* The process goes on and is started again when it ended (Restart=always, or
\* the operator who repeats an import); the coordinator takes a request unless
\* it fails.
FairSpec == Spec /\ WF_vars(Process) /\ WF_vars(Arrive) /\ WF_vars(Start)

-----------------------------------------------------------------------------
TypeOK == ProcessTypeOK

\* Those that record a hash whatever became of the request.
Careless == {"github", "gitlab", "github_activity"}
\* Those that do not come back to an item when a request for it has failed.
GivingUp == Careless \cup {"newsletters", "substack"}
\* Those that raise before every request.
Silent == {"twitter", "telegram", "podcast", "youtube"}

HasFailed(i) == \E d \in failed : d.item = i
HasArrived(i) == \E d \in arrived : d.item = i

\* Articles that are read in vain in every check, and fill it.
Crowded == Cardinality(ArticleLinks(Offered) \cap (Dated \cup Short[sensor])) >= PerCheck

(* A sensor that looks at the outcome of a request records as done only    *)
(* what has reached the coordinator, and the watermark of the newsletters  *)
(* passes only messages that were sent, failed or had left the folder; one *)
(* that does not look records, beside what arrived, only versions whose    *)
(* request failed.  (emit_article_event, _process_entry, send_to_koi)      *)
RecordsOnlyWhatArrived == \A i \in Items :
    /\ memory.hash[i] # 0 =>
         \/ Of(i, memory.hash[i]) \in arrived
         \/ sensor \in Careless /\ Of(i, memory.hash[i]) \in failed
    /\ i \in memory.done => HasArrived(i)
    /\ i \in Visible /\ i <= memory.mark =>
         i \in memory.done \cup Unfit \cup missed \cup gone \/ HasFailed(i)

(* A document reaches the coordinator twice only if a request for it was   *)
(* given up although the coordinator took it, or if the process ended      *)
(* before the record of it was saved.  (docs/ADDING_A_SENSOR.md:950-953)   *)
RepeatsAreExcused == twice \subseteq failed \cup forgotten

(* Every fit item that the source goes on listing reaches the coordinator  *)
(* in some version, unless the sensor is one that raises before any        *)
(* request (FitItemsArrive); or one that gives up, and a request or the    *)
(* reading failed; or the import that takes only posts older than all that *)
(* arrived; or medium, where the page of the article raises or as many     *)
(* articles as a check takes are read in vain.                             *)
EventuallyArrives == \A i \in Items :
    (sensor \notin Silent /\ i \in Visible \ Unfit) ~>
        \/ HasArrived(i) \/ i \in gone
        \/ sensor \in GivingUp /\ (HasFailed(i) \/ i \in missed)
        \/ sensor = "substack" /\ \E d \in arrived : d.item < i
        \/ sensor = "medium" /\ (i \in Dated \/ Crowded)

(* The sensor that compares what it reads in every cycle brings the newest *)
(* version of a file to the coordinator, unless its request failed.        *)
(* (github: send_to_koi, processed_rids.clear)                             *)
ChangesArrive == \A i \in Items : <>[](sensor = "github" =>
    i \notin Offered \ Unfit \/ Current(i) \in arrived \cup failed)

(* What the documents of the repository say of every sensor: what is fit   *)
(* and listed is brought to the coordinator.  (README.md:292,              *)
(* sensors/twitter/README.md:14, sensors/medium/README.md:3)               *)
FitItemsArrive == \A i \in Items :
    (i \in Visible \ Unfit) ~> (HasArrived(i) \/ i \in gone)

=============================================================================
