--------------------------- MODULE RepositorySensors ---------------------------
(***************************************************************************)
(* The sensors of repositories: github (the files of a clone), gitlab (the *)
(* same) and github_activity (commits, issues and pull requests).  They    *)
(* record the hash of what they sent whatever became of the request, and   *)
(* compare the next reading with it.                                       *)
(***************************************************************************)
EXTENDS SensorProcess

\* send_to_koi, the loop body: a document whose hash is the recorded one is
\* skipped, any other is sent.
SendChanged(d) ==
    IF memory.hash[d.item] = d.version
    THEN Skip(d) /\ UNCHANGED <<memory, trouble>>
    ELSE Emit(d, d)

\* Mutant: the hash of what was sent is not stored.
HashNever == \E ok \in BOOLEAN, d \in asked :
    Answer(ok) /\ UNCHANGED <<memory, file>>

\* The hash is stored after the request, its result is not looked at.
HashWhatever == \E ok \in BOOLEAN, d \in asked :
    Answer(ok) /\ memory' = WithHash(d) /\ UNCHANGED file

-----------------------------------------------------------------------------
\* find_files: the documentation outside of the excluded directories.
GithubFindFiles(R) == R \ Foreign[sensor]

\* process_file: an empty or a large file becomes no document.
GithubProcessFiles(R) == {Current(i) : i \in R \ Short[sensor]}

\* Mutant: processed_rids is not cleared when a cycle starts.
GithubReadsOnce == sensor = "github" /\ \E R \in SUBSET (Offered \ taken) :
    /\ Readable(Offered \ taken, R) /\ Collect(GithubProcessFiles(GithubFindFiles(R)))
    /\ taken' = taken \cup R

\* github: every cycle reads all files of the repositories that can be cloned.
GithubCollectAllRepos == sensor = "github" /\ \E R \in SUBSET Offered :
    Readable(Offered, R) /\ Collect(GithubProcessFiles(GithubFindFiles(R))) /\ UNCHANGED taken

GithubSendToKoi == sensor = "github" /\
    (HashWhatever \/ \E d \in docs : SendChanged(d))

GithubCycleEnds == sensor = "github" /\ CycleEnds /\ Save

\* The same, with other names and sizes; a document is noted in processed_rids.
GitlabFindFiles(R) == R \ Foreign[sensor]
GitlabProcessFiles(R) == {Current(i) : i \in R \ Short[sensor]}

\* Mutant: the files of a repository that could not be cloned count as read.
GitlabTakesAll == sensor = "gitlab" /\ \E R \in SUBSET (Offered \ taken) :
    /\ Readable(Offered \ taken, R) /\ Collect(GitlabProcessFiles(GitlabFindFiles(R)))
    /\ taken' = taken \cup Offered

\* gitlab: processed_rids is not cleared, so that a process reads a file once.
GitlabCollectAllRepos == sensor = "gitlab" /\ \E R \in SUBSET (Offered \ taken) :
    /\ Readable(Offered \ taken, R) /\ Collect(GitlabProcessFiles(GitlabFindFiles(R)))
    /\ taken' = taken \cup (GitlabFindFiles(R) \ Short[sensor])

GitlabSendToKoi == sensor = "gitlab" /\
    (HashWhatever \/ \E d \in docs : SendChanged(d))

GitlabCycleEnds == sensor = "gitlab" /\ CycleEnds /\ Save

\* get_recent_commits, get_recent_issues, get_recent_pulls: the latest of each
\* kind that are not in processed_items.
ActivityDocuments(R) == {Current(i) : i \in R}

\* github_activity: each kind notes what it returns in processed_items, before
\* the others are read; if one of them raises, gather does, and what was noted
\* of that repository is not returned.
ActivityCollect == sensor = "github_activity" /\
    LET New == Offered \ taken IN \E R \in SUBSET New : \E lost \in SUBSET (New \ R) :
      /\ ReadableBut(New, R, lost) /\ Collect(ActivityDocuments(R))
      /\ taken' = taken \cup R \cup lost

ActivitySend == sensor = "github_activity" /\
    (HashWhatever \/ \E d \in docs : SendChanged(d))

ActivityCycleEnds == sensor = "github_activity" /\ CycleEnds /\ Save

RepositorySensor ==
    \/ GithubCollectAllRepos \/ GithubSendToKoi \/ GithubCycleEnds
    \/ GitlabCollectAllRepos \/ GitlabSendToKoi \/ GitlabCycleEnds
    \/ ActivityCollect \/ ActivitySend \/ ActivityCycleEnds

=============================================================================
