---------------------------- MODULE ResultStore -----------------------------
(***************************************************************************)
(* The stored results (apps/api/results/metadata.js) and the history of    *)
(* their owners (apps/api/results/history.js).  Both keep rows by job and  *)
(* know nothing of each other: a link is forgotten in each of them.        *)
(***************************************************************************)
CONSTANTS Jobs

VARIABLES
  results,   \* rows of the result store: "none", "linked" or "forgotten"
  history    \* rows of the history: the same

ResultsInit ==
  /\ results = [j \in Jobs |-> "none"]
  /\ history = [j \in Jobs |-> "none"]

\* saveResult of a paid job with a link that is allowed; it makes a new row.
SaveResult(j) == results' = [results EXCEPT ![j] = "linked"]

\* record with a link.
Record(j) == history' = [history EXCEPT ![j] = "linked"]

\* forgetUrl of the result store.
ForgetUrl(j) ==
  /\ results[j] # "none"
  /\ results' = [results EXCEPT ![j] = "forgotten"]
  /\ UNCHANGED history

\* forgetLink of the history.
ForgetLink(j) ==
  /\ history[j] # "none"
  /\ history' = [history EXCEPT ![j] = "forgotten"]
  /\ UNCHANGED results

\* deleteHistory of the result store; its rows are of finished jobs.
DeleteResult(j) ==
  /\ results[j] # "none"
  /\ results' = [results EXCEPT ![j] = "none"]
  /\ UNCHANGED history

\* deleteHistory of the history, for the rows in gone; purgeOwner is that of all.
DeleteHistory(gone) ==
  /\ \E j \in gone : history[j] # "none"
  /\ history' = [j \in Jobs |-> IF j \in gone THEN "none" ELSE history[j]]
  /\ UNCHANGED results

ResultsTypeOK ==
  /\ results \in [Jobs -> {"none", "linked", "forgotten"}]
  /\ history \in [Jobs -> {"none", "linked", "forgotten"}]
=============================================================================
