-------------------------- MODULE FaceSwapContract --------------------------
(***************************************************************************)
(* The face-swap job service as an implementation of JobContract.  A row   *)
(* whose columns do not belong together has no counterpart in the contract *)
(* and maps to a value that is not one of its answers.                     *)
(***************************************************************************)
EXTENDS FaceSwapJobs

\* to_response, or the 404 of get_job_or_404 (of a job whose TTL has not passed).
Poll(j) ==
    LET row == db[j] IN
    CASE ~Exists(j) -> IF photo[j] = "unread" THEN "none" ELSE "gone"
      [] row.status \in Live /\ ~row.results /\ row.error = "none" -> row.status
      [] row.status = "completed" /\ row.results /\ row.error = "none" -> "completed"
      [] row.status = "failed" /\ ~row.results /\ row.error \in Retryable -> "failed"
      [] row.status = "failed" /\ ~row.results /\ row.error = "face" -> "rejected"
      [] OTHER -> "incoherent"

Contract == INSTANCE JobContract WITH answer <- [j \in Jobs |-> Poll(j)]

\* As long as the requests that change a job come one at a time and no cleanup
\* is at work, the service keeps the contract through any interleaving with the
\* worker, with other creates and with restarts.
KeepsContract == Contract!Spec

=============================================================================
