---------------------------- MODULE JobContract ----------------------------
(***************************************************************************)
(* What the two job APIs promise a client about each job, seen only        *)
(* through the answers to a poll: accepted jobs are queued, then processed *)
(* once, and end in results or in an error; an error that is marked so may *)
(* be retried; only a job that has ended can disappear, and for good.      *)
(***************************************************************************)
CONSTANT Jobs

VARIABLE answer  \* job id -> what a poll of the job answers

Answers == {"none",        \* no such job yet: 404
            "queued", "processing",
            "completed",   \* with results and without an error
            "failed",      \* with an error that can be retried
            "rejected",    \* with an error that cannot
            "gone"}        \* deleted, by the client or by the TTL: 404

Move(j, from, to) ==
    /\ answer[j] \in from
    /\ answer' = [answer EXCEPT ![j] = to]

Accept(j) == Move(j, {"none"}, "queued")
Reject(j) == Move(j, {"queued"}, "rejected")
Start(j) == Move(j, {"queued"}, "processing")
Complete(j) == Move(j, {"processing"}, "completed")

\* The generation failed, or a restart lost the job.
Fail(j) == Move(j, {"queued", "processing"}, "failed")
Retry(j) == Move(j, {"failed"}, "processing")

\* One cleanup may take several jobs away at once.
Remove(js) ==
    /\ \A j \in js : answer[j] \in {"completed", "failed", "rejected"}
    /\ answer' = [j \in Jobs |-> IF j \in js THEN "gone" ELSE answer[j]]

Init == answer = [j \in Jobs |-> "none"]

Next ==
    \/ \E j \in Jobs :
         \/ Accept(j) \/ Reject(j) \/ Start(j) \/ Complete(j) \/ Fail(j) \/ Retry(j)
    \/ \E js \in SUBSET Jobs : Remove(js)

Spec == Init /\ [][Next]_answer

=============================================================================
