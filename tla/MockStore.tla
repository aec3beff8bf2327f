----------------------------- MODULE MockStore -----------------------------
(***************************************************************************)
(* The mock of the face-swap API, which the web app answers from when it   *)
(* runs without a backend.  Nothing works on its jobs: a poll derives the  *)
(* status from the time since the job was created or retried, and from the *)
(* scenario it was created with.                                           *)
(***************************************************************************)
EXTENDS Naturals

CONSTANT MockIds  \* a job's id is a new UUID: none is used twice

VARIABLE mock     \* id -> job

Scenarios == {"normal", "image-fail", "face-not-detected", "slow"}
Phases == {"none", "stored", "deleted"}

\* Time is counted in units of QUEUED_MS.
QueuedUntil == 1
DoneAfter == 7  \* IMAGE_DONE_MS
Slowest == 5

MockJob == [phase : Phases, scenario : Scenarios, elapsed : 0..DoneAfter * Slowest,
            retried : BOOLEAN]

MockScale(job) == IF job.scenario = "slow" THEN Slowest ELSE 1

\* Mutant: a retried job is queued again.
JobStatusQueuedAgain(job) ==
    CASE job.elapsed < QueuedUntil * MockScale(job) -> "queued"
      [] job.elapsed \in QueuedUntil * MockScale(job) .. DoneAfter * MockScale(job) - 1 -> "processing"
      [] OTHER ->
           IF ~job.retried /\ job.scenario \in {"image-fail", "face-not-detected"}
           THEN "failed" ELSE "completed"

\* Only the first attempt is queued, and only the first attempt fails.
JobStatus(job) ==
    IF job.elapsed < DoneAfter * MockScale(job)
    THEN IF ~job.retried /\ job.elapsed < QueuedUntil * MockScale(job)
         THEN "queued" ELSE "processing"
    ELSE IF ~job.retried /\ job.scenario \in {"image-fail", "face-not-detected"}
         THEN "failed" ELSE "completed"

\* jobError
Retryable(job) == job.scenario # "face-not-detected"

UnderWay(job) == job.phase = "stored" /\ JobStatus(job) \in {"queued", "processing"}

-----------------------------------------------------------------------------
CreateMock(id, scenario) ==
    /\ mock[id].phase = "none"
    /\ mock' = [mock EXCEPT ![id].phase = "stored", ![id].scenario = scenario]

\* The clock goes on for all jobs; one that has ended does not notice.
MockTime ==
    /\ \E id \in MockIds : UnderWay(mock[id])
    /\ mock' = [id \in MockIds |->
                  IF UnderWay(mock[id]) THEN [mock[id] EXCEPT !.elapsed = @ + 1] ELSE mock[id]]

RetryMock(id) ==
    /\ mock[id].phase = "stored"
    /\ JobStatus(mock[id]) = "failed" /\ Retryable(mock[id])
    /\ mock' = [mock EXCEPT ![id].elapsed = 0, ![id].retried = TRUE]

\* The route answers 409 while the job is under way.
DeleteMock(id) ==
    /\ mock[id].phase = "stored" /\ ~UnderWay(mock[id])
    /\ mock' = [mock EXCEPT ![id].phase = "deleted"]

MockInit ==
    mock = [id \in MockIds |->
              [phase |-> "none", scenario |-> "normal", elapsed |-> 0, retried |-> FALSE]]

MockNext ==
    \/ \E id \in MockIds :
         \/ \E scenario \in Scenarios : CreateMock(id, scenario)
         \/ RetryMock(id)
         \/ DeleteMock(id)
    \/ MockTime

\* The store holds jobs of a known scenario and age.
MockTypeOK == mock \in [MockIds -> MockJob]

-----------------------------------------------------------------------------
(* The contract of the service it stands for *)

\* What GET answers: results exactly when completed, an error exactly when failed.
MockAnswer(id) ==
    LET job == mock[id] IN
    CASE job.phase = "none" -> "none"
      [] job.phase = "deleted" -> "gone"
      [] OTHER -> IF JobStatus(job) = "failed" /\ ~Retryable(job)
                  THEN "rejected" ELSE JobStatus(job)

MockContract(id) == INSTANCE JobContract
    WITH Jobs <- {id}, answer <- [i \in {id} |-> MockAnswer(i)]

\* Each job of the mock goes through the answers that JobContract allows a job
\* of the service, retries and deletions at any time included, but for one step:
\* the mock finds out that a photo has no face when the work is over, the
\* service before it starts.
MockKeepsContract ==
    /\ \A id \in MockIds : MockContract(id)!Init
    /\ [][\A id \in MockIds :
            \/ MockContract(id)!Next
            \/ MockContract(id)!Move(id, {"processing"}, "rejected")
            \/ UNCHANGED MockAnswer(id)]_mock

=============================================================================
