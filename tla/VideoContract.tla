--------------------------- MODULE VideoContract ---------------------------
(***************************************************************************)
(* The shorts service as an implementation of JobContract.                 *)
(***************************************************************************)
EXTENDS VideoJobs

\* get_video_job (of a job whose TTL has not passed).
Answered(j) ==
    CASE Present(j) -> jobs[j]
      [] ~Present(j) /\ crt[j] = "done" -> "gone"
      [] OTHER -> "none"

answered == [j \in Jobs |-> Answered(j)]

Contract == INSTANCE JobContract WITH answer <- answered

\* A restart forgets every job, and a job still waiting or running after its 24
\* hours is taken away under the client.
Kept == crashes' = crashes /\ \A j \in expired : jobs[j] \notin Live

\* In every other step a client sees each job queued, then processed once, then
\* ended, and sees only an ended job disappear: whatever fails in the engine, and
\* whoever polls, deletes and cleans up meanwhile.
KeepsContract ==
    /\ Contract!Init
    /\ [][Kept => [Contract!Next]_answered]_vars

=============================================================================
