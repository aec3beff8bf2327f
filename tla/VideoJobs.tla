----------------------------- MODULE VideoJobs -----------------------------
(***************************************************************************)
(* The shorts service of the backend: jobs in a dictionary of the server   *)
(* process, one temporary directory per job, one encoder lane that the     *)
(* background tasks of all jobs wait for, and a TTL cleanup that runs when *)
(* somebody polls or creates a job.                                        *)
(*                                                                         *)
(* Background tasks, synchronous routes and reads of big uploads share the *)
(* thread pool of the web framework, which serves them in order; a task    *)
(* that waits for the lane keeps its thread.  An action is what a thread   *)
(* or the event loop does between two points where another can interfere:  *)
(* a section under _lock, or one operation on the file system.             *)
(***************************************************************************)
EXTENDS Naturals, FiniteSets, Sequences, SequencesExt

CONSTANTS
    Jobs,        \* ids a create request may draw (uuid4: never drawn twice)
    Requests,    \* GET and DELETE requests that may be in progress at once
    Loop,        \* event loop thread, which runs the create route
    NoJob,       \* "no job"
    PoolSize,    \* threads of the pool
    MaxCrashes,  \* bound: restarts of the server process
    Expirable,   \* bound: jobs whose 24 hours may pass
    ExpireLive   \* bound: they may pass before the job has ended

ASSUME VideoAssumption ==
    /\ Loop \notin Requests /\ NoJob \notin Jobs
    /\ Jobs \intersect Requests = {}
    /\ PoolSize \in Nat \ {0} /\ MaxCrashes \in Nat
    /\ Expirable \subseteq Jobs /\ ExpireLive \in BOOLEAN

VARIABLES
    crashes,  \* restarts so far
    jobs,     \* _jobs: job id -> status, "none" when it is not a key
    dirs,     \* job id -> what its directory holds, "dir" standing for itself
    expired,  \* jobs created at least TTL_HOURS ago
    crt,      \* job id -> step of its create request
    task,     \* job id -> step of its background task
    act,      \* request or event loop -> what it is doing
    line,     \* those who wait for a thread of the pool, first come first
    lane      \* the job that holds _worker_lock

vars == <<crashes, jobs, dirs, expired, crt, task, act, line, lane>>

Terminal == {"completed", "failed"}
Live == {"queued", "processing"}

\* "source" stands for the uploads, "scratch" for the caption and mask files.
Files == {"source", "scratch", "video"}

Threads == Requests \cup {Loop}
Idle == [pc |-> "idle", kind |-> "poll", job |-> NoJob, todo |-> {}, left |-> {}]
ThreadState ==
    [pc : {"idle", "line", "enter", "next", "unlink"}, kind : {"poll", "delete"},
     job : Jobs \cup {NoJob}, todo : SUBSET Jobs, left : SUBSET Files]

CreateSteps == {"none", "clean", "read", "reading", "done", "error", "lost"}
TaskSteps == {"none", "line", "lane", "begin", "load", "open", "track", "prepare",
              "written", "render", "encode", "encoded", "scrub", "finish",
              "unwind", "unwindPartial", "scrubFailed", "failed", "end", "done"}

\* A key of _jobs.
Present(j) == jobs[j] # "none"

\* Who has a thread of the pool.
InPool ==
    {j \in Jobs : task[j] \notin {"none", "line", "done"} \/ crt[j] = "reading"}
      \cup {r \in Requests : act[r].pc \notin {"idle", "line"}}

Init ==
    /\ crashes = 0
    /\ jobs = [j \in Jobs |-> "none"]
    /\ dirs = [j \in Jobs |-> {}]
    /\ expired = {}
    /\ crt = [j \in Jobs |-> "none"]
    /\ task = [j \in Jobs |-> "none"]
    /\ act = [t \in Threads |-> Idle]
    /\ line = <<>>
    /\ lane = NoJob

\* A restart forgets every job and deletes no directory: nothing in the
\* lifespan of main.py is about video jobs.
Crash ==
    /\ crashes < MaxCrashes
    /\ crashes' = crashes + 1
    /\ jobs' = [j \in Jobs |-> "none"]
    /\ crt' = [j \in Jobs |-> IF crt[j] = "none" THEN "none" ELSE "lost"]
    /\ task' = [j \in Jobs |-> "none"]
    /\ act' = [t \in Threads |-> Idle]
    /\ line' = <<>>
    /\ lane' = NoJob
    /\ UNCHANGED <<dirs, expired>>

\* Twenty-four hours have passed since the job was stored.
Expire(j) ==
    /\ j \in Expirable \ expired
    /\ Present(j)
    /\ ExpireLive \/ jobs[j] \in Terminal
    /\ expired' = expired \cup {j}
    /\ UNCHANGED <<crashes, jobs, dirs, crt, task, act, line, lane>>

-----------------------------------------------------------------------------
(* The thread pool *)

\* The event loop is busy from the start of a create request to its first wait.
LoopFree == act[Loop].pc = "idle" /\ \A j \in Jobs : crt[j] # "clean"

\* The first in line gets a thread.
Grant ==
    /\ LoopFree
    /\ line # <<>>
    /\ Cardinality(InPool) < PoolSize
    /\ LET x == Head(line) IN
         IF x \in Requests
           THEN /\ act' = [act EXCEPT ![x].pc = "enter"]
                /\ UNCHANGED <<crt, task>>
           ELSE IF crt[x] = "read"
             THEN /\ crt' = [crt EXCEPT ![x] = "reading"]
                  /\ UNCHANGED <<act, task>>
             ELSE /\ task' = [task EXCEPT ![x] = "lane"]
                  /\ UNCHANGED <<act, crt>>
    /\ line' = Tail(line)
    /\ UNCHANGED <<crashes, jobs, dirs, expired, lane>>

-----------------------------------------------------------------------------
(* Removal of jobs.  A job is first taken out of _jobs, by one thread, which *)
(* then removes its directory while whoever works on the job goes on.        *)

\* Mutant: the cleanup takes the jobs out after it has removed the directories.
PopExpiredLater(t) ==
    /\ LET gone == {j \in Jobs : Present(j) /\ j \in expired} IN
         /\ act' = [act EXCEPT ![t].pc = "next", ![t].todo = gone]
         /\ UNCHANGED jobs
    /\ UNCHANGED <<crashes, dirs, expired, crt, task, line, lane>>

\* The section of _cleanup_expired under _lock.
PopExpired(t) ==
    /\ LET gone == {j \in Jobs : Present(j) /\ j \in expired} IN
         /\ act' = [act EXCEPT ![t].pc = "next", ![t].todo = gone]
         /\ jobs' = [j \in Jobs |-> IF j \in gone THEN "none" ELSE jobs[j]]
    /\ UNCHANGED <<crashes, dirs, expired, crt, task, line, lane>>

\* rmtree reads the directory once and ignores every error after that.
RemoveNext(t) ==
    /\ act[t].pc = "next"
    /\ \E j \in act[t].todo :
         act' = [act EXCEPT ![t].todo = @ \ {j},
                            ![t].pc = IF dirs[j] = {} THEN "next" ELSE "unlink",
                            ![t].job = j,
                            ![t].left = dirs[j] \ {"dir"}]
    /\ UNCHANGED <<crashes, jobs, dirs, expired, crt, task, line, lane>>

RemoveFile(t) ==
    /\ act[t].pc = "unlink"
    /\ \E f \in act[t].left :
         /\ dirs' = [dirs EXCEPT ![act[t].job] = @ \ {f}]
         /\ act' = [act EXCEPT ![t].left = @ \ {f}]
    /\ UNCHANGED <<crashes, jobs, expired, crt, task, line, lane>>

\* The rmdir fails when a file was written in the meantime.
RemoveDir(t) ==
    /\ act[t].pc = "unlink"
    /\ act[t].left = {}
    /\ dirs' = [dirs EXCEPT ![act[t].job] = IF @ = {"dir"} THEN {} ELSE @]
    /\ act' = [act EXCEPT ![t].pc = "next", ![t].job = NoJob]
    /\ UNCHANGED <<crashes, jobs, expired, crt, task, line, lane>>

\* A GET looks its job up and answers, a DELETE answers; neither changes a thing.
Answer(r) ==
    /\ act[r].pc = "next"
    /\ act[r].todo = {}
    /\ act' = [act EXCEPT ![r] = Idle]
    /\ UNCHANGED <<crashes, jobs, dirs, expired, crt, task, line, lane>>

-----------------------------------------------------------------------------
(* The synchronous routes.  A client asks only for ids it was given.         *)

Known(j) == crt[j] \in {"done", "lost"}

\* A poll cleans up first; which job it is about makes no difference to the state.
RequestPoll(r) ==
    /\ LoopFree
    /\ act[r].pc = "idle"
    /\ \E j \in Jobs : Known(j)
    /\ act' = [act EXCEPT ![r].pc = "line"]
    /\ line' = Append(line, r)
    /\ UNCHANGED <<crashes, jobs, dirs, expired, crt, task, lane>>

RequestDelete(r) ==
    /\ LoopFree
    /\ act[r].pc = "idle"
    /\ \E j \in Jobs :
         /\ Known(j)
         /\ act' = [act EXCEPT ![r] = [Idle EXCEPT !.pc = "line", !.kind = "delete", !.job = j]]
    /\ line' = Append(line, r)
    /\ UNCHANGED <<crashes, jobs, dirs, expired, crt, task, lane>>

Poll(r) ==
    /\ act[r].pc = "enter"
    /\ act[r].kind = "poll"
    /\ PopExpired(r)

\* Mutant: a job that the worker has can be deleted.
DeleteProcessing(r) ==
    LET j == act[r].job IN
    /\ act[r].pc = "enter"
    /\ act[r].kind = "delete"
    /\ Present(j) /\ jobs[j] # "queued"
    /\ jobs' = [jobs EXCEPT ![j] = "none"]
    /\ act' = [act EXCEPT ![r].pc = "next", ![r].todo = {j}]
    /\ UNCHANGED <<crashes, dirs, expired, crt, task, line, lane>>

Delete(r) ==
    LET j == act[r].job IN
    /\ act[r].pc = "enter"
    /\ act[r].kind = "delete"
    /\ jobs[j] \in Terminal
    /\ jobs' = [jobs EXCEPT ![j] = "none"]
    /\ act' = [act EXCEPT ![r].pc = "next", ![r].todo = {j}]
    /\ UNCHANGED <<crashes, dirs, expired, crt, task, line, lane>>

\* 404, or 409 for a job that is queued or processing.
DeleteRefused(r) ==
    /\ act[r].pc = "enter"
    /\ act[r].kind = "delete"
    /\ jobs[act[r].job] \notin Terminal
    /\ act' = [act EXCEPT ![r] = Idle]
    /\ UNCHANGED <<crashes, jobs, dirs, expired, crt, task, line, lane>>

-----------------------------------------------------------------------------
(* POST /video-jobs.  A coroutine: its cleanup runs without a wait, the      *)
(* reads of the uploads wait for a thread of the pool.                       *)

Create(j) ==
    /\ LoopFree
    /\ crt[j] = "none"
    /\ crt' = [crt EXCEPT ![j] = "clean"]
    /\ act' = [act EXCEPT ![Loop] = [Idle EXCEPT !.pc = "enter"]]
    /\ UNCHANGED <<crashes, jobs, dirs, expired, task, line, lane>>

CreateClean == act[Loop].pc = "enter" /\ PopExpired(Loop)

\* The end of the cleanup: the form is invalid, or the directory is made and
\* the first upload opened.  One wait stands for all those of the request: until
\* the job is stored nobody else knows its id.
CreateOpen(j) ==
    /\ crt[j] = "clean"
    /\ act[Loop].pc = "next"
    /\ act[Loop].todo = {}
    /\ act' = [act EXCEPT ![Loop] = Idle]
    /\ \/ /\ crt' = [crt EXCEPT ![j] = "error"]
          /\ UNCHANGED <<dirs, line>>
       \/ /\ crt' = [crt EXCEPT ![j] = "read"]
          /\ dirs' = [dirs EXCEPT ![j] = {"dir", "source"}]
          /\ line' = Append(line, j)
    /\ UNCHANGED <<crashes, jobs, expired, task, lane>>

\* An upload is empty, too big, of another type, or cannot be written.
CreateRejected(j) ==
    /\ LoopFree
    /\ crt[j] = "reading"
    /\ crt' = [crt EXCEPT ![j] = "error"]
    /\ dirs' = [dirs EXCEPT ![j] = {}]
    /\ UNCHANGED <<crashes, jobs, expired, task, act, line, lane>>

\* The answer, and the background task that follows it.
CreateStore(j) ==
    /\ LoopFree
    /\ crt[j] = "reading"
    /\ crt' = [crt EXCEPT ![j] = "done"]
    /\ jobs' = [jobs EXCEPT ![j] = "queued"]
    /\ task' = [task EXCEPT ![j] = "line"]
    /\ line' = Append(line, j)
    /\ UNCHANGED <<crashes, dirs, expired, act, lane>>

-----------------------------------------------------------------------------
(* The background task: _run_job, _process_job and process_shorts.           *)

Goto(j, step) == task' = [task EXCEPT ![j] = step]

TakeLane(j) ==
    /\ task[j] = "lane"
    /\ lane = NoJob
    /\ lane' = j
    /\ Goto(j, "begin")
    /\ UNCHANGED <<crashes, jobs, dirs, expired, crt, act, line>>

\* Mutant: the task waits for the entry of its job, as if it were still to come.
BeginAwaitsEntry(j) ==
    /\ task[j] = "begin" /\ Present(j)
    /\ jobs' = [jobs EXCEPT ![j] = "processing"]
    /\ Goto(j, "load")
    /\ UNCHANGED <<crashes, dirs, expired, crt, act, line, lane>>

\* _set_job raises KeyError for a job that was taken out.  Here nobody catches it.
Begin(j) ==
    /\ task[j] = "begin"
    /\ IF Present(j)
         THEN /\ jobs' = [jobs EXCEPT ![j] = "processing"]
              /\ Goto(j, "load")
         ELSE /\ Goto(j, "end")
              /\ UNCHANGED jobs
    /\ UNCHANGED <<crashes, dirs, expired, crt, act, line, lane>>

Load(j) ==
    /\ task[j] = "load"
    /\ Goto(j, IF Present(j) THEN "open" ELSE "end")
    /\ UNCHANGED <<crashes, jobs, dirs, expired, crt, act, line, lane>>

\* The directory of the output is made even if the job was taken out and its
\* directory removed.
OpenOutput(j) ==
    /\ task[j] = "open"
    /\ dirs' = [dirs EXCEPT ![j] = @ \cup {"dir"}]
    /\ Goto(j, "track")
    /\ UNCHANGED <<crashes, jobs, expired, crt, act, line, lane>>

\* Every report of progress is a _set_job.
Track(j) ==
    /\ task[j] = "track"
    /\ "source" \in dirs[j]
    /\ Goto(j, IF Present(j) THEN "prepare" ELSE "failed")
    /\ UNCHANGED <<crashes, jobs, dirs, expired, crt, act, line, lane>>

\* Mutant: the preparation of the clips is not inside the try.
PrepareFailsUncaught(j) ==
    /\ task[j] \in {"open", "track"}
    /\ Goto(j, "end")
    /\ UNCHANGED <<crashes, jobs, dirs, expired, crt, act, line, lane>>

\* No ffmpeg, or a clip that cannot be read or is shorter than its range.
PrepareFails(j) ==
    /\ task[j] \in {"open", "track"}
    /\ Goto(j, "failed")
    /\ UNCHANGED <<crashes, jobs, dirs, expired, crt, act, line, lane>>

WriteScratch(j) ==
    /\ task[j] = "prepare"
    /\ "dir" \in dirs[j]
    /\ dirs' = [dirs EXCEPT ![j] = @ \cup {"scratch"}]
    /\ Goto(j, "written")
    /\ UNCHANGED <<crashes, jobs, expired, crt, act, line, lane>>

\* The paths of the caption and mask files are recorded only when they are
\* complete: what a failing writer leaves behind, the finally does not know.
WriteScratchPartial(j) ==
    /\ task[j] = "prepare"
    /\ "dir" \in dirs[j]
    /\ dirs' = [dirs EXCEPT ![j] = @ \cup {"scratch"}]
    /\ Goto(j, "unwindPartial")
    /\ UNCHANGED <<crashes, jobs, expired, crt, act, line, lane>>

ReportWritten(j) ==
    /\ task[j] = "written"
    /\ Goto(j, IF Present(j) THEN "render" ELSE "unwind")
    /\ UNCHANGED <<crashes, jobs, dirs, expired, crt, act, line, lane>>

\* ffmpeg opens its inputs, then creates its output.
StartRender(j) ==
    /\ task[j] = "render"
    /\ {"dir", "source", "scratch"} \subseteq dirs[j]
    /\ dirs' = [dirs EXCEPT ![j] = @ \cup {"video"}]
    /\ Goto(j, "encode")
    /\ UNCHANGED <<crashes, jobs, expired, crt, act, line, lane>>

\* Exit status 0, whatever has been unlinked in the meantime.
Encoded(j) ==
    /\ task[j] = "encode"
    /\ Goto(j, "encoded")
    /\ UNCHANGED <<crashes, jobs, dirs, expired, crt, act, line, lane>>

RenderFails(j) ==
    /\ task[j] \in {"prepare", "render", "encode"}
    /\ Goto(j, "unwind")
    /\ UNCHANGED <<crashes, jobs, dirs, expired, crt, act, line, lane>>

ReportEncoded(j) ==
    /\ task[j] = "encoded"
    /\ Goto(j, IF Present(j) THEN "scrub" ELSE "unwind")
    /\ UNCHANGED <<crashes, jobs, dirs, expired, crt, act, line, lane>>

\* Mutant: the output of a failed run is left behind.
UnwindKeepsOutput(j) ==
    /\ task[j] \in {"unwind", "unwindPartial"}
    /\ Goto(j, IF task[j] = "unwind" THEN "scrubFailed" ELSE "failed")
    /\ UNCHANGED <<crashes, jobs, dirs, expired, crt, act, line, lane>>

\* The except of process_shorts.
Unwind(j) ==
    /\ task[j] \in {"unwind", "unwindPartial"}
    /\ dirs' = [dirs EXCEPT ![j] = @ \ {"video"}]
    /\ Goto(j, IF task[j] = "unwind" THEN "scrubFailed" ELSE "failed")
    /\ UNCHANGED <<crashes, jobs, expired, crt, act, line, lane>>

\* The finally of process_shorts.
Scrub(j) ==
    /\ task[j] \in {"scrub", "scrubFailed"}
    /\ dirs' = [dirs EXCEPT ![j] = @ \ {"scratch"}]
    /\ Goto(j, IF task[j] = "scrub" THEN "finish" ELSE "failed")
    /\ UNCHANGED <<crashes, jobs, expired, crt, act, line, lane>>

\* The last report of progress and the result; a KeyError of either is caught.
Finish(j) ==
    /\ task[j] = "finish"
    /\ IF Present(j)
         THEN /\ jobs' = [jobs EXCEPT ![j] = "completed"]
              /\ Goto(j, "end")
         ELSE /\ Goto(j, "failed")
              /\ UNCHANGED jobs
    /\ UNCHANGED <<crashes, dirs, expired, crt, act, line, lane>>

\* Mutant: a status the front end does not know.
FailedAsError(j) ==
    /\ task[j] = "failed"
    /\ jobs' = [jobs EXCEPT ![j] = IF Present(j) THEN "error" ELSE "none"]
    /\ Goto(j, "end")
    /\ UNCHANGED <<crashes, dirs, expired, crt, act, line, lane>>

\* The except of _process_job, whose own KeyError nobody catches.
Failed(j) ==
    /\ task[j] = "failed"
    /\ jobs' = [jobs EXCEPT ![j] = IF Present(j) THEN "failed" ELSE "none"]
    /\ Goto(j, "end")
    /\ UNCHANGED <<crashes, dirs, expired, crt, act, line, lane>>

\* Mutant: the lane is released only by a task that has recorded its outcome.
EndKeepsLane(j) ==
    /\ task[j] = "end"
    /\ lane' = IF Present(j) THEN NoJob ELSE lane
    /\ Goto(j, "done")
    /\ UNCHANGED <<crashes, jobs, dirs, expired, crt, act, line>>

End(j) ==
    /\ task[j] = "end"
    /\ lane' = NoJob
    /\ Goto(j, "done")
    /\ UNCHANGED <<crashes, jobs, dirs, expired, crt, act, line>>

-----------------------------------------------------------------------------

CreateNext(j) == Create(j) \/ CreateOpen(j) \/ CreateStore(j) \/ CreateRejected(j)

RemoveStep(t) == RemoveNext(t) \/ RemoveFile(t) \/ RemoveDir(t)

Serve(r) == Poll(r) \/ Delete(r) \/ DeleteRefused(r) \/ RemoveStep(r) \/ Answer(r)

Work(j) ==
    \/ Begin(j) \/ Load(j) \/ OpenOutput(j) \/ Track(j) \/ PrepareFails(j)
    \/ WriteScratch(j) \/ WriteScratchPartial(j) \/ ReportWritten(j)
    \/ StartRender(j) \/ Encoded(j) \/ RenderFails(j) \/ ReportEncoded(j)
    \/ Unwind(j) \/ Scrub(j) \/ Finish(j) \/ Failed(j) \/ End(j)

Next ==
    \/ Crash \/ Grant \/ CreateClean \/ RemoveStep(Loop)
    \/ \E j \in Jobs : Expire(j) \/ CreateNext(j) \/ TakeLane(j) \/ Work(j)
    \/ \E r \in Requests : RequestPoll(r) \/ RequestDelete(r) \/ Serve(r)

Spec == Init /\ [][Next]_vars

\* The event loop and every thread go on, ffmpeg ends, and a free lane is taken
\* by one of those who wait for it: the lock says nothing about which.  Clients
\* owe nothing.
Fairness ==
    /\ WF_vars(Grant)
    /\ WF_vars(CreateClean \/ RemoveStep(Loop))
    /\ WF_vars(\E j \in Jobs : TakeLane(j))
    /\ \A j \in Jobs : WF_vars(Work(j))
    /\ \A j \in Jobs : WF_vars(CreateOpen(j) \/ CreateStore(j) \/ CreateRejected(j))
    /\ \A r \in Requests : WF_vars(Serve(r))

FairSpec == Spec /\ Fairness

-----------------------------------------------------------------------------
(* Properties *)

\* Every variable has its type: no handler stores a status, a step or a file that
\* the others do not know.
TypeOK ==
    /\ crashes \in Nat
    /\ jobs \in [Jobs -> {"none"} \cup Live \cup Terminal]
    /\ dirs \in [Jobs -> SUBSET (Files \cup {"dir"})]
    /\ expired \subseteq Jobs
    /\ crt \in [Jobs -> CreateSteps]
    /\ task \in [Jobs -> TaskSteps]
    /\ act \in [Threads -> ThreadState]
    /\ line \in Seq(Jobs \cup Requests)
    /\ lane \in Jobs \cup {NoJob}

\* A job that says it is processing has the encoder: the others say queued,
\* and no failure of the engine leaves the word standing.
ProcessingHasLane == \A j \in Jobs : jobs[j] = "processing" => lane = j

\* A job that says it is completed has its video: a job is taken out before its
\* files are removed.  What GET /video finds after it let go of _lock is not said.
CompletedHasVideo ==
    \A j \in Jobs : jobs[j] = "completed" => "video" \in dirs[j]

\* Who still has something to do with the files of a job.
Handled(j) ==
    \/ task[j] # "done"
    \/ \E t \in Threads : j \in act[t].todo \/ (j = act[t].job /\ act[t].pc = "unlink")

\* Once a job was taken out, be it in the middle of its encoding, and everyone
\* is done with it, neither the client's clips nor the video remain on the disk.
RemovedLeavesNoVideo ==
    \A j \in Jobs :
      crt[j] = "done" /\ ~Present(j) /\ ~Handled(j)
        => dirs[j] \intersect {"source", "video"} = {}

\* A job that was accepted ends, or is taken out or lost: no order in which
\* failures, removals and the lane can come together keeps it waiting forever.
AcceptedEnds ==
    \A j \in Jobs : (crt[j] = "done") ~> (jobs[j] \in Terminal \cup {"none"})

\* A poll is answered even when tasks that wait for the lane hold every thread.
RequestAnswered ==
    \A r \in Requests : (act[r].pc = "line") ~> (act[r].pc = "idle")

\* A promise the page makes, "원본과 결과는 24시간 후 삭제돼요" (shorts-generator.tsx:1198):
\* what is left of a job whose 24 hours have passed is removed.
ExpiredFilesGo ==
    \A j \in Jobs : (j \in expired) ~> (dirs[j] \intersect {"source", "video"} = {})

=============================================================================
