---------------------------- MODULE FaceSwapJobs ----------------------------
(***************************************************************************)
(* The face-swap job service of the backend: one SQLite row and one        *)
(* directory of photos per job, an in-memory queue with a single worker    *)
(* thread, the request handlers of the router, the TTL cleanup, and        *)
(* restarts of the server process.                                         *)
(*                                                                         *)
(* An action is what a thread does between two points where another thread *)
(* can interfere: one SELECT, one COMMIT, one file operation or one        *)
(* operation on the queue.  Every commit is atomic; a read followed by a   *)
(* commit is not, and no handler holds a lock over the two.                *)
(***************************************************************************)
EXTENDS Naturals, FiniteSets, Sequences, SequencesExt

CONSTANTS
    Jobs,             \* ids a create request may draw (uuid4: never drawn twice)
    Requests,         \* threads of the pool that runs the synchronous routes
    Timer,            \* thread of the startup and periodic cleanup
    Loop,             \* event loop thread, which runs the create route
    NoJob,            \* "no job"
    Ratios,           \* result files of one job (1x1, 4x5, 9x16)
    ImageGenEnabled,  \* IMAGE_GEN_ENABLED: pipeline, or placeholder images
    MaxAttempt,       \* bound: no retry of a job whose row shows this attempt
    MaxCrashes,       \* bound: restarts of the server process
    Expirable         \* bound: jobs whose 24 hours may pass

ASSUME ActorsAssumption ==
    /\ IsFiniteSet(Requests)
    /\ Timer \notin Requests /\ Loop \notin Requests /\ Timer # Loop
    /\ NoJob \notin Jobs
    /\ {"dir", "source"} \intersect Ratios = {}

ASSUME BoundsAssumption ==
    /\ ImageGenEnabled \in BOOLEAN
    /\ MaxAttempt \in Nat /\ MaxCrashes \in Nat
    /\ Expirable \subseteq Jobs

VARIABLES
    phase,    \* of the process: "recover", "clean" (startup cleanup), "up"
    crashes,  \* restarts so far
    db,       \* job id -> row of face_swap_jobs, or NoRow
    files,    \* job id -> what its directory holds, "dir" standing for itself
    expired,  \* jobs created at least RESULT_TTL_HOURS ago
    photo,    \* job id -> what the uploaded photo is
    crt,      \* job id -> step of its create request
    act,      \* thread -> what it is doing, for Requests, Timer and Loop
    pending,  \* job_queue._pending
    queue,    \* job_queue._queue
    wk        \* the worker thread

vars == <<phase, crashes, db, files, expired, photo, crt, act, pending, queue, wk>>

-----------------------------------------------------------------------------
(* Values *)

Terminal == {"completed", "failed"}
Live == {"queued", "processing"}

\* error_json: "face" is the pre-check's verdict and the only one that is not
\* retryable; "generation" and "restarted" carry different messages.
Errors == {"face", "generation", "restarted"}
Retryable == {"generation", "restarted"}

NoRow == [status |-> "none", attempt |-> 0, results |-> FALSE, error |-> "none"]
Row == [status : {"none"} \cup Live \cup Terminal, attempt : Nat,
        results : BOOLEAN, error : {"none"} \cup Errors]

Cleaners == {Timer, Loop}
Threads == Requests \cup Cleaners

ThreadState ==
    [pc : {"idle", "commit", "append", "put", "image", "next", "list",
           "unlink", "row", "error"},
     job : Jobs \cup {NoJob}, attempt : Nat,
     todo : SUBSET Jobs, left : SUBSET ({"source"} \cup Ratios), fresh : BOOLEAN]

Idle == [pc |-> "idle", job |-> NoJob, attempt |-> 0, todo |-> {}, left |-> {},
         fresh |-> TRUE]

IdleWorker == [pc |-> "idle", job |-> NoJob, error |-> "none", left |-> {}]

\* The verdicts a create request can meet once its form fields are valid.  With
\* the models on, _validate_face opens the photo first; with them off nothing
\* looks at it before save_source does.
Photos == IF ImageGenEnabled THEN {"good", "faceless"} ELSE {"good", "corrupt"}

Exists(j) == db[j].status # "none"

\* _is_expired, and the WHERE clause of cleanup_expired_jobs.
IsExpired(j) == db[j].status \in Terminal /\ j \in expired

Init ==
    /\ phase = "recover"
    /\ crashes = 0
    /\ db = [j \in Jobs |-> NoRow]
    /\ files = [j \in Jobs |-> {}]
    /\ expired = {}
    /\ photo = [j \in Jobs |-> "unread"]
    /\ crt = [j \in Jobs |-> "none"]
    /\ act = [t \in Threads |-> Idle]
    /\ pending = <<>>
    /\ queue = <<>>
    /\ wk = IdleWorker

-----------------------------------------------------------------------------
(* Restart: the lifespan of main.py.  Rows and files survive, the rest does  *)
(* not; requests come in, and the worker starts, only when it is over.       *)

\* A create request that a crash cuts off leaves its client without a job id.
Crash ==
    /\ crashes < MaxCrashes
    /\ crashes' = crashes + 1
    /\ phase' = "recover"
    /\ crt' = [j \in Jobs |-> IF crt[j] \in {"none", "done"} THEN crt[j] ELSE "error"]
    /\ act' = [t \in Threads |-> Idle]
    /\ pending' = <<>>
    /\ queue' = <<>>
    /\ wk' = IdleWorker
    /\ UNCHANGED <<db, files, expired, photo>>

\* Mutant: a status the front end does not know.
RecoverStaleJobUpperCase(j) ==
    /\ phase = "recover"
    /\ db[j].status \in Live
    /\ db' = [db EXCEPT ![j].status = "FAILED", ![j].error = "restarted"]
    /\ UNCHANGED <<phase, crashes, files, expired, photo, crt, act, pending, queue, wk>>

RecoverStaleJob(j) ==
    /\ phase = "recover"
    /\ db[j].status \in Live
    /\ db' = [db EXCEPT ![j].status = "failed", ![j].error = "restarted"]
    /\ UNCHANGED <<phase, crashes, files, expired, photo, crt, act, pending, queue, wk>>

\* Mutant: failed jobs are not cleaned up.
QueryCompletedOnly ==
    [Idle EXCEPT !.pc = "next",
                 !.todo = {j \in Jobs : IsExpired(j) /\ db[j].status = "completed"}]

\* Mutant: the query has no condition on the status.
QueryAnyStatus ==
    [Idle EXCEPT !.pc = "next", !.todo = {j \in Jobs : Exists(j) /\ j \in expired}]

\* The query of cleanup_expired_jobs, in a session of its own.
Query == [Idle EXCEPT !.pc = "next", !.todo = {j \in Jobs : IsExpired(j)}]

\* Mutant: only queued jobs are recovered.
RecoverDoneQueuedOnly ==
    /\ phase = "recover"
    /\ \A j \in Jobs : db[j].status # "queued"
    /\ phase' = "clean"
    /\ act' = [act EXCEPT ![Timer] = Query]
    /\ UNCHANGED <<crashes, db, files, expired, photo, crt, pending, queue, wk>>

RecoverDone ==
    /\ phase = "recover"
    /\ \A j \in Jobs : db[j].status \notin Live
    /\ phase' = "clean"
    /\ act' = [act EXCEPT ![Timer] = Query]
    /\ UNCHANGED <<crashes, db, files, expired, photo, crt, pending, queue, wk>>

\* Twenty-four hours have passed since the row was created.
Expire(j) ==
    /\ j \in Expirable \ expired
    /\ Exists(j)
    /\ crt[j] \in {"done", "error"}
    /\ expired' = expired \cup {j}
    /\ UNCHANGED <<phase, crashes, db, files, photo, crt, act, pending, queue, wk>>

-----------------------------------------------------------------------------
(* TTL cleanup: the timer thread, and the event loop in every create request *)

\* The end of a cleanup.  The timer thread swallows an exception; in a create
\* request an exception is a 500 for the client.
EndCleanup(c, outcome) ==
    /\ act' = [act EXCEPT ![c] = Idle]
    /\ phase' = IF c = Timer /\ phase = "clean" THEN "up" ELSE phase
    /\ crt' = IF c = Loop
                THEN [j \in Jobs |-> IF crt[j] = "clean" THEN outcome ELSE crt[j]]
                ELSE crt
    /\ UNCHANGED <<crashes, db, files, expired, photo, pending, queue, wk>>

\* A cleanup that finds nothing to delete changes nothing.
StartPeriodicCleanup ==
    /\ phase = "up"
    /\ act[Timer].pc = "idle"
    /\ \E j \in Jobs : IsExpired(j)
    /\ act' = [act EXCEPT ![Timer] = Query]
    /\ UNCHANGED <<phase, crashes, db, files, expired, photo, crt, pending, queue, wk>>

\* Mutant: the cleanup deletes the row and forgets the files.
CleanNextRowOnly(c) ==
    /\ act[c].pc = "next"
    /\ \E j \in act[c].todo :
         /\ act[c].fresh \/ Exists(j)
         /\ act' = [act EXCEPT ![c].pc = "row", ![c].job = j, ![c].todo = @ \ {j}]
    /\ UNCHANGED <<phase, crashes, db, files, expired, photo, crt, pending, queue, wk>>

\* _delete_expired_job.  The first commit or rollback of the session expires
\* the other instances of the query, so that reading job.id loads the row again.
CleanNext(c) ==
    /\ act[c].pc = "next"
    /\ \E j \in act[c].todo :
         /\ act[c].fresh \/ Exists(j)
         /\ act' = [act EXCEPT ![c].pc = "list", ![c].job = j, ![c].todo = @ \ {j}]
    /\ UNCHANGED <<phase, crashes, db, files, expired, photo, crt, pending, queue, wk>>

\* ObjectDeletedError, raised a second time by the handler that logs job.id.
CleanNextGone(c) ==
    /\ act[c].pc = "next"
    /\ ~act[c].fresh
    /\ \E j \in act[c].todo : ~Exists(j)
    /\ EndCleanup(c, "error")

CleanDone(c) ==
    /\ act[c].pc = "next"
    /\ act[c].todo = {}
    /\ EndCleanup(c, "read")

-----------------------------------------------------------------------------
(* Deleting a job: delete_job_files and then the row.  Shared by the         *)
(* cleanups, by DELETE and by every lookup of an expired job.                *)

ListFiles(t) ==
    LET j == act[t].job IN
    /\ act[t].pc = "list"
    /\ act' = IF "dir" \in files[j]
                THEN [act EXCEPT ![t].pc = "unlink", ![t].left = files[j] \ {"dir"}]
                ELSE [act EXCEPT ![t].pc = "row"]
    /\ UNCHANGED <<phase, crashes, db, files, expired, photo, crt, pending, queue, wk>>

\* One unlink.  It raises when another thread has removed the file.
Unlink(t) ==
    LET j == act[t].job IN
    /\ act[t].pc = "unlink"
    /\ \E f \in act[t].left :
         IF f \in files[j]
           THEN /\ files' = [files EXCEPT ![j] = @ \ {f}]
                /\ act' = [act EXCEPT ![t].left = @ \ {f}]
           ELSE /\ act' = [act EXCEPT ![t].pc = "error", ![t].left = {}]
                /\ UNCHANGED files
    /\ UNCHANGED <<phase, crashes, db, expired, photo, crt, pending, queue, wk>>

\* The rmdir raises when the directory is gone or a file was written meanwhile.
Rmdir(t) ==
    LET j == act[t].job IN
    /\ act[t].pc = "unlink"
    /\ act[t].left = {}
    /\ IF files[j] = {"dir"}
         THEN /\ files' = [files EXCEPT ![j] = {}]
              /\ act' = [act EXCEPT ![t].pc = "row"]
         ELSE /\ act' = [act EXCEPT ![t].pc = "error"]
              /\ UNCHANGED files
    /\ UNCHANGED <<phase, crashes, db, expired, photo, crt, pending, queue, wk>>

\* Where a thread goes once the job at hand is dealt with: a cleanup to its
\* next job, a request to its answer.
AfterJob(t) ==
    IF t \in Cleaners
      THEN [act EXCEPT ![t].pc = "next", ![t].job = NoJob, ![t].fresh = FALSE]
      ELSE [act EXCEPT ![t] = Idle]

\* A DELETE that matches no row is a warning of the ORM, not an exception.
DeleteRow(t) ==
    /\ act[t].pc = "row"
    /\ db' = [db EXCEPT ![act[t].job] = NoRow]
    /\ act' = AfterJob(t)
    /\ UNCHANGED <<phase, crashes, files, expired, photo, crt, pending, queue, wk>>

\* The exception of a file operation.  A request answers 404 or 500; a cleanup
\* logs job.id, which needs the row, and goes on.
FilesFailed(t) ==
    /\ act[t].pc = "error"
    /\ t \in Cleaners => Exists(act[t].job)
    /\ act' = AfterJob(t)
    /\ UNCHANGED <<phase, crashes, db, files, expired, photo, crt, pending, queue, wk>>

FilesFailedGone(c) ==
    /\ act[c].pc = "error"
    /\ ~Exists(act[c].job)
    /\ EndCleanup(c, "error")

-----------------------------------------------------------------------------
(* POST /face-swap-jobs.  The route is a coroutine without an await but for  *)
(* the read of the upload, so its steps exclude those of other creates.      *)

Creating == {"clean", "save", "reject", "append", "put"}
LoopFree == \A j \in Jobs : crt[j] \notin Creating

CreateRequest(j) ==
    /\ phase = "up"
    /\ LoopFree
    /\ crt[j] = "none"
    /\ crt' = [crt EXCEPT ![j] = "clean"]
    /\ act' = [act EXCEPT ![Loop] = Query]
    /\ UNCHANGED <<phase, crashes, db, files, expired, photo, pending, queue, wk>>

\* The form fails a check that comes before the service is called.
CreateInvalid(j) ==
    /\ LoopFree
    /\ crt[j] = "read"
    /\ crt' = [crt EXCEPT ![j] = "error"]
    /\ UNCHANGED <<phase, crashes, db, files, expired, photo, act, pending, queue, wk>>

CreateRow(j) ==
    /\ LoopFree
    /\ crt[j] = "read"
    /\ \E p \in Photos : photo' = [photo EXCEPT ![j] = p]
    /\ db' = [db EXCEPT ![j] = [NoRow EXCEPT !.status = "queued", !.attempt = 1]]
    /\ crt' = [crt EXCEPT ![j] = "save"]
    /\ UNCHANGED <<phase, crashes, files, expired, act, pending, queue, wk>>

\* Mutant: the verdict of the pre-check is ignored.
CreateSaveSourceUnchecked(j) ==
    /\ crt[j] = "save"
    /\ files' = [files EXCEPT ![j] = @ \cup {"dir", "source"}]
    /\ crt' = [crt EXCEPT ![j] = IF photo[j] = "corrupt" THEN "error" ELSE "append"]
    /\ UNCHANGED <<phase, crashes, db, expired, photo, act, pending, queue, wk>>

\* save_source writes the bytes, then decodes them: a corrupt photo raises, and
\* nothing takes the row back.
CreateSaveSource(j) ==
    /\ crt[j] = "save"
    /\ files' = [files EXCEPT ![j] = @ \cup {"dir", "source"}]
    /\ crt' = [crt EXCEPT ![j] = CASE photo[j] = "corrupt" -> "error"
                                   [] photo[j] = "faceless" -> "reject"
                                   [] OTHER -> "append"]
    /\ UNCHANGED <<phase, crashes, db, expired, photo, act, pending, queue, wk>>

CreateMarkFailed(j) ==
    /\ crt[j] = "reject"
    /\ db' = [db EXCEPT ![j].status = "failed", ![j].error = "face"]
    /\ crt' = [crt EXCEPT ![j] = "done"]
    /\ UNCHANGED <<phase, crashes, files, expired, photo, act, pending, queue, wk>>

\* enqueue: _pending under the lock, _queue after it.
CreateAppend(j) ==
    /\ crt[j] = "append"
    /\ pending' = Append(pending, j)
    /\ crt' = [crt EXCEPT ![j] = "put"]
    /\ UNCHANGED <<phase, crashes, db, files, expired, photo, act, queue, wk>>

CreatePut(j) ==
    /\ crt[j] = "put"
    /\ queue' = Append(queue, j)
    /\ crt' = [crt EXCEPT ![j] = "done"]
    /\ UNCHANGED <<phase, crashes, db, files, expired, photo, act, pending, wk>>

-----------------------------------------------------------------------------
(* The synchronous routes.  A client asks only for ids it was given.         *)

Known(j) == crt[j] = "done"

\* get_job_or_404 up to its answer; a poll changes nothing unless LookupExpired.
Found(r, j) ==
    /\ phase = "up"
    /\ act[r].pc = "idle"
    /\ Known(j)
    /\ Exists(j)
    /\ ~IsExpired(j)

\* Every route deletes an expired job that it looks up.
LookupExpired(r, j) ==
    /\ phase = "up"
    /\ act[r].pc = "idle"
    /\ Known(j)
    /\ IsExpired(j)
    /\ act' = [act EXCEPT ![r].pc = "list", ![r].job = j]
    /\ UNCHANGED <<phase, crashes, db, files, expired, photo, crt, pending, queue, wk>>

\* Mutant: a job in progress can be deleted.
DeleteReadAnyStatus(r, j) ==
    /\ Found(r, j)
    /\ act' = [act EXCEPT ![r].pc = "list", ![r].job = j]
    /\ UNCHANGED <<phase, crashes, db, files, expired, photo, crt, pending, queue, wk>>

DeleteRead(r, j) ==
    /\ Found(r, j)
    /\ db[j].status \in Terminal
    /\ act' = [act EXCEPT ![r].pc = "list", ![r].job = j]
    /\ UNCHANGED <<phase, crashes, db, files, expired, photo, crt, pending, queue, wk>>

ImageRead(r, j) ==
    /\ Found(r, j)
    /\ db[j].status = "completed"
    /\ act' = [act EXCEPT ![r].pc = "image", ![r].job = j]
    /\ UNCHANGED <<phase, crashes, db, files, expired, photo, crt, pending, queue, wk>>

\* result_path makes the directory if it is missing.
ImagePath(r) ==
    /\ act[r].pc = "image"
    /\ files' = [files EXCEPT ![act[r].job] = @ \cup {"dir"}]
    /\ act' = [act EXCEPT ![r] = Idle]
    /\ UNCHANGED <<phase, crashes, db, expired, photo, crt, pending, queue, wk>>

RetryRead(r, j) ==
    /\ Found(r, j)
    /\ db[j].status = "failed"
    /\ db[j].error \in Retryable
    /\ db[j].attempt < MaxAttempt
    /\ act' = [act EXCEPT ![r].pc = "commit", ![r].job = j, ![r].attempt = db[j].attempt]
    /\ UNCHANGED <<phase, crashes, db, files, expired, photo, crt, pending, queue, wk>>

\* Mutant: the error of the last attempt stays.
RetryCommitKeepsError(r) ==
    LET j == act[r].job IN
    /\ act[r].pc = "commit"
    /\ IF Exists(j)
         THEN /\ db' = [db EXCEPT ![j].status = "processing",
                                  ![j].attempt = act[r].attempt + 1]
              /\ act' = [act EXCEPT ![r].pc = "append"]
         ELSE /\ act' = [act EXCEPT ![r] = Idle]
              /\ UNCHANGED db
    /\ UNCHANGED <<phase, crashes, files, expired, photo, crt, pending, queue, wk>>

\* The UPDATE writes what the request read plus one, whatever the row holds by
\* now.  It matches no row when the job was deleted: StaleDataError, a 500.
RetryCommit(r) ==
    LET j == act[r].job IN
    /\ act[r].pc = "commit"
    /\ IF Exists(j)
         THEN /\ db' = [db EXCEPT ![j].status = "processing", ![j].error = "none",
                                  ![j].attempt = act[r].attempt + 1]
              /\ act' = [act EXCEPT ![r].pc = "append"]
         ELSE /\ act' = [act EXCEPT ![r] = Idle]
              /\ UNCHANGED db
    /\ UNCHANGED <<phase, crashes, files, expired, photo, crt, pending, queue, wk>>

RetryAppend(r) ==
    /\ act[r].pc = "append"
    /\ pending' = Append(pending, act[r].job)
    /\ act' = [act EXCEPT ![r].pc = "put"]
    /\ UNCHANGED <<phase, crashes, db, files, expired, photo, crt, queue, wk>>

RetryPut(r) ==
    /\ act[r].pc = "put"
    /\ queue' = Append(queue, act[r].job)
    /\ act' = [act EXCEPT ![r] = Idle]
    /\ UNCHANGED <<phase, crashes, db, files, expired, photo, crt, pending, wk>>

-----------------------------------------------------------------------------
(* The worker: job_queue._run and process_job                                *)

WorkerGet ==
    /\ phase = "up"
    /\ wk.pc = "idle"
    /\ queue # <<>>
    /\ wk' = [IdleWorker EXCEPT !.pc = "load", !.job = Head(queue)]
    /\ queue' = Tail(queue)
    /\ UNCHANGED <<phase, crashes, db, files, expired, photo, crt, act, pending>>

WorkerLoad ==
    /\ wk.pc = "load"
    /\ wk' = [wk EXCEPT !.pc = IF Exists(wk.job) THEN "start" ELSE "done"]
    /\ UNCHANGED <<phase, crashes, db, files, expired, photo, crt, act, pending, queue>>

\* The commit of "processing".  On a row deleted since, StaleDataError leaves
\* process_job by way of its handler, whose session is unusable.
WorkerStart ==
    /\ wk.pc = "start"
    /\ IF Exists(wk.job)
         THEN /\ db' = [db EXCEPT ![wk.job].status = "processing"]
              /\ wk' = [wk EXCEPT !.pc = "read"]
         ELSE /\ wk' = [wk EXCEPT !.pc = "done"]
              /\ UNCHANGED db
    /\ UNCHANGED <<phase, crashes, files, expired, photo, crt, act, pending, queue>>

\* job.payload_json: the commit expired the instance, so the row is loaded again
\* and the worker keeps what it holds, error_json among it, until it is done.
WorkerRead ==
    /\ wk.pc = "read"
    /\ wk' = IF Exists(wk.job)
               THEN [wk EXCEPT !.pc = "open", !.error = db[wk.job].error, !.left = Ratios]
               ELSE [wk EXCEPT !.pc = "done"]
    /\ UNCHANGED <<phase, crashes, db, files, expired, photo, crt, act, pending, queue>>

\* pipeline.run opens the source, in a directory it makes if need be; the
\* placeholder branch does not look at it.
WorkerOpen ==
    /\ wk.pc = "open"
    /\ IF ImageGenEnabled
         THEN /\ files' = [files EXCEPT ![wk.job] = @ \cup {"dir"}]
              /\ wk' = [wk EXCEPT !.pc = IF "source" \in files[wk.job] THEN "run" ELSE "fail"]
         ELSE /\ wk' = [wk EXCEPT !.pc = "run"]
              /\ UNCHANGED files
    /\ UNCHANGED <<phase, crashes, db, expired, photo, crt, act, pending, queue>>

SaveResult ==
    /\ wk.pc = "run"
    /\ \E q \in wk.left :
         /\ files' = [files EXCEPT ![wk.job] = @ \cup {"dir", q}]
         /\ wk' = [wk EXCEPT !.left = @ \ {q}]
    /\ UNCHANGED <<phase, crashes, db, expired, photo, crt, act, pending, queue>>

\* Any exception of the generation, before or between the saves.
WorkerRaise ==
    /\ wk.pc = "run"
    /\ wk.left # {}
    /\ wk' = [wk EXCEPT !.pc = "fail"]
    /\ UNCHANGED <<phase, crashes, db, files, expired, photo, crt, act, pending, queue>>

\* An attribute set to the value the session loaded is no change, and the
\* UPDATE leaves its column alone.
Changed(loaded, new, current) == IF new = loaded THEN current ELSE new

\* Mutant: completion leaves error_json alone.
WorkerCompleteKeepsError ==
    /\ wk.pc = "run"
    /\ wk.left = {}
    /\ wk' = [wk EXCEPT !.pc = "done"]
    /\ IF Exists(wk.job)
         THEN db' = [db EXCEPT ![wk.job].status = "completed", ![wk.job].results = TRUE]
         ELSE UNCHANGED db
    /\ UNCHANGED <<phase, crashes, files, expired, photo, crt, act, pending, queue>>

WorkerComplete ==
    /\ wk.pc = "run"
    /\ wk.left = {}
    /\ wk' = [wk EXCEPT !.pc = "done"]
    /\ IF Exists(wk.job)
         THEN db' = [db EXCEPT ![wk.job].status = "completed", ![wk.job].results = TRUE,
                               ![wk.job].error = Changed(wk.error, "none", @)]
         ELSE UNCHANGED db
    /\ UNCHANGED <<phase, crashes, files, expired, photo, crt, act, pending, queue>>

\* Mutant: an unexpected exception is only logged.
WorkerFailLogsOnly ==
    /\ wk.pc = "fail"
    /\ wk' = [wk EXCEPT !.pc = "done"]
    /\ UNCHANGED db
    /\ UNCHANGED <<phase, crashes, files, expired, photo, crt, act, pending, queue>>

WorkerFail ==
    /\ wk.pc = "fail"
    /\ wk' = [wk EXCEPT !.pc = "done"]
    /\ IF Exists(wk.job)
         THEN db' = [db EXCEPT ![wk.job].status = "failed",
                               ![wk.job].error = Changed(wk.error, "generation", @)]
         ELSE UNCHANGED db
    /\ UNCHANGED <<phase, crashes, files, expired, photo, crt, act, pending, queue>>

\* Mutant: the finished job stays in _pending.
WorkerDoneStaysPending ==
    /\ wk.pc = "done"
    /\ wk' = IdleWorker
    /\ UNCHANGED <<phase, crashes, db, files, expired, photo, crt, act, pending, queue>>

\* The finally of _run: until here the running job counts as waiting.
WorkerDone ==
    /\ wk.pc = "done"
    /\ pending' = RemoveFirst(pending, wk.job)
    /\ wk' = IdleWorker
    /\ UNCHANGED <<phase, crashes, db, files, expired, photo, crt, act, queue>>

-----------------------------------------------------------------------------
(* The system *)

RestartStep == RecoverDone \/ \E j \in Jobs : RecoverStaleJob(j)

\* What a thread that deletes a job does next.
DeleteStep(t) ==
    \/ ListFiles(t) \/ Unlink(t) \/ Rmdir(t) \/ DeleteRow(t) \/ FilesFailed(t)

CleanerStep(c) ==
    \/ CleanNext(c) \/ CleanNextGone(c) \/ CleanDone(c) \/ FilesFailedGone(c)
    \/ DeleteStep(c)

\* What a request does once it has made its lookup.
RequestStep(r) ==
    \/ ImagePath(r) \/ RetryCommit(r) \/ RetryAppend(r) \/ RetryPut(r)
    \/ DeleteStep(r)

Ask(r, j) == LookupExpired(r, j) \/ DeleteRead(r, j) \/ ImageRead(r, j) \/ RetryRead(r, j)

CreateStep(j) ==
    \/ CreateInvalid(j) \/ CreateRow(j) \/ CreateSaveSource(j)
    \/ CreateMarkFailed(j) \/ CreateAppend(j) \/ CreatePut(j)

WorkerStep ==
    \/ WorkerGet \/ WorkerLoad \/ WorkerStart \/ WorkerRead \/ WorkerOpen
    \/ SaveResult \/ WorkerRaise \/ WorkerComplete \/ WorkerFail \/ WorkerDone

\* No thread is in the middle of anything: the server waits for a request.
Waiting ==
    /\ phase = "up" /\ wk.pc = "idle" /\ queue = <<>>
    /\ \A t \in Threads : act[t].pc = "idle"
    /\ \A j \in Jobs : crt[j] \in {"none", "done", "error"}
    /\ UNCHANGED vars

Next ==
    \/ Crash \/ RestartStep \/ StartPeriodicCleanup \/ WorkerStep \/ Waiting
    \/ \E c \in Cleaners : CleanerStep(c)
    \/ \E j \in Jobs : CreateRequest(j) \/ CreateStep(j) \/ Expire(j)
    \/ \E r \in Requests : RequestStep(r) \/ \E j \in Jobs : Ask(r, j)

\* A thread that can go on does, and the periodic cleanup comes round again.
\* Nobody has to send a request, and no restart has to happen.
Fairness ==
    /\ WF_vars(RestartStep)
    /\ WF_vars(WorkerStep)
    /\ WF_vars(StartPeriodicCleanup)
    /\ \A c \in Cleaners : WF_vars(CleanerStep(c))
    /\ \A r \in Requests : WF_vars(RequestStep(r))
    /\ \A j \in Jobs : WF_vars(CreateStep(j))

Spec == Init /\ [][Next]_vars
FairSpec == Spec /\ Fairness

-----------------------------------------------------------------------------
(* Properties *)

\* The rows, directories, threads and queue hold what the code can put into them.
TypeOK ==
    /\ phase \in {"recover", "clean", "up"}
    /\ crashes \in Nat
    /\ db \in [Jobs -> Row]
    /\ files \in [Jobs -> SUBSET ({"dir", "source"} \cup Ratios)]
    /\ expired \subseteq Jobs
    /\ photo \in [Jobs -> {"unread", "good", "faceless", "corrupt"}]
    /\ crt \in [Jobs -> {"none", "read", "done", "error"} \cup Creating]
    /\ act \in [Threads -> ThreadState]
    /\ pending \in Seq(Jobs)
    /\ queue \in Seq(Jobs)
    /\ wk \in [pc : {"idle", "load", "start", "read", "open", "run", "fail", "done"},
               job : Jobs \cup {NoJob}, error : {"none"} \cup Errors, left : SUBSET Ratios]

\* Someone is still to settle job j: it waits in the queue, the worker has it,
\* or the retry request that revived it is about to put it into the queue.
Scheduled(j) ==
    \/ j \in ToSet(queue)
    \/ wk.job = j /\ wk.pc \notin {"idle", "done"}
    \/ \E r \in Requests : act[r].job = j /\ act[r].pc \in {"append", "put"}

\* A job whose client polls it, and whose row says queued or processing, is on
\* its way to the worker, whatever retries, deletions, cleanups and restarts
\* have raced: nothing else would ever settle it.
LiveJobIsScheduled ==
    phase # "recover" =>
        \A j \in Jobs : Known(j) /\ db[j].status \in Live => Scheduled(j)

Occurrences(s, j) == Cardinality({i \in DOMAIN s : s[i] = j})

\* position() counts exactly what is still to be worked off: _pending holds a job
\* once per entry of _queue, per run that is under way, and per enqueue that is
\* between its two steps.
PendingMatchesQueue ==
    \A j \in Jobs :
        Occurrences(pending, j) =
              Occurrences(queue, j)
            + (IF wk.job = j THEN 1 ELSE 0)
            + (IF crt[j] = "put" THEN 1 ELSE 0)
            + Cardinality({r \in Requests : act[r].job = j /\ act[r].pc = "put"})

\* A photo in which the pre-check found no face takes no time of the worker,
\* not by a retry and not after a restart that found the job half created.
FacelessNeverRuns ==
    \A j \in Jobs : photo[j] = "faceless" => wk.job # j /\ j \notin ToSet(queue)

\* A completed job shows its results and no error, however many runs and
\* retries of it overlapped.
CompletedIsWhole ==
    \A j \in Jobs : db[j].status = "completed" => db[j].results /\ db[j].error = "none"

\* The photos of a job go before its row does, so that a row is left to find
\* them by when a deletion fails or a restart interrupts it.
RowOutlivesPhotos ==
    \A j \in Jobs : ~Exists(j) => files[j] \subseteq {"dir"}

\* A client that polls a job sees the end of it: nobody polls forever.
PolledJobSettles ==
    \A j \in Jobs : (Known(j) /\ db[j].status \in Live) ~> db[j].status \notin Live

\* A result past its 24 hours goes away without anyone asking for it, unless a
\* retry brings its job to life again.
ExpiredJobGoes == \A j \in Jobs : IsExpired(j) ~> ~IsExpired(j)

\* cleanup_expired_jobs leaves queued and processing jobs alone.
CleanupSparesLiveJobs ==
    \A c \in Cleaners : act[c].pc = "row" => db[act[c].job].status \notin Live

\* Nor does any other deletion, by a DELETE request or by a lookup past the TTL,
\* take a queued or processing job, unless a retry has brought the job back since
\* the deletion looked at it: that can happen, and a first attempt never goes.
FirstAttemptSpared ==
    \A t \in Threads :
        act[t].pc = "row" /\ db[act[t].job].status \in Live => db[act[t].job].attempt > 1

\* The cleanup at the start of a create request cannot fail that request.
CleanupNeverFailsCreate ==
    [][\A j \in Jobs : crt[j] = "clean" /\ crt'[j] = "error" => phase' = "recover"]_vars

=============================================================================
