# SalonCutAI: specifications and proofs

SalonCutAI makes promotional material for hair salons: a FastAPI backend (`src/backend`), a
Next.js front end (`src/frontend`) that proxies to it, and shell scripts that pull and deploy the
`dev` branch on one VM (`src/.github`). This directory holds TLA+ models of the parts of it that
keep state, the TLC runs that check them, and TLAPS proofs about them.

    tlc -workers 2 -config faceswap_races.cfg FaceSwapJobs.tla
    tlapm FaceSwapJobsProofs.tla

`PROJECT.json` lists the runs, which lines of the source each definition stands for, the mutants
each property is tested with, the hazards of the code, and what disagrees with a comment of it.

## Inventory

| Component | State | Operations | Interacts with | What is hard, what must hold |
|---|---|---|---|---|
| Face-swap job service (`service/face_swap.py`, `image_gen/job_queue.py`, `image_gen/storage.py`, `api/face_swap.py`, `main.py`) | rows of `face_swap_jobs` in SQLite; one directory per job; `_pending` and `_queue` in memory | create, poll, retry, delete, image download, run, TTL cleanup (at start, every 5 minutes, in every create), recovery at start | page (polls every 2 s), pipeline, deployment (restarts) | no lock between a read and the commit that follows it; files, rows and queue change in separate steps; a restart at any point. Nobody polls forever; no live job is lost; no photo is orphaned; a completed job has its results |
| Image pipeline (`image_gen/*`) | model cache, result files | `run`, pre-check of the photo | worker | one GPU, any step may raise |
| Video job service (`api/video_jobs.py`) | `_jobs` in memory, temporary directories | create, poll, download, delete, run, cleanup on access | shorts editor, video engine, deployment | one encoder lane behind a lock, threads of a shared pool wait for it; the cleanup does not look at the status; a restart forgets all jobs |
| Video engine (`video_gen/*`) | none | clip ranges, order, captions, encoding | video jobs | boundaries of clip ranges |
| Authentication (`service/auth.py`) | one hashed refresh token per user | sign-in, refresh with rotation, access check | proxy | read-then-write rotation; two sign-ins or two refreshes at once |
| Session proxy (`api-client/server/response.ts`, `lib/session.ts`) | cookies of each browser, map of refresh promises | proxied request, refresh on a 401, explicit refresh | authentication, every API | one rotation per token, 500 ms after which the promise is dropped, failures that delete cookies |
| Pull deployment (`pull-deploy-dev.sh`, `deploy-dev.sh`) | checkout, last-success, dirty and alert markers, what each service runs | timer tick, CI gate, classification, backend and front-end steps, health checks | every service | `dev` moves during a deployment; any step may fail; the markers must not claim more than was deployed |
| Face-swap page (`app/face-swap/page.tsx`, `active-job.ts`, `recent-jobs.ts`) | React state, `localStorage` | restore, generate, poll, retry, delete, next photo, pick a recent job | job service through the proxy | answers that arrive late or for a job that was replaced |
| Mock API (`mock-store.ts`) | jobs with a scenario and a clock | the face-swap API without a backend | page | must promise what the backend promises |
| Shorts editor (`generate/shorts/*`, `clip-filmstrip.tsx`) | clip list, cuts, captions, job, bar | add, order, cut, caption, submit, poll, reset | video jobs, caption API, session | answers laid over a list that was sent seconds ago; limits agree with the backend's; what is shown was made from what was submitted |
| Blog page (`generate/blog/*`, `blog-profile.ts`) | form, profile cookie, the call | fill in, profile, generate | text generation, other tabs | the post belongs to the form |
| Face form (`face-option-form.tsx`) | the values of two modes | choose, filter, send | face-swap page, reference faces | only one side is sent, and it is complete |
| Text generation, reference faces, client error log, other pages | none or one file | request/answer | | stateless or presentation |

## Plan

1. `FaceSwapJobs` with `JobContract`/`FaceSwapContract`: the job service and its contract. *Done.*
2. `FaceSwapJobsProofs`: type correctness, live jobs are scheduled. *Done.*
3. `VideoJobs` with `VideoContract`, `VideoJobsProofs`: the video job service, its encoder lane and
   the thread pool it shares, against the same contract. *Done.*
4. `SessionRefresh`, `SessionRefreshProofs`: authentication composed with the proxy. *Done.*
5. `FaceSwapPage`, `FaceForm`, `FaceSwapPageProofs`: the page over the contract of step 1. *Done.*
6. `ShortsClips`, `ClipTrimmer`, `ShortsProgress`, `ShortsJob`, `BlogPage`, `MockStore`, composed
   for TLC in `MCWeb`, and the proofs about them. *Done.*
7. `FaceSwapContractProofs` and the rest of the proofs: the invariants of both job services, of the
   session, of the pages and of the submission, that both services and the mock implement
   `JobContract`, and the types of everything; with `Recursion`, the induction over lists that the
   proofs of the page and of the clip list need. *Done*, but for liveness.
8. Not begun: `PullDeploy` (timer ticks, a moving branch, failures at every step; what runs against
   what the markers say).

Which module stands on which:

    JobContract <- FaceSwapContract (FaceSwapJobs)     the services implement it
                <- VideoContract (VideoJobs)
                <- MockStore                           so does the mock
    JobContract -> FaceSwapPage, ShortsJob             the pages rely on it and on nothing else

## The face-swap job service

### `FaceSwapJobs`

An action is what a thread does between two points where another can interfere: one SELECT, one
COMMIT, one file operation, one operation on the queue.

| Variable | Code |
|---|---|
| `phase` | how far `lifespan` of `main.py` has come: recovery, startup cleanup, serving |
| `db` | the rows: `status`, `attempt`, whether `results_json`/`meta_json` are set, which error `error_json` holds |
| `files` | what the directory of a job holds; `"dir"` stands for the directory itself |
| `expired` | the jobs created more than `RESULT_TTL_HOURS` ago |
| `photo` | what the uploaded photo is: good, without a face, undecodable |
| `crt` | how far the create request of a job has come |
| `act` | for each request thread, the timer thread and the event loop: its step, its job, the `attempt` it read, the jobs its cleanup still has to delete, the files it still has to unlink, and whether its session still holds unexpired instances |
| `pending`, `queue` | `_pending` and `_queue` of `job_queue.py` |
| `wk` | the worker thread: its step, its job, the error its session has loaded, the results it still has to save |

What the model relies on, and why the code justifies it:

- SQLite reads see the last commit, and a commit is atomic. Sessions hold no transaction across a
  read and the commit that follows it in a way that would exclude another writer.
- The ORM writes the columns whose value changed with respect to what the session loaded
  (`Changed`), and every commit or rollback expires the instances, so that the next access to an
  attribute loads the row again. An UPDATE that matches no row raises `StaleDataError`, a DELETE
  that matches none is a warning.
- The create route is a coroutine whose only `await` is the read of the upload; its other steps
  exclude those of other creates (`LoopFree`). All other routes are plain functions and run in the
  thread pool; the periodic cleanup runs in `asyncio.to_thread`.
- A client learns the id of a job when its create request has returned, and asks for no other.
- With the models on, `_validate_face` opens the photo before the row exists, so that a photo that
  cannot be decoded reaches `save_source` only with the models off.
- Writing one file is atomic. `iterdir` lists the directory when it is first advanced.
- A restart may happen at every step. It keeps rows and files and loses the rest.

Left out: a database that stays locked for its whole timeout, a full disk, the content of images,
`test_code`, times other than "the TTL has passed", and the queue position in an answer except as
the number of entries it counts (`PendingMatchesQueue`).

### `JobContract` and `FaceSwapContract`

`JobContract` says what a client may see of each job by polling it; one step changes one job, but
for a removal, which may take several away at once. `FaceSwapContract` maps a row to
the answer of a poll (`Poll`); a row whose columns do not belong together maps to no answer of the
contract. `KeepsContract` is the contract's specification under that mapping. The service does
**not** keep it when a retry overlaps another retry, or a retry overlaps a deletion; the two runs
check it for requests that come one at a time, and for deletions of every kind without retries.

### Runs of the face-swap service

| Run | Instance | Shows |
|---|---|---|
| `faceswap_races` | 1 job, 2 request threads, 3 attempts, 1 restart, TTL | all interference on one job: two retries, a retry and a delete, a lookup of an expired job, worker, three cleanups. No live job is lost (`LiveJobIsScheduled`), queue accounting is exact (`PendingMatchesQueue`), a photo without a face never runs (`FacelessNeverRuns`), a completed job is whole (`CompletedIsWhole`), no deletion takes a live job in its first attempt (`FirstAttemptSpared`), every poll ends (`PolledJobSettles`), every expired job goes (`ExpiredJobGoes`) |
| `faceswap_contract` | 2 jobs, 1 request thread, 2 result files, 2 attempts, 1 restart | the contract, with two creates and a shared worker |
| `faceswap_deletion` | 2 jobs that both expire, 1 request thread, no retry, models off, 1 restart | every way to delete a job against every other: photos go before the row (`RowOutlivesPhotos`), the contract |
| `faceswap_cleanup_live` | 1 job, 2 request threads, TTL | finding: a cleanup deletes a job that a retry has revived |
| `faceswap_cleanup_create` | 2 jobs, 1 request thread, 1 TTL | finding: a cleanup fails the create request it runs in |

Bounds. `Jobs`: one job suffices where actors race for a job, because jobs share only the queue,
the worker and a cleanup's list; two jobs suffice for those (`faceswap_contract`,
`faceswap_deletion`). `Requests`: two threads give every pair of routes on one job. `MaxAttempt` is
a guard on retries: three attempts allow two overlapping retries and one after them. `MaxCrashes`
is one: recovery makes every live row failed, so that a second restart meets no state the first
did not. `Expirable` says for which jobs time passes.

Fairness (`Fairness`): weak fairness of each thread's next step, because the operating system
schedules runnable threads, of the recovery, and of the periodic cleanup, which a loop restarts
every five minutes. None is assumed of requests, restarts or the passing of time. Deadlock is
checked in every run; `Waiting` is the step of a server that has nothing to do, and it is enabled
only when no thread is in the middle of anything.

### Findings of the face-swap service

Each is a violation run with the comment it contradicts quoted in `PROJECT.json`.

1. `cleanup_expired_jobs` deletes what it selected without looking at the status again, so that a
   job revived by a retry in between loses its photos and its row while it runs.
2. `_delete_expired_job` reads `job.id` in its exception handler. When another thread has deleted
   the row the read raises again, the create request around the cleanup answers 500 and the rest
   of the cleanup is skipped.

Two known limits that no run is kept for. Two retries that overlap both pass the check of
`retry_job`; the job runs twice, and while it runs again, or after the second run failed, its row
holds the results of the first although `results_json` is commented as filled in only on
completion. And `enqueue` puts into the queue after it has released the lock, so that `_pending`
and `_queue` can end up in opposite orders and the positions shown are swapped.

### Proofs about the face-swap service

TLC checks the instances above; the proofs hold for any `Jobs`, `Requests`, `Ratios`, `MaxAttempt`
and `MaxCrashes` under `ActorsAssumption` and `BoundsAssumption` (the actors are distinct, finitely
many requests are served at a time, the bounds are numbers).

- `TypeCorrect` (`FaceSwapJobsProofs`): `Spec => []TypeOK`. `TypeInv` strengthens `TypeOK` by what
  is needed to be inductive: a thread that is not idle, and a worker that is not idle, has a job in
  hand. `RemoveFirstType` and `RemoveAtProperties` are the lemmas about `list.remove` on `_pending`.
- `LiveScheduled` (`FaceSwapJobsProofs`): `Spec => []LiveJobIsScheduled`. A job becomes known to its
  client by the very step that enqueues it, so the property alone is not inductive; `SchedInv` adds
  that the create request of a live job that is not scheduled is still under way or has failed
  without telling the client an id. `SchedStep` has one case per action; the interesting ones are
  `RetryCommit` (the retry takes responsibility before it enqueues), `WorkerGet` (from queue to
  worker), `WorkerComplete`/`WorkerFail` (the worker settles the row before it lets go), and
  `Crash` (recovery must have failed every live row before the service is up again).
- `PendingCounts` (`FaceSwapJobsProofs`): `Spec => []PendingMatchesQueue`, which is inductive as it
  stands. What it needs are lemmas about counting: how often a job is in a sequence after an
  `Append`, a `Tail` and a removal (`OccurrencesAppend` and its companions), and how the number of
  requests about to put a job changes when one of them does. A retry that overlaps another makes
  both counts two.
- `FacelessStaysOut` and `CompletedWhole` (`FaceSwapJobsProofs`): `RunInv` adds what the worker has
  in hand. No error has come up in the row it loaded without one (`LoadedError`), or
  else "completed" could be committed with an old error left in the row; nobody but its create
  request holds a job that no client knows yet (`Untaken`); and the row of a photo without a face
  never offers a retry (`FacelessInv`).
- `FirstAttemptsSpared` (`FaceSwapJobsProofs`): `Spec => []FirstAttemptSpared`, whatever retries, cleanups
  and restarts do. What the comment of the cleanup claims is false once a retry has overtaken it
  (finding 1); this is what is left of it. A deletion has seen its job ended or retried before it
  touches a file, and only a retry makes an ended job live again, which raises its attempt, so that
  what it counted on stays true (`Settled`, `HandInv`). For that a job that was never retried must
  wait once and run once, or the worker could take up an ended job again (`FirstRunInv`).
- `ContractKept`, `PhotosGoFirst` (`FaceSwapContractProofs`): the contract and `RowOutlivesPhotos`, for
  behaviours in which a retry has its job to itself from its lookup to its enqueue (`RetriesAlone`):
  no other request holds the job, and no cleanup holds it or has it still to come. Without that
  condition they are false: finding 1, and the overlapping retries below it. `CalmInv` says that a job
  is queued once, that the columns of a row belong together, and that only jobs which have ended are
  being removed (`Removable`). The condition is met by whole classes of use: `WithoutRetries`
  (`MaxAttempt <= 1`, which is `faceswap_deletion` for any number of jobs, requests and expirations)
  and `OneByOne` (one request at a time and no TTL passing, which is `faceswap_contract`) prove it
  from the constants alone (`NoRetryAlone`, `OneByOneAlone`).

Liveness (`PolledJobSettles`, `ExpiredJobGoes`) is only model-checked.

## The video job service

### `VideoJobs`

| Variable | Code |
|---|---|
| `jobs` | `_jobs`: the status of each job, `"none"` when it is not a key |
| `dirs` | what the temporary directory of a job holds: `source` (the uploads), `scratch` (caption and mask files), `video` (`shorts.mp4`), `dir` (the directory itself) |
| `expired` | the jobs stored more than `TTL_HOURS` ago |
| `crt` | how far the create request of a job has come |
| `task` | the step of its background task: waiting for a thread (`line`), for `_worker_lock` (`lane`), in `_process_job` or in `process_shorts` |
| `act` | what each GET or DELETE request, and the event loop's own cleanup, is doing: the jobs it has taken out and still has to remove, the files `rmtree` has listed |
| `line`, `lane` | who waits for a thread of the pool, in order; who holds `_worker_lock` |

The sections of `_cleanup_expired`, `_set_job` and `delete_video_job` under `_lock` are one step
each; what follows them (the removal of a directory, the engine) interleaves with everything else,
one file operation at a time. `_set_job` raises `KeyError` for a job that was taken out: outside
the `try` of `_process_job` this ends the task, in a progress report inside `process_shorts` it
unwinds the engine, and in the handler it ends the task. Each failure the engine can meet is a
step that may happen (`PrepareFails`, `WriteScratchPartial`, `RenderFails`).

What the model relies on: background tasks and synchronous routes run in the thread pool of the
web framework, which hands its threads out first come first served, as does the read of an upload
that has been rolled to disk (one wait stands for all those of a request); `Lock` makes no promise
about who gets it; `rmtree(ignore_errors=True)` lists a directory once; ffmpeg creates its output
after it has opened its inputs; the narration path is unreachable because no provider is ever set.
A restart ends ffmpeg with the service. `GET .../video` changes no state and is left out: it looks
for the file after it has released the lock, so that a deletion in between makes it answer 410, and
nothing is claimed of that.

| Run | Instance | Shows |
|---|---|---|
| `video_races` | 2 jobs, 2 requests, a pool of 2 threads, 1 restart, 24 hours that may pass for one job at any point | a job that says processing has the lane (`ProcessingHasLane`), one that says completed has its video (`CompletedHasVideo`), a job that was taken out leaves no footage, even in the middle of its encoding (`RemovedLeavesNoVideo`); clients see what `JobContract` allows (`KeepsContract`); when tasks that wait for the lane hold every thread, uploads and requests wait as well, but everything ends (`AcceptedEnds`, `RequestAnswered`) |
| `video_expiry` | 1 job, 1 request | finding: nothing removes the files of an expired job unless somebody asks |

Bounds. Two jobs make the lane contended, and with two threads for two tasks and two requests
somebody has to wait for a thread behind a task that waits for the lane. Two requests and the loop
give three cleanups at once. One restart suffices because it forgets everything but the
directories. `ExpireLive` says whether the 24 hours may pass for a job that has not ended.
`KeepsContract` leaves two steps out: a restart, which forgets every job (the README of the front
end says so), and any step while a job of more than 24 hours is still under way, which may be taken
away under its client. So it says nothing of recovery: after a restart a client gets 404 for every
job. Deadlock is not checked: the ids of a run may all be used up by create
requests that are rejected, and then nothing is left to do.

Fairness: weak fairness of the pool, of every thread, of the event loop's create requests, and of
*some* waiting task taking the free lane; none of requests, restarts or time.

Finding. `_cleanup_expired` runs only in a poll or a create. The page promises that originals and
results are deleted after 24 hours; they are deleted when somebody next asks, and never if a
restart has forgotten the job.

### Proofs about the video job service

All are in `VideoJobsProofs`, for any constants that meet `VideoAssumption`.

- `OneLane`: `Spec => []ProcessingHasLane`. The property says nothing of the tasks, so `LaneInv` adds
  why it holds: a task past `TakeLane` has the lane, and a job says processing only while its task is
  past `Begin` and has not settled it. That needs `LineInv`: a job stands in line once, and for one
  thing, or else the pool could send a task that runs back to the lock. One case per action; those of
  the engine share the lemma `LaneMoves`.
- `VideoTypes`, `CompletedKeepsVideo`, `RemovedIsGone`: `TypeOK`, `CompletedHasVideo` and
  `RemovedLeavesNoVideo`, from `DiskInv`. `StatusInv` ties the status of a job to the step of its
  task; `FilesInv` says that nobody removes the files of a job that is still in `_jobs`, and that the
  footage of one that is not has somebody who will unlink it: the thread that took the job out, or
  the task itself, which finds its job gone and unwinds.
- `VideoImplementsContract`: `Spec => KeepsContract`, from the same invariant. A cleanup and a
  deletion are removals of the contract, `Begin` is its start, the end of a task its completion or
  failure, and the other steps are not seen. What `KeepsContract` leaves out is above.

Liveness (`AcceptedEnds`, `RequestAnswered`) is only model-checked.

## The session: `SessionRefresh`

One user in several browsers, the requests the Next.js server forwards for them, and the backend
that remembers one refresh token per user. An access and a refresh token are issued and stored
together, so one number stands for the pair. `make_tokens` signs the user, the type and the expiry in
whole seconds, so pairs made in the same second are the same strings: `Issue` gives a new number, or
the last one again. Seconds are not modelled; while the last pair is fresh it may be made again, which
allows more than the code does, also that a pair that was exchanged is stored once more.

| Variable | Code |
|---|---|
| `cookie` | the two cookies of each browser |
| `req` | the requests in flight: their kind, the pair they carry, how far `proxyPendingResponse` has come, the cookies their answer sets or clears |
| `flight`, `result` | `refreshPromises` of `response.ts`: the refresh of each pair, what it resolved to |
| `current`, `issued`, `rotations` | the stored hash, the pairs issued so far, how often each was exchanged since it was last stored |
| `age` | of each access token: fresh, expiring within five minutes (what `ensureFreshSession` looks for), dead |
| `signedIn` | the browser that signed in last and has not signed out |
| `calm`, `faults` | the environment, see below |

A request is sent with the cookies of its moment and answered into whatever cookies the browser has
by then. The backend compares the token (`Verify`) and replaces it (`Rotate`) in two steps. A
refresh may fail before or after it has rotated (`RefreshFails`, `Rotate`).

Two environments are checked, `calm` and not. In a calm one every request that carried a token has
been answered before the promise of its refresh is dropped, 500 ms after it settled (`DropPromise`);
a sign-in has the user's browsers to itself (`SignIn`, `Start`); pairs are made in different seconds
(`Issue`); a browser has one session check under way at a time (`CheckSession`); and no request is in
flight for the minutes in which a token ages (`Age`). These are assumptions about time and about the
user's tabs, not something the code enforces.

| Run | Instance | Shows |
|---|---|---|
| `session_refresh` | 2 browsers, 2 requests, 3 pairs, 1 fault, both environments | no refresh token is exchanged twice for one time it was stored (`RotatedOnce`, in any environment); without faults, in a calm environment, the browser that signed in last keeps the session the backend knows (`SessionKept`) |
| `session_dead` | the same, not calm | finding: a 401 does not mean that the session is dead |

Bounds. Two requests are two joiners of one refresh, or a request and a late one behind it.
`SessionKept` needs that a calm environment has one session check of a browser at a time: with three at
once, in three tabs, TLC finds a browser at rest that holds a spent pair. The second check refreshes
the pair, the first was answered before that, finds its old answer about to expire and refreshes the
new pair as well, and the late answer of the third sets a pair that is spent by then. The shorts page
makes one check per submission, so this is a known limit for users of several tabs (hazard
`session.ts:50`), and the theorem below shows the property for any number of requests. Three
pairs give a sign-in and two rotations, or two sign-ins and a rotation. When the pairs have run out
a refresh fails, which counts as a fault. `Hurried` names the browsers used in an environment that
is not calm, which keeps the run small. Requests are symmetric. Deadlock is not checked: pairs run
out.

Finding. `fetchNewAccessToken` resolves to `null` on any failure, the answer is then a 401 that
deletes the cookies, and `ensureFreshSession` takes it for a session that is certainly dead.

Proofs (`SessionRefreshProofs`), for any constants that meet `SessionAssumption`.

- `NeverRotatedTwice`: `Spec => []RotatedOnce`. It is inductive with `ExchangedIsSpent`: a pair that
  has been exchanged since it was last stored is not the stored one, and no refresh of it has passed
  the check; if it is made again in the same second, it is stored anew and counts from zero. The argument
  needs that there is one refresh per pair at a time, which is what `refreshPromises` is for, and
  that stored pairs have been issued (`StoredWasIssued`, `VerifiedWasIssued`).
- `SessionTypesHold`: `Spec => []TypeOK`, from `ShapeInv`, which adds what is needed to be inductive:
  pairs that are in use were issued, and a request that waits for a refresh carries a pair.
- `CalmSessionIsKept`: `Spec => []SessionKept`, if `MaxFaults # 0` (the bound on pairs is
  then a fault, see above). `OneCheck`, which a calm environment keeps, says that a browser has one
  session check under way at a time. `CalmInv` holds while it is calm and nothing has failed. Each pair belongs to one browser, the one
  that signed in for it or held the pair it was exchanged for (`Owned`), so that the refresh that
  exchanges the stored pair is one of the browser that is signed in. That browser's cookie, and every
  request of it, carries the stored pair or the one before, and its cookie lags behind only while an
  answer that sets it is due (`Kept`). A refresh of the stored pair begins when all its requests are
  of that pair (`RefreshIsFirst`); what could begin one too early is a check that was answered before
  the exchange, and `ChecksLag` says that one which comes home after it was made with a dead pair,
  so that it asks for none. That is what fails with three checks. `MoveCalm` treats the steps of the
  proxy at once, the other lemmas one action each.

What the model shows by the way and no property claims: a sign-out can be undone by the cookies of
an answer that was on its way; a second device signs the first one out at its next refresh, because
one refresh token is kept per user.

## The face-swap page

### `FaceSwapPage`

A call is three steps: sent, served (or lost), applied to the page as it is by then. What React
batches is one step. The server is any server that keeps `JobContract`.

| Variable | Code |
|---|---|
| `scr` | the React state: photo, consent, whether the face is complete, `requesting`, `restoring`, `jobId`, `job`, the photo the job was made from, the step of a phone |
| `store` | `localStorage`: the active job and the recent ones |
| `create`, `polls`, `calls`, `restore`, `strip`, `sample` | the calls in flight: create, polls of the current effect, retry (two calls in a row) and delete, the resumed job, the recent strip, the sample photo |
| `answer`, `madeFrom`, `agreed` | what the server says of each job, the photo it was created from, the photos whose consent was confirmed |
| `wide`, `patient` | the window, the user |

The poll effect depends on `jobId` and the status, so a change of either cancels the answers still
on their way (`Show`). Retry, delete and resume are not cancelled by anything.

`patient` users wait, with what starts something new, until a resume, retry or deletion has come
back. Nothing in the page makes them wait; `page_hurried` is about users who do not. The window
keeps its width. The page is alone with its `localStorage`: other tabs are not modelled, nor is
leaving the page inside the app, which unlike a reload would leave its calls under way.

| Run | Instance | Shows |
|---|---|---|
| `page_patient` | 2 jobs, 2 photos, 1 reload, 1 retry or deletion in flight, 1 recent job | no photo is sent without its consent (`ConsentCoversPhoto`); results are compared with the photo they were made from (`PairIsOwn`); the job waited for is the one a reload resumes (`WaitingIsResumable`); id and answer on the screen belong together (`ScreenIsOneJob`); recent jobs did complete (`RecentsCompleted`); the status shown does not go back (`NeverBackwards`); the wait ends (`WaitingEnds`) |
| `page_hurried` | the same, not patient | finding: a late answer to a retry replaces the job to resume. The run checks `WaitingIsResumable`; `PairIsOwn` is violated for these users as well, by the same kind of answer, which puts a job beside the photo of one created since |

Bounds. Two jobs and two photos are what it takes to show one with the other; `MaxRecent = 1` makes
the second recent job push the first one out. One reload at any point, every call may be lost.
Fairness: the server works on what it has accepted, and the page goes on polling and applying
answers (`PollServed`, `PollShown`); a job that is deleted under the page ends the promise.
Deadlock is not checked: photos and ids run out.

Proofs (`FaceSwapPageProofs`), for any constants that meet `PageAssumption` (a job id is none of the
words an answer can be).

- `SentWithConsent`: `Spec => []ConsentCoversPhoto`, for patient users or not. `ConsentInv` adds that a
  ticked box belongs to a photo whose consent was confirmed, and that the photo cannot be consented
  to anew while a call is being sent (`requesting`), which is why a consent taken back does not matter.
  It states only the fields it needs.
- `ScreenShowsItsJob`, `WaitedForIsSaved`, `ComparesItsOwnPhoto`, `ScreenGoesOnwards`: `ScreenIsOneJob`,
  `WaitingIsResumable`, `PairIsOwn` and `NeverBackwards` for users who wait (`patient = TRUE`, which no
  step changes; `page_hurried` shows what becomes of the others). All follow from `PageInv`: what
  is on the screen, what is saved and what a call in flight was made for is one job (`Cleared`,
  `Resumes`, `OneCall`), nothing shown or on its way is ahead of the server (`InOrder`), and the photo
  remembered is the one the server made the job from (`OwnPhoto`). That the server moves jobs
  onwards only is what `JobContract` gives.

- `PageTypes` and `RecentsAreCompleted`: `TypeOK` and `RecentsCompleted`, for every user. A job is
  added to the recent ones when a poll or a resume brings home that it is completed, by which time it
  may be gone. `RecentInv` says that such an answer is still about the job that was asked for
  (`PollsOK`, `RestoreOK`) and that this job is completed or gone by now, and stays so (`Done`). The
  list stays short and without repetitions (`AddedRecents`, `RemovedRecents`). It is filtered by a
  loop over its places, which `RemoveRecent` states as a recursive function; what the loop leaves is
  an induction over the list, with the lemmas of `Recursion`.

Liveness (`WaitingEnds`) is only model-checked.

### `FaceForm`

The form of the face keeps the values of both modes side by side. `BuildFaceOption` is what leaves
the page, `RouteAccepts` what `isFaceOption` of the route demands: two pieces of code that must
agree. `FaceAccepted` says that they do after any sequence of clicks, filters and failed loads, and
`EveryFaceAccepted` (`WebProofs`) proves it for any list of faces and any number of choices
(`FaceInv`: every answer belongs to its question, `FormSound`).

## The generator screens and the mock: run `web`

Seven small specifications that share nothing. `MCWeb` chooses one at the start of a behaviour and
keeps the others still; each is a specification of its own with its own `Init`, `Next` and
properties, and the proofs are about those.

| Module | Code | What is checked |
|---|---|---|
| `ShortsClips` | the clip list: adding files under the limits, order, cuts, removal, the two calls that read it, resets that await their deletion | an AI caption stays with its clip (`CaptionsFollowClips`); the list shown while a video is made is the one it is made from, or one an earlier reset has emptied (`SentAsShown`); what the page lets through the service takes (`ReadyIsAccepted`) |
| `ClipTrimmer` | the handles and fields of the precise cut, clamped and rounded to tenths | the service takes every range (`RangeAccepted`) |
| `ShortsProgress` | the bar that runs ahead of the reported progress | it never moves back (`BarNeverBackwards`) |
| `ShortsJob` | a submission: captions, session check, create, first GET, polls, reset, against a service that keeps `JobContract` between restarts | the job shown was made from the list that was submitted (`ResultIsOfSubmission`), the page stays busy only for a job the service has lost (`BusyEnds`) |
| `BlogPage` | the form, the profile cookie that other tabs write too, the one call | the post is made from the fields on the screen, which were complete (`PostIsOfForm`) |
| `FaceForm` | above | `FaceAccepted` |
| `MockStore` | the face-swap jobs of the mock: a status derived from a clock and a scenario | each job moves as `JobContract` allows (`MockKeepsContract`), with one exception that the property names: the mock finds a missing face when the work is over, the service before it starts |

Bounds. Three clips with two as the least and three as the most put every limit within reach; sizes
1 to 3 against 2 for one file and 4 for all; two resets, so that one can come back after another has
been pressed for the next video. `Durations` and `Inputs` of the trimmer are hundredths
of a second around its limits: below half a second, at ties of the rounding, just above and below
five seconds. `Reported` holds a value of every stage of the bar. Two jobs, two versions of the list,
two polls in flight and a restart at any point for the submission; two faces and the least number of
choices; two mock jobs and the whole length of a slow one. `Patience` is `{TRUE}` in the run:
`ResultIsOfSubmission` is about patient users only, and `BusyEnds`, which is about all, was checked for
the others with the same bounds apart from it, because both together take too long for one run.

The words of three properties that limit them, each because the code does what they exclude:

- `reset` awaits the deletion and then empties list and job, whatever the user has begun meanwhile. A
  reset that was pressed before a submission takes the list away under it (`dropped` in
  `SentAsShown`); no other list can come in its place. `patient` in `ShortsJob` means that the user
  waits for the deletion of "start a new video".
- `setInterval` sends a poll whether the one before was answered or not, and cancels none. An answer
  that comes after the page has left its job, or has seen its end, puts that job back on the screen
  (`page.late`); `ResultIsOfSubmission` is about all other answers, however many are under way and in
  whatever order they come. `BusyEnds` holds with late polls too: the job that came back is polled
  like any other.
- A restart forgets the jobs (the README of the front end says so); the page is told 404, leaves a
  message and goes on polling for ever. That is the one wait without end (`Forgotten` in `BusyEnds`).

Fairness (`JobFairness`): calls are answered or fail, the timer fires while it is under way and a slot
for a poll is free, the service's lane works, and not every poll is lost (strong fairness of
`PollServed`, for the polls together). None is assumed of the user, of restarts or of resets.

In `BlogPage` a call carries the fields and the shop, that is, the designer's name and the region of the
profile, as the page last rendered it. Another tab may change the cookie under the call, and the page
shows the change with the next message; so `PostIsOfForm` claims the fields and nothing of the shop.

Proofs (`ShortsEditorProofs`, `WebProofs`), each about the module's own specification and for any
values of its constants.

- `AlwaysSentAsShown`: besides the property, that a caption call was asked about the list on the screen,
  or about one a reset has emptied since, and that one call at a time reads it (`ListInv`).
- `EveryRangeAccepted`: a kept range is in tenths, at least 0.4 s long and starts at least 0.45 s before
  the end of the file (`RangeInv`); that is what the rounding leaves of the half second the clamps ask
  for.
- `BarGrows`: the estimate is under the ceiling of its stage, and ceilings grow with the progress.
- `PostIsOfShownForm`: fields and button are disabled under the call (`PostInv`), whatever other tabs
  write.
- `ResultOfSubmission`: `JobSpec => []ResultIsOfSubmission`, for any number of polls in flight and with
  restarts. `SubmissionInv`, on top of `JobTypeInv`, carries the list of the press through the captions,
  the session check and the create call to the job that is polled (`Submitted`), with ids only of jobs
  that were accepted, whose version cannot change any more (`JobsAccepted`), and says that a reset
  has the page to itself for a user who waits for it (`ResetAlone`). An answer about another job than
  the one on the screen sets `page.late`; one about the same job changes its status only.
- `MockImplementsContract`: `MockKeepsContract` for any number of mock jobs and scenarios. A poll is
  answered from a clock, so one step of time may take a job on by one state and no further (`MockMoves`);
  the proof shows it from the times of the scenarios.
- `CaptionsAlwaysFollow`, `EverySubmissionAccepted` and `ClipsTypeCorrect`: `CaptionsFollowClips`,
  `ReadyIsAccepted` and the type of the clip list. `ClipsInv` adds to `ListInv` that the list is within
  the limits of files and bytes and each caption on its clip, whatever was moved or removed since
  (`WithinLimits`); that the calls hold lists of clips (`CallsOK`); that the clip the drawer edits is
  in the list, or none is (`DrawerOnList`); and that the number of clips and their seconds, which the button
  checked before the captions were asked for, still hold of what is sent when the answer has come
  (`CheckedAtButton`): it can only change the wording. `addFiles` is a loop with a running total:
  `Accepted` and `Total` are recursive functions, and the lemmas about them are inductions over the
  files, with those of `Recursion`.
- `WebTypes`: `Spec => []WebTypeOK`, for the specification of `MCWeb` that TLC runs, in which one part
  takes steps and the others keep still. `WebInv` joins `ClipsInv`, `MockInv` and an invariant for the
  types of submission, blog page and face form. `JobTypeInv` is the first, for any number of polls and
  any user, `FaceTypeInv` adds the picker to `FaceInv`, and `BlogTypeInv` says that what a tab shows was
  in the profile cookie (which holds finitely many products: browsers drop one over 4 KB).

`Recursion` has no part of the system in it. TLAPS states induction with an operator as a parameter,
which the installed provers cannot instantiate; `Induction` states it of a set of numbers, from the
well-foundedness of their order, and `Recursion` finds the function that a definition
`f[n] = Step[n, f[n - 1]]` stands for. With both, recursive functions over the places of a list can be
reasoned about.

Liveness (`BusyEnds`) is only model-checked.

Seen while modelling, without a claim. When captions fail, the message is overwritten by the next
step of the submission. A caption that is left empty is announced as "no caption" and the
service fills in its default. A create call that succeeds before its first GET fails leaves a job
that nobody shows. Clips added while a reset awaits its deletion are lost. The
comments of `blog-fields.tsx` (lines 8-11, 73) say that the profile is merged in just before sending; it is the
one of the last rendering, which another tab may have changed since. On a phone a
failed second generation of a blog post leaves the user on the result step without the bar. A free
text that equals one of the offered options while it is typed (300 by way of 30) empties its field, and a profile over 4 KB is dropped by the browser. The
mock's jobs are lost with its process and never expire.

## What is proved and what is only checked

Proved for every value of the constants, from the named assumptions of the modules, which TLC
evaluates in the runs:

| Part | Theorems | Hypotheses |
|---|---|---|
| face-swap service | `TypeCorrect`, `LiveScheduled`, `PendingCounts`, `FacelessStaysOut`, `CompletedWhole`, `FirstAttemptsSpared` | none |
| | `ContractKept`, `PhotosGoFirst` | `[]RetriesAlone`; `WithoutRetries` and `OneByOne` need none but constants |
| video service | `OneLane`, `VideoTypes`, `CompletedKeepsVideo`, `RemovedIsGone`, `VideoImplementsContract` | none |
| session | `NeverRotatedTwice`, `SessionTypesHold` | none |
| | `CalmSessionIsKept` | `MaxFaults # 0` |
| face-swap page | `SentWithConsent`, `PageTypes`, `RecentsAreCompleted` | none |
| | `ScreenShowsItsJob`, `WaitedForIsSaved`, `ComparesItsOwnPhoto`, `ScreenGoesOnwards` | `patient = TRUE` |
| shorts, blog, form, mock | `AlwaysSentAsShown`, `CaptionsAlwaysFollow`, `EverySubmissionAccepted`, `EveryRangeAccepted`, `BarGrows`, `EveryFaceAccepted`, `PostIsOfShownForm`, `ResultOfSubmission`, `MockImplementsContract`, `WebTypes` | none |

Every safety invariant and action property that a passing run checks is stated by a theorem. Only
model-checked is liveness under fairness (`PolledJobSettles`, `ExpiredJobGoes`, `AcceptedEnds`,
`RequestAnswered`, `WaitingEnds`, `BusyEnds`), which is beyond the prover; what the findings are about is
violated and has only its run. The inductive invariants were checked with TLC on small instances
before they were proved.

## Not modelled

Pull deployment is not modelled: shell scripts of one machine around git, systemd, npm and curl. It
keeps markers across crashes and would deserve a model of its own; what the services see of
it, a restart at any point, is in their models. Text generation, the client error log, presentation,
model code, vendored code, notebooks and assets have no state of their own worth a model. See
the components of `PROJECT.json` with status `not_modelled`, and the notes of those that are `partly`.
