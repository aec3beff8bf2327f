---------------------------- MODULE FaceSwapPage ----------------------------
(***************************************************************************)
(* The face-swap screen of the web app, in one browser: the form, the job  *)
(* it is waiting for, the strip of recent jobs and the two entries it      *)
(* keeps in localStorage, against a server that keeps JobContract.         *)
(*                                                                         *)
(* Every call to the server is three steps: the handler or effect sends    *)
(* it, the server answers (or the answer is lost), the page applies the    *)
(* answer, whatever it shows by then.  What React batches is one step, and *)
(* an effect whose dependencies changed is restarted in the same step.     *)
(***************************************************************************)
EXTENDS Naturals, Sequences, SequencesExt, FiniteSets

CONSTANTS
    Jobs,        \* ids the server can hand out
    NoJob,       \* null
    MaxUploads,  \* bound on photos put into the form
    MaxReloads,  \* bound on reloads of the page
    MaxCalls,    \* bound on retry and delete calls in flight
    MaxRecent,   \* MAX_ITEMS of the recent jobs
    Patience     \* which users there are, see patient

ASSUME PageAssumption ==
    /\ NoJob \notin Jobs
    /\ {"none", "sent", "lost"} \intersect Jobs = {}   \* no answer is an id
    /\ {MaxUploads, MaxReloads} \subseteq Nat
    /\ {MaxCalls, MaxRecent} \subseteq Nat \ {0}
    /\ Patience \subseteq BOOLEAN

VARIABLES
    answer,   \* what the server answers about each job
    madeFrom, \* the photo each job was created from (0: none)
    agreed,   \* photos for which the customer's consent was confirmed
    store,    \* localStorage: the active job and the recent jobs
    scr,      \* the React state of the page
    create,   \* the create call in flight
    polls,    \* answers to polls that have not reached the page
    calls,    \* retry and delete calls in flight
    restore,  \* the job asked for when the page was opened
    strip,    \* the recent strip: ids being asked for, and jobs shown
    sample,   \* the sample photo is being fetched
    wide,     \* a wide window, where every card is visible
    patient,  \* the user lets a resume, retry or delete settle before going on
    uploads, reloads

server == <<answer, madeFrom>>
settings == <<wide, patient>>
vars == <<answer, madeFrom, agreed, store, scr, create, polls, calls,
          restore, strip, sample, wide, patient, uploads, reloads>>

Server == INSTANCE JobContract

Ended == {"completed", "failed", "rejected"}   \* TERMINAL
Statuses == Ended \union {"queued", "processing"}

NoCall == [photo |-> 0, got |-> "none"]
Idle == [id |-> NoJob, got |-> "none", wantsSample |-> FALSE]
Nothing == [id |-> NoJob, status |-> "none"]

InputSteps == 4   \* PHONE_INPUT_STEP_COUNT

Fresh(restoring) ==
    [photo |-> 0, jobPhoto |-> 0, consent |-> FALSE, face |-> FALSE,
     requesting |-> FALSE, restoring |-> restoring,
     jobId |-> NoJob, job |-> Nothing, step |-> 1]

-----------------------------------------------------------------------------
(* What the page derives from its state *)

Terminal == scr.job.status \in Ended
Active == scr.jobId # NoJob /\ ~Terminal
Busy == scr.requesting \/ Active

Visible(step) == wide \/ scr.step = step
ResultVisible == Visible(IF scr.jobId # NoJob THEN InputSteps + 1 ELSE InputSteps)

\* Nothing that the page started is still to be applied, or the user goes on anyway.
Settled == patient => calls = {} /\ ~scr.restoring

\* The original and the results side by side, with "generate again" under them.
ComparisonShown ==
    /\ scr.jobId # NoJob
    /\ scr.job.status = "completed"
    /\ scr.photo # 0
    /\ scr.photo = scr.jobPhoto

\* Replacing the state reruns the poll effect when jobId or jobStatus changed:
\* the answers still on their way are cancelled.
Show(s) ==
    /\ scr' = s
    /\ polls' = IF s.jobId = scr.jobId /\ s.job.status = scr.job.status
                THEN polls ELSE {}

-----------------------------------------------------------------------------
(* localStorage *)

AddRecent(recent, j) ==
    IF Contains(recent, j) THEN recent
    ELSE SubSeq(<<j>> \o recent, 1,
                IF Len(recent) < MaxRecent THEN Len(recent) + 1 ELSE MaxRecent)

RemoveRecent(recent, js) ==
    LET kept[n \in 0..Len(recent)] ==
            CASE n = 0 -> <<>>
              [] n # 0 /\ recent[n] \in js -> kept[n - 1]
              [] OTHER -> Append(kept[n - 1], recent[n])
    IN  kept[Len(recent)]

\* Bumping refreshToken makes the strip read the recent jobs again.
Refresh(recent) == strip' = [asked |-> ToSet(recent),
                             items |-> IF recent = <<>> THEN {} ELSE strip.items]

\* Mutant: every job seen to end is put into the recent jobs.
RecordEnded(j, status) ==
    IF status \in Ended
    THEN LET recent == AddRecent(store.recent, j) IN
         /\ store' = [store EXCEPT !.recent = recent]
         /\ Refresh(recent)
    ELSE UNCHANGED <<store, strip>>

\* A job seen completed is put into the recent jobs.
Record(j, status) ==
    IF status = "completed"
    THEN LET recent == AddRecent(store.recent, j) IN
         /\ store' = [store EXCEPT !.recent = recent]
         /\ Refresh(recent)
    ELSE UNCHANGED <<store, strip>>

-----------------------------------------------------------------------------
(* The form *)

PhotoUnlocked == ~Busy /\ ~scr.restoring

\* Mutant: the consent of the photo before is kept.
PhotoChangeKeepsConsent(photo) ==
    /\ scr' = [scr EXCEPT !.photo = photo]
    /\ uploads' = IF photo = 0 THEN uploads ELSE photo

\* handlePhotoChange: a new photo is a new object URL and needs a new consent.
PhotoChange(photo) ==
    /\ scr' = [scr EXCEPT !.photo = photo, !.consent = FALSE]
    /\ uploads' = IF photo = 0 THEN uploads ELSE photo

ChoosePhoto ==
    /\ PhotoUnlocked /\ Visible(1) /\ Settled
    /\ \/ uploads < MaxUploads /\ scr.photo = 0 /\ PhotoChange(uploads + 1)
       \/ scr.photo # 0 /\ PhotoChange(0)
    /\ UNCHANGED <<server, agreed, store, create, polls, calls, restore, strip,
                   sample, settings, reloads>>

UseSample ==
    /\ PhotoUnlocked /\ Visible(1) /\ Settled
    /\ uploads < MaxUploads
    /\ sample' = TRUE
    /\ UNCHANGED <<server, agreed, store, scr, create, polls, calls, restore,
                   strip, settings, uploads, reloads>>

\* handleUseSample goes on after its await without looking at the page again.
SampleArrives ==
    /\ sample
    /\ sample' = FALSE
    /\ \/ uploads < MaxUploads /\ PhotoChange(uploads + 1)
       \/ UNCHANGED <<scr, uploads>>   \* the fetch failed
    /\ UNCHANGED <<server, agreed, store, create, polls, calls, restore, strip,
                   settings, reloads>>

ToggleConsent ==
    /\ ~Busy /\ Visible(2) /\ Settled
    /\ scr' = [scr EXCEPT !.consent = ~scr.consent]
    /\ agreed' = IF scr.consent THEN agreed \ {scr.photo}
                                ELSE agreed \union ({scr.photo} \ {0})
    /\ UNCHANGED <<server, store, create, polls, calls, restore, strip, sample,
                   settings, uploads, reloads>>

\* The choice of a face becomes complete, or incomplete again (isFaceReady).
ChooseFace ==
    /\ ~Busy /\ Visible(3) /\ Settled
    /\ scr' = [scr EXCEPT !.face = ~scr.face]
    /\ UNCHANGED <<server, agreed, store, create, polls, calls, restore, strip,
                   sample, settings, uploads, reloads>>

StepReady(n) ==
    CASE n = 1 -> scr.photo # 0
      [] n = 2 -> scr.consent
      [] n = 3 -> scr.face
      [] OTHER -> TRUE

\* Mutant: the back button works on the first step.
StepNavBelowOne ==
    /\ ~wide /\ Settled
    /\ scr.step <= InputSteps
    /\ ~Busy
    /\ scr' = [scr EXCEPT !.step = @ - 1]
    /\ UNCHANGED <<server, agreed, store, create, polls, calls, restore, strip,
                   sample, settings, uploads, reloads>>

\* The bar at the bottom of a phone; it is not rendered on the result step.
StepNav ==
    /\ ~wide /\ Settled
    /\ scr.step <= InputSteps
    /\ \/ /\ scr.step > 1 /\ ~Busy
          /\ scr' = [scr EXCEPT !.step = @ - 1]
       \/ /\ scr.step < InputSteps /\ StepReady(scr.step)
          /\ scr' = [scr EXCEPT !.step = @ + 1]
    /\ UNCHANGED <<server, agreed, store, create, polls, calls, restore, strip,
                   sample, settings, uploads, reloads>>

-----------------------------------------------------------------------------
(* handleGenerate *)

GenerateOffered ==
    /\ ~Busy /\ ~scr.restoring /\ scr.consent /\ scr.face
    /\ Visible(InputSteps)

AgainOffered ==
    ComparisonShown /\ ~Busy /\ ResultVisible

\* The handler checks the photo, the consent and the face again.
Generate ==
    /\ GenerateOffered \/ AgainOffered
    /\ Settled
    /\ scr.photo # 0 /\ scr.consent /\ scr.face
    /\ create' = [photo |-> scr.photo, got |-> "sent"]
    /\ Show([scr EXCEPT !.requesting = TRUE, !.jobId = NoJob, !.job = Nothing])
    /\ UNCHANGED <<server, agreed, store, calls, restore, strip, sample, settings,
                   uploads, reloads>>

CreateServed(j) ==
    /\ create.got = "sent"
    /\ Server!Accept(j)
    /\ madeFrom' = [madeFrom EXCEPT ![j] = create.photo]
    /\ \E got \in {j, "lost"} : create' = [create EXCEPT !.got = got]
    /\ UNCHANGED <<agreed, store, scr, polls, calls, restore, strip, sample, settings,
                   uploads, reloads>>

CreateRefused ==
    /\ create.got = "sent"
    /\ create' = [create EXCEPT !.got = "lost"]
    /\ UNCHANGED <<server, agreed, store, scr, polls, calls, restore, strip,
                   sample, settings, uploads, reloads>>

\* Mutant: the photo on the screen is taken for the photo that was sent.
CreateShownWithPhotoOnScreen ==
    /\ create.got \in Jobs
    /\ Show([scr EXCEPT !.requesting = FALSE, !.jobId = create.got,
                        !.jobPhoto = scr.photo, !.step = InputSteps + 1])
    /\ store' = [store EXCEPT !.active = create.got]
    /\ create' = NoCall
    /\ UNCHANGED <<server, agreed, calls, restore, strip, sample, settings, uploads,
                   reloads>>

\* Mutant: the job is not saved for a reload.
CreateShownUnsaved ==
    /\ create.got \in Jobs
    /\ Show([scr EXCEPT !.requesting = FALSE, !.jobId = create.got,
                        !.jobPhoto = create.photo, !.step = InputSteps + 1])
    /\ create' = NoCall
    /\ UNCHANGED <<server, agreed, store, calls, restore, strip, sample, settings,
                   uploads, reloads>>

CreateShown ==
    /\ create.got \in Jobs
    /\ Show([scr EXCEPT !.requesting = FALSE, !.jobId = create.got,
                        !.jobPhoto = create.photo, !.step = InputSteps + 1])
    /\ store' = [store EXCEPT !.active = create.got]
    /\ create' = NoCall
    /\ UNCHANGED <<server, agreed, calls, restore, strip, sample, settings, uploads,
                   reloads>>

CreateFailed ==
    /\ create.got = "lost"
    /\ Show([scr EXCEPT !.requesting = FALSE])
    /\ create' = NoCall
    /\ UNCHANGED <<server, agreed, store, calls, restore, strip, sample, settings,
                   uploads, reloads>>

-----------------------------------------------------------------------------
(* The poll effect, every two seconds while the job shown is active *)

\* Mutant: the job is asked for once, not again and again.
PollServedOnce ==
    /\ Active /\ scr.job = Nothing
    /\ answer[scr.jobId] \in Statuses \ polls
    /\ polls' = polls \union {answer[scr.jobId]}
    /\ UNCHANGED <<server, agreed, store, scr, create, calls, restore, strip,
                   sample, settings, uploads, reloads>>

PollServed ==
    /\ Active
    /\ answer[scr.jobId] \in Statuses \ polls
    /\ polls' = polls \union {answer[scr.jobId]}
    /\ UNCHANGED <<server, agreed, store, scr, create, calls, restore, strip,
                   sample, settings, uploads, reloads>>

\* Mutant: the poll effect is not restarted, so older answers still arrive.
PollShownNotCancelled ==
    /\ \E status \in polls :
         /\ scr' = [scr EXCEPT !.job = [id |-> scr.jobId, status |-> status]]
         /\ polls' = polls \ {status}
         /\ Record(scr.jobId, status)
    /\ UNCHANGED <<server, agreed, create, calls, restore, sample, settings, uploads,
                   reloads>>

PollShown ==
    /\ \E status \in polls :
         /\ scr' = [scr EXCEPT !.job = [id |-> scr.jobId, status |-> status]]
         /\ polls' = IF status = scr.job.status THEN polls \ {status} ELSE {}
         /\ Record(scr.jobId, status)
    /\ UNCHANGED <<server, agreed, create, calls, restore, sample, settings, uploads,
                   reloads>>

-----------------------------------------------------------------------------
(* handleRetry and handleDelete: buttons of a job that has ended *)

Press(op) ==
    /\ scr.jobId # NoJob /\ Terminal /\ ResultVisible /\ Settled
    /\ Cardinality(calls) < MaxCalls
    /\ calls' = calls \union {[op |-> op, id |-> scr.jobId, got |-> "none"]}
    /\ UNCHANGED <<server, agreed, store, scr, create, polls, restore, strip,
                   sample, settings, uploads, reloads>>

PressRetry == scr.job.status = "failed" /\ Press("retry")
PressDelete == Press("delete")

Replace(c, cs) == calls' = (calls \ {c}) \union cs

\* The answer of either call may be lost after the server has acted.
RetryServed(c) ==
    /\ c.op = "retry"
    /\ \/ /\ Server!Retry(c.id)
          /\ \E cs \in {{}, {[c EXCEPT !.op = "get"]}} : Replace(c, cs)
       \/ /\ Replace(c, {})
          /\ UNCHANGED answer
    /\ UNCHANGED <<madeFrom, agreed, store, scr, create, polls, restore, strip,
                   sample, settings, uploads, reloads>>

GetServed(c) ==
    /\ c.op = "get" /\ c.got = "none"
    /\ \E cs \in {{}} \union {{[c EXCEPT !.got = answer[c.id]]} :
                                x \in {answer[c.id]} \intersect Statuses} :
         Replace(c, cs)
    /\ UNCHANGED <<server, agreed, store, scr, create, polls, restore, strip,
                   sample, settings, uploads, reloads>>

\* setJob and writeActiveJob, whatever job the page shows by now.
RetryShown(c) ==
    /\ c.op = "get" /\ c.got # "none"
    /\ Show([scr EXCEPT !.job = [id |-> c.id, status |-> c.got]])
    /\ store' = [store EXCEPT !.active = c.id]
    /\ Replace(c, {})
    /\ UNCHANGED <<server, agreed, create, restore, strip, sample, settings, uploads,
                   reloads>>

DeleteServed(c) ==
    /\ c.op = "delete" /\ c.got = "none"
    /\ \/ /\ Server!Remove({c.id})
          /\ \E cs \in {{}, {[c EXCEPT !.got = "deleted"]}} : Replace(c, cs)
       \/ /\ Replace(c, {})
          /\ UNCHANGED answer
    /\ UNCHANGED <<madeFrom, agreed, store, scr, create, polls, restore, strip,
                   sample, settings, uploads, reloads>>

\* Mutant: the deleted job stays in the state that holds its answer.
DeleteShownKeepsJob(c) ==
    /\ c.op = "delete" /\ c.got = "deleted"
    /\ LET recent == RemoveRecent(store.recent, {c.id}) IN
         /\ store' = [active |-> NoJob, recent |-> recent]
         /\ Refresh(recent)
    /\ Show([scr EXCEPT !.jobId = NoJob, !.jobPhoto = 0, !.step = 1])
    /\ Replace(c, {})
    /\ UNCHANGED <<server, agreed, create, restore, sample, settings, uploads, reloads>>

DeleteShown(c) ==
    /\ c.op = "delete" /\ c.got = "deleted"
    /\ LET recent == RemoveRecent(store.recent, {c.id}) IN
         /\ store' = [active |-> NoJob, recent |-> recent]
         /\ Refresh(recent)
    /\ Show([scr EXCEPT !.jobId = NoJob, !.job = Nothing, !.jobPhoto = 0,
                        !.step = 1])
    /\ Replace(c, {})
    /\ UNCHANGED <<server, agreed, create, restore, sample, settings, uploads, reloads>>

NextPhoto ==
    /\ scr.jobId # NoJob /\ Terminal /\ ResultVisible /\ Settled
    /\ store' = [store EXCEPT !.active = NoJob]
    /\ Show([scr EXCEPT !.photo = 0, !.jobPhoto = 0, !.consent = FALSE,
                        !.jobId = NoJob, !.job = Nothing, !.step = 1])
    /\ UNCHANGED <<server, agreed, create, calls, restore, strip, sample, settings,
                   uploads, reloads>>

-----------------------------------------------------------------------------
(* The strip of recent jobs *)

\* Each id is asked for; what the server no longer has leaves the store, and
\* what cannot be reached is only not shown.
StripLoaded ==
    /\ strip.asked # {}
    /\ \E reached \in SUBSET strip.asked :
         /\ strip' = [asked |-> {},
                      items |-> {j \in reached : answer[j] = "completed"}]
         /\ store' = [store EXCEPT !.recent =
                        RemoveRecent(@, {j \in reached : answer[j] = "gone"})]
    /\ UNCHANGED <<server, agreed, scr, create, polls, calls, restore, sample,
                   settings, uploads, reloads>>

\* The thumbnail of the job on the screen is marked and cannot be pressed.
RecentOffered(j) == j \in strip.items \ {scr.jobId} /\ ~Busy

SelectRecent(j) ==
    /\ RecentOffered(j) /\ Settled
    /\ Show([scr EXCEPT !.jobId = j, !.job = [id |-> j, status |-> "completed"],
                        !.jobPhoto = 0, !.step = InputSteps + 1])
    /\ UNCHANGED <<server, agreed, store, create, calls, restore, strip, sample,
                   settings, uploads, reloads>>

-----------------------------------------------------------------------------
(* Opening the page: resume the saved job, or load the sample if asked to *)

Opening(id, wantsSample) == [id |-> id, got |-> "none", wantsSample |-> wantsSample]

Reload ==
    /\ reloads < MaxReloads
    /\ reloads' = reloads + 1
    /\ scr' = Fresh(TRUE)
    /\ \E ask \in BOOLEAN : restore' = Opening(store.active, ask)
    /\ strip' = [asked |-> ToSet(store.recent), items |-> {}]
    /\ create' = NoCall /\ polls' = {} /\ calls' = {} /\ sample' = FALSE
    /\ UNCHANGED <<server, agreed, store, settings, uploads>>

RestoreServed ==
    /\ restore.id # NoJob /\ restore.got = "none"
    /\ restore' = [restore EXCEPT !.got =
                     IF answer[restore.id] \in Statuses THEN answer[restore.id]
                     ELSE "missing"]
    /\ UNCHANGED <<server, agreed, store, scr, create, polls, calls, strip, sample,
                   settings, uploads, reloads>>

RestoreShown ==
    /\ restore.got \in Statuses
    /\ Show([scr EXCEPT !.restoring = FALSE, !.jobId = restore.id,
                        !.job = [id |-> restore.id, status |-> restore.got],
                        !.step = InputSteps + 1])
    /\ Record(restore.id, restore.got)
    /\ restore' = Idle
    /\ UNCHANGED <<server, agreed, create, calls, sample, settings, uploads, reloads>>

\* 404: the saved entry is dropped.
RestoreMissing ==
    /\ restore.got = "missing"
    /\ store' = [store EXCEPT !.active = NoJob]
    /\ restore' = Opening(NoJob, restore.wantsSample)
    /\ UNCHANGED <<server, agreed, scr, create, polls, calls, strip, sample, settings,
                   uploads, reloads>>

\* Any other error: the entry stays for the next reload.
RestoreFailed ==
    /\ restore.id # NoJob
    /\ scr' = [scr EXCEPT !.restoring = FALSE]
    /\ restore' = Idle
    /\ UNCHANGED <<server, agreed, store, create, polls, calls, strip, sample,
                   settings, uploads, reloads>>

\* Nothing to resume.
RestoreNothing ==
    /\ scr.restoring /\ restore.id = NoJob
    /\ \E load \in {FALSE, restore.wantsSample /\ uploads < MaxUploads} :
         /\ scr' = [scr EXCEPT !.restoring = FALSE,
                               !.photo = IF load THEN uploads + 1 ELSE @,
                               !.consent = IF load THEN FALSE ELSE @]
         /\ uploads' = IF load THEN uploads + 1 ELSE uploads
    /\ restore' = Idle
    /\ UNCHANGED <<server, agreed, store, create, polls, calls, strip, sample,
                   settings, reloads>>

-----------------------------------------------------------------------------
(* The server on its own: the jobs run, and ended jobs expire *)

ServerRuns(j) ==
    /\ \/ Server!Start(j) \/ Server!Complete(j) \/ Server!Fail(j) \/ Server!Reject(j)
    /\ UNCHANGED <<madeFrom, agreed, store, scr, create, polls, calls, restore,
                   strip, sample, settings, uploads, reloads>>

Expire(j) ==
    /\ Server!Remove({j})
    /\ UNCHANGED <<madeFrom, agreed, store, scr, create, polls, calls, restore,
                   strip, sample, settings, uploads, reloads>>

-----------------------------------------------------------------------------
Init ==
    /\ answer = [j \in Jobs |-> "none"]
    /\ madeFrom = [j \in Jobs |-> 0]
    /\ agreed = {}
    /\ store = [active |-> NoJob, recent |-> <<>>]
    /\ scr = Fresh(TRUE)
    /\ create = NoCall /\ polls = {} /\ calls = {} /\ sample = FALSE
    /\ restore \in {Opening(NoJob, FALSE), Opening(NoJob, TRUE)}
    /\ strip = [asked |-> {}, items |-> {}]
    /\ wide \in BOOLEAN /\ patient \in Patience
    /\ uploads = 0 /\ reloads = 0

Next ==
    \/ ChoosePhoto \/ UseSample \/ SampleArrives \/ ToggleConsent \/ ChooseFace
    \/ StepNav
    \/ Generate \/ CreateRefused \/ CreateShown \/ CreateFailed
    \/ PollServed \/ PollShown
    \/ PressRetry \/ PressDelete \/ NextPhoto
    \/ \E c \in calls : \/ RetryServed(c) \/ GetServed(c) \/ RetryShown(c)
                        \/ DeleteServed(c) \/ DeleteShown(c)
    \/ StripLoaded
    \/ Reload \/ RestoreServed \/ RestoreShown \/ RestoreMissing \/ RestoreFailed
    \/ RestoreNothing
    \/ \E j \in Jobs : \/ CreateServed(j) \/ SelectRecent(j) \/ ServerRuns(j)
                       \/ Expire(j)

Spec == Init /\ [][Next]_vars

\* The server finishes the jobs it accepted, and an open page polls for ever.
FairSpec ==
    /\ Spec
    /\ \A j \in Jobs : WF_vars(ServerRuns(j))
    /\ WF_vars(PollServed) /\ WF_vars(PollShown)

-----------------------------------------------------------------------------
Calls == [op : {"retry", "get", "delete"}, id : Jobs,
          got : {"none", "deleted"} \union Statuses]

\* The state of the page, and every answer on its way to it, is one the page knows.
TypeOK ==
    /\ answer \in [Jobs -> Server!Answers]
    /\ madeFrom \in [Jobs -> 0..MaxUploads]
    /\ agreed \subseteq 1..MaxUploads
    /\ store \in [active : Jobs \union {NoJob}, recent : Seq(Jobs)]
    /\ scr \in [photo : 0..MaxUploads, jobPhoto : 0..MaxUploads,
                consent : BOOLEAN, face : BOOLEAN, requesting : BOOLEAN,
                restoring : BOOLEAN, jobId : Jobs \union {NoJob},
                job : [id : Jobs \union {NoJob}, status : Statuses \union {"none"}],
                step : 1..InputSteps + 1]
    /\ create \in [photo : 0..MaxUploads, got : Jobs \union {"none", "sent", "lost"}]
    /\ polls \subseteq Statuses
    /\ calls \subseteq Calls
    /\ restore \in [id : Jobs \union {NoJob}, wantsSample : BOOLEAN,
                    got : Statuses \union {"none", "missing"}]
    /\ strip \in [asked : SUBSET Jobs, items : SUBSET Jobs]
    /\ {sample, wide, patient} \subseteq BOOLEAN
    /\ uploads \in 0..MaxUploads /\ reloads \in 0..MaxReloads

\* A photo is only ever sent with a consent confirmed for that photo, however
\* late a sample arrives (handlePhotoChange, handleGenerate).
ConsentCoversPhoto ==
    create.photo # 0 => create.photo \in agreed

\* A photo is compared only with the results of the job it was sent with
\* (jobPhotoUrl; the comment on it, and page.tsx:638).
PairIsOwn ==
    ComparisonShown => madeFrom[scr.job.id] = scr.photo

\* The job the page waits for is the one a reload resumes (waiting.tsx:96).
WaitingIsResumable ==
    Active => store.active = scr.jobId

\* What is shown about the job is about that job.
ScreenIsOneJob ==
    scr.job # Nothing => scr.job.id = scr.jobId

\* Only jobs that did complete are offered as recent, each once.
RecentsCompleted ==
    /\ \A j \in ToSet(store.recent) : answer[j] \in {"completed", "gone"}
    /\ Cardinality(ToSet(store.recent)) = Len(store.recent)
    /\ Len(store.recent) <= MaxRecent

Rank(status) == CASE status = "none" -> 0 [] status = "queued" -> 1
                  [] status = "processing" -> 2 [] OTHER -> 3

\* A late answer never takes the job on the screen back to an earlier state;
\* only a retry reopens a failed job.
NeverBackwards ==
    [][ scr.jobId # NoJob /\ scr'.jobId = scr.jobId =>
          \/ Rank(scr'.job.status) >= Rank(scr.job.status)
          \/ scr.job.status = "failed" ]_vars

\* The waiting card gives way to a result or an error, unless the job is
\* deleted under it.
WaitingEnds ==
    Active ~> (~Active \/ \E j \in Jobs : scr.jobId = j /\ answer[j] = "gone")

=============================================================================
