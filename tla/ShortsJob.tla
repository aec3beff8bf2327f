------------------------------ MODULE ShortsJob ------------------------------
(***************************************************************************)
(* A submission of the shorts screen: captions, session, upload, polls and *)
(* the finished video, against a service that keeps JobContract until a    *)
(* restart loses its jobs.  The clip list is a version number here; module *)
(* ShortsClips says what is in it.                                         *)
(*                                                                         *)
(* A call is sent by one step, served or lost by a second and applied by a *)
(* third, to the page as it is by then.  What React batches is one step.   *)
(***************************************************************************)
EXTENDS Naturals, FiniteSetsExt

CONSTANTS
    Jobs,      \* ids the service can hand out
    NoJob,     \* null
    MaxEdits,  \* bound on versions of the clip list
    MaxPolls,  \* bound on polls in flight
    Patience   \* which users there are, see patient

ASSUME SubmissionAssumption ==
    /\ NoJob \notin Jobs
    /\ {MaxEdits, MaxPolls} \subseteq Nat \ {0}
    /\ Patience \subseteq BOOLEAN

VARIABLES
    answer,    \* what the service answers about each job
    madeFrom,  \* the version each job was made from
    page,      \* the React state of the screen
    sub,       \* the submission under way
    polls,     \* polls in flight, in slots the timer fills
    reset,     \* "start a new video" under way
    wide,      \* a wide window, where every card is visible
    patient    \* the user lets a reset settle before going on

jobVars == <<answer, madeFrom, page, sub, polls, reset, wide, patient>>
service == <<answer, madeFrom>>
kind == <<wide, patient>>
Slots == 1..MaxPolls

Service == INSTANCE JobContract

Rendering == {"queued", "processing"}
Shown == {"queued", "processing", "completed", "failed", "rejected"}

Nothing == [id |-> NoJob, status |-> "none"]
NoSubmission == [pc |-> "none", version |-> 0, id |-> NoJob]
NoReset == [pc |-> "none", id |-> NoJob]
NoPoll == [id |-> NoJob, got |-> "none"]

\* late (history): an answer nobody waited for any more put the job there.

Fresh ==
    [version |-> 0, edits |-> 0, pressed |-> 0, job |-> Nothing, late |-> FALSE,
     submitting |-> FALSE, captioning |-> FALSE,
     editing |-> FALSE, step |-> 1]

-----------------------------------------------------------------------------
(* What the screen derives from its state *)

Polling == page.job.status \in Rendering
PageBusy == page.submitting \/ Polling \/ page.captioning
HasResult == page.job.status = "completed"

\* shownStep: a job that moves wins over the step the user chose.
ShownStep ==
    CASE HasResult /\ ~page.editing -> 3
      [] Polling -> 2
      [] OTHER -> page.step

CardVisible(n) == wide \/ ShownStep = n
Settled == patient => reset = NoReset

-----------------------------------------------------------------------------
(* The form *)

\* Files, order, cuts, captions, topic, mood or sound change.
EditClips ==
    /\ ~PageBusy /\ (CardVisible(1) \/ CardVisible(2)) /\ Settled
    /\ page.edits < MaxEdits
    /\ page' = [page EXCEPT !.version = page.edits + 1, !.edits = @ + 1]
    /\ UNCHANGED <<service, sub, polls, reset, kind>>

\* The bar at the bottom of a phone; it is not there on the result.
PhoneStep ==
    /\ ~wide /\ Settled /\ ShownStep <= 2
    /\ \/ ShownStep = 2 /\ page' = [page EXCEPT !.step = 1]
       \/ ShownStep = 1 /\ page.version # 0 /\ page' = [page EXCEPT !.step = 2]
    /\ UNCHANGED <<service, sub, polls, reset, kind>>

EditResult ==
    /\ HasResult /\ ~PageBusy /\ CardVisible(3) /\ Settled
    /\ page' = [page EXCEPT !.editing = TRUE, !.step = 2]
    /\ UNCHANGED <<service, sub, polls, reset, kind>>

-----------------------------------------------------------------------------
(* submitDraft *)

\* Mutant: the job before stays on the screen.
BeginKeepsJob(s) ==
    /\ sub' = [s EXCEPT !.pc = "session"]
    /\ page' = [page EXCEPT !.version = s.version, !.pressed = s.version,
                            !.submitting = TRUE, !.captioning = FALSE]

\* setClips(withCaptions) puts the list of the click back with its captions.
Begin(s) ==
    /\ sub' = [s EXCEPT !.pc = "session"]
    /\ page' = [page EXCEPT !.version = s.version, !.pressed = s.version,
                            !.job = Nothing, !.late = FALSE,
                            !.submitting = TRUE, !.captioning = FALSE]

PressGenerate ==
    /\ ~PageBusy /\ CardVisible(2) /\ Settled
    /\ page.version # 0
    /\ LET s == [pc |-> "captions", version |-> page.version, id |-> NoJob] IN
       \/ Begin(s)     \* without a topic or a mood
       \/ sub' = s /\ page' = [page EXCEPT !.captioning = TRUE]
    /\ UNCHANGED <<service, polls, reset, kind>>

\* AI captions for the list alone: "generate captions" in the cut list.
CaptionList ==
    \/ /\ ~PageBusy /\ CardVisible(2) /\ Settled /\ page.version # 0
       /\ sub.pc = "none"
       /\ sub' = [sub EXCEPT !.pc = "list"]
       /\ page' = [page EXCEPT !.captioning = TRUE]
       /\ UNCHANGED <<service, polls, reset, kind>>
    \/ /\ sub.pc = "list"
       /\ sub' = NoSubmission
       /\ page' = [page EXCEPT !.captioning = FALSE]
       /\ UNCHANGED <<service, polls, reset, kind>>

CaptionsBack ==
    /\ sub.pc = "captions"
    /\ Begin(sub)
    /\ UNCHANGED <<service, polls, reset, kind>>

\* Mutant: the spinner is taken away only when there is a job to show.
EndSubmissionKeepsSpinner(p) ==
    /\ sub' = NoSubmission
    /\ page' = [p EXCEPT !.submitting = p.job = Nothing]

\* finally
EndSubmission(p) ==
    /\ sub' = NoSubmission
    /\ page' = [p EXCEPT !.submitting = FALSE]

\* ensureFreshSession: alive, or dead or an error, which leave a notice.
SessionChecked ==
    /\ sub.pc = "session"
    /\ \/ sub' = [sub EXCEPT !.pc = "create"] /\ UNCHANGED page
       \/ EndSubmission(page)
    /\ UNCHANGED <<service, polls, reset, kind>>

\* POST /video-jobs: accepted, turned down, or accepted and the answer lost.
CreateServed ==
    /\ sub.pc = "create"
    /\ \/ \E j \in Jobs :
            /\ Service!Accept(j)
            /\ madeFrom' = [madeFrom EXCEPT ![j] = sub.version]
            /\ sub' \in {[sub EXCEPT !.pc = "created", !.id = j],
                         [sub EXCEPT !.pc = "failed"]}
       \/ sub' = [sub EXCEPT !.pc = "failed"] /\ UNCHANGED service
    /\ UNCHANGED <<page, polls, reset, kind>>

SubmissionFails ==
    /\ sub.pc = "failed"
    /\ EndSubmission(page)
    /\ UNCHANGED <<service, polls, reset, kind>>

\* The new job's id is there: the first GET is sent.
CreateArrives ==
    /\ sub.pc = "created"
    /\ sub' = [sub EXCEPT !.pc = "get"]
    /\ page' = [page EXCEPT !.editing = FALSE]
    /\ UNCHANGED <<service, polls, reset, kind>>

\* The first GET brings the job, or fails and leaves it to nobody.
GetArrives ==
    /\ sub.pc = "get"
    /\ \/ /\ answer[sub.id] \in Shown
          /\ EndSubmission([page EXCEPT !.job = [id |-> sub.id, status |-> answer[sub.id]],
                                        !.late = FALSE])
       \/ EndSubmission(page)
    /\ UNCHANGED <<service, polls, reset, kind>>

-----------------------------------------------------------------------------
(* Polls *)

Free == {s \in Slots : polls[s] = NoPoll}

\* setInterval sends the next poll whether the one before was answered or not.
PollSent ==
    /\ Polling /\ Free # {}
    /\ polls' = [polls EXCEPT ![Min(Free)] = [id |-> page.job.id, got |-> "asked"]]
    /\ UNCHANGED <<service, page, sub, reset, kind>>

PollServed(s) ==
    /\ polls[s].got = "asked" /\ answer[polls[s].id] \in Shown
    /\ polls' = [polls EXCEPT ![s].got = answer[polls[s].id]]
    /\ UNCHANGED <<service, page, sub, reset, kind>>

\* The call failed, or the service no longer has the job (404): the page leaves
\* a message, and the timer goes on.
PollLost(s) ==
    /\ polls[s].got = "asked"
    /\ polls' = [polls EXCEPT ![s] = NoPoll]
    /\ UNCHANGED <<service, page, sub, reset, kind>>

\* The answer is shown whatever the page polls by then: nothing cancels a poll.
PollArrives(s) ==
    /\ polls[s].got \notin {"none", "asked"}
    /\ polls' = [polls EXCEPT ![s] = NoPoll]
    /\ page' = [page EXCEPT !.job = [id |-> polls[s].id, status |-> polls[s].got],
                            !.late = @ \/ ~Polling \/ page.job.id # polls[s].id]
    /\ UNCHANGED <<service, sub, reset, kind>>

-----------------------------------------------------------------------------
(* reset: the delete is awaited, and what the page holds by then is dropped *)

PressReset ==
    /\ HasResult /\ ~PageBusy /\ CardVisible(3) /\ Settled
    /\ reset = NoReset   \* a bound: one delete in flight
    /\ reset' = [pc |-> "asked", id |-> page.job.id]
    /\ UNCHANGED <<service, page, sub, polls, kind>>

DeleteServed ==
    /\ reset.pc = "asked"
    /\ reset' = [reset EXCEPT !.pc = "answered"]
    /\ \/ Service!Remove({reset.id})
       \/ UNCHANGED answer    \* lost, or refused
    /\ UNCHANGED <<madeFrom, page, sub, polls, kind>>

ResetArrives ==
    /\ reset.pc = "answered"
    /\ reset' = NoReset
    /\ page' = [Fresh EXCEPT
                   !.edits = page.edits, !.pressed = page.pressed,
                   !.submitting = page.submitting, !.captioning = page.captioning]
    /\ UNCHANGED <<service, sub, polls, kind>>

-----------------------------------------------------------------------------
(* The service *)

JobStarts == (\E j \in Jobs : Service!Start(j)) /\ UNCHANGED <<madeFrom, page, sub, polls, reset, kind>>
JobEnds ==
    /\ \E j \in Jobs : Service!Complete(j) \/ Service!Fail(j)
    /\ UNCHANGED <<madeFrom, page, sub, polls, reset, kind>>

\* The jobs are in the memory of the service: from now on they answer 404.
ServiceRestarts ==
    /\ answer' = [j \in Jobs |-> IF answer[j] = "none" THEN "none" ELSE "gone"]
    /\ UNCHANGED <<madeFrom, page, sub, polls, reset, kind>>

JobInit ==
    /\ Service!Init
    /\ madeFrom = [j \in Jobs |-> 0]
    /\ page = Fresh /\ sub = NoSubmission /\ reset = NoReset
    /\ polls = [s \in Slots |-> NoPoll]
    /\ wide \in BOOLEAN /\ patient \in Patience

Submission ==
    \/ CaptionList \/ CaptionsBack \/ SessionChecked \/ CreateServed
    \/ SubmissionFails \/ CreateArrives \/ GetArrives

JobNext ==
    \/ EditClips \/ PhoneStep \/ EditResult \/ PressGenerate
    \/ Submission
    \/ PollSent \/ \E s \in Slots : PollServed(s) \/ PollLost(s) \/ PollArrives(s)
    \/ PressReset \/ DeleteServed \/ ResetArrives
    \/ JobStarts \/ JobEnds \/ ServiceRestarts

\* Every call is answered or fails (fetch and the proxy give up in the end), the
\* timer fires while a job is shown as under way, the service's lane works on, and
\* not every poll fails.
JobFairness ==
    /\ WF_jobVars(CaptionsBack) /\ WF_jobVars(sub.pc = "list" /\ CaptionList)
    /\ WF_jobVars(SessionChecked) /\ WF_jobVars(CreateServed)
    /\ WF_jobVars(SubmissionFails) /\ WF_jobVars(CreateArrives) /\ WF_jobVars(GetArrives)
    /\ WF_jobVars(PollSent) /\ WF_jobVars(\E s \in Slots : PollArrives(s))
    /\ WF_jobVars(\E s \in Slots : PollServed(s) \/ PollLost(s))
    /\ SF_jobVars(\E s \in Slots : PollServed(s))
    /\ WF_jobVars(JobStarts) /\ WF_jobVars(JobEnds)

JobSpec == JobInit /\ [][JobNext]_jobVars /\ JobFairness

-----------------------------------------------------------------------------
(* Properties *)

\* The screen, the submission and the polls are ones the code tells apart; an id on
\* the screen comes with its status.
JobTypeOK ==
    /\ answer \in [Jobs -> Service!Answers]
    /\ madeFrom \in [Jobs -> 0..MaxEdits]
    /\ page \in [version : 0..MaxEdits, edits : 0..MaxEdits, pressed : 0..MaxEdits,
                 job : [id : Jobs \union {NoJob}, status : Shown \union {"none"}],
                 late : BOOLEAN,
                 submitting : BOOLEAN, captioning : BOOLEAN, editing : BOOLEAN,
                 step : 1..2]
    /\ sub.pc \in {"none", "list", "captions", "session", "create", "created", "get", "failed"}
    /\ page.job.id = NoJob <=> page.job.status = "none"
    /\ polls \in [Slots -> [id : Jobs \union {NoJob},
                            got : Shown \union {"none", "asked"}]]

\* The job on the screen was made from the list of the last press of "generate",
\* whatever failed before, and from the list on the screen for as long as it is
\* under way: for a user who waits for a reset, and as long as no late poll of a
\* job the page had left, or had seen the end of, put its job there.
ResultIsOfSubmission ==
    patient /\ ~page.late =>
        /\ page.job.id # NoJob /\ ~page.submitting => madeFrom[page.job.id] = page.pressed
        /\ Polling => madeFrom[page.job.id] = page.version

\* The service lost or deleted the job the page goes on polling.
Forgotten == Polling /\ answer[page.job.id] = "gone"

\* The spinner stays only for a job the service no longer has: a submission ends in
\* a job or in a message, and a job under way is seen to end, through lost and
\* through late polls too.
BusyEnds == PageBusy ~> (~PageBusy \/ Forgotten)

=============================================================================
