-------------------------- MODULE FaceSwapPageProofs --------------------------
(***************************************************************************)
(* Three invariants of the page, for any number of jobs, photos, reloads   *)
(* and calls.                                                              *)
(*                                                                         *)
(* ConsentInv, for users who do not wait as well: no photo is sent without *)
(* the consent given for it. ConsentCoversPhoto speaks of the call in      *)
(* flight only. It is kept because the box that is ticked always stands    *)
(* for the photo on the screen, and because a call in flight keeps the box *)
(* from being cleared. The two records are functions on their fields: that *)
(* much of their type is what EXCEPT needs.                                *)
(*                                                                         *)
(* PageInv, for users who wait (patient): what is on the screen, saved and *)
(* under way belongs to one job. The job on the screen, the saved one and  *)
(* the one that a call in flight was made for are the same (Cleared,       *)
(* Resumes, OneCall); nothing that is shown or about to be shown is ahead  *)
(* of the server (InOrder); and a photo is remembered for the job made     *)
(* from it (OwnPhoto).                                                     *)
(*                                                                         *)
(* RecentInv, for every user: the types, and that a job is put into the    *)
(* recent ones only when a poll or a resume saw it completed. The answer   *)
(* may come late, but it is then still about the job that the page has     *)
(* asked for (PollsOK, RestoreOK), and that job is completed or gone since *)
(* (Done): nothing reopens it. AddRecent and RemoveRecent keep the list    *)
(* short and without repetitions, the latter by induction over the list.   *)
(***************************************************************************)
EXTENDS FaceSwapPage, SequenceTheorems, FiniteSetTheorems, Recursion, TLAPS

ScreenFields == {"photo", "jobPhoto", "consent", "face", "requesting",
                 "restoring", "jobId", "job", "step"}
CreateFields == {"photo", "got"}

IsScreen(s) == s = [f \in ScreenFields |-> s[f]]
IsCreate(c) == c = [f \in CreateFields |-> c[f]]

Ticked(s, photos) == s.consent = FALSE \/ s.photo = 0 \/ s.photo \in photos
Sent(s, c, photos) == c.photo = 0 \/ (c.photo \in photos /\ s.requesting = TRUE)

ConsentInv ==
    /\ IsScreen(scr) /\ IsCreate(create)
    /\ Ticked(scr, agreed)
    /\ Sent(scr, create, agreed)

-----------------------------------------------------------------------------
\* A step that leaves the photo and the box alone, and the call too.
LEMMA SameConsent ==
    ASSUME ConsentInv, NEW s, IsScreen(s), scr' = s,
           s.photo = scr.photo, s.consent = scr.consent, s.requesting = scr.requesting,
           UNCHANGED <<create, agreed>>
    PROVE  ConsentInv'
  BY DEF ConsentInv, Ticked, Sent

\* A step after which nothing is being sent, and which ticks no box.
LEMMA NothingSent ==
    ASSUME ConsentInv, NEW s, IsScreen(s), scr' = s,
           s.photo = scr.photo, s.consent = scr.consent,
           create' = NoCall, UNCHANGED agreed
    PROVE  ConsentInv'
  BY DEF ConsentInv, Ticked, Sent, NoCall, IsCreate, CreateFields

\* A step that clears the box.
LEMMA BoxCleared ==
    ASSUME ConsentInv, NEW s, IsScreen(s), scr' = s,
           s.consent = FALSE, s.requesting = scr.requesting,
           UNCHANGED <<create, agreed>>
    PROVE  ConsentInv'
  BY DEF ConsentInv, Ticked, Sent

\* Another photo takes the place of the last one.
LEMMA PhotoChangeKeeps ==
    ASSUME ConsentInv, NEW photo, PhotoChange(photo), UNCHANGED <<create, agreed>>
    PROVE  ConsentInv'
<1> DEFINE s == [scr EXCEPT !.photo = photo, !.consent = FALSE]
<1>1. IsScreen(s) /\ s.consent = FALSE /\ s.requesting = scr.requesting
  BY DEF ConsentInv, IsScreen, ScreenFields
<1>2. scr' = s
  BY DEF PhotoChange
<1> HIDE DEF s
<1> QED
  BY <1>1, <1>2, BoxCleared

\* The box is ticked or unticked.
LEMMA ToggleKeeps == ASSUME ConsentInv, ToggleConsent PROVE ConsentInv'
<1>1. scr.requesting # TRUE /\ create.photo = 0
  BY DEF ToggleConsent, Busy, ConsentInv, Sent
<1>2. IsScreen(scr') /\ scr'.photo = scr.photo /\ scr'.consent = ~scr.consent
  BY DEF ToggleConsent, ConsentInv, IsScreen, ScreenFields
<1>3. Ticked(scr', agreed')
  <2>1. CASE scr.consent
    BY <1>2, <2>1 DEF Ticked
  <2>2. CASE ~scr.consent
    BY <1>2, <2>2 DEF ToggleConsent, Ticked
  <2> QED
    BY <2>1, <2>2
<1>4. create' = create
  BY DEF ToggleConsent
<1> QED
  BY <1>1, <1>2, <1>3, <1>4 DEF ConsentInv, Sent

\* The call takes the photo on the screen.
LEMMA GenerateKeeps == ASSUME ConsentInv, Generate PROVE ConsentInv'
<1> DEFINE s == [scr EXCEPT !.requesting = TRUE, !.jobId = NoJob, !.job = Nothing]
<1>1. IsScreen(s) /\ s.photo = scr.photo /\ s.consent = scr.consent /\ s.requesting = TRUE
  BY DEF ConsentInv, IsScreen, ScreenFields
<1>2. scr' = s /\ agreed' = agreed /\ create' = [photo |-> scr.photo, got |-> "sent"]
  BY DEF Generate, Show
<1>3. scr.photo \in agreed
  BY DEF Generate, ConsentInv, Ticked
<1>4. IsCreate(create') /\ create'.photo = scr.photo
  BY <1>2 DEF IsCreate, CreateFields
<1> HIDE DEF s
<1> QED
  BY <1>1, <1>2, <1>3, <1>4 DEF ConsentInv, Ticked, Sent

\* The answer to the create call is kept in it until the page applies it.
LEMMA CreateAnswered ==
    ASSUME ConsentInv, NEW got, create' = [create EXCEPT !.got = got],
           UNCHANGED <<scr, agreed>>
    PROVE  ConsentInv'
<1>1. IsCreate(create') /\ create'.photo = create.photo
  BY DEF ConsentInv, IsCreate, CreateFields
<1> QED
  BY <1>1 DEF ConsentInv, Ticked, Sent

-----------------------------------------------------------------------------
\* Nothing is ticked at the start.
LEMMA ConsentInit == Init => ConsentInv
  BY DEF Init, ConsentInv, IsScreen, ScreenFields, IsCreate, CreateFields,
         Fresh, NoCall, Ticked, Sent

\* The handlers and effects that end with the screen replaced by s.
LEMMA ShownKeeps ==
    ASSUME ConsentInv,
           \/ ChooseFace \/ StepNav \/ CreateShown \/ CreateFailed \/ PollShown
           \/ NextPhoto \/ RestoreShown \/ RestoreFailed
           \/ \E c \in calls : RetryShown(c) \/ DeleteShown(c)
           \/ \E j \in Jobs : SelectRecent(j)
    PROVE  ConsentInv'
<1> USE DEF ConsentInv, IsScreen, ScreenFields
<1>1. CASE ChooseFace \/ StepNav
  <2>1. PICK v : scr' = [scr EXCEPT !.face = v] \/ scr' = [scr EXCEPT !.step = v]
    BY <1>1 DEF ChooseFace, StepNav
  <2>2. /\ IsScreen(scr') /\ scr'.photo = scr.photo /\ scr'.consent = scr.consent
        /\ scr'.requesting = scr.requesting
    BY <2>1
  <2> QED
    BY <1>1, <2>2, SameConsent DEF ChooseFace, StepNav
<1>2. CASE CreateShown \/ CreateFailed
  <2>1. IsScreen(scr') /\ scr'.photo = scr.photo /\ scr'.consent = scr.consent
    BY <1>2 DEF CreateShown, CreateFailed, Show
  <2> QED
    BY <1>2, <2>1, NothingSent DEF CreateShown, CreateFailed
<1>3. CASE PollShown
  <2>1. PICK v : scr' = [scr EXCEPT !.job = v]
    BY <1>3 DEF PollShown
  <2>2. /\ IsScreen(scr') /\ scr'.photo = scr.photo /\ scr'.consent = scr.consent
        /\ scr'.requesting = scr.requesting
    BY <2>1
  <2> QED
    BY <1>3, <2>2, SameConsent DEF PollShown
<1>4. CASE NextPhoto
  <2>1. IsScreen(scr') /\ scr'.consent = FALSE /\ scr'.requesting = scr.requesting
    BY <1>4 DEF NextPhoto, Show
  <2> QED
    BY <1>4, <2>1, BoxCleared DEF NextPhoto
<1>5. CASE RestoreShown \/ RestoreFailed
  <2>1. /\ IsScreen(scr') /\ scr'.photo = scr.photo /\ scr'.consent = scr.consent
        /\ scr'.requesting = scr.requesting
    BY <1>5 DEF RestoreShown, RestoreFailed, Show
  <2> QED
    BY <1>5, <2>1, SameConsent DEF RestoreShown, RestoreFailed
<1>6. ASSUME NEW c \in calls, RetryShown(c) \/ DeleteShown(c) PROVE ConsentInv'
  <2>1. /\ IsScreen(scr') /\ scr'.photo = scr.photo /\ scr'.consent = scr.consent
        /\ scr'.requesting = scr.requesting
    BY <1>6 DEF RetryShown, DeleteShown, Show
  <2> QED
    BY <1>6, <2>1, SameConsent DEF RetryShown, DeleteShown
<1>7. ASSUME NEW j \in Jobs, SelectRecent(j) PROVE ConsentInv'
  <2>1. /\ IsScreen(scr') /\ scr'.photo = scr.photo /\ scr'.consent = scr.consent
        /\ scr'.requesting = scr.requesting
    BY <1>7 DEF SelectRecent, Show
  <2> QED
    BY <1>7, <2>1, SameConsent DEF SelectRecent
<1> QED
  BY <1>1, <1>2, <1>3, <1>4, <1>5, <1>6, <1>7

\* The steps that touch neither the screen nor the call nor the consents.
LEMMA OthersKeep ==
    ASSUME ConsentInv, UNCHANGED <<scr, create, agreed>> PROVE ConsentInv'
  BY DEF ConsentInv, Ticked, Sent

\* ConsentInv is inductive.
LEMMA ConsentStep == ConsentInv /\ [Next]_vars => ConsentInv'
<1> SUFFICES ASSUME ConsentInv, [Next]_vars PROVE ConsentInv'
  OBVIOUS
<1>1. CASE ChoosePhoto
  BY <1>1, PhotoChangeKeeps DEF ChoosePhoto
<1>2. CASE SampleArrives
  <2>1. CASE UNCHANGED scr
    BY <1>2, <2>1, OthersKeep DEF SampleArrives
  <2>2. CASE PhotoChange(uploads + 1)
    BY <1>2, <2>2, PhotoChangeKeeps DEF SampleArrives
  <2> QED
    BY <1>2, <2>1, <2>2 DEF SampleArrives
<1>3. CASE ToggleConsent
  BY <1>3, ToggleKeeps
<1>4. CASE Generate
  BY <1>4, GenerateKeeps
<1>5. CASE CreateRefused
  BY <1>5, CreateAnswered DEF CreateRefused
<1>6. ASSUME NEW j \in Jobs, CreateServed(j) PROVE ConsentInv'
  BY <1>6, CreateAnswered DEF CreateServed
<1>7. CASE Reload
  <2>1. IsScreen(scr') /\ scr'.consent = FALSE
    BY <1>7 DEF Reload, Fresh, IsScreen, ScreenFields
  <2>2. create' = NoCall
    BY <1>7 DEF Reload
  <2> QED
    BY <2>1, <2>2 DEF ConsentInv, Ticked, Sent, NoCall, IsCreate, CreateFields
<1>8. CASE RestoreNothing
  <2>1. PICK load \in BOOLEAN :
          scr' = [scr EXCEPT !.restoring = FALSE,
                             !.photo = IF load THEN uploads + 1 ELSE @,
                             !.consent = IF load THEN FALSE ELSE @]
    BY <1>8 DEF RestoreNothing
  <2>2. IsScreen(scr') /\ scr'.requesting = scr.requesting
        /\ \/ scr'.consent = FALSE
           \/ scr'.photo = scr.photo /\ scr'.consent = scr.consent
    BY <2>1 DEF ConsentInv, IsScreen, ScreenFields
  <2> QED
    BY <1>8, <2>2, SameConsent, BoxCleared DEF RestoreNothing
<1>9. CASE \/ ChooseFace \/ StepNav \/ CreateShown \/ CreateFailed \/ PollShown
           \/ NextPhoto \/ RestoreShown \/ RestoreFailed
           \/ \E c \in calls : RetryShown(c) \/ DeleteShown(c)
           \/ \E j \in Jobs : SelectRecent(j)
  BY <1>9, ShownKeeps
<1>10. CASE \/ UseSample \/ PollServed \/ PressRetry \/ PressDelete \/ StripLoaded
            \/ RestoreServed \/ RestoreMissing
  BY <1>10, OthersKeep
     DEF UseSample, PollServed, PressRetry, PressDelete, Press, StripLoaded,
         RestoreServed, RestoreMissing
<1>11. ASSUME NEW c \in calls, RetryServed(c) \/ GetServed(c) \/ DeleteServed(c)
       PROVE  ConsentInv'
  BY <1>11, OthersKeep DEF RetryServed, GetServed, DeleteServed
<1>12. ASSUME NEW j \in Jobs, ServerRuns(j) \/ Expire(j) PROVE ConsentInv'
  BY <1>12, OthersKeep DEF ServerRuns, Expire
<1>13. CASE UNCHANGED vars
  BY <1>13, OthersKeep DEF vars
<1> QED
  BY <1>1, <1>2, <1>3, <1>4, <1>5, <1>6, <1>7, <1>8, <1>9, <1>10, <1>11, <1>12, <1>13
     DEF Next

\* However late a sample photo or an answer comes, and however often the photo is
\* changed, a create call carries a photo whose consent was confirmed and not
\* taken back.
THEOREM SentWithConsent == Spec => []ConsentCoversPhoto
<1>1. ConsentInv => ConsentCoversPhoto
  BY DEF ConsentInv, Sent, ConsentCoversPhoto
<1> QED
  BY <1>1, ConsentInit, ConsentStep, PTL DEF Spec

-----------------------------------------------------------------------------
(* What the page shows of a job, for a user who is patient *)

Ids == Jobs \union {NoJob}

Screens == [photo : Nat, jobPhoto : Nat, consent : BOOLEAN, face : BOOLEAN,
            requesting : BOOLEAN, restoring : BOOLEAN, jobId : Ids,
            job : [id : Ids, status : Statuses \union {"none"}], step : Nat]

\* The types that the argument needs; the recent jobs are not in it.
Types ==
    /\ scr \in Screens
    /\ create \in [photo : Nat, got : Jobs \union {"none", "sent", "lost"}]
    /\ restore \in [id : Ids, got : Statuses \union {"none", "missing"},
                    wantsSample : BOOLEAN]
    /\ store = [active |-> store.active, recent |-> store.recent]
    /\ store.active \in Ids
    /\ polls \subseteq Statuses /\ calls \subseteq Calls
    /\ answer \in [Jobs -> Server!Answers] /\ madeFrom \in [Jobs -> Nat]
    /\ uploads \in Nat
    /\ patient = TRUE

\* A submission under way has cleared the screen, and so has a page that opens.
Cleared ==
    /\ create.got # "none" => scr.requesting
    /\ scr.requesting => scr.jobId = NoJob /\ ~scr.restoring
    /\ scr.restoring => scr.jobId = NoJob /\ scr.jobPhoto = 0
    /\ scr.job = Nothing \/ (scr.jobId # NoJob /\ scr.job.id = scr.jobId
                              /\ scr.job.status # "none")

\* The job asked for by a page that opens is the saved one.
Resumes ==
    /\ restore.got \in Statuses \union {"missing"} => restore.id # NoJob
    /\ restore.id # NoJob => scr.restoring /\ restore.id = store.active
    /\ Active => store.active = scr.jobId

\* A retry or a deletion is the only one, and of the ended job on the screen.
OneCall ==
    /\ \A c, d \in calls : c = d
    /\ \A c \in calls :
         /\ c.id = scr.jobId /\ Terminal
         /\ c.op # "delete" => scr.job.status = "failed" /\ c.got # "deleted"
         /\ c.op = "retry" => c.got = "none"
    /\ polls # {} => Active

\* Every job the page can come to know was accepted by the server.
Known ==
    /\ create.got \in Jobs => answer[create.got] # "none"
    /\ \A j \in Jobs :
         j \in strip.items \union {scr.jobId, restore.id, store.active} => answer[j] # "none"

\* What is shown, or on its way to the screen, is not ahead of the server.
InOrder ==
    /\ Active => Rank(scr.job.status) <= Rank(answer[scr.jobId])
    /\ \A status \in polls : Rank(scr.job.status) <= Rank(status)
                              /\ Rank(status) <= Rank(answer[scr.jobId])
    /\ restore.got \in Statuses => Rank(restore.got) <= Rank(answer[restore.id])
    /\ \A c \in calls : c.op = "get" /\ c.got # "none" =>
                          Rank(c.got) <= Rank(answer[c.id])

\* The photo remembered for a job is the one the server made it from.
OwnPhoto ==
    /\ create.got \in Jobs => madeFrom[create.got] = create.photo
    /\ scr.jobId # NoJob /\ scr.jobPhoto # 0 => madeFrom[scr.jobId] = scr.jobPhoto

PageInv ==
    /\ Types /\ Cleared /\ Resumes /\ OneCall
    /\ Known /\ InOrder /\ OwnPhoto

-----------------------------------------------------------------------------
\* The order of the states of a job.
LEMMA RankOrder ==
    /\ \A status : Rank(status) \in 0..3
    /\ Rank("none") = 0 /\ Rank("queued") = 1 /\ Rank("processing") = 2
    /\ Rank("gone") = 3
    /\ \A status \in Ended : Rank(status) = 3
  BY DEF Rank, Ended

\* The empty page satisfies PageInv.
LEMMA PageInit == Init /\ patient = TRUE => PageInv
<1> SUFFICES ASSUME Init, patient = TRUE PROVE PageInv
  OBVIOUS
<1> USE DEF Init, Fresh, NoCall, Opening, Nothing, Ids
<1>1. Types
  <2>1. scr \in Screens /\ uploads \in Nat
    BY DEF Screens
  <2>2. create \in [photo : Nat, got : Jobs \union {"none", "sent", "lost"}]
    OBVIOUS
  <2>3. restore \in [id : Ids, got : Statuses \union {"none", "missing"},
                     wantsSample : BOOLEAN]
    <3>1. PICK ask \in BOOLEAN : restore = [id |-> NoJob, got |-> "none",
                                            wantsSample |-> ask]
      OBVIOUS
    <3> QED
      BY <3>1
  <2>4. answer \in [Jobs -> Server!Answers] /\ madeFrom \in [Jobs -> Nat]
    BY DEF Server!Answers
  <2> QED
    BY <2>1, <2>2, <2>3, <2>4 DEF Types
<1>2. Cleared /\ Resumes /\ OneCall /\ Known /\ InOrder /\ OwnPhoto
  BY PageAssumption
     DEF Cleared, Resumes, OneCall, Known, InOrder, OwnPhoto, Active, Statuses, Ended
<1> QED
  BY <1>1, <1>2 DEF PageInv


\* The job on the screen stays the same, whatever becomes of the form.
SameScreenJob ==
    /\ scr' \in Screens /\ uploads' \in Nat
    /\ scr'.requesting = scr.requesting /\ scr'.restoring = scr.restoring
    /\ scr'.jobId = scr.jobId /\ scr'.job = scr.job /\ scr'.jobPhoto = scr.jobPhoto

\* Steps that leave the job on the screen, the calls and the saved job alone.
LEMMA SameJob ==
    ASSUME PageInv, SameScreenJob,
           UNCHANGED <<server, store, create, polls, calls, restore, strip, patient>>
    PROVE  PageInv'
<1> USE DEF PageInv, server, SameScreenJob
<1>1. Types'
  BY DEF Types
<1>2. Active' = Active /\ Terminal' = Terminal
  BY DEF Active, Terminal
<1>3. Cleared' /\ Resumes' /\ OneCall'
  BY <1>2 DEF Cleared, Resumes, OneCall
<1>4. Known' /\ InOrder' /\ OwnPhoto'
  BY <1>2 DEF Known, InOrder, OwnPhoto
<1> QED
  BY <1>1, <1>3, <1>4

\* The form.
LEMMA FormKeeps ==
    ASSUME PageInv,
           ChoosePhoto \/ UseSample \/ SampleArrives \/ ToggleConsent \/ ChooseFace
             \/ StepNav
    PROVE  PageInv'
<1>1. SameScreenJob
  <2>1. scr \in Screens /\ uploads \in Nat
    BY DEF PageInv, Types
  <2>2. ASSUME NEW photo \in Nat, PhotoChange(photo) PROVE SameScreenJob
    BY <2>1, <2>2 DEF PhotoChange, Screens, SameScreenJob
  <2>3. CASE UseSample \/ (SampleArrives /\ UNCHANGED <<scr, uploads>>)
    BY <2>1, <2>3 DEF UseSample, SameScreenJob
  <2>4. CASE \E photo \in {0, uploads + 1} : PhotoChange(photo)
    BY <2>1, <2>2, <2>4
  <2>5. CASE ToggleConsent \/ ChooseFace
    BY <2>1, <2>5 DEF ToggleConsent, ChooseFace, Screens, SameScreenJob
  <2>6. CASE StepNav
    <3>1. PICK n \in Nat : scr' = [scr EXCEPT !.step = n]
      BY <2>1, <2>6 DEF StepNav, Screens, InputSteps
    <3>2. uploads' = uploads
      BY <2>6 DEF StepNav
    <3> QED
      BY <2>1, <3>1, <3>2 DEF Screens, SameScreenJob
  <2> QED
    BY <2>3, <2>4, <2>5, <2>6 DEF ChoosePhoto, SampleArrives
<1>2. UNCHANGED <<server, store, create, polls, calls, restore, strip, patient>>
  BY DEF ChoosePhoto, UseSample, SampleArrives, ToggleConsent, ChooseFace, StepNav,
         settings
<1> QED
  BY <1>1, <1>2, SameJob

-----------------------------------------------------------------------------
(* The server moves the jobs on *)

\* No answer but that of a retry takes a job back.
Onwards ==
    /\ answer' \in [Jobs -> Server!Answers] /\ madeFrom' \in [Jobs -> Nat]
    /\ \A j \in Jobs : /\ Rank(answer[j]) <= Rank(answer'[j])
                       /\ answer[j] # "none" => answer'[j] # "none"
                                                /\ madeFrom'[j] = madeFrom[j]

\* What the page and its calls know stays behind a server that moves onwards.
LEMMA OrderKept ==
    ASSUME PageInv, Onwards, UNCHANGED <<scr, polls, calls, restore>>
    PROVE  InOrder'
<1> USE DEF PageInv
<1>1. ASSUME NEW j \in Jobs, NEW n \in Nat, n <= Rank(answer[j])
      PROVE  n <= Rank(answer'[j])
  BY <1>1, RankOrder DEF Onwards
<1>2. \A status : Rank(status) \in Nat
  BY RankOrder
<1>3. Active => scr.jobId \in Jobs
  BY DEF Active, Types, Screens, Ids
<1>4. polls # {} => scr.jobId \in Jobs
  BY <1>3 DEF OneCall
<1>5. restore.got \in Statuses => restore.id \in Jobs
  BY DEF Resumes, Types, Ids
<1>6. \A c \in calls : c.id \in Jobs
  BY DEF Types, Calls
<1>7. Active' = Active
  BY DEF Active, Terminal
<1> QED
  BY <1>1, <1>2, <1>3, <1>4, <1>5, <1>6, <1>7 DEF InOrder

\* A step of the server that moves jobs onwards keeps PageInv.
LEMMA ServerOnwards ==
    ASSUME PageInv, Onwards,
           UNCHANGED <<store, scr, create, polls, calls, restore, strip, patient, uploads>>
    PROVE  PageInv'
<1> USE DEF PageInv
<1>1. Types'
  BY DEF Types, Onwards
<1>2. Active' = Active /\ Terminal' = Terminal
  BY DEF Active, Terminal
<1>3. Cleared' /\ Resumes' /\ OneCall'
  BY <1>2 DEF Cleared, Resumes, OneCall
<1>4. Known' /\ OwnPhoto'
  BY DEF Known, OwnPhoto, Onwards, Types, Screens, Ids
<1>5. InOrder'
  BY OrderKept
<1> QED
  BY <1>1, <1>3, <1>4, <1>5

\* Its steps: a job runs, or expires.
LEMMA ServerKeeps ==
    ASSUME PageInv, NEW j \in Jobs, ServerRuns(j) \/ Expire(j) PROVE PageInv'
<1>1. PICK to \in {"processing", "completed", "failed", "rejected", "gone"} :
        /\ answer' = [answer EXCEPT ![j] = to]
        /\ Rank(answer[j]) <= Rank(to) /\ answer[j] # "none"
  <2>1. CASE ServerRuns(j)
    BY <2>1, RankOrder
       DEF ServerRuns, Server!Start, Server!Complete, Server!Fail, Server!Reject,
           Server!Move, Ended
  <2>2. CASE Expire(j)
    <3>1. answer[j] \in Ended /\ answer' = [answer EXCEPT ![j] = "gone"]
      BY <2>2 DEF Expire, Server!Remove, Ended, PageInv, Types
    <3> QED
      BY <3>1, RankOrder DEF Ended
  <2> QED
    BY <2>1, <2>2
<1>2. Onwards
  BY <1>1, RankOrder DEF Onwards, PageInv, Types, Server!Answers, ServerRuns, Expire
<1> QED
  BY <1>2, ServerOnwards DEF ServerRuns, Expire, settings

-----------------------------------------------------------------------------
(* The create call *)

\* The server accepts a job.
LEMMA CreateServedKeeps ==
    ASSUME PageInv, NEW j \in Jobs, CreateServed(j) PROVE PageInv'
<1> USE DEF PageInv
<1>1. /\ answer[j] = "none" /\ answer' = [answer EXCEPT ![j] = "queued"]
      /\ madeFrom' = [madeFrom EXCEPT ![j] = create.photo]
      /\ create.got = "sent" /\ create.photo \in Nat
  BY DEF CreateServed, Server!Accept, Server!Move, Types
<1>2. Onwards
  BY <1>1, RankOrder DEF Onwards, Types, Server!Answers
<1>3. PICK got \in {j, "lost"} : create' = [create EXCEPT !.got = got]
  BY DEF CreateServed
<1>4. UNCHANGED <<store, scr, polls, calls, restore, strip, patient, uploads>>
  BY DEF CreateServed, settings
<1>5. Types'
  BY <1>2, <1>3, <1>4 DEF Types, Onwards
<1>6. Active' = Active /\ Terminal' = Terminal
  BY <1>4 DEF Active, Terminal
<1>7. Cleared' /\ Resumes' /\ OneCall'
  BY <1>1, <1>4, <1>6 DEF Cleared, Resumes, OneCall
<1>8. create'.got = got /\ create'.photo = create.photo
  BY <1>3 DEF Types
<1>9. "lost" \notin Jobs
  BY PageAssumption
<1>10. Known' /\ OwnPhoto'
  BY <1>1, <1>2, <1>4, <1>8, <1>9 DEF Known, OwnPhoto, Onwards, Types, Screens, Ids
<1>11. InOrder'
  BY <1>2, <1>4, <1>6, OrderKept
<1> QED
  BY <1>5, <1>7, <1>10, <1>11

\* The call fails or is lost.
LEMMA CreateRefusedKeeps == ASSUME PageInv, CreateRefused PROVE PageInv'
<1> USE DEF PageInv
<1>1. /\ create.got = "sent" /\ create' = [create EXCEPT !.got = "lost"]
      /\ UNCHANGED <<server, store, scr, polls, calls, restore, strip, patient, uploads>>
  BY DEF CreateRefused, settings
<1>2. Types' /\ create'.got = "lost"
  BY <1>1 DEF Types, server
<1>3. Active' = Active /\ Terminal' = Terminal
  BY <1>1 DEF Active, Terminal
<1>4. "lost" \notin Jobs
  BY PageAssumption
<1>5. Cleared' /\ Resumes' /\ OneCall'
  BY <1>1, <1>2, <1>3 DEF Cleared, Resumes, OneCall
<1>6. Known' /\ InOrder' /\ OwnPhoto'
  BY <1>1, <1>2, <1>3, <1>4 DEF Known, InOrder, OwnPhoto, server
<1> QED
  BY <1>2, <1>5, <1>6

\* An answer of the create call applied: nothing else can be on its way.
LEMMA CreateDone ==
    ASSUME PageInv, create.got # "none"
    PROVE  scr.jobId = NoJob /\ ~scr.restoring /\ calls = {} /\ polls = {}
           /\ restore.id = NoJob /\ restore.got \notin Statuses
<1>1. scr.requesting /\ scr.jobId = NoJob /\ ~scr.restoring
  BY DEF PageInv, Cleared
<1>2. calls = {}
  BY <1>1, PageAssumption DEF PageInv, OneCall, Types, Calls
<1> QED
  BY <1>1, <1>2 DEF PageInv, OneCall, Active, Resumes

\* The accepted job comes onto the screen and is saved.
LEMMA CreateShownKeeps ==
    ASSUME PageInv, CreateShown \/ CreateFailed PROVE PageInv'
<1> USE DEF PageInv
<1>1. create.got # "none"
  BY PageAssumption DEF CreateShown, CreateFailed
<1>2. /\ scr.jobId = NoJob /\ ~scr.restoring /\ calls = {} /\ polls = {}
      /\ restore.id = NoJob /\ restore.got \notin Statuses /\ scr.job = Nothing
  BY <1>1, CreateDone DEF Cleared
<1>3. /\ UNCHANGED <<answer, madeFrom, calls, restore, strip, patient, uploads>>
      /\ create' = [photo |-> 0, got |-> "none"] /\ polls' = {}
  BY <1>2 DEF CreateShown, CreateFailed, Show, server, settings, NoCall
<1>4. "none" \notin Jobs
  BY PageAssumption
<1>5. CASE CreateShown
  <2>1. /\ create.got \in Jobs /\ create.photo \in Nat
        /\ scr' = [scr EXCEPT !.requesting = FALSE, !.jobId = create.got,
                              !.jobPhoto = create.photo, !.step = InputSteps + 1]
        /\ store' = [store EXCEPT !.active = create.got]
    BY <1>5 DEF CreateShown, Show, Types
  <2>2. Types'
    <3>1. scr' \in Screens
      <4>1. scr \in Screens /\ create.got \in Ids /\ InputSteps + 1 \in Nat
        BY <2>1 DEF Types, Ids, InputSteps
      <4> QED
        BY <2>1, <4>1 DEF Screens
    <3>2. store' = [active |-> create.got, recent |-> store.recent]
      BY <2>1 DEF Types
    <3> QED
      BY <2>1, <3>1, <3>2, <1>3 DEF Types, Ids
  <2>3. /\ scr'.requesting = FALSE /\ scr'.jobId = create.got /\ scr'.job = scr.job
        /\ scr'.jobPhoto = create.photo /\ scr'.restoring = scr.restoring
        /\ store'.active = create.got
    BY <2>1 DEF Types, Screens
  <2>4. Cleared' /\ Resumes' /\ OneCall'
    BY <1>2, <1>3, <2>3 DEF Cleared, Resumes, OneCall, Active, Terminal
  <2>5. Known' /\ OwnPhoto'
    BY <1>2, <1>3, <1>4, <2>1, <2>3 DEF Known, OwnPhoto
  <2>6. Rank(scr'.job.status) = 0 /\ Rank(answer'[scr'.jobId]) \in Nat
    BY <1>2, <2>3, RankOrder DEF Nothing
  <2>7. InOrder'
    BY <1>2, <1>3, <2>6 DEF InOrder
  <2> QED
    BY <2>2, <2>4, <2>5, <2>7
<1>6. CASE CreateFailed
  <2>1. scr' = [scr EXCEPT !.requesting = FALSE] /\ store' = store
    BY <1>6 DEF CreateFailed, Show
  <2>2. Types'
    BY <2>1, <1>3 DEF Types, Screens
  <2>3. /\ scr'.requesting = FALSE /\ scr'.jobId = NoJob /\ scr'.job = scr.job
        /\ scr'.jobPhoto = scr.jobPhoto /\ scr'.restoring = scr.restoring
    BY <2>1, <1>2 DEF Types, Screens
  <2>4. Cleared' /\ Resumes' /\ OneCall'
    BY <1>2, <1>3, <2>1, <2>3 DEF Cleared, Resumes, OneCall, Active, Terminal
  <2>5. Known' /\ OwnPhoto' /\ InOrder'
    BY <1>2, <1>3, <1>4, <2>1, <2>3 DEF Known, OwnPhoto, InOrder, Active
  <2> QED
    BY <2>2, <2>4, <2>5
<1> QED
  BY <1>5, <1>6

\* A submission: the page is settled, so nothing is on its way to the old screen.
LEMMA GeneratePageKeeps == ASSUME PageInv, Generate PROVE PageInv'
<1> USE DEF PageInv
<1>1. calls = {} /\ ~scr.restoring /\ ~Active
  BY DEF Generate, Settled, Types, GenerateOffered, AgainOffered, Busy
<1>2. polls = {} /\ restore.id = NoJob /\ restore.got \notin Statuses
  BY <1>1 DEF OneCall, Resumes
<1>3. /\ UNCHANGED <<answer, madeFrom, store, calls, restore, strip, patient, uploads>>
      /\ create' = [photo |-> scr.photo, got |-> "sent"] /\ polls' = {}
      /\ scr' = [scr EXCEPT !.requesting = TRUE, !.jobId = NoJob, !.job = Nothing]
  BY <1>2 DEF Generate, Show, server, settings
<1>4. Types'
  BY <1>3 DEF Types, Screens, Ids, Nothing
<1>5. /\ scr'.requesting = TRUE /\ scr'.jobId = NoJob /\ scr'.job = Nothing
      /\ scr'.restoring = scr.restoring /\ create'.got = "sent"
  BY <1>3 DEF Types, Screens
<1>6. "sent" \notin Jobs
  BY PageAssumption
<1>7. Cleared' /\ Resumes' /\ OneCall'
  BY <1>1, <1>2, <1>3, <1>5 DEF Cleared, Resumes, OneCall, Active
<1>8. Known' /\ InOrder' /\ OwnPhoto'
  BY <1>1, <1>2, <1>3, <1>5, <1>6, PageAssumption DEF Known, InOrder, OwnPhoto, Active
<1> QED
  BY <1>4, <1>7, <1>8

-----------------------------------------------------------------------------
(* The polls *)

\* A poll is answered.
LEMMA PollServedKeeps == ASSUME PageInv, PollServed PROVE PageInv'
<1> USE DEF PageInv
<1>1. /\ Active /\ answer[scr.jobId] \in Statuses
      /\ polls' = polls \union {answer[scr.jobId]}
      /\ UNCHANGED <<answer, madeFrom, store, scr, create, calls, restore, strip,
                     patient, uploads>>
  BY DEF PollServed, server, settings
<1>2. Types'
  BY <1>1 DEF Types
<1>3. Active' = Active /\ Terminal' = Terminal
  BY <1>1 DEF Active, Terminal
<1>4. Cleared' /\ Resumes' /\ OneCall'
  BY <1>1, <1>3 DEF Cleared, Resumes, OneCall
<1>5. Known' /\ InOrder' /\ OwnPhoto'
  BY <1>1, <1>3, RankOrder DEF Known, InOrder, OwnPhoto
<1> QED
  BY <1>2, <1>4, <1>5

\* What recording a job does to the rest of the store and to the strip.
LEMMA RecordFrame ==
    ASSUME PageInv, NEW j, NEW status, Record(j, status)
    PROVE  /\ store' = [active |-> store'.active, recent |-> store'.recent]
           /\ store'.active = store.active
           /\ strip'.items \subseteq strip.items
<1>1. CASE status = "completed"
  <2>1. PICK recent : store' = [store EXCEPT !.recent = recent] /\ Refresh(recent)
    BY <1>1 DEF Record
  <2> QED
    BY <2>1 DEF Refresh, PageInv, Types
<1>2. CASE status # "completed"
  BY <1>2 DEF Record, PageInv, Types
<1> QED
  BY <1>1, <1>2

\* The answer of a poll is shown, if its effect still stands.
LEMMA PollShownKeeps == ASSUME PageInv, PollShown PROVE PageInv'
<1> USE DEF PageInv
<1>1. PICK status \in polls :
        /\ scr' = [scr EXCEPT !.job = [id |-> scr.jobId, status |-> status]]
        /\ polls' = IF status = scr.job.status THEN polls \ {status} ELSE {}
        /\ Record(scr.jobId, status)
  BY DEF PollShown
<1>2. /\ store' = [active |-> store'.active, recent |-> store'.recent]
      /\ store'.active = store.active /\ strip'.items \subseteq strip.items
  BY <1>1, RecordFrame
<1>3. UNCHANGED <<answer, madeFrom, create, calls, restore, patient, uploads>>
  BY DEF PollShown, server, settings
<1>4. Active /\ status \in Statuses /\ status # "none" /\ calls = {}
      /\ scr.jobId \in Jobs
  BY <1>1 DEF OneCall, Types, Screens, Ids, Statuses, Ended, Active
<1>5. Types'
  <2>1. scr' \in Screens
    BY <1>1, <1>4 DEF Types, Screens, Ids
  <2> QED
    BY <2>1, <1>1, <1>2, <1>3 DEF Types
<1>6. /\ scr'.jobId = scr.jobId /\ scr'.job = [id |-> scr.jobId, status |-> status]
      /\ scr'.requesting = scr.requesting /\ scr'.restoring = scr.restoring
      /\ scr'.jobPhoto = scr.jobPhoto
  BY <1>1 DEF Types, Screens
<1>7. Cleared' /\ Resumes' /\ OneCall'
  BY <1>1, <1>2, <1>3, <1>4, <1>6 DEF Cleared, Resumes, OneCall, Active, Terminal
<1>8. Known' /\ OwnPhoto'
  BY <1>2, <1>3, <1>6 DEF Known, OwnPhoto
<1>9. InOrder'
  BY <1>1, <1>3, <1>4, <1>6, RankOrder DEF InOrder
<1> QED
  BY <1>5, <1>7, <1>8, <1>9

-----------------------------------------------------------------------------
(* Retry and delete *)

\* Retry or delete is pressed.
LEMMA PressKeeps == ASSUME PageInv, PressRetry \/ PressDelete PROVE PageInv'
<1> USE DEF PageInv
<1>1. PICK op \in {"retry", "delete"} :
        Press(op) /\ (op = "retry" => scr.job.status = "failed")
  BY DEF PressRetry, PressDelete
<1>2. calls = {} /\ scr.jobId \in Jobs /\ Terminal
  BY <1>1 DEF Press, Settled, Types, Screens, Ids
<1>3. /\ calls' = {[op |-> op, id |-> scr.jobId, got |-> "none"]}
      /\ UNCHANGED <<answer, madeFrom, store, scr, create, polls, restore, strip,
                     patient, uploads>>
  BY <1>1, <1>2 DEF Press, server, settings
<1>4. Types'
  BY <1>2, <1>3 DEF Types, Calls
<1>5. Active' = Active /\ Terminal' = Terminal
  BY <1>3 DEF Active, Terminal
<1>6. Cleared' /\ Resumes' /\ OneCall'
  BY <1>1, <1>2, <1>3, <1>5 DEF Cleared, Resumes, OneCall
<1>7. Known' /\ InOrder' /\ OwnPhoto'
  BY <1>3, <1>5 DEF Known, InOrder, OwnPhoto
<1> QED
  BY <1>4, <1>6, <1>7

\* While a call is out the page shows the ended job that it is about, and waits
\* for nothing else.
LEMMA WhileCalling ==
    ASSUME PageInv, NEW c \in calls
    PROVE  /\ c \in Calls /\ c.id = scr.jobId /\ scr.jobId \in Jobs
           /\ Terminal /\ ~Active /\ polls = {} /\ calls = {c}
           /\ ~scr.restoring /\ ~scr.requesting /\ create.got = "none"
           /\ restore.id = NoJob /\ restore.got \notin Statuses
           /\ scr.job.id = scr.jobId
<1>1. c \in Calls /\ c.id = scr.jobId /\ Terminal /\ scr.jobId \in Jobs /\ calls = {c}
  BY DEF PageInv, OneCall, Types, Calls
<1>2. scr.jobId # NoJob
  BY <1>1, PageAssumption
<1> QED
  BY <1>1, <1>2 DEF PageInv, OneCall, Cleared, Resumes, Active, Terminal, Ended, Nothing

\* The server acts on the job of the call: the screen stays, the call may end.
LEMMA CallServed ==
    ASSUME PageInv, NEW c \in calls,
           answer' \in [Jobs -> Server!Answers], answer'[c.id] # "none",
           \A j \in Jobs \ {c.id} : answer'[j] = answer[j],
           calls' \subseteq Calls,
           \A d \in calls' :
             /\ calls' = {d} /\ d.id = c.id
             /\ d.op # "delete" => scr.job.status = "failed" /\ d.got # "deleted"
             /\ d.op = "retry" => d.got = "none"
             /\ d.op = "get" /\ d.got # "none" => d.got = answer'[c.id],
           UNCHANGED <<madeFrom, store, scr, create, polls, restore, strip, patient,
                       uploads>>
    PROVE  PageInv'
<1> USE DEF PageInv
<1>1. /\ c \in Calls /\ c.id = scr.jobId /\ scr.jobId \in Jobs
      /\ Terminal /\ ~Active /\ polls = {} /\ create.got = "none"
      /\ restore.got \notin Statuses
  BY WhileCalling
<1>2. Types'
  BY DEF Types
<1>3. Active' = Active /\ Terminal' = Terminal
  BY DEF Active, Terminal
<1>4. Cleared' /\ Resumes'
  BY <1>3 DEF Cleared, Resumes
<1>5. OneCall'
  BY <1>1, <1>3 DEF OneCall
<1>6. Known' /\ OwnPhoto'
  BY <1>1, PageAssumption DEF Known, OwnPhoto
<1>7. InOrder'
  BY <1>1, <1>3, RankOrder DEF InOrder
<1> QED
  BY <1>2, <1>4, <1>5, <1>6, <1>7

\* The server has done a step of a retry or a deletion.
LEMMA CallServedKeeps ==
    ASSUME PageInv, NEW c \in calls, RetryServed(c) \/ GetServed(c) \/ DeleteServed(c)
    PROVE  PageInv'
<1>1. /\ c \in Calls /\ c.id \in Jobs /\ calls = {c} /\ answer[c.id] # "none"
      /\ answer \in [Jobs -> Server!Answers]
      /\ c.op # "delete" => scr.job.status = "failed" /\ c.got # "deleted"
      /\ c.op = "retry" => c.got = "none"
  BY WhileCalling DEF PageInv, OneCall, Known, Types
<1>2. UNCHANGED <<madeFrom, store, scr, create, polls, restore, strip, patient, uploads>>
  BY DEF RetryServed, GetServed, DeleteServed, server, settings
<1>3. CASE RetryServed(c)
  <2>1. /\ answer' \in [Jobs -> Server!Answers] /\ answer'[c.id] # "none"
        /\ \A j \in Jobs \ {c.id} : answer'[j] = answer[j]
    BY <1>1, <1>3 DEF RetryServed, Server!Retry, Server!Move, Server!Answers
  <2>2. calls' \subseteq {[c EXCEPT !.op = "get"]} /\ c.op = "retry"
    BY <1>1, <1>3 DEF RetryServed, Replace
  <2>3. [c EXCEPT !.op = "get"] = [op |-> "get", id |-> c.id, got |-> "none"]
    BY <1>1, <2>2 DEF Calls
  <2>4. [op |-> "get", id |-> c.id, got |-> "none"] \in Calls
    BY <1>1 DEF Calls
  <2>5. scr.job.status = "failed"
    BY <1>1, <2>2
  <2>6. /\ calls' \subseteq Calls
        /\ \A d \in calls' : calls' = {d} /\ d.id = c.id /\ d.op = "get" /\ d.got = "none"
    BY <2>2, <2>3, <2>4
  <2> QED
    BY <1>2, <2>1, <2>5, <2>6, CallServed
<1>4. CASE GetServed(c)
  <2>1. answer' = answer /\ c.op = "get"
    BY <1>4 DEF GetServed, server
  <2>2. CASE calls' = {}
    BY <1>1, <1>2, <2>1, <2>2, CallServed
  <2>3. CASE answer[c.id] \in Statuses /\ calls' = {[c EXCEPT !.got = answer[c.id]]}
    <3>1. [c EXCEPT !.got = answer[c.id]]
            = [op |-> "get", id |-> c.id, got |-> answer[c.id]]
      BY <1>1, <2>1 DEF Calls
    <3>2. [op |-> "get", id |-> c.id, got |-> answer[c.id]] \in Calls
      BY <1>1, <2>3 DEF Calls
    <3>3. answer[c.id] # "deleted"
      BY <2>3 DEF Statuses, Ended
    <3> QED
      BY <1>1, <1>2, <2>1, <2>3, <3>1, <3>2, <3>3, CallServed
  <2> QED
    BY <1>1, <1>4, <2>2, <2>3 DEF GetServed, Replace
<1>5. CASE DeleteServed(c)
  <2>1. /\ answer' \in [Jobs -> Server!Answers] /\ answer'[c.id] # "none"
        /\ \A j \in Jobs \ {c.id} : answer'[j] = answer[j]
    BY <1>1, <1>5 DEF DeleteServed, Server!Remove, Server!Answers
  <2>2. calls' \subseteq {[c EXCEPT !.got = "deleted"]} /\ c.op = "delete"
    BY <1>1, <1>5 DEF DeleteServed, Replace
  <2>3. [c EXCEPT !.got = "deleted"] = [op |-> "delete", id |-> c.id, got |-> "deleted"]
    BY <1>1, <2>2 DEF Calls
  <2>4. [op |-> "delete", id |-> c.id, got |-> "deleted"] \in Calls
    BY <1>1 DEF Calls
  <2>5. /\ calls' \subseteq Calls
        /\ \A d \in calls' : calls' = {d} /\ d.id = c.id /\ d.op = "delete"
    BY <2>2, <2>3, <2>4
  <2> QED
    BY <1>2, <2>1, <2>5, CallServed
<1> QED
  BY <1>3, <1>4, <1>5

\* The job read again after a retry, and saved for a reload again.
LEMMA RetryShownKeeps ==
    ASSUME PageInv, NEW c \in calls, RetryShown(c) PROVE PageInv'
<1> USE DEF PageInv
<1>1. /\ c \in Calls /\ c.id = scr.jobId /\ scr.jobId \in Jobs /\ scr.jobId # NoJob
      /\ ~Active /\ polls = {} /\ calls = {c}
      /\ ~scr.restoring /\ ~scr.requesting /\ create.got = "none"
      /\ restore.id = NoJob /\ restore.got \notin Statuses
  BY WhileCalling, PageAssumption
<1>2. /\ c.got \in Statuses /\ c.got # "none" /\ Rank(c.got) <= Rank(answer[c.id])
  BY <1>1 DEF RetryShown, OneCall, Calls, InOrder, Statuses, Ended
<1>3. /\ UNCHANGED <<answer, madeFrom, create, restore, strip, patient, uploads>>
      /\ calls' = {} /\ polls' = {}
      /\ scr' = [scr EXCEPT !.job = [id |-> c.id, status |-> c.got]]
      /\ store' = [store EXCEPT !.active = c.id]
  BY <1>1 DEF RetryShown, Replace, Show, server, settings
<1>4. /\ scr'.jobId = scr.jobId /\ scr'.job = [id |-> c.id, status |-> c.got]
      /\ scr'.requesting = scr.requesting /\ scr'.restoring = scr.restoring
      /\ scr'.jobPhoto = scr.jobPhoto
      /\ store' = [active |-> c.id, recent |-> store.recent]
  BY <1>3 DEF Types, Screens
<1>5. Types'
  <2>1. scr' \in Screens
    BY <1>1, <1>2, <1>3 DEF Types, Screens, Ids
  <2> QED
    BY <2>1, <1>1, <1>3, <1>4 DEF Types, Ids
<1>6. Cleared' /\ Resumes' /\ OneCall'
  BY <1>1, <1>2, <1>3, <1>4 DEF Cleared, Resumes, OneCall, Active
<1>7. Known' /\ InOrder' /\ OwnPhoto'
  BY <1>1, <1>2, <1>3, <1>4, PageAssumption DEF Known, InOrder, OwnPhoto
<1> QED
  BY <1>5, <1>6, <1>7

\* The page leaves the job it shows and waits for none.
LEMMA Left ==
    ASSUME PageInv, scr' \in Screens, scr'.requesting = scr.requesting,
           scr'.restoring = scr.restoring,
           scr'.jobId = NoJob, scr'.job = Nothing, scr'.jobPhoto = 0,
           store' = [active |-> NoJob, recent |-> store'.recent],
           strip'.items \subseteq strip.items,
           ~scr.restoring, ~scr.requesting, polls' = {}, calls' = {},
           UNCHANGED <<answer, madeFrom, create, restore, patient, uploads>>
    PROVE  PageInv'
<1> USE DEF PageInv
<1>1. restore.id = NoJob /\ restore.got \notin Statuses /\ create.got = "none"
  BY DEF Resumes, Cleared
<1>2. Types'
  BY DEF Types, Ids
<1>3. Cleared' /\ Resumes' /\ OneCall'
  BY <1>1 DEF Cleared, Resumes, OneCall, Active
<1>4. Known' /\ InOrder' /\ OwnPhoto'
  BY <1>1, PageAssumption DEF Known, InOrder, OwnPhoto, Active
<1> QED
  BY <1>2, <1>3, <1>4

\* Steps by which the page leaves its job.
LEMMA LeaveKeeps ==
    ASSUME PageInv, NextPhoto \/ \E c \in calls : DeleteShown(c) PROVE PageInv'
<1> USE DEF PageInv
<1>1. scr \in Screens /\ 0 \in Nat /\ 1 \in Nat /\ NoJob \in Ids
  BY DEF Types, Ids
<1>2. CASE NextPhoto
  <2>1. /\ scr.jobId # NoJob /\ calls = {} /\ ~Active
    BY <1>2 DEF NextPhoto, Settled, Types, Active
  <2>2. polls = {} /\ ~scr.restoring /\ ~scr.requesting
    BY <2>1 DEF OneCall, Cleared
  <2>3. /\ scr' = [scr EXCEPT !.photo = 0, !.jobPhoto = 0, !.consent = FALSE,
                              !.jobId = NoJob, !.job = Nothing, !.step = 1]
        /\ store' = [active |-> NoJob, recent |-> store.recent]
        /\ polls' = {} /\ calls' = {} /\ strip' = strip
        /\ UNCHANGED <<answer, madeFrom, create, restore, patient, uploads>>
    BY <1>2, <2>1, <2>2 DEF NextPhoto, Show, Types, server, settings
  <2>4. /\ scr' \in Screens /\ scr'.requesting = scr.requesting
        /\ scr'.restoring = scr.restoring
        /\ scr'.jobId = NoJob /\ scr'.job = Nothing /\ scr'.jobPhoto = 0
    BY <1>1, <2>3 DEF Screens, Nothing
  <2> QED
    BY <2>2, <2>3, <2>4, Left
<1>3. ASSUME NEW c \in calls, DeleteShown(c) PROVE PageInv'
  <2>1. calls = {c} /\ polls = {} /\ ~scr.restoring /\ ~scr.requesting
    BY WhileCalling
  <2>2. /\ scr' = [scr EXCEPT !.jobId = NoJob, !.job = Nothing, !.jobPhoto = 0, !.step = 1]
        /\ polls' = {} /\ calls' = {}
        /\ UNCHANGED <<answer, madeFrom, create, restore, patient, uploads>>
    BY <1>3, <2>1 DEF DeleteShown, Show, Replace, server, settings
  <2>3. /\ store' = [active |-> NoJob, recent |-> store'.recent]
        /\ strip'.items \subseteq strip.items
    BY <1>3 DEF DeleteShown, Refresh
  <2>4. /\ scr' \in Screens /\ scr'.requesting = scr.requesting
        /\ scr'.restoring = scr.restoring
        /\ scr'.jobId = NoJob /\ scr'.job = Nothing /\ scr'.jobPhoto = 0
    BY <1>1, <2>2 DEF Screens, Nothing
  <2> QED
    BY <2>1, <2>2, <2>3, <2>4, Left
<1> QED
  BY <1>2, <1>3

-----------------------------------------------------------------------------
(* The strip *)

\* The recent strip is filled.
LEMMA StripKeeps == ASSUME PageInv, StripLoaded PROVE PageInv'
<1> USE DEF PageInv
<1>1. /\ UNCHANGED <<answer, madeFrom, scr, create, polls, calls, restore, patient,
                     uploads>>
      /\ store' = [active |-> store.active, recent |-> store'.recent]
      /\ \A j \in strip'.items : answer[j] # "none"
  BY DEF StripLoaded, Types, server, settings
<1>2. Types'
  BY <1>1 DEF Types
<1>3. Active' = Active /\ Terminal' = Terminal
  BY <1>1 DEF Active, Terminal
<1>4. Cleared' /\ Resumes' /\ OneCall'
  BY <1>1, <1>3 DEF Cleared, Resumes, OneCall
<1>5. Known' /\ InOrder' /\ OwnPhoto'
  BY <1>1, <1>3 DEF Known, InOrder, OwnPhoto
<1> QED
  BY <1>2, <1>4, <1>5

\* A recent job is picked.
LEMMA SelectKeeps == ASSUME PageInv, NEW j \in Jobs, SelectRecent(j) PROVE PageInv'
<1> USE DEF PageInv
<1>1. /\ calls = {} /\ ~Active /\ ~scr.restoring /\ ~scr.requesting
      /\ j # scr.jobId /\ j # NoJob /\ answer[j] # "none"
  BY PageAssumption DEF SelectRecent, RecentOffered, Settled, Busy, Types, Known
<1>2. polls = {} /\ create.got = "none" /\ restore.id = NoJob
      /\ restore.got \notin Statuses
  BY <1>1 DEF OneCall, Cleared, Resumes
<1>3. /\ scr' = [scr EXCEPT !.jobId = j, !.job = [id |-> j, status |-> "completed"],
                            !.jobPhoto = 0, !.step = InputSteps + 1]
      /\ polls' = {}
      /\ UNCHANGED <<answer, madeFrom, store, create, calls, restore, strip, patient,
                     uploads>>
  BY <1>2 DEF SelectRecent, Show, server, settings
<1>4. scr' \in Screens
  <2>1. /\ scr \in Screens /\ InputSteps + 1 \in Nat
        /\ [id |-> j, status |-> "completed"] \in [id : Ids, status : Statuses \union {"none"}]
    BY DEF Types, InputSteps, Ids, Statuses, Ended
  <2> QED
    BY <2>1, <1>3 DEF Screens, Ids
<1>5. /\ scr'.jobId = j /\ scr'.job = [id |-> j, status |-> "completed"]
      /\ scr'.jobPhoto = 0 /\ scr'.requesting = scr.requesting
      /\ scr'.restoring = scr.restoring
  BY <1>3 DEF Types, Screens
<1>6. Types'
  BY <1>3, <1>4 DEF Types
<1>7. ~Active'
  BY <1>5 DEF Active, Terminal, Ended
<1>8. Cleared' /\ Resumes' /\ OneCall'
  BY <1>1, <1>2, <1>3, <1>5, <1>7 DEF Cleared, Resumes, OneCall
<1>9. Known' /\ InOrder' /\ OwnPhoto'
  BY <1>1, <1>2, <1>3, <1>5, <1>7, PageAssumption DEF Known, InOrder, OwnPhoto
<1> QED
  BY <1>6, <1>8, <1>9

-----------------------------------------------------------------------------
(* Opening the page *)

\* The page is reloaded, and everything in flight forgotten.
LEMMA ReloadKeeps == ASSUME PageInv, Reload PROVE PageInv'
<1> USE DEF PageInv
<1>1. PICK ask \in BOOLEAN : restore' = Opening(store.active, ask)
  BY DEF Reload
<1>2. /\ restore'.id = store.active /\ restore'.got = "none"
      /\ restore' \in [id : Ids, got : Statuses \union {"none", "missing"},
                       wantsSample : BOOLEAN]
  BY <1>1 DEF Opening, Types
<1>3. /\ scr' = Fresh(TRUE) /\ create' = NoCall /\ polls' = {} /\ calls' = {}
      /\ strip'.items = {}
      /\ UNCHANGED <<answer, madeFrom, store, patient, uploads>>
  BY DEF Reload, server, settings
<1>4. /\ scr' \in Screens /\ scr'.requesting = FALSE /\ scr'.restoring = TRUE
      /\ scr'.jobId = NoJob /\ scr'.job = Nothing /\ scr'.jobPhoto = 0
  BY <1>3 DEF Fresh, Screens, Ids, Nothing
<1>5. create'.got = "none" /\ create'.photo = 0 /\ "none" \notin Jobs
      /\ create' \in [photo : Nat, got : Jobs \union {"none", "sent", "lost"}]
  BY <1>3, PageAssumption DEF NoCall
<1>6. Types'
  BY <1>2, <1>3, <1>4, <1>5 DEF Types
<1>7. Cleared' /\ Resumes' /\ OneCall'
  BY <1>2, <1>3, <1>4, <1>5 DEF Cleared, Resumes, OneCall, Active, Statuses, Ended
<1>8. Known' /\ InOrder' /\ OwnPhoto'
  BY <1>2, <1>3, <1>4, <1>5, PageAssumption
     DEF Known, InOrder, OwnPhoto, Active, Statuses, Ended
<1> QED
  BY <1>6, <1>7, <1>8

\* The saved job is asked for.
LEMMA RestoreServedKeeps == ASSUME PageInv, RestoreServed PROVE PageInv'
<1> USE DEF PageInv
<1>1. PICK got \in Statuses \union {"missing"} :
        /\ restore' = [restore EXCEPT !.got = got]
        /\ got \in Statuses => got = answer[restore.id]
  BY DEF RestoreServed, Statuses, Ended
<1>2. /\ restore.id # NoJob
      /\ UNCHANGED <<answer, madeFrom, store, scr, create, polls, calls, strip, patient,
                     uploads>>
  BY DEF RestoreServed, server, settings
<1>3. restore'.id = restore.id /\ restore'.got = got
  BY <1>1 DEF Types
<1>4. Types'
  BY <1>1, <1>2 DEF Types
<1>5. Active' = Active /\ Terminal' = Terminal
  BY <1>2 DEF Active, Terminal
<1>6. Cleared' /\ Resumes' /\ OneCall'
  BY <1>2, <1>3, <1>5 DEF Cleared, Resumes, OneCall
<1>7. Known' /\ InOrder' /\ OwnPhoto'
  BY <1>1, <1>2, <1>3, <1>5, RankOrder DEF Known, InOrder, OwnPhoto
<1> QED
  BY <1>4, <1>6, <1>7

\* While the page opens it shows no job and calls nothing else.
LEMMA WhileRestoring ==
    ASSUME PageInv, scr.restoring
    PROVE  /\ scr.jobId = NoJob /\ scr.jobPhoto = 0 /\ scr.job = Nothing
           /\ ~scr.requesting /\ create.got = "none" /\ calls = {} /\ polls = {}
<1>1. scr.jobId = NoJob
  BY DEF PageInv, Cleared
<1> QED
  BY <1>1, PageAssumption DEF PageInv, Cleared, OneCall, Active, Types, Calls

\* The saved job comes back onto the screen.
LEMMA RestoreShownKeeps == ASSUME PageInv, RestoreShown PROVE PageInv'
<1> USE DEF PageInv
<1>1. /\ restore.got \in Statuses /\ restore.id # NoJob /\ restore.id \in Jobs
      /\ scr.restoring /\ restore.id = store.active /\ restore.got # "none"
      /\ Rank(restore.got) <= Rank(answer[restore.id])
  BY DEF RestoreShown, Resumes, Types, Ids, InOrder, Statuses, Ended
<1>2. /\ scr.jobId = NoJob /\ scr.jobPhoto = 0 /\ ~scr.requesting
      /\ create.got = "none" /\ calls = {} /\ polls = {}
  BY <1>1, WhileRestoring
<1>3. /\ scr' = [scr EXCEPT !.restoring = FALSE, !.jobId = restore.id,
                            !.job = [id |-> restore.id, status |-> restore.got],
                            !.step = InputSteps + 1]
      /\ polls' = {} /\ restore' = [id |-> NoJob, got |-> "none", wantsSample |-> FALSE]
      /\ UNCHANGED <<answer, madeFrom, create, calls, patient, uploads>>
  BY <1>2 DEF RestoreShown, Show, Idle, server, settings
<1>4. /\ store' = [active |-> store'.active, recent |-> store'.recent]
      /\ store'.active = store.active /\ strip'.items \subseteq strip.items
  BY RecordFrame DEF RestoreShown
<1>5. scr' \in Screens
  <2>1. /\ scr \in Screens /\ InputSteps + 1 \in Nat
        /\ [id |-> restore.id, status |-> restore.got]
             \in [id : Ids, status : Statuses \union {"none"}]
    BY <1>1 DEF Types, InputSteps, Ids
  <2> QED
    BY <2>1, <1>1, <1>3 DEF Screens, Ids
<1>6. /\ scr'.jobId = restore.id /\ scr'.restoring = FALSE /\ scr'.requesting = FALSE
      /\ scr'.job = [id |-> restore.id, status |-> restore.got] /\ scr'.jobPhoto = 0
  BY <1>2, <1>3 DEF Types, Screens
<1>7. Types'
  BY <1>3, <1>4, <1>5 DEF Types, Ids
<1>8. Cleared' /\ Resumes' /\ OneCall'
  BY <1>1, <1>2, <1>3, <1>4, <1>6 DEF Cleared, Resumes, OneCall, Active, Statuses, Ended
<1>9. Known' /\ InOrder' /\ OwnPhoto'
  BY <1>1, <1>2, <1>3, <1>4, <1>6, PageAssumption
     DEF Known, InOrder, OwnPhoto, Statuses, Ended
<1> QED
  BY <1>7, <1>8, <1>9

\* The saved job is no more, cannot be reached, or there is none.
LEMMA RestoreEndsKeeps ==
    ASSUME PageInv, RestoreMissing \/ RestoreFailed \/ RestoreNothing PROVE PageInv'
<1> USE DEF PageInv
<1>1. /\ restore'.id = NoJob /\ restore'.got = "none"
      /\ restore' \in [id : Ids, got : Statuses \union {"none", "missing"},
                       wantsSample : BOOLEAN]
      /\ UNCHANGED <<answer, madeFrom, create, polls, calls, strip, patient>>
  <2>1. PICK ask \in BOOLEAN :
          restore' = [id |-> NoJob, got |-> "none", wantsSample |-> ask]
    BY DEF RestoreMissing, RestoreFailed, RestoreNothing, Opening, Idle, Types
  <2>2. restore' \in [id : Ids, got : Statuses \union {"none", "missing"},
                      wantsSample : BOOLEAN]
    BY <2>1 DEF Ids
  <2> QED
    BY <2>1, <2>2 DEF RestoreMissing, RestoreFailed, RestoreNothing, server, settings
<1>2. /\ scr' \in Screens /\ uploads' \in Nat
      /\ scr'.jobId = scr.jobId /\ scr'.job = scr.job /\ scr'.jobPhoto = scr.jobPhoto
      /\ scr'.requesting = scr.requesting
      /\ scr'.restoring = TRUE => scr'.restoring = scr.restoring
  <2>1. scr \in Screens /\ uploads \in Nat
    BY DEF Types
  <2>2. CASE RestoreMissing
    BY <2>1, <2>2 DEF RestoreMissing
  <2>3. CASE RestoreFailed
    BY <2>1, <2>3 DEF RestoreFailed, Screens
  <2>4. CASE RestoreNothing
    <3>1. PICK load \in BOOLEAN :
            /\ scr' = [scr EXCEPT !.restoring = FALSE,
                                  !.photo = IF load THEN uploads + 1 ELSE @,
                                  !.consent = IF load THEN FALSE ELSE @]
            /\ uploads' = IF load THEN uploads + 1 ELSE uploads
      BY <2>4 DEF RestoreNothing
    <3>2. CASE load
      <4>1. /\ scr' = [scr EXCEPT !.restoring = FALSE, !.photo = uploads + 1,
                                  !.consent = FALSE]
            /\ uploads' = uploads + 1 /\ uploads + 1 \in Nat
        BY <2>1, <3>1, <3>2
      <4> QED
        BY <2>1, <4>1 DEF Screens
    <3>3. CASE ~load
      BY <2>1, <3>1, <3>3 DEF Screens
    <3> QED
      BY <3>2, <3>3
  <2> QED
    BY <2>2, <2>3, <2>4
<1>3. /\ store' = [active |-> store'.active, recent |-> store'.recent]
      /\ store'.active \in {store.active, NoJob}
  BY DEF RestoreMissing, RestoreFailed, RestoreNothing, Types
<1>4. scr'.jobId # NoJob => store' = store
  BY <1>2, PageAssumption
     DEF RestoreMissing, RestoreFailed, RestoreNothing, Resumes, Cleared, Statuses, Ended
<1>5. Types'
  BY <1>1, <1>2, <1>3 DEF Types, Ids
<1>6. Active' = Active /\ Terminal' = Terminal
  BY <1>2 DEF Active, Terminal
<1>7. Resumes' /\ OneCall'
  BY <1>1, <1>2, <1>4, <1>6 DEF Resumes, OneCall, Active, Statuses, Ended
<1>8. Cleared'
  BY <1>1, <1>2 DEF Cleared
<1>9. Known' /\ InOrder' /\ OwnPhoto'
  BY <1>1, <1>2, <1>3, <1>6, PageAssumption DEF Known, InOrder, OwnPhoto, Statuses, Ended
<1> QED
  BY <1>5, <1>7, <1>8, <1>9

-----------------------------------------------------------------------------
\* PageInv is inductive.
LEMMA PageStep == PageInv /\ [Next]_vars => PageInv'
<1> SUFFICES ASSUME PageInv, [Next]_vars PROVE PageInv'
  OBVIOUS
<1>1. CASE ChoosePhoto \/ UseSample \/ SampleArrives \/ ToggleConsent \/ ChooseFace
             \/ StepNav
  BY <1>1, FormKeeps
<1>2. CASE Generate
  BY <1>2, GeneratePageKeeps
<1>3. CASE CreateRefused
  BY <1>3, CreateRefusedKeeps
<1>4. CASE CreateShown \/ CreateFailed
  BY <1>4, CreateShownKeeps
<1>5. CASE PollServed
  BY <1>5, PollServedKeeps
<1>6. CASE PollShown
  BY <1>6, PollShownKeeps
<1>7. CASE PressRetry \/ PressDelete
  BY <1>7, PressKeeps
<1>8. CASE NextPhoto
  BY <1>8, LeaveKeeps
<1>9. ASSUME NEW c \in calls, RetryServed(c) \/ GetServed(c) \/ DeleteServed(c)
      PROVE  PageInv'
  BY <1>9, CallServedKeeps
<1>10. ASSUME NEW c \in calls, RetryShown(c) PROVE PageInv'
  BY <1>10, RetryShownKeeps
<1>11. ASSUME NEW c \in calls, DeleteShown(c) PROVE PageInv'
  BY <1>11, LeaveKeeps
<1>12. CASE StripLoaded
  BY <1>12, StripKeeps
<1>13. CASE Reload
  BY <1>13, ReloadKeeps
<1>14. CASE RestoreServed
  BY <1>14, RestoreServedKeeps
<1>15. CASE RestoreShown
  BY <1>15, RestoreShownKeeps
<1>16. CASE RestoreMissing \/ RestoreFailed \/ RestoreNothing
  BY <1>16, RestoreEndsKeeps
<1>17. ASSUME NEW j \in Jobs, CreateServed(j) PROVE PageInv'
  BY <1>17, CreateServedKeeps
<1>18. ASSUME NEW j \in Jobs, SelectRecent(j) PROVE PageInv'
  BY <1>18, SelectKeeps
<1>19. ASSUME NEW j \in Jobs, ServerRuns(j) \/ Expire(j) PROVE PageInv'
  BY <1>19, ServerKeeps
<1>20. CASE UNCHANGED vars
  <2>1. SameScreenJob
    BY <1>20 DEF vars, SameScreenJob, PageInv, Types
  <2> QED
    BY <1>20, <2>1, SameJob DEF vars, server
<1> QED
  BY <1>1, <1>2, <1>3, <1>4, <1>5, <1>6, <1>7, <1>8, <1>9, <1>10, <1>11, <1>12, <1>13,
     <1>14, <1>15, <1>16, <1>17, <1>18, <1>19, <1>20 DEF Next

\* What the page shows of a job, it shows of the job it is at, whichever of the
\* calls it made is answered last.
THEOREM ScreenShowsItsJob == Spec /\ patient = TRUE => []ScreenIsOneJob
<1>1. PageInv => ScreenIsOneJob
  BY DEF PageInv, Cleared, ScreenIsOneJob
<1> QED
  BY <1>1, PageInit, PageStep, PTL DEF Spec

\* However the page is left and opened again, the job it waits for is the one it
\* saved, so a reload finds it.
THEOREM WaitedForIsSaved == Spec /\ patient = TRUE => []WaitingIsResumable
<1>1. PageInv => WaitingIsResumable
  BY DEF PageInv, Resumes, WaitingIsResumable
<1> QED
  BY <1>1, PageInit, PageStep, PTL DEF Spec

\* The photo beside the results is the photo that the server made them from, for
\* any number of photos, jobs and reloads.
THEOREM ComparesItsOwnPhoto == Spec /\ patient = TRUE => []PairIsOwn
<1>1. PageInv => PairIsOwn
  BY DEF PageInv, Cleared, OwnPhoto, PairIsOwn, ComparisonShown, Nothing
<1> QED
  BY <1>1, PageInit, PageStep, PTL DEF Spec

\* The only step that takes the job on the screen back is the one after a retry.
LEMMA StepsOnwards ==
    ASSUME PageInv, [Next]_vars
    PROVE  scr.jobId # NoJob /\ scr'.jobId = scr.jobId =>
             \/ Rank(scr'.job.status) >= Rank(scr.job.status)
             \/ scr.job.status = "failed"
<1> SUFFICES ASSUME scr.jobId # NoJob, scr'.jobId = scr.jobId, scr'.job # scr.job
             PROVE  \/ Rank(scr'.job.status) >= Rank(scr.job.status)
                    \/ scr.job.status = "failed"
  BY RankOrder
<1>1. scr \in Screens /\ scr.jobId # NoJob /\ ~scr.restoring /\ ~scr.requesting
      /\ create.got = "none"
  BY DEF PageInv, Types, Cleared
<1>2. CASE PollShown
  <2>1. PICK status \in polls :
          scr' = [scr EXCEPT !.job = [id |-> scr.jobId, status |-> status]]
    BY <1>2 DEF PollShown
  <2> QED
    BY <1>1, <2>1, RankOrder DEF Screens, PageInv, InOrder
<1>3. ASSUME NEW c \in calls, RetryShown(c) PROVE scr.job.status = "failed"
  BY <1>3 DEF RetryShown, PageInv, OneCall
<1>4. ASSUME NEW j \in Jobs, SelectRecent(j) PROVE FALSE
  BY <1>1, <1>4 DEF SelectRecent, RecentOffered, Show, Screens
<1>5. ~(Reload \/ NextPhoto \/ Generate)
  <2>1. Reload => scr'.jobId = NoJob
    BY DEF Reload, Fresh
  <2>2. NextPhoto => scr'.jobId = NoJob
    BY <1>1 DEF NextPhoto, Show, Screens
  <2>3. Generate => scr'.jobId = NoJob
    BY <1>1 DEF Generate, Show, Screens
  <2> QED
    BY <1>1, <2>1, <2>2, <2>3
<1>6. ~(RestoreShown \/ RestoreNothing)
  BY <1>1 DEF RestoreShown, RestoreNothing, PageInv, Resumes
<1>7. ~(CreateShown \/ CreateFailed)
  BY <1>1, PageAssumption DEF CreateShown, CreateFailed
<1>8. ASSUME NEW c \in calls, DeleteShown(c) PROVE FALSE
  BY <1>1, <1>8 DEF DeleteShown, Show, Screens
<1>9. CASE ChoosePhoto \/ UseSample \/ SampleArrives \/ ToggleConsent \/ ChooseFace
             \/ StepNav
  BY <1>1, <1>9 DEF ChoosePhoto, UseSample, SampleArrives, PhotoChange, ToggleConsent,
                    ChooseFace, StepNav, Screens
<1>10. CASE RestoreFailed
  BY <1>1, <1>10 DEF RestoreFailed, Screens
<1>11. UNCHANGED scr => FALSE
  OBVIOUS
<1> QED
  BY <1>2, <1>3, <1>4, <1>5, <1>6, <1>7, <1>8, <1>9, <1>10, <1>11
     DEF Next, vars, CreateRefused, PollServed, PressRetry, PressDelete, Press,
         RetryServed, GetServed, DeleteServed, StripLoaded, RestoreServed, RestoreMissing,
         CreateServed, ServerRuns, Expire

\* A late answer never takes the job on the screen back to an earlier state; only
\* a retry reopens a failed one.
THEOREM ScreenGoesOnwards == Spec /\ patient = TRUE => NeverBackwards
<1>1. PageInv /\ [Next]_vars =>
        [ scr.jobId # NoJob /\ scr'.jobId = scr.jobId =>
            \/ Rank(scr'.job.status) >= Rank(scr.job.status)
            \/ scr.job.status = "failed" ]_vars
  BY StepsOnwards
<1> QED
  BY <1>1, PageInit, PageStep, PTL DEF Spec, NeverBackwards

-----------------------------------------------------------------------------
(* The list of recent jobs *)

\* No job twice.
Distinct(list) == \A i, k \in 1..Len(list) : list[i] = list[k] => i = k

\* A list without repetitions has as many jobs as places.
LEMMA DistinctCounts ==
    ASSUME NEW list \in Seq(Jobs), Distinct(list)
    PROVE  Cardinality(ToSet(list)) = Len(list)
<1>1. /\ list \in [1..Len(list) -> ToSet(list)] /\ Len(list) \in Nat
      /\ \A j \in ToSet(list) : \E i \in 1..Len(list) : list[i] = j
  BY DEF ToSet
<1>2. list \in Injection(1..Len(list), ToSet(list))
  BY <1>1 DEF Distinct, Injection, IsInjective
<1>3. list \in Surjection(1..Len(list), ToSet(list))
  BY <1>1 DEF Surjection
<1>4. ExistsBijection(1..Len(list), ToSet(list))
  BY <1>2, <1>3 DEF Bijection, ExistsBijection
<1> QED
  BY <1>1, <1>4, FS_CountingElements

\* A list of recent jobs as the page keeps it.
Recents(list) == list \in Seq(Jobs) /\ Distinct(list) /\ Len(list) <= MaxRecent

\* Putting a job first keeps the list short and without repetitions (addRecentJob).
LEMMA AddedRecents ==
    ASSUME NEW list, Recents(list), NEW j \in Jobs
    PROVE  /\ Recents(AddRecent(list, j))
           /\ ToSet(AddRecent(list, j)) \subseteq ToSet(list) \cup {j}
<1> DEFINE both == <<j>> \o list
           m == IF Len(list) < MaxRecent THEN Len(list) + 1 ELSE MaxRecent
           new == SubSeq(both, 1, m)
<1>1. /\ list \in Seq(Jobs) /\ Len(list) \in Nat /\ Len(list) <= MaxRecent
      /\ MaxRecent \in Nat /\ MaxRecent # 0 /\ Distinct(list)
  BY PageAssumption DEF Recents
<1>2. CASE Contains(list, j)
  BY <1>2 DEF AddRecent
<1>3. CASE ~Contains(list, j)
  <2>1. AddRecent(list, j) = new
    BY <1>3 DEF AddRecent
  <2>2. /\ both \in Seq(Jobs) /\ Len(both) = Len(list) + 1 /\ both[1] = j
        /\ \A k \in 1..Len(list) : both[k + 1] = list[k]
    <3>1. <<j>> \in Seq(Jobs) /\ Len(<<j>>) = 1 /\ <<j>>[1] = j
      OBVIOUS
    <3>2. /\ both \in Seq(Jobs) /\ Len(both) = 1 + Len(list)
          /\ \A k \in 1..(1 + Len(list)) : both[k] = IF k <= 1 THEN <<j>>[k] ELSE list[k - 1]
      BY <1>1, <3>1, ConcatProperties
    <3> HIDE DEF both
    <3>3. ASSUME NEW k \in 1..Len(list)  PROVE both[k + 1] = list[k]
      <4>1. k + 1 \in 1..(1 + Len(list)) /\ ~(k + 1 <= 1) /\ (k + 1) - 1 = k
        BY <1>1
      <4> QED
        BY <3>2, <4>1
    <3>4. 1 \in 1..(1 + Len(list)) /\ Len(both) = Len(list) + 1
      BY <1>1, <3>2
    <3> QED
      BY <3>1, <3>2, <3>3, <3>4
  <2>3. m \in Nat /\ m <= Len(list) + 1 /\ m <= MaxRecent
    BY <1>1
  <2> HIDE DEF both, m
  <2>4. /\ new \in Seq(Jobs) /\ Len(new) = m
        /\ \A k \in 1..m : new[k] = both[k]
    BY <2>2, <2>3, <1>1
  <2> HIDE DEF new
  <2>5. \A k \in 1..Len(list) : list[k] # j
    BY <1>1, <1>3 DEF Contains
  <2>6. ASSUME NEW k \in 1..m
        PROVE  \/ k = 1 /\ new[k] = j
               \/ k - 1 \in 1..Len(list) /\ new[k] = list[k - 1]
    <3>1. CASE k = 1
      BY <2>2, <2>4, <3>1
    <3>2. CASE k # 1
      <4>1. k - 1 \in 1..Len(list) /\ (k - 1) + 1 = k
        BY <1>1, <2>3, <3>2
      <4> QED
        BY <2>2, <2>4, <4>1
    <3> QED
      BY <3>1, <3>2
  <2>7. Distinct(new)
    <3> SUFFICES ASSUME NEW k \in 1..m, NEW l \in 1..m, new[k] = new[l]  PROVE k = l
      BY <2>4 DEF Distinct
    <3>1. CASE k = 1 /\ new[k] = j
      BY <2>5, <2>6, <3>1
    <3>2. CASE k - 1 \in 1..Len(list) /\ new[k] = list[k - 1]
      <4>1. l - 1 \in 1..Len(list) /\ new[l] = list[l - 1]
        BY <2>5, <2>6, <3>2
      <4>2. k - 1 = l - 1
        BY <1>1, <3>2, <4>1 DEF Distinct
      <4> QED
        BY <2>3, <4>2
    <3> QED
      BY <2>6, <3>1, <3>2
  <2>8. ToSet(new) \subseteq ToSet(list) \cup {j}
    <3> SUFFICES ASSUME NEW k \in 1..m  PROVE new[k] \in ToSet(list) \cup {j}
      BY <2>4 DEF ToSet
    <3>1. k - 1 \in 1..Len(list) => list[k - 1] \in ToSet(list)
      BY <1>1 DEF ToSet
    <3> QED
      BY <2>6, <3>1
  <2> QED
    BY <2>1, <2>3, <2>4, <2>7, <2>8 DEF Recents
<1> QED
  BY <1>1, <1>2, <1>3 DEF Recents

\* Leaving jobs out keeps the others, each where it was among them (removeRecentJob).
LEMMA RemovedRecents ==
    ASSUME NEW list, Recents(list), NEW js
    PROVE  /\ Recents(RemoveRecent(list, js))
           /\ ToSet(RemoveRecent(list, js)) \subseteq ToSet(list)
<1> DEFINE N == Len(list)
           step == [n \in 1..N |-> [x \in Seq(Jobs) |->
                      IF list[n] \in js THEN x ELSE Append(x, list[n])]]
           Is(g) == g = [n \in 0..N |->
                           CASE n = 0 -> <<>>
                             [] n # 0 /\ list[n] \in js -> g[n - 1]
                             [] OTHER -> Append(g[n - 1], list[n])]
           kept == CHOOSE g : Is(g)
<1>1. /\ list \in Seq(Jobs) /\ N \in Nat /\ N <= MaxRecent /\ MaxRecent \in Nat
      /\ Distinct(list) /\ \A n \in 1..N : list[n] \in Jobs /\ list[n] \in ToSet(list)
  BY PageAssumption DEF Recents, ToSet
<1>2. \A x \in Seq(Jobs), n \in 1..N :
         /\ step[n][x] = IF list[n] \in js THEN x ELSE Append(x, list[n])
         /\ step[n][x] \in Seq(Jobs)
  BY <1>1
<1>3. RemoveRecent(list, js) = kept[N]
  BY DEF RemoveRecent
<1> HIDE DEF step, N, kept
<1>4. PICK f \in [0..N -> Seq(Jobs)] : Unfolds(f, N, <<>>, step)
  <2>1. <<>> \in Seq(Jobs)
    OBVIOUS
  <2> QED
    BY <1>1, <1>2, <2>1, Recursion
<1>5. f[0] = <<>> /\ 0 \in 0..N
  BY <1>1, <1>4 DEF Unfolds
<1>6. ASSUME NEW n \in 1..N
      PROVE  /\ n \in 0..N /\ n # 0 /\ f[n - 1] \in Seq(Jobs) /\ f[n] = step[n][f[n - 1]]
             /\ f[n] = IF list[n] \in js THEN f[n - 1] ELSE Append(f[n - 1], list[n])
  <2>1. n \in 0..N /\ n - 1 \in 0..N /\ n # 0
    BY <1>1
  <2>2. f[n] = step[n][f[n - 1]] /\ f[n - 1] \in Seq(Jobs)
    BY <1>4, <2>1 DEF Unfolds
  <2> QED
    BY <1>2, <2>1, <2>2
<1>7. \E g : Is(g)
  <2> DEFINE g == [n \in 0..N |->
                     CASE n = 0 -> <<>>
                       [] n # 0 /\ list[n] \in js -> f[n - 1]
                       [] OTHER -> Append(f[n - 1], list[n])]
  <2>1. ASSUME NEW n \in 0..N
        PROVE  f[n] = CASE n = 0 -> <<>>
                        [] n # 0 /\ list[n] \in js -> f[n - 1]
                        [] OTHER -> Append(f[n - 1], list[n])
    <3>1. CASE n = 0
      BY <1>5, <3>1
    <3>2. CASE n # 0
      <4>1. n \in 1..N
        BY <1>1, <3>2
      <4> QED
        BY <1>6, <3>2, <4>1
    <3> QED
      BY <3>1, <3>2
  <2>2. f = g
    BY <1>4, <2>1
  <2> QED
    BY <2>2
<1>8. \A n \in 0..N : kept[n] = CASE n = 0 -> <<>>
                                  [] n # 0 /\ list[n] \in js -> kept[n - 1]
                                  [] OTHER -> Append(kept[n - 1], list[n])
  <2>1. Is(kept)
    <3> HIDE DEF Is
    <3> QED
      BY <1>7 DEF kept
  <2> QED
    BY <2>1
<1>9. \A n \in 0..N : kept[n] = f[n]
  <2>1. kept[0] = <<>>
    BY <1>5, <1>8
  <2>2. ASSUME NEW n \in 1..N, kept[n - 1] = f[n - 1]  PROVE kept[n] = step[n][f[n - 1]]
    <3>1. kept[n] = IF list[n] \in js THEN kept[n - 1] ELSE Append(kept[n - 1], list[n])
      BY <1>6, <1>8
    <3> QED
      BY <1>6, <2>2, <3>1
  <2>3. N \in Nat /\ Unfolds(f, N, <<>>, step)
    BY <1>1, <1>4
  <2>4. Follows(kept, f, N, <<>>, step)
    BY <2>1, <2>2 DEF Follows
  <2> HIDE DEF Is
  <2> QED
    BY <2>3, <2>4, RecursionAgrees
<1> DEFINE P == {n \in 0..N :
                   /\ Len(f[n]) <= n /\ Distinct(f[n])
                   /\ \A i \in 1..Len(f[n]) : \E k \in 1..n : f[n][i] = list[k]}
<1>10. 0 \in P
  <2> HIDE DEF P
  <2>1. Len(f[0]) = 0 /\ 1..Len(f[0]) = {}
    BY <1>5
  <2>2. Distinct(f[0]) /\ 0 <= 0
    BY <2>1 DEF Distinct
  <2> QED
    BY <1>5, <2>1, <2>2 DEF P
<1>11. ASSUME NEW n \in 1..N, n - 1 \in P  PROVE n \in P
  <2> DEFINE x == f[n - 1]
  <2>1. /\ n \in 0..N /\ n - 1 \in Nat /\ x \in Seq(Jobs) /\ Len(x) \in Nat
        /\ Len(x) <= n - 1 /\ Distinct(x)
        /\ \A i \in 1..Len(x) : \E k \in 1..(n - 1) : x[i] = list[k]
    BY <1>1, <1>6, <1>11
  <2>2. f[n] = IF list[n] \in js THEN x ELSE Append(x, list[n])
    BY <1>6
  <2> HIDE DEF x
  <2>3. \A k \in 1..(n - 1) : k \in 1..n /\ k \in 1..N /\ k # n
    BY <1>1, <2>1
  <2>4. CASE list[n] \in js
    <3>1. \A i \in 1..Len(x) : \E k \in 1..n : x[i] = list[k]
      BY <2>1, <2>3
    <3>2. Len(x) <= n
      BY <1>1, <2>1
    <3> QED
      BY <2>1, <2>2, <2>4, <3>1, <3>2
  <2>5. CASE list[n] \notin js
    <3> DEFINE y == Append(x, list[n])
    <3>1. /\ Len(y) = Len(x) + 1
          /\ \A i \in 1..(Len(x) + 1) : y[i] = IF i = Len(x) + 1 THEN list[n] ELSE x[i]
      <4> HIDE DEF P
      <4>1. list[n] \in Jobs
        BY <1>1
      <4>2. Append(x, list[n]) = [i \in 1..(Len(x) + 1) |->
                                    IF i = Len(x) + 1 THEN list[n] ELSE x[i]]
            /\ Len(Append(x, list[n])) = Len(x) + 1
        BY <2>1, <4>1
      <4> QED
        BY <4>2
    <3> HIDE DEF y
    <3>2. \A i \in 1..(Len(x) + 1) : i = Len(x) + 1 \/ i \in 1..Len(x)
      BY <2>1
    <3>3. \A i \in 1..Len(x) : x[i] # list[n]
      BY <1>1, <2>1, <2>3 DEF Distinct, N
    <3>4. Distinct(y)
      BY <2>1, <3>1, <3>2, <3>3 DEF Distinct
    <3>5. \A i \in 1..Len(y) : \E k \in 1..n : y[i] = list[k]
      BY <2>1, <2>3, <3>1, <3>2
    <3>6. Len(y) <= n
      BY <2>1, <3>1
    <3>7. f[n] = y
      BY <2>2, <2>5 DEF y
    <3> QED
      BY <2>1, <3>4, <3>5, <3>6, <3>7
  <2> QED
    BY <2>4, <2>5
<1>12. N \in P
  <2>1. 0..N \subseteq P
    <3> HIDE DEF P
    <3> QED
      BY <1>1, <1>10, <1>11, InductionUpTo
  <2>2. N \in 0..N
    BY <1>1
  <2> QED
    BY <2>1, <2>2
<1>13. N \in 0..N
  BY <1>1
<1>14. RemoveRecent(list, js) = f[N] /\ f[N] \in Seq(Jobs)
  BY <1>3, <1>4, <1>9, <1>13
<1>15. Len(f[N]) <= MaxRecent
  <2>1. Len(f[N]) \in Nat /\ Len(f[N]) <= N
    BY <1>12, <1>14
  <2> QED
    BY <1>1, <2>1
<1>16. ToSet(f[N]) \subseteq ToSet(list)
  <2> SUFFICES ASSUME NEW i \in 1..Len(f[N])  PROVE f[N][i] \in ToSet(list)
    BY <1>14 DEF ToSet
  <2>1. PICK k \in 1..N : f[N][i] = list[k]
    BY <1>12
  <2> QED
    BY <1>1, <2>1
<1> QED
  BY <1>12, <1>14, <1>15, <1>16 DEF Recents

-----------------------------------------------------------------------------
(* Types, and the recent jobs, for any user *)

\* Seen completed, a job stays completed until it is gone.
Done(j) == j \in Jobs /\ answer[j] \in {"completed", "gone"}

ServerOK == answer \in [Jobs -> Server!Answers] /\ madeFrom \in [Jobs -> 0..MaxUploads]

BoundedScreens ==
    [photo : 0..MaxUploads, jobPhoto : 0..MaxUploads, consent : BOOLEAN,
     face : BOOLEAN, requesting : BOOLEAN, restoring : BOOLEAN, jobId : Ids,
     job : [id : Ids, status : Statuses \union {"none"}], step : 1..InputSteps + 1]

FormOK ==
    /\ scr \in BoundedScreens /\ agreed \subseteq 1..MaxUploads
    /\ create \in [photo : 0..MaxUploads, got : Jobs \union {"none", "sent", "lost"}]
    /\ {sample, wide, patient} \subseteq BOOLEAN
    /\ uploads \in 0..MaxUploads /\ reloads \in 0..MaxReloads

\* An answer to a poll is about the job on the screen.
PollsOK ==
    /\ polls \subseteq Statuses
    /\ polls # {} => scr.jobId \in Jobs
    /\ "completed" \in polls => Done(scr.jobId)

\* A call that asks for a job has not deleted it.
CallsOK ==
    /\ calls \subseteq Calls
    /\ \A c \in calls : /\ c.op = "retry" => c.got = "none"
                        /\ c.op = "get" => c.got # "deleted"

RestoreOK ==
    /\ restore \in [id : Ids, wantsSample : BOOLEAN,
                    got : Statuses \union {"none", "missing"}]
    /\ restore.got # "none" => restore.id \in Jobs
    /\ restore.got = "completed" => Done(restore.id)

StoreOK ==
    /\ store = [active |-> store.active, recent |-> store.recent]
    /\ store.active \in Ids
    /\ Recents(store.recent)
    /\ \A j \in ToSet(store.recent) : Done(j)
    /\ strip \in [asked : SUBSET Jobs, items : SUBSET Jobs]

RecentInv == ServerOK /\ FormOK /\ PollsOK /\ CallsOK /\ RestoreOK /\ StoreOK

\* The page when it is opened for the first time.
LEMMA RecentInit == Init => RecentInv
<1> SUFFICES ASSUME Init PROVE RecentInv
  OBVIOUS
<1> USE PageAssumption DEF Init, Fresh, NoCall, Opening, Nothing, Ids
<1>1. ServerOK
  BY DEF ServerOK, Server!Answers
<1>2. FormOK
  <2>1. scr \in BoundedScreens
    BY DEF BoundedScreens, InputSteps
  <2>2. create \in [photo : 0..MaxUploads, got : Jobs \union {"none", "sent", "lost"}]
    OBVIOUS
  <2>3. {sample, wide, patient} \subseteq BOOLEAN
    OBVIOUS
  <2> QED
    BY <2>1, <2>2, <2>3 DEF FormOK
<1>3. PollsOK /\ CallsOK
  BY DEF PollsOK, CallsOK
<1>4. RestoreOK
  <2>1. PICK ask \in BOOLEAN : restore = [id |-> NoJob, got |-> "none",
                                          wantsSample |-> ask]
    OBVIOUS
  <2> QED
    BY <2>1 DEF RestoreOK
<1>5. StoreOK
  <2>1. store.recent = <<>> /\ <<>> \in Seq(Jobs) /\ Len(<<>>) = 0
    OBVIOUS
  <2>2. Recents(<<>>) /\ ToSet(<<>>) = {}
    BY <2>1 DEF Recents, Distinct, ToSet
  <2> QED
    BY <2>1, <2>2 DEF StoreOK
<1> QED
  BY <1>1, <1>2, <1>3, <1>4, <1>5 DEF RecentInv

\* The server moves one job, and no completed one but out of sight.
LEMMA OneMoved ==
    ASSUME ServerOK, NEW j \in Jobs, NEW to \in Server!Answers,
           answer' = [answer EXCEPT ![j] = to],
           answer[j] \in {"completed", "gone"} => to \in {"completed", "gone"}
    PROVE  answer' \in [Jobs -> Server!Answers] /\ \A k \in Ids : Done(k) => Done(k)'
  BY DEF ServerOK, Done

\* What was completed stays so: a retry takes a failed job, an expiry takes it away.
LEMMA AnswersKept ==
    ASSUME RecentInv, [Next]_vars
    PROVE  ServerOK' /\ \A k \in Ids : Done(k) => Done(k)'
<1>1. ServerOK /\ FormOK /\ calls \subseteq Calls
  BY DEF RecentInv, CallsOK
<1>2. CASE UNCHANGED server
  BY <1>1, <1>2 DEF server, ServerOK, Done
<1>3. ASSUME NEW j \in Jobs, CreateServed(j)
      PROVE  ServerOK' /\ \A k \in Ids : Done(k) => Done(k)'
  <2>1. /\ answer[j] = "none" /\ answer' = [answer EXCEPT ![j] = "queued"]
        /\ madeFrom' = [madeFrom EXCEPT ![j] = create.photo]
    BY <1>3 DEF CreateServed, Server!Accept, Server!Move
  <2>2. madeFrom' \in [Jobs -> 0..MaxUploads]
    BY <1>1, <2>1 DEF ServerOK, FormOK
  <2> QED
    BY <1>1, <2>1, <2>2, OneMoved DEF ServerOK, Server!Answers
<1>4. ASSUME NEW j \in Jobs, ServerRuns(j) \/ Expire(j)
      PROVE  ServerOK' /\ \A k \in Ids : Done(k) => Done(k)'
  <2>1. PICK to \in {"processing", "completed", "failed", "rejected", "gone"} :
          /\ answer' = [answer EXCEPT ![j] = to]
          /\ answer[j] \in {"completed", "gone"} => to = "gone"
    <3>1. CASE ServerRuns(j)
      BY <1>4, <3>1
         DEF ServerRuns, Server!Start, Server!Complete, Server!Fail, Server!Reject,
             Server!Move
    <3>2. CASE Expire(j)
      BY <1>1, <3>2 DEF Expire, Server!Remove, ServerOK
    <3> QED
      BY <1>4, <3>1, <3>2
  <2>2. madeFrom' = madeFrom
    BY <1>4 DEF ServerRuns, Expire
  <2> QED
    BY <1>1, <2>1, <2>2, OneMoved DEF ServerOK, Server!Answers
<1>5. ASSUME NEW c \in calls, RetryServed(c) \/ DeleteServed(c), answer' # answer
      PROVE  ServerOK' /\ \A k \in Ids : Done(k) => Done(k)'
  <2>1. c.id \in Jobs /\ madeFrom' = madeFrom
    BY <1>1, <1>5 DEF Calls, RetryServed, DeleteServed
  <2>2. PICK to \in {"processing", "gone"} :
          /\ answer' = [answer EXCEPT ![c.id] = to]
          /\ answer[c.id] \in {"completed", "gone"} => to = "gone"
    <3>1. CASE RetryServed(c)
      BY <1>5, <3>1 DEF RetryServed, Server!Retry, Server!Move
    <3>2. CASE DeleteServed(c)
      BY <1>1, <1>5, <3>2, <2>1 DEF DeleteServed, Server!Remove, ServerOK
    <3> QED
      BY <1>5, <3>1, <3>2
  <2> QED
    BY <1>1, <2>1, <2>2, OneMoved DEF ServerOK, Server!Answers
<1>6. ASSUME NEW c \in calls, RetryServed(c) \/ DeleteServed(c), answer' = answer
      PROVE  UNCHANGED server
  BY <1>6 DEF RetryServed, DeleteServed, server
<1>7. CASE \/ ChoosePhoto \/ UseSample \/ SampleArrives \/ ToggleConsent \/ ChooseFace
           \/ StepNav \/ Generate \/ CreateRefused \/ CreateShown \/ CreateFailed
           \/ PollServed \/ PollShown \/ PressRetry \/ PressDelete \/ NextPhoto
  <2>1. UNCHANGED server
    BY <1>7
       DEF ChoosePhoto, UseSample, SampleArrives, ToggleConsent, ChooseFace, StepNav,
           Generate, CreateRefused, CreateShown, CreateFailed, PollServed, PollShown,
           PressRetry, PressDelete, Press, NextPhoto
  <2> QED
    BY <1>2, <2>1
<1>8. CASE \/ \E c \in calls : GetServed(c) \/ RetryShown(c) \/ DeleteShown(c)
           \/ StripLoaded \/ Reload \/ RestoreServed \/ RestoreShown \/ RestoreMissing
           \/ RestoreFailed \/ RestoreNothing \/ \E j \in Jobs : SelectRecent(j)
           \/ UNCHANGED vars
  <2>1. UNCHANGED server
    BY <1>8
       DEF GetServed, RetryShown, DeleteShown, StripLoaded, Reload, RestoreServed,
           RestoreShown, RestoreMissing, RestoreFailed, RestoreNothing, SelectRecent,
           vars, server
  <2> QED
    BY <1>2, <2>1
<1> QED
  BY <1>2, <1>3, <1>4, <1>5, <1>6, <1>7, <1>8 DEF Next

\* The handlers that set fields of the form.
LEMMA FormFits ==
    ASSUME RecentInv,
           \/ ChoosePhoto \/ UseSample \/ SampleArrives \/ ToggleConsent \/ ChooseFace
           \/ StepNav \/ RestoreFailed \/ RestoreNothing
    PROVE  FormOK' /\ scr'.jobId = scr.jobId
<1>1. /\ scr \in BoundedScreens /\ uploads \in 0..MaxUploads /\ MaxUploads \in Nat
      /\ agreed \subseteq 1..MaxUploads /\ restore.wantsSample \in BOOLEAN /\ FormOK
  BY PageAssumption DEF RecentInv, FormOK, RestoreOK
<1>2. UNCHANGED <<create, wide, patient, reloads>> /\ sample' \in BOOLEAN
  BY <1>1
     DEF FormOK, ChoosePhoto, UseSample, SampleArrives, ToggleConsent, ChooseFace, StepNav,
         RestoreFailed, RestoreNothing, settings
<1> DEFINE Fits == /\ scr' \in BoundedScreens /\ uploads' \in 0..MaxUploads
                   /\ agreed' \subseteq 1..MaxUploads /\ scr'.jobId = scr.jobId
<1> SUFFICES Fits
  BY <1>1, <1>2 DEF FormOK
<1>3. ASSUME NEW photo \in 0..MaxUploads, PhotoChange(photo), agreed' = agreed  PROVE Fits
  BY <1>1, <1>3 DEF PhotoChange, BoundedScreens
<1>4. CASE ChoosePhoto \/ UseSample \/ SampleArrives
  <2>1. \/ UNCHANGED <<scr, uploads>>
        \/ uploads < MaxUploads /\ PhotoChange(uploads + 1)
        \/ PhotoChange(0)
    BY <1>4 DEF ChoosePhoto, UseSample, SampleArrives
  <2>2. agreed' = agreed
    BY <1>4 DEF ChoosePhoto, UseSample, SampleArrives
  <2>3. uploads < MaxUploads => uploads + 1 \in 0..MaxUploads
    BY <1>1
  <2>4. 0 \in 0..MaxUploads
    BY <1>1
  <2> QED
    BY <1>1, <1>3, <2>1, <2>2, <2>3, <2>4
<1>5. CASE ToggleConsent
  <2>1. {scr.photo} \ {0} \subseteq 1..MaxUploads
    BY <1>1 DEF BoundedScreens
  <2> QED
    BY <1>1, <1>5, <2>1 DEF ToggleConsent, BoundedScreens
<1>6. CASE ChooseFace
  BY <1>1, <1>6 DEF ChooseFace, BoundedScreens
<1>7. CASE StepNav
  <2>1. PICK n \in 1..InputSteps + 1 : scr' = [scr EXCEPT !.step = n]
    BY <1>1, <1>7 DEF StepNav, BoundedScreens, InputSteps
  <2>2. UNCHANGED <<agreed, uploads>>
    BY <1>7 DEF StepNav
  <2> QED
    BY <1>1, <2>1, <2>2 DEF BoundedScreens
<1>8. CASE RestoreFailed
  BY <1>1, <1>8 DEF RestoreFailed, BoundedScreens
<1>9. CASE RestoreNothing
  <2>1. PICK load \in {FALSE, restore.wantsSample /\ uploads < MaxUploads} :
          /\ scr' = [scr EXCEPT !.restoring = FALSE,
                                !.photo = IF load THEN uploads + 1 ELSE @,
                                !.consent = IF load THEN FALSE ELSE @]
          /\ uploads' = IF load THEN uploads + 1 ELSE uploads
    BY <1>9 DEF RestoreNothing
  <2>2. CASE load
    <3>1. uploads + 1 \in 0..MaxUploads
      <4>1. load = FALSE \/ load = (restore.wantsSample /\ uploads < MaxUploads)
        OBVIOUS
      <4>2. uploads < MaxUploads
        BY <2>2, <4>1, Zenon
      <4> QED
        BY <1>1, <4>2
    <3>2. /\ scr' = [scr EXCEPT !.restoring = FALSE, !.photo = uploads + 1, !.consent = FALSE]
          /\ uploads' = uploads + 1 /\ agreed' = agreed
      BY <1>9, <2>1, <2>2 DEF RestoreNothing
    <3> QED
      BY <1>1, <3>1, <3>2 DEF BoundedScreens
  <2>3. CASE ~load
    <3>1. /\ scr' = [scr EXCEPT !.restoring = FALSE, !.photo = @, !.consent = @]
          /\ uploads' = uploads /\ agreed' = agreed
      BY <1>9, <2>1, <2>3 DEF RestoreNothing
    <3> QED
      BY <1>1, <3>1 DEF BoundedScreens
  <2> QED
    BY <2>2, <2>3
<1> QED
  BY <1>4, <1>5, <1>6, <1>7, <1>8, <1>9

\* A job, an answer or an empty screen replaces what was shown.
LEMMA ShownFits ==
    ASSUME RecentInv,
           \/ Generate \/ CreateShown \/ CreateFailed \/ PollShown \/ NextPhoto
           \/ \E c \in calls : RetryShown(c) \/ DeleteShown(c)
           \/ RestoreShown \/ \E j \in Jobs : SelectRecent(j)
    PROVE  /\ FormOK'
           /\ polls' \subseteq polls
           /\ polls' # {} => scr'.jobId = scr.jobId
<1>1. /\ scr \in BoundedScreens /\ InputSteps + 1 \in 1..InputSteps + 1
      /\ 1 \in 1..InputSteps + 1 /\ Nothing \in [id : Ids, status : Statuses \union {"none"}]
      /\ NoJob \in Ids /\ Jobs \subseteq Ids /\ 0 \in 0..MaxUploads /\ FormOK
      /\ "completed" \in Statuses
  BY PageAssumption
     DEF RecentInv, FormOK, InputSteps, Nothing, Ids, Statuses, Ended
<1>2. UNCHANGED <<agreed, sample, wide, patient, uploads, reloads>>
  BY DEF Generate, CreateShown, CreateFailed, PollShown, NextPhoto, RetryShown,
         DeleteShown, RestoreShown, SelectRecent, settings
<1>3. create' \in [photo : 0..MaxUploads, got : Jobs \union {"none", "sent", "lost"}]
  <2>1. CASE Generate
    BY <1>1, <2>1 DEF Generate, BoundedScreens
  <2>2. CASE CreateShown \/ CreateFailed
    BY <1>1, <2>2 DEF CreateShown, CreateFailed, NoCall
  <2>3. CASE \/ PollShown \/ NextPhoto \/ RestoreShown \/ \E j \in Jobs : SelectRecent(j)
             \/ \E c \in calls : RetryShown(c) \/ DeleteShown(c)
    BY <1>1, <2>3
       DEF PollShown, NextPhoto, RetryShown, DeleteShown, RestoreShown, SelectRecent,
           FormOK
  <2> QED
    BY <2>1, <2>2, <2>3
<1> DEFINE Fits == /\ scr' \in BoundedScreens
                   /\ polls' \subseteq polls
                   /\ polls' # {} => scr'.jobId = scr.jobId
<1> SUFFICES Fits
  BY <1>1, <1>2, <1>3 DEF FormOK
<1>4. ASSUME NEW s \in BoundedScreens, Show(s)  PROVE Fits
  BY <1>4 DEF Show
<1>5. CASE Generate
  <2>1. [scr EXCEPT !.requesting = TRUE, !.jobId = NoJob, !.job = Nothing] \in BoundedScreens
    BY <1>1 DEF BoundedScreens
  <2> QED
    BY <1>4, <1>5, <2>1 DEF Generate
<1>6. CASE CreateShown
  <2>1. create.got \in Jobs /\ create.photo \in 0..MaxUploads
    BY <1>1, <1>6 DEF CreateShown, FormOK
  <2>2. [scr EXCEPT !.requesting = FALSE, !.jobId = create.got,
                    !.jobPhoto = create.photo, !.step = InputSteps + 1] \in BoundedScreens
    BY <1>1, <2>1 DEF BoundedScreens
  <2> QED
    BY <1>4, <1>6, <2>2 DEF CreateShown
<1>7. CASE CreateFailed
  <2>1. [scr EXCEPT !.requesting = FALSE] \in BoundedScreens
    BY <1>1 DEF BoundedScreens
  <2> QED
    BY <1>4, <1>7, <2>1 DEF CreateFailed
<1>8. CASE PollShown
  <2>1. PICK status \in polls :
          /\ scr' = [scr EXCEPT !.job = [id |-> scr.jobId, status |-> status]]
          /\ polls' = IF status = scr.job.status THEN polls \ {status} ELSE {}
    BY <1>8 DEF PollShown
  <2>2. status \in Statuses
    BY DEF RecentInv, PollsOK
  <2> QED
    BY <1>1, <2>1, <2>2 DEF BoundedScreens
<1>9. CASE NextPhoto
  <2>1. [scr EXCEPT !.photo = 0, !.jobPhoto = 0, !.consent = FALSE, !.jobId = NoJob,
                    !.job = Nothing, !.step = 1] \in BoundedScreens
    BY <1>1 DEF BoundedScreens
  <2> QED
    BY <1>4, <1>9, <2>1 DEF NextPhoto
<1>10. ASSUME NEW c \in calls, RetryShown(c)  PROVE Fits
  <2>1. c.id \in Jobs /\ c.got \in Statuses
    BY <1>10 DEF RecentInv, CallsOK, Calls, RetryShown
  <2>2. [scr EXCEPT !.job = [id |-> c.id, status |-> c.got]] \in BoundedScreens
    BY <1>1, <2>1 DEF BoundedScreens
  <2> QED
    BY <1>4, <1>10, <2>2 DEF RetryShown
<1>11. ASSUME NEW c \in calls, DeleteShown(c)  PROVE Fits
  <2>1. [scr EXCEPT !.jobId = NoJob, !.job = Nothing, !.jobPhoto = 0, !.step = 1]
          \in BoundedScreens
    BY <1>1 DEF BoundedScreens
  <2> QED
    BY <1>4, <1>11, <2>1 DEF DeleteShown
<1>12. CASE RestoreShown
  <2>1. restore.id \in Ids /\ restore.got \in Statuses
    BY <1>12 DEF RestoreShown, RecentInv, RestoreOK
  <2>2. [scr EXCEPT !.restoring = FALSE, !.jobId = restore.id,
                    !.job = [id |-> restore.id, status |-> restore.got],
                    !.step = InputSteps + 1] \in BoundedScreens
    BY <1>1, <2>1 DEF BoundedScreens
  <2> QED
    BY <1>4, <1>12, <2>2 DEF RestoreShown
<1>13. ASSUME NEW j \in Jobs, SelectRecent(j)  PROVE Fits
  <2>1. [scr EXCEPT !.jobId = j, !.job = [id |-> j, status |-> "completed"],
                    !.jobPhoto = 0, !.step = InputSteps + 1] \in BoundedScreens
    BY <1>1 DEF BoundedScreens
  <2> QED
    BY <1>4, <1>13, <2>1 DEF SelectRecent
<1> QED
  BY <1>5, <1>6, <1>7, <1>8, <1>9, <1>10, <1>11, <1>12, <1>13

\* The other steps change neither the form nor the job on the screen.
LEMMA ScreenFits ==
    ASSUME RecentInv, [Next]_vars
    PROVE  FormOK' /\ PollsOK'
<1>1. /\ FormOK /\ PollsOK /\ \A k \in Ids : Done(k) => Done(k)'
      /\ scr.jobId \in Ids /\ RestoreOK
  BY AnswersKept DEF RecentInv, FormOK, BoundedScreens
<1> DEFINE Step == /\ FormOK'
                   /\ polls' \subseteq polls
                   /\ polls' # {} => scr'.jobId = scr.jobId
<1>2. CASE Step
  <2>1. CASE polls' = {}
    BY <1>2, <2>1 DEF PollsOK
  <2>2. CASE polls' # {}
    <3>1. scr'.jobId = scr.jobId /\ polls # {} /\ scr'.jobId \in Ids
      BY <1>1, <1>2, <2>2
    <3>2. ASSUME "completed" \in polls'
          PROVE  scr'.jobId \in Jobs /\ answer'[scr'.jobId] \in {"completed", "gone"}
      <4>1. Done(scr.jobId)
        BY <1>1, <1>2, <3>2 DEF PollsOK
      <4> QED
        BY <1>1, <3>1, <4>1 DEF Done
    <3> QED
      BY <1>1, <1>2, <3>1, <3>2 DEF PollsOK, Done
  <2> QED
    BY <1>2, <2>1, <2>2
<1>3. CASE \/ ChoosePhoto \/ UseSample \/ SampleArrives \/ ToggleConsent \/ ChooseFace
           \/ StepNav \/ RestoreFailed \/ RestoreNothing
  <2>1. polls' = polls
    BY <1>3 DEF ChoosePhoto, UseSample, SampleArrives, ToggleConsent, ChooseFace,
                StepNav, RestoreFailed, RestoreNothing
  <2> QED
    BY <1>2, <1>3, <2>1, FormFits
<1>4. CASE \/ Generate \/ CreateShown \/ CreateFailed \/ PollShown \/ NextPhoto
           \/ \E c \in calls : RetryShown(c) \/ DeleteShown(c)
           \/ RestoreShown \/ \E j \in Jobs : SelectRecent(j)
  BY <1>2, <1>4, ShownFits
<1>5. CASE PollServed
  <2>1. /\ scr.jobId \in Jobs /\ answer[scr.jobId] \in Statuses
        /\ polls' = polls \union {answer[scr.jobId]}
        /\ UNCHANGED <<scr, answer, agreed, create, sample, settings, uploads, reloads>>
    BY <1>1, <1>5 DEF PollServed, Active, Ids, server
  <2>2. FormOK'
    BY <1>1, <2>1 DEF FormOK, settings
  <2>3. PollsOK'
    BY <1>1, <2>1 DEF PollsOK, Done
  <2> QED
    BY <2>2, <2>3
<1>6. CASE Reload
  <2>1. Fresh(TRUE) \in BoundedScreens /\ NoCall.photo = 0 /\ reloads' \in 0..MaxReloads
    BY <1>1, <1>6, PageAssumption
       DEF Fresh, BoundedScreens, Nothing, Ids, NoCall, InputSteps, Reload, FormOK
  <2>2. NoCall \in [photo : 0..MaxUploads, got : Jobs \union {"none", "sent", "lost"}]
    BY PageAssumption DEF NoCall
  <2> QED
    BY <1>1, <1>6, <2>1, <2>2 DEF Reload, FormOK, PollsOK, settings
<1>7. CASE CreateRefused \/ \E j \in Jobs : CreateServed(j)
  <2>1. PICK got \in Jobs \union {"lost"} : create' = [create EXCEPT !.got = got]
    BY <1>7 DEF CreateRefused, CreateServed
  <2>2. UNCHANGED <<scr, agreed, polls, sample, settings, uploads, reloads>>
    BY <1>7 DEF CreateRefused, CreateServed
  <2> QED
    BY <1>1, <1>2, <2>1, <2>2 DEF FormOK, settings
<1>8. CASE \/ PressRetry \/ PressDelete \/ StripLoaded \/ RestoreServed \/ RestoreMissing
           \/ \E c \in calls : RetryServed(c) \/ GetServed(c) \/ DeleteServed(c)
           \/ \E j \in Jobs : ServerRuns(j) \/ Expire(j)
           \/ UNCHANGED vars
  <2>1. UNCHANGED <<scr, agreed, create, polls, sample, settings, uploads, reloads>>
    BY <1>8 DEF PressRetry, PressDelete, Press, StripLoaded, RestoreServed,
                RestoreMissing, RetryServed, GetServed, DeleteServed, ServerRuns, Expire,
                vars, settings
  <2> QED
    BY <1>1, <1>2, <2>1 DEF FormOK, settings
<1> QED
  BY <1>3, <1>4, <1>5, <1>6, <1>7, <1>8 DEF Next

\* The calls in flight: one is pressed, served, or applied.
LEMMA CallsFit == ASSUME RecentInv, [Next]_vars PROVE CallsOK'
<1>1. CallsOK /\ answer \in [Jobs -> Server!Answers] /\ scr.jobId \in Ids
  BY DEF RecentInv, ServerOK, FormOK, BoundedScreens
<1>2. CASE calls' \subseteq calls
  BY <1>1, <1>2 DEF CallsOK
<1>3. ASSUME NEW c \in Calls, calls' \subseteq calls \union {c},
             c.op = "retry" => c.got = "none", c.op = "get" => c.got # "deleted"
      PROVE  CallsOK'
  BY <1>1, <1>3 DEF CallsOK
<1>4. CASE PressRetry \/ PressDelete
  <2>1. PICK op \in {"retry", "delete"} : Press(op)
    BY <1>4 DEF PressRetry, PressDelete
  <2> DEFINE c == [op |-> op, id |-> scr.jobId, got |-> "none"]
  <2>2. scr.jobId \in Jobs /\ calls' = calls \union {c}
    BY <1>1, <2>1 DEF Press, Ids
  <2>3. c \in Calls /\ c.op = op /\ c.got = "none"
    BY <2>2 DEF Calls
  <2> QED
    BY <1>3, <2>2, <2>3
<1>5. ASSUME NEW c \in calls, RetryServed(c)  PROVE CallsOK'
  <2> DEFINE d == [c EXCEPT !.op = "get"]
  <2>1. c \in Calls /\ c.op = "retry" /\ c.got = "none" /\ calls' \subseteq calls \union {d}
    BY <1>1, <1>5 DEF CallsOK, RetryServed, Replace
  <2>2. d \in Calls /\ d.op = "get" /\ d.got = "none"
    BY <2>1 DEF Calls
  <2> QED
    BY <1>3, <2>1, <2>2
<1>6. ASSUME NEW c \in calls, GetServed(c)  PROVE CallsOK'
  <2> DEFINE d == [c EXCEPT !.got = answer[c.id]]
  <2>1. /\ c \in Calls /\ c.op = "get"
        /\ calls' \subseteq calls \/ (answer[c.id] \in Statuses /\ calls' \subseteq calls \union {d})
    BY <1>1, <1>6 DEF CallsOK, GetServed, Replace
  <2>2. answer[c.id] \in Statuses => /\ d \in Calls /\ d.op = "get"
                                     /\ d.got # "deleted"
    BY <2>1 DEF Calls, Statuses, Ended
  <2> QED
    BY <1>2, <1>3, <2>1, <2>2
<1>7. ASSUME NEW c \in calls, DeleteServed(c)  PROVE CallsOK'
  <2> DEFINE d == [c EXCEPT !.got = "deleted"]
  <2>1. c \in Calls /\ c.op = "delete" /\ calls' \subseteq calls \union {d}
    BY <1>1, <1>7 DEF CallsOK, DeleteServed, Replace
  <2>2. d \in Calls /\ d.op = "delete"
    BY <2>1 DEF Calls
  <2> QED
    BY <1>3, <2>1, <2>2
<1>8. CASE \/ \E c \in calls : RetryShown(c) \/ DeleteShown(c)
           \/ Reload
  <2>1. calls' \subseteq calls
    BY <1>8 DEF RetryShown, DeleteShown, Replace, Reload
  <2> QED
    BY <1>2, <2>1
<1>9. CASE \/ ChoosePhoto \/ UseSample \/ SampleArrives \/ ToggleConsent \/ ChooseFace
           \/ StepNav \/ Generate \/ CreateRefused \/ CreateShown \/ CreateFailed
           \/ PollServed \/ PollShown \/ NextPhoto
  <2>1. calls' = calls
    BY <1>9 DEF ChoosePhoto, UseSample, SampleArrives, ToggleConsent, ChooseFace, StepNav,
                Generate, CreateRefused, CreateShown, CreateFailed, PollServed,
                PollShown, NextPhoto
  <2> QED
    BY <1>2, <2>1
<1>10. CASE \/ StripLoaded \/ RestoreServed \/ RestoreShown \/ RestoreMissing
            \/ RestoreFailed \/ RestoreNothing
            \/ \E j \in Jobs : \/ CreateServed(j) \/ SelectRecent(j) \/ ServerRuns(j)
                               \/ Expire(j)
            \/ UNCHANGED vars
  <2>1. calls' = calls
    BY <1>10 DEF StripLoaded, RestoreServed, RestoreShown, RestoreMissing, RestoreFailed,
                 RestoreNothing, CreateServed, SelectRecent, ServerRuns, Expire, vars
  <2> QED
    BY <1>2, <2>1
<1> QED
  BY <1>4, <1>5, <1>6, <1>7, <1>8, <1>9, <1>10 DEF Next

\* The job asked for by a page that opens.
LEMMA RestoreFits == ASSUME RecentInv, [Next]_vars PROVE RestoreOK'
<1>1. /\ RestoreOK /\ answer \in [Jobs -> Server!Answers] /\ store.active \in Ids
      /\ \A k \in Ids : Done(k) => Done(k)'
  BY AnswersKept DEF RecentInv, ServerOK, StoreOK
<1>2. CASE UNCHANGED restore
  <2>1. restore.id \in Ids /\ Jobs \subseteq Ids
    BY <1>1 DEF RestoreOK, Ids
  <2> QED
    BY <1>1, <1>2, <2>1 DEF RestoreOK, Done
<1>3. ASSUME NEW id \in Ids, NEW ask \in BOOLEAN,
             restore' = [id |-> id, got |-> "none", wantsSample |-> ask]
      PROVE  RestoreOK'
  BY <1>3 DEF RestoreOK
<1>4. CASE Reload
  <2>1. PICK ask \in BOOLEAN : restore' = Opening(store.active, ask)
    BY <1>4 DEF Reload
  <2> QED
    BY <1>1, <1>3, <2>1 DEF Opening
<1>5. CASE RestoreMissing \/ RestoreShown \/ RestoreFailed \/ RestoreNothing
  <2>1. PICK ask \in BOOLEAN :
          restore' = [id |-> NoJob, got |-> "none", wantsSample |-> ask]
    BY <1>1, <1>5
       DEF RestoreMissing, RestoreShown, RestoreFailed, RestoreNothing, Idle, Opening,
           RestoreOK
  <2>2. NoJob \in Ids
    BY DEF Ids
  <2> QED
    BY <1>3, <2>1, <2>2
<1>6. CASE RestoreServed
  <2> DEFINE got == IF answer[restore.id] \in Statuses THEN answer[restore.id] ELSE "missing"
  <2>1. /\ restore.id \in Jobs /\ restore' = [restore EXCEPT !.got = got]
        /\ answer' = answer
    BY <1>1, <1>6 DEF RestoreServed, RestoreOK, Ids, server
  <2>2. got \in Statuses \union {"none", "missing"} /\ (got = "completed" => answer[restore.id] = "completed")
    BY DEF Statuses, Ended
  <2> HIDE DEF got
  <2>3. restore'.id = restore.id /\ restore'.got = got
        /\ restore' \in [id : Ids, wantsSample : BOOLEAN,
                         got : Statuses \union {"none", "missing"}]
    BY <1>1, <2>1, <2>2 DEF RestoreOK
  <2> QED
    BY <2>1, <2>2, <2>3 DEF RestoreOK, Done
<1>7. CASE \/ ChoosePhoto \/ UseSample \/ SampleArrives \/ ToggleConsent \/ ChooseFace
           \/ StepNav \/ Generate \/ CreateRefused \/ CreateShown \/ CreateFailed
           \/ PollServed \/ PollShown \/ PressRetry \/ PressDelete \/ NextPhoto
  <2>1. UNCHANGED restore
    BY <1>7 DEF ChoosePhoto, UseSample, SampleArrives, ToggleConsent, ChooseFace, StepNav,
                Generate, CreateRefused, CreateShown, CreateFailed, PollServed,
                PollShown, PressRetry, PressDelete, Press, NextPhoto
  <2> QED
    BY <1>2, <2>1
<1>8. CASE \/ \E c \in calls : \/ RetryServed(c) \/ GetServed(c) \/ RetryShown(c)
                               \/ DeleteServed(c) \/ DeleteShown(c)
           \/ StripLoaded
           \/ \E j \in Jobs : \/ CreateServed(j) \/ SelectRecent(j) \/ ServerRuns(j)
                              \/ Expire(j)
           \/ UNCHANGED vars
  <2>1. UNCHANGED restore
    BY <1>8 DEF RetryServed, GetServed, RetryShown, DeleteServed, DeleteShown, StripLoaded,
                CreateServed, SelectRecent, ServerRuns, Expire, vars
  <2> QED
    BY <1>2, <2>1
<1> QED
  BY <1>4, <1>5, <1>6, <1>7, <1>8 DEF Next

\* Recording a job that is done, if it is: the list stays one of jobs that are.
LEMMA RecordFits ==
    ASSUME RecentInv, NEW j \in Jobs, NEW status, Record(j, status),
           status = "completed" => Done(j), \A k \in Ids : Done(k) => Done(k)'
    PROVE  StoreOK'
<1> DEFINE recent == AddRecent(store.recent, j)
<1>1. /\ StoreOK /\ Recents(store.recent) /\ Jobs \subseteq Ids
      /\ \A k \in ToSet(store.recent) : Done(k)
  BY DEF RecentInv, StoreOK, Ids
<1>2. CASE status = "completed"
  <2>1. Recents(recent) /\ ToSet(recent) \subseteq ToSet(store.recent) \union {j}
    BY <1>1, AddedRecents
  <2>2. store' = [store EXCEPT !.recent = recent] /\ Refresh(recent)
    BY <1>2 DEF Record
  <2> HIDE DEF recent
  <2>3. store' = [active |-> store.active, recent |-> recent]
    BY <1>1, <2>2 DEF StoreOK
  <2>4. \A k \in ToSet(recent) : k \in Ids /\ Done(k) /\ k \in Jobs
    BY <1>1, <1>2, <2>1 DEF Done
  <2>5. strip' \in [asked : SUBSET Jobs, items : SUBSET Jobs]
    BY <1>1, <2>2, <2>4 DEF Refresh, StoreOK
  <2> QED
    BY <1>1, <2>1, <2>3, <2>4, <2>5 DEF StoreOK, Done
<1>3. CASE status # "completed"
  <2>1. UNCHANGED <<store, strip>>
    BY <1>3 DEF Record
  <2> QED
    BY <1>1, <2>1 DEF StoreOK, Done
<1> QED
  BY <1>2, <1>3

\* Jobs leave the list: those that stay were in it.
LEMMA RemovalFits ==
    ASSUME RecentInv, NEW js, NEW active \in Ids,
           store' = [active |-> active, recent |-> RemoveRecent(store.recent, js)],
           strip' \in [asked : SUBSET Jobs, items : SUBSET Jobs],
           \A k \in Ids : Done(k) => Done(k)'
    PROVE  StoreOK'
<1>1. Recents(store.recent) /\ \A k \in ToSet(store.recent) : Done(k)
  BY DEF RecentInv, StoreOK
<1>2. /\ Recents(RemoveRecent(store.recent, js))
      /\ ToSet(RemoveRecent(store.recent, js)) \subseteq ToSet(store.recent)
  BY <1>1, RemovedRecents
<1>3. \A k \in ToSet(store'.recent) : Done(k)'
  BY <1>1, <1>2 DEF Done, Ids
<1> QED
  BY <1>2, <1>3 DEF StoreOK

\* What localStorage keeps, and the strip.
LEMMA StoreFits == ASSUME RecentInv, [Next]_vars PROVE StoreOK'
<1>1. /\ StoreOK /\ (\A k \in Ids : Done(k) => Done(k)') /\ NoJob \in Ids /\ Jobs \subseteq Ids
      /\ \A k \in ToSet(store.recent) : k \in Jobs /\ Done(k)
      /\ strip \in [asked : SUBSET Jobs, items : SUBSET Jobs]
      /\ store = [active |-> store.active, recent |-> store.recent]
      /\ store.active \in Ids
  BY AnswersKept DEF RecentInv, StoreOK, Done, Ids
<1>2. ASSUME NEW active \in Ids, store' = [active |-> active, recent |-> store.recent],
             strip' \in [asked : SUBSET Jobs, items : SUBSET Jobs]
      PROVE  StoreOK'
  BY <1>1, <1>2 DEF StoreOK, Done
<1>3. CASE UNCHANGED <<store, strip>>
  BY <1>1, <1>2, <1>3
<1>4. CASE CreateShown
  <2>1. /\ create.got \in Ids /\ strip' = strip
        /\ store' = [active |-> create.got, recent |-> store.recent]
    BY <1>1, <1>4 DEF CreateShown, Ids
  <2> QED
    BY <1>1, <1>2, <2>1
<1>5. ASSUME NEW c \in calls, RetryShown(c)  PROVE StoreOK'
  <2>1. /\ c.id \in Ids /\ strip' = strip
        /\ store' = [active |-> c.id, recent |-> store.recent]
    BY <1>1, <1>5 DEF RetryShown, RecentInv, CallsOK, Calls
  <2> QED
    BY <1>1, <1>2, <2>1
<1>6. CASE NextPhoto \/ RestoreMissing
  <2>1. strip' = strip /\ store' = [active |-> NoJob, recent |-> store.recent]
    BY <1>1, <1>6 DEF NextPhoto, RestoreMissing
  <2> QED
    BY <1>1, <1>2, <2>1
<1>7. CASE Reload
  <2>1. store' = store /\ strip' = [asked |-> ToSet(store.recent), items |-> {}]
    BY <1>7 DEF Reload
  <2>2. strip' \in [asked : SUBSET Jobs, items : SUBSET Jobs]
    BY <1>1, <2>1
  <2> QED
    BY <1>1, <1>2, <2>1, <2>2
<1>8. CASE PollShown
  <2>1. PICK status \in polls : Record(scr.jobId, status)
    BY <1>8 DEF PollShown
  <2>2. scr.jobId \in Jobs /\ (status = "completed" => Done(scr.jobId))
    BY DEF RecentInv, PollsOK
  <2> QED
    BY <1>1, <2>1, <2>2, RecordFits
<1>9. CASE RestoreShown
  <2>1. /\ Record(restore.id, restore.got) /\ restore.id \in Jobs
        /\ restore.got = "completed" => Done(restore.id)
    BY <1>9 DEF RestoreShown, RecentInv, RestoreOK, Statuses, Ended
  <2> QED
    BY <1>1, <2>1, RecordFits
<1>10. ASSUME NEW c \in calls, DeleteShown(c)  PROVE StoreOK'
  <2> DEFINE recent == RemoveRecent(store.recent, {c.id})
  <2>1. store' = [active |-> NoJob, recent |-> recent] /\ Refresh(recent)
    BY <1>10 DEF DeleteShown
  <2>2. ToSet(recent) \subseteq ToSet(store.recent)
    BY <1>1, RemovedRecents DEF StoreOK
  <2>3. strip' \in [asked : SUBSET Jobs, items : SUBSET Jobs]
    <3> HIDE DEF recent
    <3> QED
      BY <1>1, <2>1, <2>2 DEF Refresh
  <2> QED
    BY <1>1, <2>1, <2>3, RemovalFits
<1>11. CASE StripLoaded
  <2>1. PICK reached \in SUBSET strip.asked :
          /\ strip' = [asked |-> {}, items |-> {j \in reached : answer[j] = "completed"}]
          /\ store' = [store EXCEPT !.recent =
                         RemoveRecent(@, {j \in reached : answer[j] = "gone"})]
    BY <1>11 DEF StripLoaded
  <2>2. strip' \in [asked : SUBSET Jobs, items : SUBSET Jobs]
    BY <1>1, <2>1
  <2>3. store' = [active |-> store.active,
                  recent |-> RemoveRecent(store.recent, {j \in reached : answer[j] = "gone"})]
    BY <1>1, <2>1
  <2> QED
    BY <1>1, <2>2, <2>3, RemovalFits
<1>12. CASE \/ ChoosePhoto \/ UseSample \/ SampleArrives \/ ToggleConsent \/ ChooseFace
            \/ StepNav \/ Generate \/ CreateRefused \/ CreateFailed \/ PollServed
            \/ PressRetry \/ PressDelete
  <2>1. UNCHANGED <<store, strip>>
    BY <1>12 DEF ChoosePhoto, UseSample, SampleArrives, ToggleConsent, ChooseFace,
                 StepNav, Generate, CreateRefused, CreateFailed, PollServed, PressRetry,
                 PressDelete, Press
  <2> QED
    BY <1>3, <2>1
<1>13. CASE \/ \E c \in calls : RetryServed(c) \/ GetServed(c) \/ DeleteServed(c)
            \/ RestoreServed \/ RestoreFailed \/ RestoreNothing
            \/ \E j \in Jobs : \/ CreateServed(j) \/ SelectRecent(j) \/ ServerRuns(j)
                               \/ Expire(j)
            \/ UNCHANGED vars
  <2>1. UNCHANGED <<store, strip>>
    BY <1>13 DEF RetryServed, GetServed, DeleteServed, RestoreServed, RestoreFailed,
                 RestoreNothing, CreateServed, SelectRecent, ServerRuns, Expire, vars
  <2> QED
    BY <1>3, <2>1
<1> QED
  BY <1>4, <1>5, <1>6, <1>7, <1>8, <1>9, <1>10, <1>11, <1>12, <1>13 DEF Next

\* RecentInv is inductive.
LEMMA RecentStep == RecentInv /\ [Next]_vars => RecentInv'
  BY AnswersKept, ScreenFits, CallsFit, RestoreFits, StoreFits DEF RecentInv

\* For any number of jobs, photos, reloads and calls, and for users who do not wait
\* as well, the page and what is on its way to it keep to the states it knows.
THEOREM PageTypes == Spec => []TypeOK
<1>1. RecentInv => TypeOK
  BY DEF RecentInv, ServerOK, FormOK, PollsOK, CallsOK, RestoreOK, StoreOK, Recents,
         BoundedScreens, Ids, TypeOK
<1> QED
  BY <1>1, RecentInit, RecentStep, PTL DEF Spec

\* Whoever presses what while answers are late, lost or of another job: the recent
\* jobs are short, none is there twice, and each was seen completed and is completed
\* or gone.
THEOREM RecentsAreCompleted == Spec => []RecentsCompleted
<1>1. RecentInv => RecentsCompleted
  BY DistinctCounts DEF RecentInv, StoreOK, Recents, Done, RecentsCompleted
<1> QED
  BY <1>1, RecentInit, RecentStep, PTL DEF Spec

=============================================================================
