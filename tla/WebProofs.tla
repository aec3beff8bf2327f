------------------------------ MODULE WebProofs ------------------------------
(***************************************************************************)
(* Proofs about five parts of the web app that share nothing.              *)
(*                                                                         *)
(* The progress bar never moves back, whatever values the service reports: *)
(* a tick ends at the ceiling of the stage, so the bar could fall only if  *)
(* it stood above it; BarInv says it never does, which needs the ceilings  *)
(* to grow with the progress.                                              *)
(*                                                                         *)
(* What the face form lets out is what the route takes: FaceInv says that  *)
(* each answer in the form, of the mode that is not on screen too, is one  *)
(* of its question's choices or none, and that a face chosen is one of the *)
(* prepared faces although the list may have been loaded again since.      *)
(*                                                                         *)
(* The fields of the blog form do not move under the call that was made    *)
(* from them (PostInv).  The job shown was made from the list that was     *)
(* submitted, for any number of polls in flight: SubmissionInv follows the *)
(* list from the press of the button through the captions, the session     *)
(* check and the create call, says that a submission and a reset exclude   *)
(* each other, and keeps apart the jobs that only a late poll brought.     *)
(* And the mock moves its jobs as the contract of the real service allows  *)
(* (MockInv).                                                              *)
(*                                                                         *)
(* WebInv puts the types of all parts together, for the specification that *)
(* TLC runs (MCWeb): there one part takes steps and the others keep still. *)
(* The types need less than the properties do: those of the submission     *)
(* hold for users who do not wait, too.                                    *)
(***************************************************************************)
EXTENDS MCWeb, ShortsEditorProofs, FiniteSetTheorems, TLAPS

-----------------------------------------------------------------------------
(* The progress bar *)

BarInv ==
    /\ progress \in 0..100 /\ estimate \in Nat
    /\ estimate <= Scale * Ceiling(progress)

\* Every ceiling is a percentage, and a later stage has no lower one.
LEMMA CeilingRange == \A p \in 0..100 : Ceiling(p) \in 0..100
  BY DEF Ceiling

\* A later stage has no lower ceiling.
LEMMA CeilingGrows == \A p, q \in 0..100 : p <= q => Ceiling(p) <= Ceiling(q)
  BY DEF Ceiling

\* A tick moves the bar up, and to the ceiling at most.
LEMMA TickGrows == BarInv /\ TickBar => estimate <= estimate' /\ BarInv'
<1> SUFFICES ASSUME BarInv, TickBar PROVE estimate <= estimate' /\ BarInv'
  OBVIOUS
<1>1. Ceiling(progress) \in 0..100
  BY CeilingRange DEF BarInv
<1> DEFINE top == Scale * Ceiling(progress)
<1>2. top \in Nat /\ estimate <= top
  BY <1>1 DEF BarInv, Scale
<1>3. progress' = progress /\ top' = top
  BY DEF TickBar, Ceiling
<1>4. Scale * progress \in Nat
  BY DEF BarInv, Scale
<1>5. estimate' = Lower(top, Higher(estimate, Scale * progress) + TickStep)
  BY DEF TickBar
<1> HIDE DEF top
<1>6. estimate' \in Nat /\ estimate <= estimate' /\ estimate' <= top
  BY <1>2, <1>4, <1>5 DEF Lower, Higher, TickStep, BarInv
<1> QED
  BY <1>3, <1>6 DEF BarInv, top

\* The bar starts under its ceiling.
LEMMA BarInitKeeps == BarInit => BarInv
  BY DEF BarInit, BarInv, Ceiling, Scale

\* BarInv is inductive.
LEMMA BarStepKeeps == BarInv /\ [BarNext]_barVars => BarInv'
<1> SUFFICES ASSUME BarInv, [BarNext]_barVars PROVE BarInv'
  OBVIOUS
<1>1. CASE StartBar
  BY <1>1 DEF StartBar, BarInv, Ceiling, Scale
<1>2. CASE PollProgress
  <2>1. progress' \in 0..100 /\ progress <= progress' /\ estimate' = estimate
    BY <1>2, ProgressAssumption DEF PollProgress
  <2>2. Ceiling(progress) \in 0..100 /\ Ceiling(progress') \in 0..100
        /\ Ceiling(progress) <= Ceiling(progress')
    BY <2>1, CeilingRange, CeilingGrows DEF BarInv
  <2>3. Ceiling(progress)' = Ceiling(progress')
    BY DEF Ceiling
  <2> QED
    BY <2>1, <2>2, <2>3 DEF BarInv, Scale
<1>3. CASE TickBar
  BY <1>3, TickGrows
<1>4. CASE StopBar
  BY <1>4 DEF StopBar, BarInv, Ceiling
<1>5. CASE UNCHANGED barVars
  BY <1>5 DEF barVars, BarInv, Ceiling
<1> QED
  BY <1>1, <1>2, <1>3, <1>4, <1>5 DEF BarNext

\* While a run is under way, no poll and no tick takes the bar back.
THEOREM BarGrows == BarSpec => BarNeverBackwards
<1>1. BarInv /\ [BarNext]_barVars => [rendering => estimate' >= estimate]_barVars
  <2> SUFFICES ASSUME BarInv, BarNext, rendering PROVE estimate' >= estimate
    OBVIOUS
  <2>1. CASE StartBar
    BY <2>1 DEF StartBar
  <2>2. CASE PollProgress \/ StopBar
    <3>1. estimate' = estimate /\ estimate \in Nat
      BY <2>2 DEF PollProgress, StopBar, BarInv
    <3> QED
      BY <3>1
  <2>3. CASE TickBar
    BY <2>3, TickGrows DEF BarInv
  <2> QED
    BY <2>1, <2>2, <2>3 DEF BarNext
<1> QED
  BY <1>1, BarInitKeeps, BarStepKeeps, PTL DEF BarSpec, BarNeverBackwards

-----------------------------------------------------------------------------
(* The face form *)

FormSound ==
    /\ chosen.mode \in Modes
    /\ chosen.reference \in Faces \union {None}
    /\ \A key \in Required : chosen.required[key] \in RequiredAllowed(key) \union {None}
    /\ \A key \in Optional : chosen.optional[key] \in OptionalAllowed(key) \union {None}

\* The form is a record of the shape the handlers update.
FormShape ==
    chosen \in [mode : Modes, reference : Faces \union {None},
               required : [Required -> (Required \X (1..Bases)) \union {None}],
               optional : [Optional -> (Optional \X (1..Details)) \union {None}]]

FaceInv ==
    /\ FormShape /\ FormSound
    /\ shown \subseteq Faces
    /\ FaceAccepted

\* The empty form is sound.
LEMMA FaceInitKeeps == FaceInit => FaceInv
<1> SUFFICES ASSUME FaceInit PROVE FaceInv
  OBVIOUS
<1>1. FormShape
  BY DEF FaceInit, EmptyFace, FormShape, Modes
<1>2. FormSound
  BY DEF FaceInit, EmptyFace, FormSound, Modes
<1> QED
  BY <1>1, <1>2 DEF FaceInit, FaceInv, FaceAccepted

\* A complete form becomes a face the route takes.
LEMMA ReadyIsTaken ==
    ASSUME FormSound, IsFaceReady(chosen)
    PROVE  RouteAccepts(BuildFaceOption(chosen))
<1>1. CASE chosen.mode = "reference"
  BY <1>1, FaceFormAssumption
     DEF FormSound, IsFaceReady, RouteAccepts, BuildFaceOption, HasReferenceFace
<1>2. CASE chosen.mode = "prompt"
  BY <1>2 DEF FormSound, IsFaceReady, RouteAccepts, BuildFaceOption, Required, Optional
<1> QED
  BY <1>1, <1>2 DEF FormSound, Modes

\* Only the handlers of the form change it, one answer at a time.
LEMMA EditKeepsForm ==
    ASSUME FaceInv,
           \/ \E mode \in Modes : ChooseMode(mode)
           \/ \E face \in Faces : ChooseReference(face)
           \/ \E key \in Required : \E choice \in RequiredAllowed(key) : ChooseRequired(key, choice)
           \/ \E key \in Optional : \E choice \in OptionalAllowed(key) \union {None} :
                ChooseOptional(key, choice)
    PROVE  FormShape' /\ FormSound'
<1>1. ASSUME NEW mode \in Modes, ChooseMode(mode) PROVE FormShape' /\ FormSound'
  BY <1>1 DEF ChooseMode, FaceInv, FormShape, FormSound, RequiredAllowed, OptionalAllowed
<1>2. ASSUME NEW face \in Faces, ChooseReference(face) PROVE FormShape' /\ FormSound'
  BY <1>2 DEF ChooseReference, FaceInv, FormShape, FormSound, RequiredAllowed, OptionalAllowed
<1>3. ASSUME NEW key \in Required, NEW choice \in RequiredAllowed(key), ChooseRequired(key, choice)
      PROVE  FormShape' /\ FormSound'
  <2>1. chosen' = [chosen EXCEPT !.required[key] =
                     IF chosen.required[key] = choice THEN None ELSE choice]
    BY <1>3 DEF ChooseRequired
  <2>2. FormShape'
    BY <2>1 DEF FaceInv, FormShape, RequiredAllowed
  <2>3. FormSound'
    BY <2>1 DEF FaceInv, FormShape, FormSound, RequiredAllowed, OptionalAllowed
  <2> QED
    BY <2>2, <2>3
<1>4. ASSUME NEW key \in Optional, NEW choice \in OptionalAllowed(key) \union {None},
             ChooseOptional(key, choice)
      PROVE  FormShape' /\ FormSound'
  <2>1. chosen' = [chosen EXCEPT !.optional[key] = choice]
    BY <1>4 DEF ChooseOptional
  <2>2. FormShape'
    BY <2>1 DEF FaceInv, FormShape, OptionalAllowed
  <2>3. FormSound'
    BY <2>1 DEF FaceInv, FormShape, FormSound, RequiredAllowed, OptionalAllowed
  <2> QED
    BY <2>2, <2>3
<1> QED
  BY <1>1, <1>2, <1>3, <1>4

\* FaceInv is inductive.
LEMMA FaceStepKeeps == FaceInv /\ [FaceNext]_faceVars => FaceInv'
<1> SUFFICES ASSUME FaceInv, [FaceNext]_faceVars PROVE FaceInv'
  OBVIOUS
<1>1. CASE \/ \E mode \in Modes : ChooseMode(mode)
           \/ \E face \in Faces : ChooseReference(face)
           \/ \E key \in Required : \E choice \in RequiredAllowed(key) : ChooseRequired(key, choice)
           \/ \E key \in Optional : \E choice \in OptionalAllowed(key) \union {None} :
                ChooseOptional(key, choice)
  <2>1. FormShape' /\ FormSound'
    BY <1>1, EditKeepsForm
  <2>2. sentFace' = sentFace /\ shown' \subseteq Faces
    BY <1>1 DEF ChooseMode, ChooseReference, ChooseRequired, ChooseOptional, FaceInv
  <2> QED
    BY <2>1, <2>2 DEF FaceInv, FaceAccepted, RouteAccepts, HasReferenceFace,
                      RequiredAllowed, OptionalAllowed
<1>2. CASE PickerLoads \/ ChooseFilter \/ UNCHANGED faceVars
  <2>1. chosen' = chosen /\ sentFace' = sentFace /\ shown' \subseteq Faces
    BY <1>2 DEF PickerLoads, ChooseFilter, faceVars, FaceInv
  <2> QED
    BY <2>1 DEF FaceInv, FormShape, FormSound, FaceAccepted, RouteAccepts, HasReferenceFace,
                RequiredAllowed, OptionalAllowed
<1>3. CASE SendFace
  <2>1. chosen' = chosen /\ shown' = shown /\ sentFace' = BuildFaceOption(chosen)
    BY <1>3 DEF SendFace
  <2>2. RouteAccepts(sentFace')
    BY <1>3, <2>1, ReadyIsTaken DEF SendFace, FaceInv
  <2> QED
    BY <2>1, <2>2 DEF FaceInv, FormShape, FormSound, FaceAccepted, RouteAccepts,
                      HasReferenceFace, RequiredAllowed, OptionalAllowed
<1>4. CASE FaceSettled
  BY <1>4 DEF FaceSettled, FaceInv, FormShape, FormSound, FaceAccepted,
              RequiredAllowed, OptionalAllowed
<1> QED
  BY <1>1, <1>2, <1>3, <1>4 DEF FaceNext

\* Every face that the form lets out passes the route's check of it, whatever
\* the faces and however many choices the questions have.
THEOREM EveryFaceAccepted == FaceSpec => []FaceAccepted
<1>1. FaceInv => FaceAccepted
  BY DEF FaceInv
<1> QED
  BY <1>1, FaceInitKeeps, FaceStepKeeps, PTL DEF FaceSpec

-----------------------------------------------------------------------------
(* The blog form *)

PostInv == /\ post = [sent |-> post.sent, shown |-> post.shown]
           /\ PostIsOfForm

\* The form cannot move under a call: its fields, the profile and the button
\* are disabled for as long as it lasts.  The claim is of the fields alone: the
\* shop that is sent with them is the profile's as last rendered, and another tab
\* may change the one on this screen with the next message.
THEOREM PostIsOfShownForm == BlogSpec => []PostIsOfForm
<1>1. BlogInit => PostInv
  BY DEF BlogInit, PostInv, PostIsOfForm, Requesting
<1>2. PostInv /\ [BlogNext]_blogVars => PostInv'
  <2> SUFFICES ASSUME PostInv, [BlogNext]_blogVars PROVE PostInv'
    OBVIOUS
  <2>1. ASSUME ~Requesting, UNCHANGED post PROVE PostInv'
    BY <2>1 DEF PostInv, PostIsOfForm, Requesting
  <2>2. ASSUME UNCHANGED <<form, post>> PROVE PostInv'
    BY <2>2 DEF PostInv, PostIsOfForm, Requesting, Ready
  <2>3. CASE \/ \E c \in Categories \union {NoCategory} : ChooseCategory(c)
             \/ NameTreatment \/ FillOthers
             \/ \E p \in Products : ChooseProduct(p) \/ AddProduct(p) \/ RemoveProduct(p)
             \/ \E shop \in Shops \union {NoShop} : TypeShop(shop)
    BY <2>1, <2>3 DEF ChooseCategory, NameTreatment, FillOthers, ChooseProduct, AddProduct,
                      RemoveProduct, TypeShop, Change, WriteProfile
  <2>4. CASE HandleGenerate
    <3>1. post' = [sent |-> Payload, shown |-> post.shown] /\ form' = form /\ Ready(form)
      BY <2>4 DEF HandleGenerate, PostInv
    <3>2. post'.sent.fields = form
      BY <3>1 DEF Payload
    <3> QED
      BY <3>1, <3>2 DEF PostInv, PostIsOfForm, Ready
  <2>5. CASE PostArrives
    BY <2>5 DEF PostArrives, PostInv, PostIsOfForm, Requesting
  <2>6. CASE OtherTabWrites \/ NextMessage \/ BlogStepNav \/ UNCHANGED blogVars
    BY <2>2, <2>6 DEF OtherTabWrites, NextMessage, BlogStepNav, blogVars
  <2> QED
    BY <2>3, <2>4, <2>5, <2>6 DEF BlogNext
<1>3. PostInv => PostIsOfForm
  BY DEF PostInv
<1> QED
  BY <1>1, <1>2, <1>3, PTL DEF BlogSpec

-----------------------------------------------------------------------------
(* The submission of the shorts screen *)

CaptionSteps == {"list", "captions"}
SubmitSteps == {"session", "create", "created", "get", "failed"}

ScreenState ==
    [version : 0..MaxEdits, edits : 0..MaxEdits, pressed : 0..MaxEdits,
     job : [id : Jobs \union {NoJob}, status : Shown \union {"none"}], late : BOOLEAN,
     submitting : BOOLEAN, captioning : BOOLEAN, editing : BOOLEAN,
     step : 1..2]

PollStates == [id : Jobs \union {NoJob}, got : Shown \union {"none", "asked"}]

Named(shownJob) == shownJob.id = NoJob <=> shownJob.status = "none"

\* The types, for any number of polls in flight and for any user: a call that has
\* the job's id has one of the service's.
JobTypeInv ==
    /\ JobTypeOK
    /\ sub \in [pc : {"none"} \union CaptionSteps \union SubmitSteps,
                version : 0..MaxEdits, id : Jobs \union {NoJob}]
    /\ sub.pc \in {"created", "get"} => sub.id \in Jobs
    /\ \A s \in Slots : polls[s].got # "none" => polls[s].id \in Jobs

\* No call is under way at the start.
LEMMA JobTypeInit == JobInit => JobTypeInv
<1> SUFFICES ASSUME JobInit PROVE JobTypeInv
  OBVIOUS
<1> USE SubmissionAssumption DEF JobInit, Fresh, Nothing, NoSubmission, NoPoll
<1>1. answer \in [Jobs -> Service!Answers]
  BY DEF Service!Init, Service!Answers
<1>2. polls \in [Slots -> PollStates] /\ \A s \in Slots : polls[s].got = "none"
  BY DEF PollStates
<1> QED
  BY <1>1, <1>2 DEF JobTypeInv, JobTypeOK, CaptionSteps, SubmitSteps, PollStates

\* Another screen with a job that has an id or none.
LEMMA ScreenTyped ==
    ASSUME JobTypeInv, NEW p \in ScreenState, Named(p.job), page' = p,
           UNCHANGED <<answer, madeFrom, sub, polls>>
    PROVE  JobTypeInv'
  BY DEF JobTypeInv, JobTypeOK, ScreenState, Named

\* Another submission and the screen that goes with it.
LEMMA SubTyped ==
    ASSUME JobTypeInv, UNCHANGED <<answer, madeFrom, polls>>,
           NEW pc \in {"none"} \union CaptionSteps \union SubmitSteps,
           NEW version \in 0..MaxEdits, NEW id \in Jobs \union {NoJob},
           sub' = [pc |-> pc, version |-> version, id |-> id],
           pc \in {"created", "get"} => id \in Jobs,
           NEW p \in ScreenState, Named(p.job), page' = p
    PROVE  JobTypeInv'
  BY DEF JobTypeInv, JobTypeOK, ScreenState, Named, CaptionSteps, SubmitSteps

\* The service moves a job.
LEMMA ServiceTyped ==
    ASSUME JobTypeInv, UNCHANGED <<madeFrom, page, sub, polls>>,
           answer' \in [Jobs -> Service!Answers]
    PROVE  JobTypeInv'
  BY DEF JobTypeInv, JobTypeOK

\* A slot holds another poll, or none.
LEMMA PollsTyped ==
    ASSUME JobTypeInv, UNCHANGED <<answer, madeFrom, sub>>,
           page' \in ScreenState, Named(page'.job),
           NEW s, NEW q \in PollStates, q.got # "none" => q.id \in Jobs,
           polls' = [polls EXCEPT ![s] = q]
    PROVE  JobTypeInv'
<1>1. polls \in [Slots -> PollStates]
  BY DEF JobTypeInv, JobTypeOK, PollStates
<1>2. polls' \in [Slots -> PollStates] /\ \A t \in Slots : polls'[t] \in {polls[t], q}
  BY <1>1
<1>3. \A t \in Slots : polls'[t].got # "none" => polls'[t].id \in Jobs
  BY <1>2 DEF JobTypeInv
<1> QED
  BY <1>2, <1>3 DEF JobTypeInv, JobTypeOK, ScreenState, Named, PollStates

\* JobTypeInv is inductive.
LEMMA JobTypeStep == JobTypeInv /\ [JobNext]_jobVars => JobTypeInv'
<1> SUFFICES ASSUME JobTypeInv, [JobNext]_jobVars PROVE JobTypeInv'
  OBVIOUS
<1>1. /\ page \in ScreenState /\ Named(page.job) /\ MaxEdits \in Nat
      /\ page.version \in 0..MaxEdits /\ page.edits \in 0..MaxEdits
  BY SubmissionAssumption DEF JobTypeInv, JobTypeOK, ScreenState, Named
<1>2. /\ sub.version \in 0..MaxEdits /\ sub.id \in Jobs \union {NoJob}
      /\ sub = [pc |-> sub.pc, version |-> sub.version, id |-> sub.id]
      /\ answer \in [Jobs -> Service!Answers] /\ 0 \in 0..MaxEdits
      /\ sub.pc \in {"created", "get"} => sub.id \in Jobs
      /\ polls \in [Slots -> PollStates]
  BY <1>1 DEF JobTypeInv, JobTypeOK, PollStates
<1>3. Nothing \in [id : Jobs \union {NoJob}, status : Shown \union {"none"}] /\ Named(Nothing)
  BY DEF Nothing, Named
<1>4. \A id \in Jobs, status \in Shown :
        /\ [id |-> id, status |-> status]
             \in [id : Jobs \union {NoJob}, status : Shown \union {"none"}]
        /\ Named([id |-> id, status |-> status])
  BY SubmissionAssumption DEF Named, Shown
<1>5. NoSubmission = [pc |-> "none", version |-> 0, id |-> NoJob]
  BY DEF NoSubmission
<1> DEFINE Steps == {"none"} \union CaptionSteps \union SubmitSteps
<1>6. {"none", "list", "captions", "session", "create", "created", "get", "failed"} = Steps
  BY DEF CaptionSteps, SubmitSteps
<1> HIDE DEF Steps
<1> USE <1>6 DEF Steps
<1>7. CASE EditClips \/ PhoneStep \/ EditResult
  <2>1. UNCHANGED <<answer, madeFrom, sub, polls>>
    BY <1>7 DEF EditClips, PhoneStep, EditResult, service
  <2>2. page' \in ScreenState /\ page'.job = page.job
    <3>1. CASE EditClips
      <4>1. page.edits + 1 \in 0..MaxEdits
        BY <1>1, <3>1 DEF EditClips
      <4>2. page' = [page EXCEPT !.version = page.edits + 1, !.edits = page.edits + 1]
        BY <3>1 DEF EditClips
      <4> QED
        BY <1>1, <4>1, <4>2 DEF ScreenState
    <3>2. CASE PhoneStep
      <4>1. PICK n \in 1..2 : page' = [page EXCEPT !.step = n]
        BY <3>2 DEF PhoneStep
      <4> QED
        BY <1>1, <4>1 DEF ScreenState
    <3>3. CASE EditResult
      <4>1. page' = [page EXCEPT !.editing = TRUE, !.step = 2] /\ 2 \in 1..2
        BY <3>3 DEF EditResult
      <4> QED
        BY <1>1, <4>1 DEF ScreenState
    <3> QED
      BY <1>7, <3>1, <3>2, <3>3
  <2> QED
    BY <1>1, <2>1, <2>2, ScreenTyped
<1>8. ASSUME NEW s, NEW version \in 0..MaxEdits, NEW id \in Jobs \union {NoJob},
             s = [pc |-> "captions", version |-> version, id |-> id], Begin(s),
             UNCHANGED <<answer, madeFrom, polls>>
      PROVE  JobTypeInv'
  <2>1. sub' = [pc |-> "session", version |-> version, id |-> id]
    BY <1>8 DEF Begin
  <2>2. page' \in ScreenState /\ page'.job = Nothing
    BY <1>1, <1>3, <1>8 DEF Begin, ScreenState
  <2> QED
    BY <1>3, <1>8, <2>1, <2>2, SubTyped
<1>9. CASE PressGenerate
  <2> DEFINE s == [pc |-> "captions", version |-> page.version, id |-> NoJob]
  <2>1. UNCHANGED <<answer, madeFrom, polls>>
    BY <1>9 DEF PressGenerate, service
  <2>2. CASE Begin(s)
    BY <1>1, <1>8, <2>1, <2>2
  <2>3. CASE sub' = s /\ page' = [page EXCEPT !.captioning = TRUE]
    <3>1. page' \in ScreenState /\ page'.job = page.job
      BY <1>1, <2>3 DEF ScreenState
    <3> QED
      BY <1>1, <2>1, <2>3, <3>1, SubTyped
  <2> QED
    BY <1>9, <2>2, <2>3 DEF PressGenerate
<1>10. CASE CaptionList
  <2>1. /\ UNCHANGED <<answer, madeFrom, polls>>
        /\ \E b \in BOOLEAN : page' = [page EXCEPT !.captioning = b]
    BY <1>10 DEF CaptionList, service
  <2>2. page' \in ScreenState /\ page'.job = page.job
    BY <1>1, <2>1 DEF ScreenState
  <2>3. \/ sub' = [pc |-> "list", version |-> sub.version, id |-> sub.id]
        \/ sub' = [pc |-> "none", version |-> 0, id |-> NoJob]
    BY <1>2, <1>5, <1>10 DEF CaptionList
  <2>4. CASE sub' = [pc |-> "list", version |-> sub.version, id |-> sub.id]
    BY <1>1, <1>2, <2>1, <2>2, <2>4, SubTyped
  <2>5. CASE sub' = [pc |-> "none", version |-> 0, id |-> NoJob]
    BY <1>1, <1>2, <2>1, <2>2, <2>5, SubTyped
  <2> QED
    BY <2>3, <2>4, <2>5
<1>11. CASE CaptionsBack
  <2>1. UNCHANGED <<answer, madeFrom, polls>>
    BY <1>11 DEF CaptionsBack, service
  <2>2. sub = [pc |-> "captions", version |-> sub.version, id |-> sub.id] /\ Begin(sub)
    BY <1>2, <1>11 DEF CaptionsBack
  <2> QED
    BY <1>2, <1>8, <2>1, <2>2
<1>12. ASSUME NEW p \in ScreenState, Named(p.job), EndSubmission(p),
              UNCHANGED <<answer, madeFrom, polls>>
       PROVE  JobTypeInv'
  <2>1. page' \in ScreenState /\ page'.job = p.job
    BY <1>12 DEF EndSubmission, ScreenState
  <2>2. sub' = [pc |-> "none", version |-> 0, id |-> NoJob]
    BY <1>5, <1>12 DEF EndSubmission
  <2> QED
    BY <1>2, <1>12, <2>1, <2>2, SubTyped
<1>13. CASE SessionChecked
  <2>1. UNCHANGED <<answer, madeFrom, polls>>
    BY <1>13 DEF SessionChecked, service
  <2>2. CASE sub' = [sub EXCEPT !.pc = "create"] /\ UNCHANGED page
    <3>1. sub' = [pc |-> "create", version |-> sub.version, id |-> sub.id]
      BY <1>2, <2>2
    <3> QED
      BY <1>1, <1>2, <2>1, <2>2, <3>1, SubTyped
  <2>3. CASE EndSubmission(page)
    BY <1>1, <1>12, <2>1, <2>3
  <2> QED
    BY <1>13, <2>2, <2>3 DEF SessionChecked
<1>14. CASE CreateServed
  <2>1. UNCHANGED <<page, polls>>
    BY <1>14 DEF CreateServed
  <2>2. ASSUME NEW j \in Jobs, Service!Accept(j),
               madeFrom' = [madeFrom EXCEPT ![j] = sub.version],
               sub' \in {[sub EXCEPT !.pc = "created", !.id = j], [sub EXCEPT !.pc = "failed"]}
        PROVE  JobTypeInv'
    <3>1. answer' \in [Jobs -> Service!Answers]
      BY <1>2, <2>2 DEF Service!Accept, Service!Move, Service!Answers
    <3>2. madeFrom' \in [Jobs -> 0..MaxEdits]
      BY <1>2, <2>2 DEF JobTypeInv, JobTypeOK
    <3>3. \/ sub' = [pc |-> "created", version |-> sub.version, id |-> j]
          \/ sub' = [pc |-> "failed", version |-> sub.version, id |-> sub.id]
      BY <1>2, <2>2
    <3> QED
      BY <1>2, <2>1, <3>1, <3>2, <3>3 DEF JobTypeInv, JobTypeOK
  <2>3. CASE sub' = [sub EXCEPT !.pc = "failed"] /\ UNCHANGED service
    <3>1. sub' = [pc |-> "failed", version |-> sub.version, id |-> sub.id]
      BY <1>2, <2>3
    <3> QED
      BY <1>1, <1>2, <2>1, <2>3, <3>1, SubTyped DEF service
  <2> QED
    BY <1>14, <2>2, <2>3 DEF CreateServed
<1>15. CASE SubmissionFails
  BY <1>1, <1>12, <1>15 DEF SubmissionFails, service
<1>16. CASE CreateArrives
  <2>1. sub' = [pc |-> "get", version |-> sub.version, id |-> sub.id] /\ sub.id \in Jobs
    BY <1>2, <1>16 DEF CreateArrives
  <2>2. page' \in ScreenState /\ page'.job = page.job
    BY <1>1, <1>16 DEF CreateArrives, ScreenState
  <2> QED
    BY <1>1, <1>2, <1>16, <2>1, <2>2, SubTyped DEF CreateArrives, service
<1>17. CASE GetArrives
  <2>1. UNCHANGED <<answer, madeFrom, polls>> /\ sub.id \in Jobs
    BY <1>2, <1>17 DEF GetArrives, service
  <2>2. CASE EndSubmission(page)
    BY <1>1, <1>12, <2>1, <2>2
  <2>3. CASE /\ answer[sub.id] \in Shown
             /\ EndSubmission([page EXCEPT !.job = [id |-> sub.id, status |-> answer[sub.id]],
                                           !.late = FALSE])
    <3> DEFINE made == [id |-> sub.id, status |-> answer[sub.id]]
    <3>1. /\ made \in [id : Jobs \union {NoJob}, status : Shown \union {"none"}]
          /\ Named(made)
      BY <1>4, <2>1, <2>3
    <3> HIDE DEF made
    <3>2. [page EXCEPT !.job = made, !.late = FALSE] \in ScreenState
          /\ [page EXCEPT !.job = made, !.late = FALSE].job = made
      BY <1>1, <3>1 DEF ScreenState
    <3>3. EndSubmission([page EXCEPT !.job = made, !.late = FALSE])
      BY <2>3 DEF made
    <3> QED
      BY <1>12, <2>1, <3>1, <3>2, <3>3
  <2> QED
    BY <1>17, <2>2, <2>3 DEF GetArrives
<1>18. CASE PollSent
  <2> DEFINE q == [id |-> page.job.id, got |-> "asked"]
  <2>1. /\ polls' = [polls EXCEPT ![Min(Free)] = q]
        /\ UNCHANGED <<answer, madeFrom, page, sub>> /\ Polling
    BY <1>18 DEF PollSent, service
  <2>2. page.job.id \in Jobs
    BY <1>1, <2>1 DEF Polling, Rendering, ScreenState, Named
  <2>3. q \in PollStates
    BY <2>2 DEF PollStates
  <2> QED
    BY <1>1, <2>1, <2>2, <2>3, PollsTyped
<1>19. ASSUME NEW s \in Slots, PollServed(s) \/ PollLost(s)  PROVE JobTypeInv'
  <2>1. UNCHANGED <<answer, madeFrom, page, sub>>
    BY <1>19 DEF PollServed, PollLost, service
  <2>2. CASE PollServed(s)
    <3>1. polls[s] \in PollStates /\ polls[s].id \in Jobs
      BY <1>2, <2>2 DEF PollServed, JobTypeInv
    <3> DEFINE q == [polls[s] EXCEPT !.got = answer[polls[s].id]]
    <3>2. q \in PollStates /\ q.id \in Jobs
      BY <2>2, <3>1 DEF PollServed, PollStates
    <3>3. polls' = [polls EXCEPT ![s] = q]
      BY <2>2 DEF PollServed
    <3> QED
      BY <1>1, <2>1, <3>2, <3>3, PollsTyped
  <2>3. CASE PollLost(s)
    <3>1. NoPoll \in PollStates /\ NoPoll.got = "none"
      BY DEF NoPoll, PollStates
    <3> QED
      BY <1>1, <2>1, <2>3, <3>1, PollsTyped DEF PollLost
  <2> QED
    BY <1>19, <2>2, <2>3
<1>20. ASSUME NEW s \in Slots, PollArrives(s)  PROVE JobTypeInv'
  <2>1. polls[s].id \in Jobs /\ polls[s].got \in Shown
    BY <1>2, <1>20 DEF PollArrives, JobTypeInv, PollStates
  <2> DEFINE got == [id |-> polls[s].id, status |-> polls[s].got]
             seenLate == page.late \/ ~Polling \/ page.job.id # polls[s].id
  <2>2. /\ got \in [id : Jobs \union {NoJob}, status : Shown \union {"none"}]
        /\ Named(got) /\ seenLate \in BOOLEAN
    BY <1>1, <1>4, <2>1 DEF ScreenState
  <2>3. page' = [page EXCEPT !.job = got, !.late = seenLate]
    BY <1>20 DEF PollArrives
  <2> HIDE DEF got, seenLate
  <2>4. page' \in ScreenState /\ page'.job = got
    BY <1>1, <2>2, <2>3 DEF ScreenState
  <2>5. /\ UNCHANGED <<answer, madeFrom, sub>> /\ polls' = [polls EXCEPT ![s] = NoPoll]
        /\ NoPoll \in PollStates /\ NoPoll.got = "none"
    BY <1>20 DEF PollArrives, service, NoPoll, PollStates
  <2> QED
    BY <2>2, <2>4, <2>5, PollsTyped
<1>21. CASE PressReset
  BY <1>1, <1>21, ScreenTyped DEF PressReset, service
<1>22. CASE DeleteServed
  <2>1. answer' \in [Jobs -> Service!Answers]
    BY <1>2, <1>22 DEF DeleteServed, Service!Remove, Service!Answers
  <2> QED
    BY <1>22, <2>1, ServiceTyped DEF DeleteServed
<1>23. CASE ResetArrives
  <2>1. page' = [Fresh EXCEPT
                   !.edits = page.edits, !.pressed = page.pressed,
                   !.submitting = page.submitting, !.captioning = page.captioning]
    BY <1>23 DEF ResetArrives
  <2>2. page' = [version |-> 0, edits |-> page.edits, pressed |-> page.pressed,
                 job |-> Nothing, late |-> FALSE, submitting |-> page.submitting,
                 captioning |-> page.captioning, editing |-> FALSE, step |-> 1]
    BY <2>1 DEF Fresh
  <2>3. /\ page.edits \in 0..MaxEdits /\ page.pressed \in 0..MaxEdits
        /\ page.submitting \in BOOLEAN /\ page.captioning \in BOOLEAN
    BY <1>1 DEF ScreenState
  <2>4. page' \in ScreenState /\ page'.job = Nothing
    BY <1>1, <1>2, <1>3, <2>2, <2>3 DEF ScreenState
  <2> QED
    BY <1>3, <1>23, <2>4, ScreenTyped DEF ResetArrives, service
<1>24. CASE JobStarts \/ JobEnds
  <2>1. PICK j \in Jobs, to \in {"processing", "completed", "failed"} :
          answer' = [answer EXCEPT ![j] = to]
    BY <1>24 DEF JobStarts, JobEnds, Service!Start, Service!Complete, Service!Fail, Service!Move
  <2>2. answer' \in [Jobs -> Service!Answers]
    BY <1>2, <2>1 DEF Service!Answers
  <2> QED
    BY <1>24, <2>2, ServiceTyped DEF JobStarts, JobEnds
<1>25. CASE ServiceRestarts
  <2>1. answer' \in [Jobs -> Service!Answers]
    BY <1>25 DEF ServiceRestarts, Service!Answers
  <2> QED
    BY <1>25, <2>1, ServiceTyped DEF ServiceRestarts
<1>26. CASE UNCHANGED jobVars
  BY <1>1, <1>26, ScreenTyped DEF jobVars
<1> QED
  BY <1>7, <1>9, <1>10, <1>11, <1>13, <1>14, <1>15, <1>16, <1>17, <1>18, <1>19,
     <1>20, <1>21, <1>22, <1>23, <1>24, <1>25, <1>26
     DEF JobNext, Submission

\* The spinners are on for exactly as long as there is something under way.
Spinners ==
    /\ sub.pc \in CaptionSteps <=> page.captioning
    /\ sub.pc \in SubmitSteps <=> page.submitting

\* A job that has an id has been accepted, and its version is that of its submission.
JobsAccepted ==
    /\ page.job.id \in Jobs => answer[page.job.id] # "none"
    /\ \A s \in Slots : polls[s].id \in Jobs => answer[polls[s].id] # "none"
    /\ sub.pc \in {"created", "get"} =>
         sub.id \in Jobs /\ answer[sub.id] # "none" /\ madeFrom[sub.id] = sub.version

\* From the press to the end of the submission the screen has the list of the press,
\* and no job but one that a late poll put there.
Submitted ==
    sub.pc \in SubmitSteps =>
        /\ page.pressed = sub.version /\ page.version = sub.version
        /\ ~page.late => page.job = Nothing

\* No submission is under way while a reset is, and no job but a late one.
ResetAlone == reset # NoReset => sub.pc = "none" /\ (~page.late => ~Polling)

SubmissionInv ==
    /\ JobTypeInv /\ Spinners /\ JobsAccepted
    /\ patient => Submitted /\ ResetAlone
    /\ ResultIsOfSubmission

\* What the type invariant says of the screen.
LEMMA ScreenIs ==
    ASSUME JobTypeInv
    PROVE  /\ page \in ScreenState /\ Named(page.job)
           /\ Polling => page.job.id \in Jobs
           /\ page.job.id # NoJob <=> page.job.id \in Jobs
  BY SubmissionAssumption
     DEF JobTypeInv, JobTypeOK, ScreenState, Named, Polling, Rendering

\* Steps that change the form, or the card that is shown.
LEMMA FormKeeps ==
    ASSUME SubmissionInv, JobTypeInv', UNCHANGED <<answer, madeFrom, sub, polls, reset, patient>>,
           page'.job = page.job, page'.late = page.late, page'.pressed = page.pressed,
           page'.submitting = page.submitting, page'.captioning = page.captioning,
           page'.version = page.version \/ ~PageBusy
    PROVE  SubmissionInv'
<1> USE DEF SubmissionInv
<1>1. Spinners' /\ JobsAccepted' /\ (Polling' <=> Polling)
  BY DEF Spinners, JobsAccepted, Polling
<1>2. patient => Submitted' /\ ResetAlone'
  BY <1>1 DEF Submitted, ResetAlone, PageBusy, Spinners
<1>3. ResultIsOfSubmission'
  BY <1>1 DEF ResultIsOfSubmission, PageBusy
<1> QED
  BY <1>1, <1>2, <1>3

\* Steps of the service, those that a call takes there, and polls that leave or come
\* back without a job.
LEMMA ServiceKeeps ==
    ASSUME SubmissionInv, JobTypeInv', UNCHANGED <<madeFrom, page, sub, patient>>,
           \A j \in Jobs : answer[j] # "none" => answer'[j] # "none",
           \A s \in Slots : polls'[s].id \in Jobs => answer'[polls'[s].id] # "none",
           reset' # NoReset => reset # NoReset
    PROVE  SubmissionInv'
<1> USE DEF SubmissionInv
<1>1. Spinners' /\ (Polling' <=> Polling)
  BY DEF Spinners, Polling
<1>2. JobsAccepted'
  BY DEF JobsAccepted
<1>3. patient => Submitted' /\ ResetAlone'
  BY <1>1 DEF Submitted, ResetAlone
<1>4. ResultIsOfSubmission'
  BY <1>1 DEF ResultIsOfSubmission
<1> QED
  BY <1>1, <1>2, <1>3, <1>4

\* A submission begins with the list that is on the screen from then on, and
\* without the job that was there, late or not.
LEMMA BeginKeeps ==
    ASSUME SubmissionInv, JobTypeInv',
           NEW s \in [pc : {"captions"}, version : 0..MaxEdits, id : Jobs \union {NoJob}],
           Begin(s), UNCHANGED <<service, polls, reset, kind>>, patient => reset = NoReset
    PROVE  SubmissionInv'
<1> USE DEF SubmissionInv
<1>1. /\ sub' = [s EXCEPT !.pc = "session"]
      /\ page'.version = s.version /\ page'.pressed = s.version /\ page'.job = Nothing
      /\ page'.submitting /\ ~page'.captioning
      /\ answer' = answer /\ madeFrom' = madeFrom /\ polls' = polls /\ reset' = reset
      /\ patient' = patient
  BY ScreenIs DEF Begin, ScreenState, service, kind
<1>2. sub'.pc = "session" /\ sub'.version = s.version
  BY <1>1
<1>3. Spinners' /\ JobsAccepted' /\ ~Polling' /\ page'.job.id = NoJob
  BY <1>1, <1>2, SubmissionAssumption
     DEF Spinners, JobsAccepted, CaptionSteps, SubmitSteps, Nothing, Polling, Rendering
<1>4. patient => Submitted' /\ ResetAlone'
  BY <1>1, <1>2 DEF Submitted, ResetAlone
<1>5. ResultIsOfSubmission'
  BY <1>3 DEF ResultIsOfSubmission
<1> QED
  BY <1>1, <1>3, <1>4, <1>5

\* It ends in a job that was made from that list, or in none.
LEMMA EndKeeps ==
    ASSUME SubmissionInv, JobTypeInv', sub.pc \in SubmitSteps, NEW p, EndSubmission(p),
           UNCHANGED <<service, polls, reset, kind>>,
           \/ p = page
           \/ /\ sub.pc = "get" /\ answer[sub.id] \in Shown
              /\ p = [page EXCEPT !.job = [id |-> sub.id, status |-> answer[sub.id]],
                                  !.late = FALSE]
    PROVE  SubmissionInv'
<1> USE DEF SubmissionInv
<1>1. /\ sub' = NoSubmission /\ ~page'.submitting
      /\ page'.captioning = page.captioning
      /\ page'.version = page.version /\ page'.pressed = page.pressed
      /\ \/ page'.job = page.job /\ page'.late = page.late
         \/ /\ sub.pc = "get"
            /\ page'.job.id = sub.id
      /\ answer' = answer /\ madeFrom' = madeFrom /\ polls' = polls /\ reset' = reset
      /\ patient' = patient
  <2>1. page \in ScreenState /\ sub' = NoSubmission /\ page' = [p EXCEPT !.submitting = FALSE]
    BY ScreenIs DEF EndSubmission
  <2>2. UNCHANGED <<answer, madeFrom, polls, reset, patient>>
    BY DEF service, kind
  <2>3. CASE p = page
    BY <2>1, <2>2, <2>3 DEF ScreenState
  <2>4. CASE /\ sub.pc = "get"
             /\ p = [page EXCEPT !.job = [id |-> sub.id, status |-> answer[sub.id]],
                                 !.late = FALSE]
    BY <2>1, <2>2, <2>4 DEF ScreenState
  <2> QED
    BY <2>3, <2>4
<1>2. sub.pc = "get" => sub.id \in Jobs /\ sub.id # NoJob
  BY SubmissionAssumption DEF JobsAccepted
<1>3. Spinners' /\ JobsAccepted' /\ sub'.pc = "none"
  BY <1>1, <1>2 DEF Spinners, JobsAccepted, CaptionSteps, SubmitSteps, NoSubmission
<1>4. patient => reset = NoReset
  BY DEF ResetAlone, SubmitSteps
<1>5. patient => Submitted' /\ ResetAlone'
  BY <1>1, <1>3, <1>4 DEF Submitted, ResetAlone, SubmitSteps
<1>6. Polling' => page'.job.id # NoJob
  BY SubmissionAssumption DEF JobTypeInv, JobTypeOK, Polling, Rendering
<1>7. ASSUME patient, ~page'.late, page'.job.id # NoJob
       PROVE  madeFrom[page'.job.id] = page'.pressed /\ page'.pressed = page'.version
  BY <1>1, <1>7 DEF Submitted, JobsAccepted, Nothing
<1>8. ResultIsOfSubmission'
  BY <1>1, <1>6, <1>7 DEF ResultIsOfSubmission
<1> QED
  BY <1>1, <1>3, <1>5, <1>8

\* A submission under way moves on, the page as it is but for the form's marks.
LEMMA OnwardsKeeps ==
    ASSUME SubmissionInv, JobTypeInv', sub.pc \in SubmitSteps,
           sub'.pc \in SubmitSteps, sub'.version = sub.version,
           page' \in {page, [page EXCEPT !.editing = FALSE]},
           UNCHANGED <<answer, madeFrom, polls, reset, patient>>,
           sub'.pc \in {"created", "get"} => sub.pc \in {"created", "get"} /\ sub'.id = sub.id
    PROVE  SubmissionInv'
<1> USE DEF SubmissionInv
<1>1. /\ page'.job = page.job /\ page'.version = page.version /\ page'.pressed = page.pressed
      /\ page'.submitting = page.submitting /\ page'.captioning = page.captioning
      /\ page'.late = page.late
  BY ScreenIs DEF ScreenState
<1>2. Spinners' /\ JobsAccepted' /\ (Polling' <=> Polling)
  BY <1>1 DEF Spinners, JobsAccepted, CaptionSteps, SubmitSteps, Polling
<1>3. patient => Submitted' /\ ResetAlone'
  BY <1>1, <1>2 DEF Submitted, ResetAlone, SubmitSteps
<1>4. ResultIsOfSubmission'
  BY <1>1, <1>2 DEF ResultIsOfSubmission
<1> QED
  BY <1>1, <1>2, <1>3, <1>4

\* No call is under way at the start.
LEMMA SubmissionInit == JobInit => SubmissionInv
<1> SUFFICES ASSUME JobInit PROVE SubmissionInv
  OBVIOUS
<1> USE SubmissionAssumption DEF JobInit, Fresh, Nothing, NoSubmission, NoReset, NoPoll
<1>1. Spinners /\ JobsAccepted /\ Submitted /\ ResetAlone /\ ~Polling
  BY DEF Spinners, CaptionSteps, SubmitSteps, JobsAccepted, Submitted, ResetAlone, Polling, Rendering
<1>2. ResultIsOfSubmission
  BY <1>1 DEF ResultIsOfSubmission
<1> QED
  BY <1>1, <1>2, JobTypeInit DEF SubmissionInv

\* SubmissionInv is inductive.
LEMMA SubmissionStep == SubmissionInv /\ [JobNext]_jobVars => SubmissionInv'
<1> SUFFICES ASSUME SubmissionInv, [JobNext]_jobVars PROVE SubmissionInv'
  OBVIOUS
<1>0. JobTypeInv /\ JobTypeInv'
  BY JobTypeStep DEF SubmissionInv
<1>1. page \in ScreenState /\ Named(page.job)
  BY <1>0, ScreenIs
<1>2. /\ sub.version \in 0..MaxEdits /\ sub.id \in Jobs \union {NoJob}
      /\ sub = [pc |-> sub.pc, version |-> sub.version, id |-> sub.id]
      /\ answer \in [Jobs -> Service!Answers] /\ polls \in [Slots -> PollStates]
  BY <1>0 DEF JobTypeInv, JobTypeOK, PollStates
<1>3. \A s \in Slots : polls[s].id \in Jobs => answer[polls[s].id] # "none"
  BY DEF SubmissionInv, JobsAccepted
<1>4. CASE EditClips \/ PhoneStep \/ EditResult
  <2>1. UNCHANGED <<answer, madeFrom, sub, polls, reset, patient>>
    BY <1>4 DEF EditClips, PhoneStep, EditResult, service, kind
  <2>2. /\ page'.job = page.job /\ page'.late = page.late /\ page'.pressed = page.pressed
        /\ page'.submitting = page.submitting /\ page'.captioning = page.captioning
        /\ page'.version = page.version \/ ~PageBusy
    BY <1>1, <1>4 DEF EditClips, PhoneStep, EditResult, ScreenState
  <2> QED
    BY <1>0, <2>1, <2>2, FormKeeps
<1>5. CASE PressGenerate
  <2> DEFINE s == [pc |-> "captions", version |-> page.version, id |-> NoJob]
  <2>1. /\ s \in [pc : {"captions"}, version : 0..MaxEdits, id : Jobs \union {NoJob}]
        /\ ~PageBusy /\ (patient => reset = NoReset)
        /\ UNCHANGED <<service, polls, reset, kind>>
    BY <1>1, <1>5 DEF PressGenerate, Settled, ScreenState
  <2>2. CASE Begin(s)
    BY <1>0, <2>1, <2>2, BeginKeeps
  <2>3. CASE sub' = s /\ page' = [page EXCEPT !.captioning = TRUE]
    <3> USE DEF SubmissionInv
    <3>1. /\ page'.job = page.job /\ page'.version = page.version /\ page'.pressed = page.pressed
          /\ page'.submitting = page.submitting /\ page'.captioning /\ ~page.submitting
          /\ page'.late = page.late
          /\ answer' = answer /\ madeFrom' = madeFrom /\ polls' = polls /\ reset' = reset
          /\ patient' = patient /\ sub'.pc = "captions"
      BY <1>1, <2>1, <2>3 DEF ScreenState, PageBusy, service, kind
    <3>2. Spinners' /\ JobsAccepted' /\ ~Polling' /\ ~Polling
      BY <2>1, <3>1 DEF Spinners, JobsAccepted, CaptionSteps, SubmitSteps, Polling, PageBusy
    <3>3. patient => Submitted' /\ ResetAlone'
      BY <2>1, <3>1, <3>2 DEF Submitted, ResetAlone, SubmitSteps
    <3>4. ResultIsOfSubmission'
      BY <3>1, <3>2 DEF ResultIsOfSubmission
    <3> QED
      BY <1>0, <3>1, <3>2, <3>3, <3>4
  <2> QED
    BY <1>5, <2>2, <2>3 DEF PressGenerate
<1>6. CASE CaptionList
  <2> USE DEF SubmissionInv
  <2>1. /\ page'.job = page.job /\ page'.version = page.version /\ page'.pressed = page.pressed
        /\ page'.submitting = page.submitting /\ page'.late = page.late
        /\ \/ page'.captioning /\ sub'.pc = "list" /\ (patient => reset = NoReset)
           \/ ~page'.captioning /\ sub'.pc = "none"
        /\ sub.pc \in {"none", "list"}
        /\ answer' = answer /\ madeFrom' = madeFrom /\ polls' = polls /\ reset' = reset
        /\ patient' = patient
    BY <1>1, <1>2, <1>6 DEF CaptionList, ScreenState, NoSubmission, Settled, service, kind
  <2>2. Spinners' /\ JobsAccepted' /\ (Polling' <=> Polling)
    BY <2>1 DEF Spinners, JobsAccepted, CaptionSteps, SubmitSteps, Polling
  <2>3. patient => Submitted' /\ ResetAlone'
    BY <2>1, <2>2 DEF Submitted, ResetAlone, SubmitSteps
  <2>4. ResultIsOfSubmission'
    BY <2>1, <2>2 DEF ResultIsOfSubmission
  <2> QED
    BY <1>0, <2>1, <2>2, <2>3, <2>4
<1>7. CASE CaptionsBack
  <2>1. /\ sub.pc = "captions" /\ Begin(sub) /\ UNCHANGED <<service, polls, reset, kind>>
        /\ sub \in [pc : {"captions"}, version : 0..MaxEdits, id : Jobs \union {NoJob}]
    BY <1>2, <1>7 DEF CaptionsBack
  <2>2. patient => reset = NoReset
    BY <2>1 DEF SubmissionInv, ResetAlone
  <2> QED
    BY <1>0, <2>1, <2>2, BeginKeeps
<1>8. CASE SessionChecked
  <2>1. sub.pc \in SubmitSteps /\ UNCHANGED <<service, polls, reset, kind>>
    BY <1>8 DEF SessionChecked, SubmitSteps
  <2>2. CASE sub' = [sub EXCEPT !.pc = "create"] /\ UNCHANGED page
    <3>1. sub'.pc = "create" /\ sub'.version = sub.version
      BY <1>2, <2>2
    <3> QED
      BY <1>0, <2>1, <2>2, <3>1, OnwardsKeeps DEF SubmitSteps, service, kind
  <2>3. CASE EndSubmission(page)
    BY <1>0, <2>1, <2>3, EndKeeps
  <2> QED
    BY <1>8, <2>2, <2>3 DEF SessionChecked
<1>9. CASE CreateServed
  <2>1. CASE \E j \in Jobs :
               /\ Service!Accept(j)
               /\ madeFrom' = [madeFrom EXCEPT ![j] = sub.version]
               /\ sub' \in {[sub EXCEPT !.pc = "created", !.id = j],
                            [sub EXCEPT !.pc = "failed"]}
    <3> USE DEF SubmissionInv
    <3>1. PICK j \in Jobs : /\ Service!Accept(j)
                            /\ madeFrom' = [madeFrom EXCEPT ![j] = sub.version]
                            /\ sub' \in {[sub EXCEPT !.pc = "created", !.id = j],
                                         [sub EXCEPT !.pc = "failed"]}
      BY <2>1
    <3>2. /\ answer[j] = "none" /\ answer'[j] = "queued" /\ madeFrom'[j] = sub.version
          /\ \A k \in Jobs : k # j => answer'[k] = answer[k] /\ madeFrom'[k] = madeFrom[k]
      BY <1>2, <3>1 DEF Service!Accept, Service!Move, JobTypeInv, JobTypeOK
    <3>3. /\ sub.pc = "create" /\ page' = page /\ polls' = polls /\ reset' = reset /\ patient' = patient
          /\ \/ sub'.pc = "created" /\ sub'.id = j
             \/ sub'.pc = "failed"
          /\ sub'.version = sub.version
      BY <1>2, <1>9, <3>1 DEF CreateServed, kind
    <3>4. Spinners' /\ (Polling' <=> Polling) /\ page.submitting
      BY <3>3 DEF Spinners, CaptionSteps, SubmitSteps, Polling
    <3>5. JobsAccepted'
      BY <3>2, <3>3 DEF JobsAccepted
    <3>6. patient => Submitted' /\ ResetAlone'
      BY <3>3, <3>4 DEF Submitted, ResetAlone, SubmitSteps
    <3>7. patient /\ ~page.late => ~Polling
      BY <3>3 DEF Submitted, SubmitSteps, Polling, Nothing, Rendering
    <3>8. ResultIsOfSubmission'
      BY <3>3, <3>4, <3>7 DEF ResultIsOfSubmission
    <3> QED
      BY <1>0, <3>3, <3>4, <3>5, <3>6, <3>8
  <2>2. CASE sub' = [sub EXCEPT !.pc = "failed"] /\ UNCHANGED service
    <3>1. sub'.pc = "failed" /\ sub'.version = sub.version
      BY <1>2, <2>2
    <3> QED
      BY <1>0, <1>9, <2>2, <3>1, OnwardsKeeps DEF CreateServed, SubmitSteps, service, kind
  <2> QED
    BY <1>9, <2>1, <2>2 DEF CreateServed
<1>10. CASE SubmissionFails \/ GetArrives
  <2>1. sub.pc \in SubmitSteps /\ UNCHANGED <<service, polls, reset, kind>>
    BY <1>10 DEF SubmissionFails, GetArrives, SubmitSteps
  <2>2. CASE EndSubmission(page)
    BY <1>0, <2>1, <2>2, EndKeeps
  <2>3. CASE /\ sub.pc = "get" /\ answer[sub.id] \in Shown
             /\ EndSubmission([page EXCEPT !.job = [id |-> sub.id, status |-> answer[sub.id]],
                                           !.late = FALSE])
    BY <1>0, <2>1, <2>3, EndKeeps
  <2> QED
    BY <1>10, <2>2, <2>3 DEF SubmissionFails, GetArrives
<1>11. CASE CreateArrives
  <2>1. sub'.pc = "get" /\ sub'.version = sub.version /\ sub'.id = sub.id
    BY <1>2, <1>11 DEF CreateArrives
  <2> QED
    BY <1>0, <1>11, <2>1, OnwardsKeeps DEF CreateArrives, SubmitSteps, service, kind
<1>12. CASE PollSent
  <2>1. /\ polls' = [polls EXCEPT ![Min(Free)] = [id |-> page.job.id, got |-> "asked"]]
        /\ UNCHANGED <<answer, madeFrom, page, sub, reset, patient>>
    BY <1>12 DEF PollSent, service, kind
  <2>2. \A s \in Slots : polls'[s].id \in {polls[s].id, page.job.id}
    BY <1>2, <2>1
  <2>3. \A s \in Slots : polls'[s].id \in Jobs => answer'[polls'[s].id] # "none"
    BY <1>3, <2>1, <2>2 DEF SubmissionInv, JobsAccepted
  <2> QED
    BY <1>0, <2>1, <2>3, ServiceKeeps
<1>13. ASSUME NEW s \in Slots, PollServed(s) \/ PollLost(s)  PROVE SubmissionInv'
  <2>1. /\ UNCHANGED <<answer, madeFrom, page, sub, reset, patient>>
        /\ \E g : polls' \in {[polls EXCEPT ![s].got = g], [polls EXCEPT ![s] = NoPoll]}
    BY <1>13 DEF PollServed, PollLost, service, kind
  <2>2. \A t \in Slots : polls'[t].id \in {polls[t].id, NoJob}
    BY <1>2, <2>1 DEF NoPoll, PollStates
  <2>3. \A t \in Slots : polls'[t].id \in Jobs => answer'[polls'[t].id] # "none"
    BY <1>3, <2>1, <2>2, SubmissionAssumption
  <2> QED
    BY <1>0, <2>1, <2>3, ServiceKeeps
<1>14. ASSUME NEW s \in Slots, PollArrives(s)  PROVE SubmissionInv'
  <2> USE DEF SubmissionInv
  <2>1. /\ polls' = [polls EXCEPT ![s] = NoPoll]
        /\ UNCHANGED <<answer, madeFrom, sub, reset, patient>>
    BY <1>14 DEF PollArrives, service, kind
  <2>2. polls[s].id \in Jobs /\ polls[s].got \in Shown
    BY <1>0, <1>2, <1>14 DEF PollArrives, JobTypeInv, PollStates
  <2>3. /\ page'.version = page.version /\ page'.pressed = page.pressed
        /\ page'.submitting = page.submitting /\ page'.captioning = page.captioning
        /\ page'.job.id = polls[s].id
        /\ ~page'.late => ~page.late /\ Polling /\ page.job.id = polls[s].id
    BY <1>1, <1>14 DEF PollArrives, ScreenState
  <2>4. Spinners' /\ JobsAccepted'
    <3>1. \A t \in Slots : polls'[t].id \in {polls[t].id, NoJob}
      BY <1>2, <2>1 DEF NoPoll
    <3> QED
      BY <1>3, <2>1, <2>2, <2>3, <3>1, SubmissionAssumption DEF Spinners, JobsAccepted
  <2>5. patient => Submitted' /\ ResetAlone'
    BY <2>1, <2>3 DEF Submitted, ResetAlone, Polling, Nothing, Rendering
  <2>6. ResultIsOfSubmission'
    <3>1. Polling => page.job.id # NoJob
      BY <1>0, ScreenIs, SubmissionAssumption
    <3> QED
      BY <2>1, <2>3, <3>1 DEF ResultIsOfSubmission
  <2> QED
    BY <1>0, <2>1, <2>4, <2>5, <2>6
<1>15. CASE PressReset
  <2> USE DEF SubmissionInv
  <2>1. UNCHANGED <<answer, madeFrom, page, sub, polls, patient>> /\ ~PageBusy
    BY <1>15 DEF PressReset, service, kind
  <2>2. Spinners' /\ JobsAccepted' /\ ~Polling /\ ~Polling' /\ sub.pc = "none"
    BY <1>0, <2>1 DEF Spinners, JobsAccepted, PageBusy, Polling, JobTypeInv
  <2>3. patient => Submitted' /\ ResetAlone'
    BY <2>1, <2>2 DEF Submitted, ResetAlone
  <2>4. ResultIsOfSubmission'
    BY <2>1, <2>2 DEF ResultIsOfSubmission
  <2> QED
    BY <1>0, <2>1, <2>2, <2>3, <2>4
<1>16. CASE DeleteServed
  <2>1. /\ UNCHANGED <<madeFrom, page, sub, polls, patient>>
        /\ reset.pc = "asked"
        /\ Service!Remove({reset.id}) \/ answer' = answer
    BY <1>16 DEF DeleteServed, kind
  <2>2. \A j \in Jobs : answer[j] # "none" => answer'[j] # "none"
    BY <2>1 DEF Service!Remove
  <2>3. reset # NoReset
    BY <2>1 DEF NoReset
  <2> QED
    BY <1>0, <1>3, <2>1, <2>2, <2>3, ServiceKeeps
<1>17. CASE ResetArrives
  <2> USE DEF SubmissionInv
  <2>1. /\ UNCHANGED <<answer, madeFrom, sub, polls, patient>>
        /\ reset # NoReset /\ reset' = NoReset
        /\ page'.job = Nothing /\ page'.submitting = page.submitting
        /\ page'.captioning = page.captioning
    BY <1>17 DEF ResetArrives, Fresh, NoReset, service, kind
  <2>2. Spinners' /\ JobsAccepted' /\ ~Polling' /\ page'.job.id = NoJob
    BY <2>1, SubmissionAssumption DEF Spinners, JobsAccepted, Polling, Rendering, Nothing
  <2>3. patient => Submitted' /\ ResetAlone'
    BY <2>1 DEF Submitted, ResetAlone, SubmitSteps
  <2>4. ResultIsOfSubmission'
    BY <2>2 DEF ResultIsOfSubmission
  <2> QED
    BY <1>0, <2>1, <2>2, <2>3, <2>4
<1>18. CASE JobStarts \/ JobEnds \/ ServiceRestarts
  <2>1. UNCHANGED <<madeFrom, page, sub, polls, reset, patient>>
    BY <1>18 DEF JobStarts, JobEnds, ServiceRestarts, kind
  <2>2. \A j \in Jobs : answer[j] # "none" => answer'[j] # "none"
    BY <1>2, <1>18 DEF JobStarts, JobEnds, Service!Start, Service!Complete, Service!Fail,
                       Service!Move, ServiceRestarts
  <2> QED
    BY <1>0, <1>3, <2>1, <2>2, ServiceKeeps
<1>19. CASE UNCHANGED jobVars
  BY <1>0, <1>3, <1>19, ServiceKeeps DEF jobVars
<1>20. CASE Submission
  BY <1>6, <1>7, <1>8, <1>9, <1>10, <1>11, <1>20 DEF Submission
<1> QED
  BY <1>4, <1>5, <1>12, <1>13, <1>14, <1>15, <1>16, <1>17, <1>18, <1>19, <1>20 DEF JobNext

\* Whatever answers were lost and submissions failed before, and however many polls
\* are in flight, a user who waits for a reset is shown a job of the last press of
\* "generate", and while it is under way the list it is made from.  Only a poll
\* that comes back when the page has left its job, or has seen it end, can put
\* another job there: nothing cancels a poll (the timer of shorts-generator).
THEOREM ResultOfSubmission == JobSpec => []ResultIsOfSubmission
<1>1. SubmissionInv => ResultIsOfSubmission
  BY DEF SubmissionInv
<1> QED
  BY <1>1, SubmissionInit, SubmissionStep, PTL DEF JobSpec

-----------------------------------------------------------------------------
(* The mock API *)

\* A job that is not stored yet has not aged.
MockInv ==
    /\ MockTypeOK
    /\ \A id \in MockIds : mock[id].phase = "none" => mock[id].elapsed = 0 /\ ~mock[id].retried

\* What a poll answers before and after a step is the same, or one move on.
MockMoves(id, before, next) ==
    \/ before = next
    \/ before = "none" /\ next = "queued"
    \/ before = "queued" /\ next = "processing"
    \/ before = "processing" /\ next \in {"completed", "failed", "rejected"}
    \/ before = "failed" /\ next = "processing"
    \/ before \in {"completed", "failed", "rejected"} /\ next = "gone"

\* How an answer follows from the state of the job.
LEMMA MockAnswers ==
    ASSUME NEW m \in MockJob
    PROVE  /\ MockScale(m) \in {1, Slowest}
           /\ JobStatus(m) \in {"queued", "processing", "completed", "failed"}
           /\ JobStatus(m) = "queued" <=> ~m.retried /\ m.elapsed < MockScale(m)
           /\ JobStatus(m) = "processing" <=>
                /\ m.elapsed < 7 * MockScale(m)
                /\ m.retried \/ ~(m.elapsed < MockScale(m))
           /\ m.elapsed \in Nat
  BY DEF MockJob, MockScale, JobStatus, Slowest, QueuedUntil, DoneAfter

\* Each step of the mock moves each job as MockMoves allows.
LEMMA MockStepMoves ==
    ASSUME MockInv, MockNext, NEW id \in MockIds
    PROVE  /\ mock'[id] \in MockJob
           /\ mock'[id].phase = "none" => mock'[id].elapsed = 0 /\ ~mock'[id].retried
           /\ MockMoves(id, MockAnswer(id), MockAnswer(id)')
<1> DEFINE old == mock[id]
           new == mock'[id]
<1>1. /\ old \in MockJob /\ mock \in [MockIds -> MockJob]
      /\ old.phase = "none" => old.elapsed = 0 /\ ~old.retried
  BY DEF MockInv, MockTypeOK
<1>2. MockAnswer(id) = CASE old.phase = "none" -> "none"
                        [] old.phase = "deleted" -> "gone"
                        [] OTHER -> IF JobStatus(old) = "failed" /\ ~Retryable(old)
                                    THEN "rejected" ELSE JobStatus(old)
  BY DEF MockAnswer
<1>3. MockAnswer(id)' = CASE new.phase = "none" -> "none"
                         [] new.phase = "deleted" -> "gone"
                         [] OTHER -> IF JobStatus(new) = "failed" /\ ~Retryable(new)
                                     THEN "rejected" ELSE JobStatus(new)
  BY DEF MockAnswer, JobStatus, Retryable, MockScale
<1>4. CASE new = old
  BY <1>1, <1>2, <1>3, <1>4 DEF MockMoves
<1>5. ASSUME NEW scenario \in Scenarios, CreateMock(id, scenario)
      PROVE  /\ new \in MockJob
             /\ new.phase = "none" => new.elapsed = 0 /\ ~new.retried
             /\ MockMoves(id, MockAnswer(id), MockAnswer(id)')
  <2>1. /\ old.phase = "none" /\ new = [old EXCEPT !.phase = "stored", !.scenario = scenario]
    BY <1>1, <1>5 DEF CreateMock
  <2>2. /\ new \in MockJob /\ new.phase = "stored" /\ new.elapsed = 0 /\ ~new.retried
    BY <1>1, <2>1 DEF MockJob, Phases
  <2>3. JobStatus(new) = "queued"
    BY <2>2, MockAnswers DEF Slowest
  <2> QED
    BY <1>2, <1>3, <2>1, <2>2, <2>3 DEF MockMoves
<1>6. CASE MockTime /\ UnderWay(old)
  <2>1. new = [old EXCEPT !.elapsed = @ + 1] /\ old.phase = "stored"
    BY <1>1, <1>6 DEF MockTime, UnderWay
  <2>2. old.elapsed < DoneAfter * MockScale(old)
    BY <1>1, <1>6 DEF UnderWay, JobStatus
  <2>3. old.elapsed + 1 \in 0..DoneAfter * Slowest
    BY <1>1, <2>2 DEF MockJob, MockScale, DoneAfter, Slowest
  <2>4. /\ new \in MockJob /\ new.phase = "stored" /\ new.elapsed = old.elapsed + 1
        /\ new.retried = old.retried /\ MockScale(new) = MockScale(old)
    BY <1>1, <2>1, <2>3 DEF MockJob, MockScale
  <2>5. PICK s \in {1, 5}, e \in Nat : s = MockScale(old) /\ e = old.elapsed
    BY <1>1, MockAnswers DEF Slowest
  <2>6. /\ JobStatus(new) \in {"queued", "processing", "completed", "failed"}
        /\ JobStatus(old) = "queued" => JobStatus(new) \in {"queued", "processing"}
        /\ JobStatus(old) = "processing" => JobStatus(new) # "queued"
    <3>1. /\ JobStatus(old) = "queued" <=> ~old.retried /\ e < s
          /\ JobStatus(old) = "processing" <=> e < 7 * s /\ (old.retried \/ ~(e < s))
      BY <1>1, <2>5, MockAnswers
    <3>2. /\ JobStatus(new) \in {"queued", "processing", "completed", "failed"}
          /\ JobStatus(new) = "queued" <=> ~old.retried /\ e + 1 < s
          /\ JobStatus(new) = "processing" <=> e + 1 < 7 * s /\ (old.retried \/ ~(e + 1 < s))
      BY <2>4, <2>5, MockAnswers
    <3> QED
      BY <2>5, <3>1, <3>2
  <2>7. JobStatus(old) \in {"queued", "processing"}
    BY <1>6 DEF UnderWay
  <2> QED
    BY <1>2, <1>3, <2>1, <2>4, <2>6, <2>7 DEF MockMoves
<1>7. CASE RetryMock(id)
  <2>1. /\ old.phase = "stored" /\ JobStatus(old) = "failed" /\ Retryable(old)
        /\ new = [old EXCEPT !.elapsed = 0, !.retried = TRUE]
    BY <1>1, <1>7 DEF RetryMock
  <2>2. /\ new \in MockJob /\ new.phase = "stored" /\ new.elapsed = 0 /\ new.retried
    <3>1. 0 \in 0..DoneAfter * Slowest
      BY DEF DoneAfter, Slowest
    <3> QED
      BY <1>1, <2>1, <3>1 DEF MockJob
  <2>3. JobStatus(new) = "processing"
    BY <2>2, MockAnswers DEF Slowest
  <2> QED
    BY <1>2, <1>3, <2>1, <2>2, <2>3 DEF MockMoves
<1>8. CASE DeleteMock(id)
  <2>1. /\ old.phase = "stored" /\ ~UnderWay(old) /\ new = [old EXCEPT !.phase = "deleted"]
    BY <1>1, <1>8 DEF DeleteMock
  <2>2. new \in MockJob /\ new.phase = "deleted"
    BY <1>1, <2>1 DEF MockJob, Phases
  <2>3. JobStatus(old) \in {"completed", "failed"}
    BY <1>1, <2>1, MockAnswers DEF UnderWay
  <2> QED
    BY <1>2, <1>3, <2>1, <2>2, <2>3 DEF MockMoves
<1>9. \/ new = old
      \/ \E scenario \in Scenarios : CreateMock(id, scenario)
      \/ MockTime /\ UnderWay(old)
      \/ RetryMock(id) \/ DeleteMock(id)
  BY <1>1 DEF MockNext, CreateMock, MockTime, RetryMock, DeleteMock
<1> QED
  BY <1>1, <1>4, <1>5, <1>6, <1>7, <1>8, <1>9

\* Nothing is stored at the start.
LEMMA MockInvInit == MockInit => MockInv
  BY DEF MockInit, MockInv, MockTypeOK, MockJob, Phases, Scenarios, DoneAfter, Slowest

\* MockInv is inductive.
LEMMA MockInvStep == MockInv /\ [MockNext]_mock => MockInv'
<1> SUFFICES ASSUME MockInv, [MockNext]_mock PROVE MockInv'
  OBVIOUS
<1>1. CASE MockNext
  <2>1. mock' = [id \in MockIds |-> mock'[id]]
    BY <1>1 DEF MockNext, CreateMock, MockTime, RetryMock, DeleteMock, MockInv, MockTypeOK
  <2> QED
    BY <1>1, <2>1, MockStepMoves DEF MockInv, MockTypeOK
<1>2. CASE UNCHANGED mock
  BY <1>2 DEF MockInv, MockTypeOK
<1> QED
  BY <1>1, <1>2

\* Each job of the mock moves as the contract of the service allows it, for any
\* number of jobs, scenarios and retries; the step into "rejected" of a job under
\* way is the one it has of its own.
THEOREM MockImplementsContract == MockInit /\ [][MockNext]_mock => MockKeepsContract
<1>1. MockInit => \A id \in MockIds : MockContract(id)!Init
  BY DEF MockInit, MockContract!Init, MockAnswer
<1>2. MockInv /\ [MockNext]_mock =>
        [\A id \in MockIds :
            \/ MockContract(id)!Next
            \/ MockContract(id)!Move(id, {"processing"}, "rejected")
            \/ UNCHANGED MockAnswer(id)]_mock
  <2> SUFFICES ASSUME MockInv, MockNext, NEW id \in MockIds
               PROVE  \/ MockContract(id)!Next
                      \/ MockContract(id)!Move(id, {"processing"}, "rejected")
                      \/ UNCHANGED MockAnswer(id)
    OBVIOUS
  <2>1. PICK a, b : a = MockAnswer(id) /\ b = MockAnswer(id)'
    OBVIOUS
  <2>2. MockMoves(id, a, b)
    BY <2>1, MockStepMoves
  <2>3. /\ [i \in {id} |-> MockAnswer(i)] = [i \in {id} |-> a]
        /\ [i \in {id} |-> MockAnswer(i)]' = [i \in {id} |-> b]
    BY <2>1
  <2>4. CASE a = b
    BY <2>1, <2>4
  <2> QED
    BY <2>1, <2>2, <2>3, <2>4 DEF MockMoves, MockContract!Next, MockContract!Move, MockContract!Accept,
       MockContract!Start, MockContract!Complete, MockContract!Fail, MockContract!Retry, MockContract!Remove
<1> QED
  BY <1>1, <1>2, MockInvInit, MockInvStep, PTL DEF MockKeepsContract

-----------------------------------------------------------------------------
(* The types of the blog form and of the face form *)

\* What makes BlogTypeOK inductive: what a tab has rendered was in the cookie.
BlogTypeInv ==
    /\ BlogTypeOK
    /\ post = [sent |-> post.sent, shown |-> post.shown]
    /\ Cardinality(seen.products) <= MaxProducts

\* A list of products that one is put into, or taken out of, is as long as it should be.
LEMMA ProductsCount ==
    ASSUME NEW some, some \subseteq Products, Cardinality(some) <= MaxProducts, NEW p \in Products
    PROVE  /\ Cardinality(some \ {p}) <= MaxProducts
           /\ p \notin some /\ Cardinality(some) < MaxProducts =>
                Cardinality(some \union {p}) <= MaxProducts
<1>1. IsFiniteSet(some) /\ MaxProducts \in Nat
  BY BlogAssumption, FS_Subset
<1>2. Cardinality(some) \in Nat
  BY <1>1, FS_CardinalityType
<1>3. Cardinality(some \ {p}) = IF p \in some THEN Cardinality(some) - 1 ELSE Cardinality(some)
  BY <1>1, FS_RemoveElement
<1>4. Cardinality(some \union {p}) = IF p \in some THEN Cardinality(some) ELSE Cardinality(some) + 1
  BY <1>1, FS_AddElement
<1> QED
  BY <1>1, <1>2, <1>3, <1>4

\* The empty form, before the profile was read.
LEMMA BlogTypeInit == BlogInit => BlogTypeInv
<1> SUFFICES ASSUME BlogInit PROVE BlogTypeInv
  OBVIOUS
<1>1. Cardinality({}) = 0 /\ 0 <= MaxProducts
  BY BlogAssumption, FS_EmptySet
<1>2. NoProfile \in Profile /\ NoProfile.products = {}
  BY DEF NoProfile, Profile
<1> QED
  BY <1>1, <1>2 DEF BlogInit, BlogTypeInv, BlogTypeOK, EmptyForm, NoPost, BlogSteps

\* BlogTypeInv is inductive.
LEMMA BlogTypeStep == BlogTypeInv /\ [BlogNext]_blogVars => BlogTypeInv'
<1> SUFFICES ASSUME BlogTypeInv, [BlogNext]_blogVars PROVE BlogTypeInv'
  OBVIOUS
<1> USE DEF BlogTypeInv, BlogTypeOK
<1>1. UNCHANGED seen \/ seen' = cookie'
  BY DEF BlogNext, ChooseCategory, NameTreatment, FillOthers, ChooseProduct, AddProduct,
         RemoveProduct, TypeShop, OtherTabWrites, NextMessage, HandleGenerate, PostArrives,
         BlogStepNav, Change, WriteProfile, Rendered, blogVars
<1> DEFINE Fits == /\ cookie' \in Profile /\ Cardinality(cookie'.products) <= MaxProducts
                   /\ form' \in [category : Categories \union {NoCategory},
                                 treatment : {NoCategory, form'.category},
                                 others : BOOLEAN, product : Products \union {NoProduct}]
                   /\ post' = [sent |-> post'.sent, shown |-> post'.shown]
                   /\ post'.sent.shop \in Shops \union {NoShop}
                   /\ post'.shown \in BOOLEAN /\ phone' \in 0..BlogSteps + 1
<1> SUFFICES Fits
  BY <1>1
<1>2. ASSUME NEW f, NEW n, Change(n, f),
             f \in [category : Categories \union {NoCategory},
                    treatment : {NoCategory, f.category},
                    others : BOOLEAN, product : Products \union {NoProduct}]
      PROVE  Fits
  BY <1>2 DEF Change
<1>3. ASSUME NEW c \in Categories \union {NoCategory}, ChooseCategory(c)  PROVE Fits
  BY <1>2, <1>3 DEF ChooseCategory
<1>4. CASE NameTreatment
  <2>1. PICK t \in {form.category, NoCategory} : Change(2, [form EXCEPT !.treatment = t])
    BY <1>4 DEF NameTreatment
  <2> QED
    BY <1>2, <2>1
<1>5. CASE FillOthers
  BY <1>2, <1>5 DEF FillOthers
<1>6. ASSUME NEW p \in Products, ChooseProduct(p)  PROVE Fits
  <2>1. PICK q \in Products \union {NoProduct} : Change(3, [form EXCEPT !.product = q])
    BY <1>6 DEF ChooseProduct
  <2> QED
    BY <1>2, <2>1
<1>7. /\ seen.products \subseteq Products /\ seen.shop \in Shops \union {NoShop}
      /\ seen = [shop |-> seen.shop, products |-> seen.products]
  BY DEF Profile
<1>8. ASSUME NEW profile \in Profile, Cardinality(profile.products) <= MaxProducts,
             WriteProfile(profile),
             form' \in [category : Categories \union {NoCategory},
                        treatment : {NoCategory, form'.category},
                        others : BOOLEAN, product : Products \union {NoProduct}]
      PROVE  Fits
  BY <1>8 DEF WriteProfile
<1>9. ASSUME NEW shop \in Shops \union {NoShop}, TypeShop(shop)  PROVE Fits
  <2> DEFINE profile == [seen EXCEPT !.shop = shop]
  <2>1. profile \in Profile /\ profile.products = seen.products
    BY <1>7 DEF Profile
  <2>2. WriteProfile(profile) /\ form' = form
    BY <1>9 DEF TypeShop
  <2> HIDE DEF profile
  <2> QED
    BY <1>8, <2>1, <2>2
<1>10. ASSUME NEW p \in Products, AddProduct(p)  PROVE Fits
  <2> DEFINE profile == [seen EXCEPT !.products = @ \union {p}]
  <2>1. Cardinality(seen.products \union {p}) <= MaxProducts
    BY <1>7, <1>10, ProductsCount DEF AddProduct
  <2>2. profile \in Profile /\ profile.products = seen.products \union {p}
    BY <1>7 DEF Profile
  <2>3. WriteProfile(profile) /\ form' = form
    BY <1>10 DEF AddProduct
  <2> HIDE DEF profile
  <2> QED
    BY <1>8, <2>1, <2>2, <2>3
<1>11. ASSUME NEW p \in Products, RemoveProduct(p)  PROVE Fits
  <2> DEFINE profile == [seen EXCEPT !.products = @ \ {p}]
  <2>1. Cardinality(seen.products \ {p}) <= MaxProducts
    BY <1>7, <1>11, ProductsCount
  <2>2. profile \in Profile /\ profile.products = seen.products \ {p}
    BY <1>7 DEF Profile
  <2>3. WriteProfile(profile)
    BY <1>11 DEF RemoveProduct
  <2>4. PICK q \in Products \union {NoProduct} : form' = [form EXCEPT !.product = q]
    BY <1>11 DEF RemoveProduct
  <2> HIDE DEF profile
  <2> QED
    BY <1>8, <2>1, <2>2, <2>3, <2>4
<1>12. CASE OtherTabWrites
  BY <1>12 DEF OtherTabWrites
<1>13. CASE HandleGenerate
  <2>1. post' = [sent |-> Payload, shown |-> post.shown] /\ UNCHANGED <<form, cookie, phone>>
    BY <1>13 DEF HandleGenerate
  <2>2. Payload.shop \in Shops \union {NoShop}
    BY <1>7 DEF Payload
  <2> QED
    BY <2>1, <2>2
<1>14. CASE PostArrives
  <2>1. UNCHANGED <<form, cookie>> /\ phone' \in {phone, 0, BlogSteps + 1}
    BY <1>14 DEF PostArrives
  <2>2. \/ post' = [sent |-> NoPost, shown |-> TRUE]
        \/ post' = [sent |-> NoPost, shown |-> post.shown]
    BY <1>14 DEF PostArrives
  <2>3. NoPost.shop \in Shops \union {NoShop}
    BY DEF NoPost
  <2>4. post' = [sent |-> NoPost, shown |-> post'.shown] /\ post'.shown \in BOOLEAN
    <3>1. PICK b \in BOOLEAN : post' = [sent |-> NoPost, shown |-> b]
      BY <2>2
    <3> QED
      BY <3>1
  <2>5. post' = [sent |-> post'.sent, shown |-> post'.shown] /\ post'.sent.shop = NoPost.shop
    BY <2>4
  <2>6. phone' \in 0..BlogSteps + 1
    BY <2>1 DEF BlogSteps
  <2> QED
    BY <2>1, <2>3, <2>4, <2>5, <2>6
<1>15. CASE BlogStepNav
  BY <1>15 DEF BlogStepNav, BlogSteps
<1>16. CASE NextMessage \/ UNCHANGED blogVars
  BY <1>16 DEF NextMessage, blogVars
<1> QED
  BY <1>3, <1>4, <1>5, <1>6, <1>9, <1>10, <1>11, <1>12, <1>13, <1>14, <1>15, <1>16
     DEF BlogNext

\* The face form: FaceInv, and the picker.
FaceTypeInv == FaceInv /\ picker \in PickerStates

\* FaceTypeInv holds at the start and is kept, and has the types in it.
LEMMA FaceTypes ==
    /\ FaceInit => FaceTypeInv
    /\ FaceTypeInv /\ [FaceNext]_faceVars => FaceTypeInv'
    /\ FaceTypeInv => FaceTypeOK
<1>1. FaceInit => FaceTypeInv
  BY FaceInitKeeps DEF FaceInit, FaceTypeInv, PickerStates
<1>2. ASSUME FaceTypeInv, [FaceNext]_faceVars  PROVE picker' \in PickerStates
  BY <1>2 DEF FaceTypeInv, PickerStates, FaceNext, ChooseMode, PickerLoads, ChooseFilter,
              ChooseReference, ChooseRequired, ChooseOptional, SendFace, FaceSettled, faceVars
<1>3. FaceTypeInv => FaceTypeOK
  BY DEF FaceTypeInv, FaceInv, FormShape, FaceAccepted, RouteAccepts, Modes, FaceTypeOK
<1> QED
  BY <1>1, <1>2, <1>3, FaceStepKeeps DEF FaceTypeInv

-----------------------------------------------------------------------------
(* The parts side by side *)

WebInv == ClipsInv /\ JobTypeInv /\ BlogTypeInv /\ FaceTypeInv /\ MockInv

\* Every part starts with its invariant.
LEMMA WebInit == Init => WebInv
  BY ClipsInvInit, JobTypeInit, BlogTypeInit, FaceTypes, MockInvInit DEF Init, WebInv

\* One part takes a step and the others keep still.
LEMMA WebStep == WebInv /\ [Next]_vars => WebInv'
<1> SUFFICES ASSUME WebInv, [Next]_vars PROVE WebInv'
  OBVIOUS
<1>1. [ClipsNext]_clipVars /\ [JobNext]_jobVars /\ [BlogNext]_blogVars
      /\ [FaceNext]_faceVars /\ [MockNext]_mock
  BY DEF Next, ClipsStep, TrimStep, BarStep, JobStep, BlogStep, FaceStep, MockStep, vars
<1> QED
  BY <1>1, ClipsInvStep, JobTypeStep, BlogTypeStep, FaceTypes, MockInvStep DEF WebInv

\* The types of the five parts that have an invariant of their own for them, for any
\* number of files, jobs, polls in flight, products and faces, and for users who do
\* not wait for a reset as well.
THEOREM WebTypes == Spec => []WebTypeOK
<1>1. WebInv => WebTypeOK
  BY FaceTypes
     DEF WebInv, ClipsInv, WithinLimits, CallsOK, DrawerOnList, ClipsTypeOK, JobTypeInv,
         BlogTypeInv, MockInv, WebTypeOK
<1> QED
  BY <1>1, WebInit, WebStep, PTL DEF Spec

=============================================================================
