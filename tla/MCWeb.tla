-------------------------------- MODULE MCWeb --------------------------------
(***************************************************************************)
(* TLC instance of the smaller parts of the web app: the two generator     *)
(* screens, the face form and the mock API.  They share nothing, so one    *)
(* behaviour is about one part, chosen at the start, and the others keep   *)
(* still: the runs of seven small specifications in one.                   *)
(***************************************************************************)
EXTENDS ShortsClips, ClipTrimmer, ShortsProgress, ShortsJob, BlogPage,
        FaceForm, MockStore

VARIABLE part  \* the part this behaviour is about

Parts == {"clips", "trim", "bar", "job", "blog", "face", "mock"}

vars == <<part, clipVars, trimVars, barVars, jobVars, blogVars, faceVars, mock>>

\* A part that keeps still starts in one of its initial states.
Init ==
    /\ part \in Parts
    /\ ClipsInit /\ TrimInit /\ BarInit /\ JobInit /\ BlogInit
    /\ FaceInit /\ MockInit
    /\ part # "job" => wide /\ patient
    /\ part # "blog" => phone = 0

ClipsStep ==
    /\ part = "clips" /\ ClipsNext
    /\ UNCHANGED <<part, trimVars, barVars, jobVars, blogVars, faceVars, mock>>
TrimStep ==
    /\ part = "trim" /\ TrimNext
    /\ UNCHANGED <<part, clipVars, barVars, jobVars, blogVars, faceVars, mock>>
BarStep ==
    /\ part = "bar" /\ BarNext
    /\ UNCHANGED <<part, clipVars, trimVars, jobVars, blogVars, faceVars, mock>>
JobStep ==
    /\ part = "job" /\ JobNext
    /\ UNCHANGED <<part, clipVars, trimVars, barVars, blogVars, faceVars, mock>>
BlogStep ==
    /\ part = "blog" /\ BlogNext
    /\ UNCHANGED <<part, clipVars, trimVars, barVars, jobVars, faceVars, mock>>
FaceStep ==
    /\ part = "face" /\ FaceNext
    /\ UNCHANGED <<part, clipVars, trimVars, barVars, jobVars, blogVars, mock>>
MockStep ==
    /\ part = "mock" /\ MockNext
    /\ UNCHANGED <<part, clipVars, trimVars, barVars, jobVars, blogVars, faceVars>>

Next ==
    \/ ClipsStep \/ TrimStep \/ BarStep \/ JobStep
    \/ BlogStep \/ FaceStep \/ MockStep

\* A submission that keeps still has no fair step enabled: JobFairness asks nothing of it.
Spec == Init /\ [][Next]_vars /\ JobFairness

\* The type invariants of the parts that have one.
WebTypeOK == ClipsTypeOK /\ JobTypeOK /\ BlogTypeOK /\ FaceTypeOK /\ MockTypeOK

==============================================================================
