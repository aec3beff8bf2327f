------------------------------ MODULE FaceForm ------------------------------
(***************************************************************************)
(* The form that says which face the customer gets: one of the prepared    *)
(* faces, or one described by options.  It holds the values of both modes  *)
(* side by side; what leaves the page is put together from them, and the   *)
(* route checks every part of it.  Module FaceSwapPage knows of this form  *)
(* only whether it is complete.                                            *)
(***************************************************************************)
EXTENDS Naturals

CONSTANTS
    Faces,    \* the prepared faces, the same list in the picker and the route
    Bases,    \* how many choices a required question has
    Details,  \* how many choices an optional question has
    None      \* nothing: an empty string, or a null

ASSUME FaceFormAssumption == None \notin Faces /\ {Bases, Details} \subseteq Nat

VARIABLES
    chosen,    \* the values of both modes, and the mode
    picker,    \* the list of prepared faces on the screen
    shown,     \* the faces of that list that pass the filters
    sentFace   \* the face of the request under way, or of the job on screen

faceVars == <<chosen, picker, shown, sentFace>>

Required == {"ethnicity", "gender", "age"}
Optional == {"face_style", "expression", "skin_tone", "makeup"}

\* The fixed lists of face-taxonomy; each choice belongs to one question.
RequiredAllowed(key) == {key} \X (1..Bases)
OptionalAllowed(key) == {key} \X (1..Details)

Modes == {"reference", "prompt"}

\* "closed": the other mode is on screen.
PickerStates == {"closed", "loading", "ready", "failed"}

NotSent == [mode |-> "none"]

EmptyFace ==
    [mode |-> "reference", reference |-> None,
     required |-> [key \in Required |-> None],
     optional |-> [key \in Optional |-> None]]

-----------------------------------------------------------------------------
(* What leaves the page, and what the route takes *)

\* Mutant: both sides are sent as they are in the form.
BuildFaceOptionBothSides(values) ==
    [mode |-> values.mode, reference |-> values.reference,
     prompt |-> [required |-> values.required, optional |-> values.optional]]

\* Only the side of the mode is filled in.
BuildFaceOption(values) ==
    IF values.mode = "reference"
    THEN [mode |-> "reference", reference |-> values.reference, prompt |-> None]
    ELSE [mode |-> "prompt", reference |-> None,
          prompt |-> [required |-> values.required, optional |-> values.optional]]

IsFaceReady(values) ==
    IF values.mode = "reference" THEN values.reference # None
    ELSE \A key \in Required : values.required[key] # None

HasReferenceFace(face) == face \in Faces

\* isFaceOption of the route.
RouteAccepts(face) ==
    \/ /\ face.mode = "reference"
       /\ face.prompt = None
       /\ HasReferenceFace(face.reference)
    \/ /\ face.mode = "prompt"
       /\ face.reference = None
       /\ \A key \in Required : face.prompt.required[key] \in RequiredAllowed(key)
       /\ \A key \in Optional : face.prompt.optional[key] \in OptionalAllowed(key) \union {None}

-----------------------------------------------------------------------------
(* The form; its fieldset is disabled during the request and the job *)

Editable == sentFace = NotSent

\* The picker exists only in its own mode: it loads again, without filters.
ChooseMode(mode) ==
    /\ Editable
    /\ chosen' = [chosen EXCEPT !.mode = mode]
    /\ picker' = CASE mode = "prompt" -> "closed"
                   [] mode = "reference" /\ picker = "closed" -> "loading"
                   [] OTHER -> picker
    /\ shown' = IF mode = "prompt" THEN {} ELSE shown
    /\ UNCHANGED sentFace

PickerLoads ==
    /\ picker = "loading"
    /\ \/ picker' = "ready" /\ shown' = Faces
       \/ picker' = "failed" /\ UNCHANGED shown
    /\ UNCHANGED <<chosen, sentFace>>

\* The filters may leave any of the faces, none included.
ChooseFilter ==
    /\ Editable /\ picker = "ready"
    /\ shown' \in SUBSET Faces
    /\ UNCHANGED <<chosen, picker, sentFace>>

\* A second click on the same face takes the choice back.
ChooseReference(face) ==
    /\ Editable /\ face \in shown
    /\ chosen' = [chosen EXCEPT !.reference = IF @ = face THEN None ELSE face]
    /\ UNCHANGED <<picker, shown, sentFace>>

\* A chip group of one choice: a second click takes it back.
ChooseRequired(key, choice) ==
    /\ Editable /\ chosen.mode = "prompt"
    /\ chosen' = [chosen EXCEPT !.required[key] = IF @ = choice THEN None ELSE choice]
    /\ UNCHANGED <<picker, shown, sentFace>>

\* "Not chosen" is a chip of its own.
ChooseOptional(key, choice) ==
    /\ Editable /\ chosen.mode = "prompt"
    /\ chosen' = [chosen EXCEPT !.optional[key] = choice]
    /\ UNCHANGED <<picker, shown, sentFace>>

SendFace ==
    /\ Editable /\ IsFaceReady(chosen)
    /\ sentFace' = BuildFaceOption(chosen)
    /\ UNCHANGED <<chosen, picker, shown>>

\* The request failed, or the job has ended: the form is open again.
FaceSettled ==
    /\ ~Editable
    /\ sentFace' = NotSent
    /\ UNCHANGED <<chosen, picker, shown>>

FaceInit ==
    /\ chosen = EmptyFace
    /\ picker = "loading"
    /\ shown = {}
    /\ sentFace = NotSent

FaceNext ==
    \/ \E mode \in Modes : ChooseMode(mode)
    \/ PickerLoads
    \/ ChooseFilter
    \/ \E face \in Faces : ChooseReference(face)
    \/ \E key \in Required : \E choice \in RequiredAllowed(key) : ChooseRequired(key, choice)
    \/ \E key \in Optional : \E choice \in OptionalAllowed(key) \union {None} :
         ChooseOptional(key, choice)
    \/ SendFace
    \/ FaceSettled

FaceSpec == FaceInit /\ [][FaceNext]_faceVars

-----------------------------------------------------------------------------
\* Each answer in the form belongs to its question.
FaceTypeOK ==
    /\ chosen \in [mode : Modes, reference : Faces \union {None},
                   required : [Required -> (Required \X (1..Bases)) \union {None}],
                   optional : [Optional -> (Optional \X (1..Details)) \union {None}]]
    /\ picker \in PickerStates /\ shown \in SUBSET Faces
    /\ sentFace = NotSent \/ sentFace.mode \in Modes

\* However the user has gone back and forth between the modes, the filters and
\* the chips, a request that the form lets out passes the route's check of its
\* face: the side of the mode is complete and known, the other side is null.
FaceAccepted == sentFace # NotSent => RouteAccepts(sentFace)

=============================================================================
