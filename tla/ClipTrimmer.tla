----------------------------- MODULE ClipTrimmer -----------------------------
(***************************************************************************)
(* The precise cut of one clip: the strip of frames in the drawer, the two *)
(* handles and the two number fields, and the range the shorts screen      *)
(* keeps of it.  Times are hundredths of a second.                         *)
(***************************************************************************)
EXTENDS Integers

CONSTANTS
    Durations,  \* lengths of the clips a user opens
    Inputs      \* values a handle or a number field can deliver

ASSUME TrimAssumption ==
    /\ Durations \subseteq Nat
    /\ Inputs \subseteq Int

VARIABLES
    strip,     \* the preview: "closed", "loading", "ready" or "failed"
    duration,  \* of the file, once its metadata is there
    cut        \* start_sec and end_sec of the clip

trimVars == <<strip, duration, cut>>

MinRange == 50    \* MIN_RANGE_SECONDS
MaxRange == 500   \* MAX_RANGE_SECONDS
DefaultCut == 200
Rounding == 5

NoCut == [start |-> 0, end |-> 0]   \* both undefined
HasCut == cut # NoCut

Least(a, b) == IF a <= b THEN a ELSE b
Most(a, b) == IF a >= b THEN a ELSE b

MinGap == Least(MinRange, duration)
MaxGap == Least(MaxRange, duration)

\* toFixed(1): to a tenth.  A tie goes either way, as the value is stored in binary.
Tenths(x) ==
    LET below == 10 * (x \div 10) IN
    {y \in {below, below + 10} : x - Rounding <= y /\ y <= x + Rounding}

\* Mutant: the handle at the start does not know the longest range.
ClampStartMinOnly(value) == Most(0, Least(value, cut.end - MinGap))

\* Each handle keeps both limits of the length, the other handle stays.
ClampStart(value) ==
    Most(0, Most(cut.end - MaxGap, Least(value, cut.end - MinGap)))
ClampEnd(value) ==
    Least(duration, Least(cut.start + MaxGap, Most(value, cut.start + MinGap)))

-----------------------------------------------------------------------------
\* The drawer opens on a clip: frames are drawn from the file.
OpenStrip ==
    /\ strip = "closed"
    /\ strip' = "loading"
    /\ duration' \in IF duration = 0 THEN Durations ELSE {duration}
    /\ UNCHANGED cut

\* extractFrames; a clip under half a second, or one the browser cannot decode
\* within the timeout, gets no handles.
StripLoads ==
    /\ strip = "loading"
    /\ strip' \in IF duration < MinRange THEN {"failed"} ELSE {"ready", "failed"}
    /\ UNCHANGED <<duration, cut>>

\* Unmounting aborts the extraction.
CloseStrip ==
    /\ strip # "closed"
    /\ strip' = "closed"
    /\ UNCHANGED <<duration, cut>>

\* onRangeChange
ChangeRange(start, end) ==
    /\ strip = "ready"
    /\ \E s \in Tenths(start), e \in Tenths(end) : cut' = [start |-> s, end |-> e]
    /\ UNCHANGED <<strip, duration>>

ChooseRange == ~HasCut /\ ChangeRange(0, Least(duration, DefaultCut))
MoveStart(value) == HasCut /\ ChangeRange(ClampStart(value), cut.end)
MoveEnd(value) == HasCut /\ ChangeRange(cut.start, ClampEnd(value))

ResetRange ==
    /\ strip = "ready" /\ HasCut
    /\ cut' = NoCut
    /\ UNCHANGED <<strip, duration>>

TrimInit == strip = "closed" /\ duration = 0 /\ cut = NoCut

TrimNext ==
    \/ OpenStrip \/ StripLoads \/ CloseStrip
    \/ ChooseRange \/ ResetRange
    \/ \E value \in Inputs : MoveStart(value) \/ MoveEnd(value)

TrimSpec == TrimInit /\ [][TrimNext]_trimVars

-----------------------------------------------------------------------------
(* Properties *)

\* Whatever is dragged or typed, in whatever order, and rounded as it may be, the
\* service takes the range (ClipOptions and _validate_clip_durations), and the
\* range leaves the file by no more than the rounding does.
RangeAccepted ==
    HasCut => /\ 0 <= cut.start /\ cut.start < cut.end
              /\ cut.end - cut.start <= MaxRange
              /\ cut.end <= duration + Rounding

=============================================================================
