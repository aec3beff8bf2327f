--------------------------- MODULE ShortsProgress ---------------------------
(***************************************************************************)
(* The progress bar of the shorts screen: an estimate that creeps on       *)
(* between the polls, in twentieths of a percent so that one tick adds 3.  *)
(***************************************************************************)
EXTENDS Naturals

CONSTANT Reported   \* the progress values the service reports, per cent

ASSUME ProgressAssumption == Reported \subseteq 0..100

VARIABLES
    rendering,  \* a submission or a job is under way
    progress,   \* serverProgressRef
    estimate    \* smoothProgress

barVars == <<rendering, progress, estimate>>

Scale == 20
TickStep == 3

\* Mutant: the encoding stage has the ceiling of the stage before the masks.
CeilingOutOfOrder(p) ==
    IF p >= 95 THEN 99 ELSE IF p >= 80 THEN 44 ELSE IF p >= 45 THEN 79
    ELSE IF p >= 40 THEN 44 ELSE IF p >= 1 THEN 39 ELSE 15

\* progressStage over PROGRESS_STAGES, last stage first
Ceiling(p) ==
    IF p >= 95 THEN 99 ELSE IF p >= 80 THEN 94 ELSE IF p >= 45 THEN 79
    ELSE IF p >= 40 THEN 44 ELSE IF p >= 1 THEN 39 ELSE 15

Lower(a, b) == IF a <= b THEN a ELSE b
Higher(a, b) == IF a >= b THEN a ELSE b

\* submitDraft clears the job, and with it the progress, and the bar.
StartBar ==
    /\ ~rendering
    /\ rendering' = TRUE /\ progress' = 0 /\ estimate' = 0

\* The answer to a poll; what the service reports only grows.
PollProgress ==
    /\ rendering
    /\ \E p \in Reported : p >= progress /\ progress' = p
    /\ UNCHANGED <<rendering, estimate>>

\* The timer, every 250 ms.
TickBar ==
    /\ rendering
    /\ estimate' = Lower(Scale * Ceiling(progress),
                         Higher(estimate, Scale * progress) + TickStep)
    /\ UNCHANGED <<rendering, progress>>

StopBar ==
    /\ rendering
    /\ rendering' = FALSE
    /\ UNCHANGED <<progress, estimate>>

BarInit == rendering = FALSE /\ progress = 0 /\ estimate = 0
BarNext == StartBar \/ PollProgress \/ TickBar \/ StopBar

BarSpec == BarInit /\ [][BarNext]_barVars

-----------------------------------------------------------------------------
(* Properties *)

\* The bar of one run never moves back, across every stage and jump of the
\* progress: no ceiling lies below one that was reached before.
BarNeverBackwards == [][rendering => estimate' >= estimate]_barVars

=============================================================================
