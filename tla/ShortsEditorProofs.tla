------------------------- MODULE ShortsEditorProofs -------------------------
(***************************************************************************)
(* Proofs about the two halves of the shorts editor, which share no state: *)
(* the precise cut of one clip, and the list the clips are in.             *)
(*                                                                         *)
(* The range of the precise cut is one the service takes, for every length *)
(* of file and every input, and for every way the rounding goes.           *)
(* RangeAccepted is not inductive: after a range of 0.5 s has been rounded *)
(* at the end of the file it is 0.4 s long, and only because both ends are *)
(* tenths and the start keeps away from the end of the file does the next  *)
(* move not bring it below that.  Kept says so.                            *)
(*                                                                         *)
(* The list on the screen is the one the video is made from, for any files *)
(* and limits, unless a reset that came back late has emptied the screen.  *)
(* SentAsShown alone does not survive the captions of a submission: they   *)
(* are laid over the list of the click, so that list has to be the one on  *)
(* the screen, or the screen empty, for as long as the caption call is     *)
(* under way, and no caption call may be under way while a video is made.  *)
(*                                                                         *)
(* ClipsInv says that what is submitted is accepted.  A submission may     *)
(* wait for its captions after it was checked, so the limits have to hold  *)
(* of the list on the screen through every edit (WithinLimits), what the   *)
(* button has counted has to hold of the list the call was made with       *)
(* (CheckedAtButton), whatever a reset does to the one on the screen, and  *)
(* the sums have to be known: what a total is after clips came in, changed *)
(* places or were removed.                                                 *)
(***************************************************************************)
EXTENDS ClipTrimmer, ShortsClips, SequenceTheorems, Recursion, TLAPS

-----------------------------------------------------------------------------
(* The precise cut *)

IsTenth(x) == x \in Int /\ x = 10 * (x \div 10)

\* A clip that shows handles is long enough to be cut.
Long == duration \in Nat /\ (strip = "ready" \/ HasCut => duration >= MinRange)

Kept ==
    /\ IsTenth(cut.start) /\ IsTenth(cut.end)
    /\ 0 <= cut.start /\ cut.start <= duration - 45
    /\ 40 <= cut.end - cut.start /\ cut.end - cut.start <= MaxRange
    /\ cut.end <= duration + Rounding

RangeInv ==
    /\ cut \in [start : Int, end : Int]
    /\ Long
    /\ HasCut => Kept

-----------------------------------------------------------------------------
\* What toFixed(1) returns.
LEMMA TenthsBounds ==
    ASSUME NEW x \in Nat, NEW y \in Tenths(x)
    PROVE  IsTenth(y) /\ 0 <= y /\ x - Rounding <= y /\ y <= x + Rounding
<1> DEFINE below == 10 * (x \div 10)
<1>1. below \in Nat /\ below <= x /\ x < below + 10
  OBVIOUS
<1>2. y \in {below, below + 10} /\ x - 5 <= y /\ y <= x + 5
  BY DEF Tenths, Rounding
<1>3. IsTenth(below) /\ IsTenth(below + 10)
  BY <1>1 DEF IsTenth
<1> QED
  BY <1>1, <1>2, <1>3 DEF Rounding

\* A tenth is rounded to itself.
LEMMA TenthsOfTenth ==
    ASSUME NEW x \in Nat, IsTenth(x), NEW y \in Tenths(x)
    PROVE  y = x
  BY TenthsBounds DEF IsTenth, Rounding

\* What a change of the range has to deliver.
LEMMA ChangeKeeps ==
    ASSUME RangeInv, NEW start \in Nat, NEW end \in Nat,
           ChangeRange(start, end),
           \A s \in Tenths(start), e \in Tenths(end) :
              /\ s <= duration - 45
              /\ 40 <= e - s /\ e - s <= MaxRange
              /\ e <= duration + Rounding
    PROVE  RangeInv'
<1>1. PICK s \in Tenths(start), e \in Tenths(end) : cut' = [start |-> s, end |-> e]
  BY DEF ChangeRange
<1>2. IsTenth(s) /\ 0 <= s /\ IsTenth(e)
  BY TenthsBounds
<1>3. UNCHANGED <<strip, duration>> /\ strip = "ready" /\ duration >= MinRange /\ duration \in Nat
  BY DEF ChangeRange, RangeInv, Long
<1>4. cut' \in [start : Int, end : Int] /\ cut'.start = s /\ cut'.end = e
  BY <1>1, <1>2 DEF IsTenth
<1>5. Long'
  BY <1>3 DEF Long, MinRange
<1>6. Kept'
  BY <1>2, <1>3, <1>4 DEF Kept
<1> QED
  BY <1>4, <1>5, <1>6 DEF RangeInv

\* The precise cut is opened.
LEMMA ChooseKeeps == ASSUME RangeInv, ChooseRange PROVE RangeInv'
<1> DEFINE length == Least(duration, DefaultCut)
<1>1. duration \in Nat /\ duration >= 50
  BY DEF ChooseRange, ChangeRange, RangeInv, Long, MinRange
<1>2. length \in Nat /\ 50 <= length /\ length <= 200 /\ length <= duration
  BY <1>1 DEF Least, DefaultCut
<1>3. \A s \in Tenths(0) : s = 0
  BY TenthsOfTenth DEF IsTenth
<1>4. \A e \in Tenths(length) : e \in Int /\ 45 <= e /\ e <= 205 /\ e <= duration + Rounding
  BY <1>1, <1>2, TenthsBounds DEF IsTenth, Rounding
<1> HIDE DEF length
<1>5. ChangeRange(0, length)
  BY DEF ChooseRange, length
<1> QED
  BY <1>1, <1>2, <1>3, <1>4, <1>5, ChangeKeeps DEF MaxRange

\* The two clamps, of a range that is kept.
LEMMA ClampStartBounds ==
    ASSUME RangeInv, HasCut, NEW value \in Int
    PROVE  /\ ClampStart(value) \in Nat
           /\ cut.end - MaxRange <= ClampStart(value)
           /\ ClampStart(value) <= Most(0, cut.end - 50)
<1>1. duration \in Nat /\ duration >= 50 /\ cut.end \in Int
  BY DEF RangeInv, Long, Kept, IsTenth, MinRange
<1>2. MinGap = 50 /\ MaxGap \in Int /\ 50 <= MaxGap /\ MaxGap <= 500
  BY <1>1 DEF MinGap, MaxGap, Least, MinRange, MaxRange
<1> QED
  BY <1>1, <1>2 DEF ClampStart, Least, Most, MaxRange

\* Where an end that is moved may come to lie.
LEMMA ClampEndBounds ==
    ASSUME RangeInv, HasCut, NEW value \in Int
    PROVE  /\ ClampEnd(value) \in Nat
           /\ ClampEnd(value) <= duration /\ ClampEnd(value) <= cut.start + MaxRange
           /\ Least(duration, cut.start + 50) <= ClampEnd(value)
<1>1. duration \in Nat /\ duration >= 50 /\ cut.start \in Nat
  BY DEF RangeInv, Long, Kept, IsTenth, MinRange
<1>2. MinGap = 50 /\ MaxGap \in Int /\ 50 <= MaxGap /\ MaxGap <= 500
  BY <1>1 DEF MinGap, MaxGap, Least, MinRange, MaxRange
<1> QED
  BY <1>1, <1>2 DEF ClampEnd, Least, Most, MaxRange

\* The start is dragged or typed.
LEMMA MoveStartKeeps ==
    ASSUME RangeInv, NEW value \in Int, MoveStart(value) PROVE RangeInv'
<1> DEFINE from == ClampStart(value)
<1>1. HasCut /\ Kept /\ ChangeRange(from, cut.end)
  BY DEF MoveStart, RangeInv
<1>2. duration \in Nat /\ duration >= 50 /\ cut.end \in Nat /\ 40 <= cut.end
      /\ IsTenth(cut.end) /\ cut.end <= duration + 5
  BY <1>1 DEF RangeInv, Long, Kept, IsTenth, MinRange, Rounding
<1>3. from \in Nat /\ cut.end - 500 <= from /\ from <= Most(0, cut.end - 50)
  BY <1>1, ClampStartBounds DEF MaxRange
<1> HIDE DEF from
<1>4. \A e \in Tenths(cut.end) : e = cut.end
  BY <1>2, TenthsOfTenth
<1>5. ASSUME NEW s \in Tenths(from)
      PROVE  /\ s <= duration - 45 /\ 40 <= cut.end - s /\ cut.end - s <= MaxRange
  <2>1. IsTenth(s) /\ 0 <= s /\ from - 5 <= s /\ s <= from + 5
    BY <1>3, TenthsBounds DEF Rounding
  <2>2. cut.end - s <= 500
    BY <1>2, <1>3, <2>1 DEF IsTenth
  <2>3. s <= Most(0, cut.end - 50)
    BY <1>2, <1>3, <2>1 DEF IsTenth, Most
  <2> QED
    BY <1>2, <2>1, <2>2, <2>3 DEF Most, MaxRange, IsTenth
<1> QED
  BY <1>1, <1>2, <1>3, <1>4, <1>5, ChangeKeeps DEF Rounding

\* The end is.
LEMMA MoveEndKeeps ==
    ASSUME RangeInv, NEW value \in Int, MoveEnd(value) PROVE RangeInv'
<1> DEFINE to == ClampEnd(value)
<1>1. HasCut /\ Kept /\ ChangeRange(cut.start, to)
  BY DEF MoveEnd, RangeInv
<1>2. duration \in Nat /\ duration >= 50 /\ cut.start \in Nat
      /\ IsTenth(cut.start) /\ cut.start <= duration - 45
  BY <1>1 DEF RangeInv, Long, Kept, IsTenth, MinRange
<1>3. to \in Nat /\ to <= duration /\ to <= cut.start + 500
      /\ Least(duration, cut.start + 50) <= to
  BY <1>1, ClampEndBounds DEF MaxRange
<1> HIDE DEF to
<1>4. \A s \in Tenths(cut.start) : s = cut.start
  BY <1>2, TenthsOfTenth
<1>5. ASSUME NEW e \in Tenths(to)
      PROVE  /\ 40 <= e - cut.start /\ e - cut.start <= MaxRange
             /\ e <= duration + Rounding
  <2>1. IsTenth(e) /\ 0 <= e /\ to - 5 <= e /\ e <= to + 5
    BY <1>3, TenthsBounds DEF Rounding
  <2>2. e - cut.start <= 500
    BY <1>2, <1>3, <2>1 DEF IsTenth
  <2>3. 40 <= e - cut.start
    BY <1>2, <1>3, <2>1 DEF IsTenth, Least
  <2> QED
    BY <1>2, <1>3, <2>1, <2>2, <2>3 DEF MaxRange, Rounding, IsTenth
<1> QED
  BY <1>1, <1>2, <1>3, <1>4, <1>5, ChangeKeeps

-----------------------------------------------------------------------------
\* There is no range at the start.
LEMMA InitKeeps == TrimInit => RangeInv
  BY DEF TrimInit, RangeInv, Long, HasCut, NoCut

\* RangeInv is inductive.
LEMMA StepKeeps == RangeInv /\ [TrimNext]_trimVars => RangeInv'
<1> SUFFICES ASSUME RangeInv, [TrimNext]_trimVars PROVE RangeInv'
  OBVIOUS
<1> USE TrimAssumption
<1>1. CASE OpenStrip
  <2>1. cut' = cut /\ strip' # "ready" /\ duration' \in Nat
        /\ (duration # 0 => duration' = duration)
    BY <1>1 DEF OpenStrip, RangeInv, Long
  <2>2. HasCut => duration # 0
    BY DEF RangeInv, Long, MinRange
  <2> QED
    BY <2>1, <2>2 DEF RangeInv, Long, Kept, HasCut
<1>2. CASE StripLoads
  BY <1>2 DEF StripLoads, RangeInv, Long, Kept, HasCut, MinRange
<1>3. CASE CloseStrip
  BY <1>3 DEF CloseStrip, RangeInv, Long, Kept, HasCut
<1>4. CASE ChooseRange
  BY <1>4, ChooseKeeps
<1>5. CASE ResetRange
  BY <1>5 DEF ResetRange, RangeInv, Long, HasCut, NoCut
<1>6. ASSUME NEW value \in Inputs, MoveStart(value) \/ MoveEnd(value) PROVE RangeInv'
  BY <1>6, MoveStartKeeps, MoveEndKeeps
<1>7. CASE UNCHANGED trimVars
  BY <1>7 DEF trimVars, RangeInv, Long, Kept, HasCut
<1> QED
  BY <1>1, <1>2, <1>3, <1>4, <1>5, <1>6, <1>7 DEF TrimNext

\* Any range the drawer can leave in a clip, of any file and after any inputs, is
\* one that ClipOptions and _validate_clip_durations accept.
THEOREM EveryRangeAccepted == TrimSpec => []RangeAccepted
<1>1. RangeInv => RangeAccepted
  BY DEF RangeInv, RangeAccepted, Kept, IsTenth, Long
<1> QED
  BY <1>1, InitKeeps, StepKeeps, PTL DEF TrimSpec

-----------------------------------------------------------------------------
(* The total of a list of numbers *)

\* What the loop has added up after each place.
RunningTotals(s, f) ==
    /\ f \in [0..Len(s) -> Nat]
    /\ f[0] = 0
    /\ \A n \in 1..Len(s) : f[n] = f[n - 1] + s[n]
    /\ Total(s) = f[Len(s)]

\* Total adds up place by place (reduce over the clips).
LEMMA TotalUnfolds ==
    ASSUME NEW s \in Seq(Nat) PROVE \E f : RunningTotals(s, f)
<1> DEFINE N == Len(s)
           step == [n \in 1..N |-> [x \in Nat |-> x + s[n]]]
           Is(g) == g = [n \in 0..N |-> IF n = 0 THEN 0 ELSE g[n - 1] + s[n]]
           sum == CHOOSE g : Is(g)
<1>1. N \in Nat /\ \A n \in 1..N : s[n] \in Nat
  OBVIOUS
<1>2. \A x \in Nat, n \in 1..N : step[n][x] = x + s[n] /\ step[n][x] \in Nat
  OBVIOUS
<1>3. Total(s) = sum[N]
  BY DEF Total
<1> HIDE DEF step, N, sum
<1>4. PICK f \in [0..N -> Nat] : Unfolds(f, N, 0, step)
  BY <1>1, <1>2, Recursion
<1>5. f[0] = 0 /\ 0 \in 0..N
  BY <1>1, <1>4 DEF Unfolds
<1>6. ASSUME NEW n \in 1..N
      PROVE  /\ n \in 0..N /\ n # 0 /\ f[n - 1] \in Nat
             /\ f[n] = f[n - 1] + s[n] /\ f[n] = step[n][f[n - 1]]
  <2>1. n \in 0..N /\ n - 1 \in 0..N /\ n # 0
    BY <1>1
  <2>2. f[n] = step[n][f[n - 1]] /\ f[n - 1] \in Nat
    BY <1>4, <2>1 DEF Unfolds
  <2> QED
    BY <1>2, <2>1, <2>2
<1>7. \E g : Is(g)
  <2> DEFINE g == [n \in 0..N |-> IF n = 0 THEN 0 ELSE f[n - 1] + s[n]]
  <2>1. \A n \in 0..N : f[n] = IF n = 0 THEN 0 ELSE f[n - 1] + s[n]
    <3>1. \A n \in 0..N : n = 0 \/ n \in 1..N
      BY <1>1
    <3> QED
      BY <1>5, <1>6, <3>1
  <2>2. f = g
    BY <1>4, <2>1
  <2> QED
    BY <2>2
<1>8. \A n \in 0..N : sum[n] = IF n = 0 THEN 0 ELSE sum[n - 1] + s[n]
  <2>1. Is(sum)
    <3> HIDE DEF Is
    <3> QED
      BY <1>7 DEF sum
  <2> QED
    BY <2>1
<1>9. \A n \in 0..N : sum[n] = f[n]
  <2>1. sum[0] = 0
    BY <1>5, <1>8
  <2>2. ASSUME NEW n \in 1..N, sum[n - 1] = f[n - 1]  PROVE sum[n] = step[n][f[n - 1]]
    <3>1. sum[n] = sum[n - 1] + s[n]
      BY <1>6, <1>8
    <3> QED
      BY <1>6, <2>2, <3>1
  <2>3. N \in Nat /\ Unfolds(f, N, 0, step)
    BY <1>1, <1>4
  <2>4. Follows(sum, f, N, 0, step)
    BY <2>1, <2>2 DEF Follows
  <2> HIDE DEF Is
  <2> QED
    BY <2>3, <2>4, RecursionAgrees
<1>10. N \in 0..N
  BY <1>1
<1>11. Total(s) = f[N]
  BY <1>3, <1>9, <1>10
<1>12. \A n \in 1..N : f[n] = f[n - 1] + s[n]
  BY <1>6
<1> QED
  BY <1>4, <1>5, <1>11, <1>12 DEF RunningTotals, N

\* A total of natural numbers is one.
LEMMA TotalIsNat ==
    ASSUME NEW s \in Seq(Nat) PROVE Total(s) \in Nat
<1>1. PICK f : RunningTotals(s, f)
  BY TotalUnfolds
<1> QED
  BY <1>1 DEF RunningTotals

\* The total of a list and another one behind it (the clips there are, and the
\* ones that come in).
LEMMA TotalOfConcat ==
    ASSUME NEW s \in Seq(Nat), NEW t \in Seq(Nat)
    PROVE  Total(s \o t) = Total(s) + Total(t)
<1> DEFINE u == s \o t
           m == Len(s)
<1>1. /\ u \in Seq(Nat) /\ Len(u) = m + Len(t) /\ m \in Nat /\ Len(t) \in Nat
      /\ \A n \in 1..m : u[n] = s[n]
      /\ \A n \in 1..Len(t) : u[m + n] = t[n]
  OBVIOUS
<1>2. PICK f : RunningTotals(s, f)
  BY TotalUnfolds
<1>3. PICK g : RunningTotals(t, g)
  BY TotalUnfolds
<1>4. PICK h : RunningTotals(u, h)
  <2> HIDE DEF u
  <2> QED
    BY <1>1, TotalUnfolds
<1> HIDE DEF u, m
<1> DEFINE P == {n \in 0..m : h[n] = f[n]}
           Q == {n \in 0..Len(t) : h[m + n] = f[m] + g[n]}
<1>5. \A n \in 0..m : h[n] = f[n]
  <2>1. 0 \in P
    BY <1>1, <1>2, <1>4 DEF RunningTotals
  <2>2. ASSUME NEW n \in 1..m, n - 1 \in P  PROVE n \in P
    <3>1. n \in 1..Len(u) /\ h[n - 1] = f[n - 1] /\ u[n] = s[n]
      BY <1>1, <2>2
    <3> QED
      BY <1>2, <1>4, <3>1 DEF RunningTotals, m
  <2>3. 0..m \subseteq P
    <3> HIDE DEF P
    <3> QED
      BY <1>1, <2>1, <2>2, InductionUpTo
  <2> QED
    BY <2>3
<1>6. f[m] \in Nat /\ f[m] = Total(s)
  <2>1. f \in [0..m -> Nat] /\ Total(s) = f[m]
    BY <1>2 DEF RunningTotals, m
  <2>2. m \in 0..m
    BY <1>1
  <2> QED
    BY <2>1, <2>2
<1>7. \A n \in 0..Len(t) : h[m + n] = f[m] + g[n]
  <2>1. 0 \in Q
    <3>1. g[0] = 0
      BY <1>3 DEF RunningTotals
    <3>2. m \in 0..m /\ m + 0 = m /\ 0 \in 0..Len(t)
      BY <1>1
    <3>3. h[m + 0] = f[m] + g[0]
      BY <1>5, <1>6, <3>1, <3>2
    <3> QED
      BY <3>2, <3>3
  <2>2. ASSUME NEW n \in 1..Len(t), n - 1 \in Q  PROVE n \in Q
    <3>0. h[m + (n - 1)] = f[m] + g[n - 1]
      BY <2>2
    <3>1. u[m + n] = t[n] /\ m + n \in 1..Len(u)
      BY <1>1
    <3>2. h[m + n] = h[(m + n) - 1] + t[n] /\ g[n] = g[n - 1] + t[n]
      BY <1>3, <1>4, <3>1 DEF RunningTotals
    <3>3. n - 1 \in 0..Len(t) /\ (m + n) - 1 = m + (n - 1) /\ n \in Nat
      BY <1>1
    <3>4. g \in [0..Len(t) -> Nat]
      BY <1>3 DEF RunningTotals
    <3>5. g[n - 1] \in Nat
      BY <3>3, <3>4
    <3>6. t[n] \in Nat
      OBVIOUS
    <3> QED
      BY <1>6, <3>0, <3>2, <3>3, <3>5, <3>6
  <2>3. 0..Len(t) \subseteq Q
    <3> HIDE DEF Q
    <3> QED
      BY <1>1, <2>1, <2>2, InductionUpTo
  <2> QED
    BY <2>3
<1>8. Total(u) = f[m] + g[Len(t)]
  <2>1. Len(t) \in 0..Len(t)
    BY <1>1
  <2>2. h[m + Len(t)] = f[m] + g[Len(t)]
    BY <1>7, <2>1
  <2> QED
    BY <1>1, <1>4, <2>2 DEF RunningTotals
<1> QED
  BY <1>3, <1>6, <1>8 DEF RunningTotals, u

\* The total of one number, and of none.
LEMMA TotalOfOne ==
    ASSUME NEW x \in Nat PROVE Total(<<x>>) = x /\ Total(<<>>) = 0
<1>1. <<x>> \in Seq(Nat) /\ Len(<<x>>) = 1 /\ <<x>>[1] = x /\ <<>> \in Seq(Nat) /\ Len(<<>>) = 0
  OBVIOUS
<1>2. PICK f : RunningTotals(<<x>>, f)
  BY <1>1, TotalUnfolds
<1>3. PICK g : RunningTotals(<<>>, g)
  BY <1>1, TotalUnfolds
<1>4. f[1] = f[0] + x /\ f[0] = 0
  BY <1>1, <1>2 DEF RunningTotals
<1> QED
  BY <1>1, <1>2, <1>3, <1>4 DEF RunningTotals

\* A list is what is before a place, the place and what is after it.
LEMMA TotalAround ==
    ASSUME NEW s \in Seq(Nat), NEW i \in 1..Len(s)
    PROVE  Total(s) = Total(SubSeq(s, 1, i - 1)) + s[i] + Total(SubSeq(s, i + 1, Len(s)))
<1> DEFINE a == SubSeq(s, 1, i - 1)
           b == SubSeq(s, i + 1, Len(s))
<1>1. a \in Seq(Nat) /\ b \in Seq(Nat) /\ <<s[i]>> \in Seq(Nat) /\ s[i] \in Nat
  OBVIOUS
<1>2. s = (a \o <<s[i]>>) \o b
  <2> DEFINE c == a \o <<s[i]>>
             d == c \o b
  <2>1. /\ Len(s) \in Nat /\ i \in Nat /\ i <= Len(s) /\ 1 <= i
        /\ Len(a) = i - 1 /\ Len(b) = Len(s) - i
        /\ \A k \in 1..(i - 1) : a[k] = s[k]
        /\ \A k \in 1..(Len(s) - i) : b[k] = s[i + k]
    OBVIOUS
  <2> HIDE DEF a, b
  <2>2. c \in Seq(Nat) /\ Len(c) = i /\ c[i] = s[i] /\ \A k \in 1..(i - 1) : c[k] = a[k]
    BY <1>1, <2>1, ConcatProperties
  <2> HIDE DEF c
  <2>3. /\ d \in Seq(Nat) /\ Len(d) = Len(c) + Len(b)
        /\ \A k \in 1..(Len(c) + Len(b)) :
               d[k] = IF k <= Len(c) THEN c[k] ELSE b[k - Len(c)]
    BY <1>1, <2>2, ConcatProperties
  <2> HIDE DEF d
  <2>4. ASSUME NEW k \in 1..Len(s)  PROVE d[k] = s[k]
    <3>0. d[k] = IF k <= i THEN c[k] ELSE b[k - i]
      BY <2>1, <2>2, <2>3
    <3>1. CASE k < i
      <4>1. k <= i /\ k \in 1..(i - 1)
        BY <2>1, <3>1
      <4> QED
        BY <2>1, <2>2, <3>0, <4>1
    <3>2. CASE k = i
      BY <2>1, <2>2, <3>0, <3>2
    <3>3. CASE k > i
      <4>1. k - i \in 1..(Len(s) - i) /\ i + (k - i) = k /\ ~(k <= i)
        BY <2>1, <3>3
      <4> QED
        BY <2>1, <3>0, <4>1
    <3> QED
      BY <2>1, <3>1, <3>2, <3>3
  <2>5. s = d
    <3>1. d \in Seq(Nat) /\ Len(d) = Len(s)
      BY <2>1, <2>2, <2>3
    <3> QED
      BY <2>4, <3>1, SeqEqual
  <2> QED
    BY <2>5 DEF d, c
<1> HIDE DEF a, b
<1>3. Total(s) = Total(a \o <<s[i]>>) + Total(b)
  <2>1. a \o <<s[i]>> \in Seq(Nat)
    BY <1>1
  <2> QED
    BY <1>1, <1>2, <2>1, TotalOfConcat
<1>4. Total(a \o <<s[i]>>) = Total(a) + s[i]
  BY <1>1, TotalOfConcat, TotalOfOne
<1> QED
  BY <1>3, <1>4 DEF a, b

\* Another number in one place changes the total by the difference.
LEMMA TotalOfChange ==
    ASSUME NEW s \in Seq(Nat), NEW i \in 1..Len(s), NEW x \in Nat
    PROVE  Total([s EXCEPT ![i] = x]) + s[i] = Total(s) + x
<1> DEFINE t == [s EXCEPT ![i] = x]
<1>1. t \in Seq(Nat) /\ Len(t) = Len(s) /\ i \in 1..Len(t) /\ t[i] = x
  OBVIOUS
<1>2. SubSeq(t, 1, i - 1) = SubSeq(s, 1, i - 1)
  OBVIOUS
<1>3. SubSeq(t, i + 1, Len(t)) = SubSeq(s, i + 1, Len(s))
  OBVIOUS
<1>4. SubSeq(s, 1, i - 1) \in Seq(Nat) /\ SubSeq(s, i + 1, Len(s)) \in Seq(Nat) /\ s[i] \in Nat
  OBVIOUS
<1> DEFINE a == Total(SubSeq(s, 1, i - 1))
           b == Total(SubSeq(s, i + 1, Len(s)))
<1>5. a \in Nat /\ b \in Nat
  BY <1>4, TotalIsNat
<1>6. Total(s) = a + s[i] + b
  BY TotalAround
<1>7. Total(t) = a + x + b
  <2> HIDE DEF t
  <2> QED
    BY <1>1, <1>2, <1>3, TotalAround
<1> HIDE DEF a, b, t
<1> QED
  BY <1>4, <1>5, <1>6, <1>7 DEF t

-----------------------------------------------------------------------------
(* The list and its limits *)

\* removeClip takes one clip out and leaves the others in order.
LEMMA RemoveAtIs ==
    ASSUME NEW S, NEW s \in Seq(S), NEW i \in 1..Len(s)
    PROVE  /\ RemoveAt(s, i) \in Seq(S) /\ Len(RemoveAt(s, i)) = Len(s) - 1
           /\ \A k \in 1..(Len(s) - 1) :
                 RemoveAt(s, i)[k] = IF k < i THEN s[k] ELSE s[k + 1]
<1> DEFINE a == SubSeq(s, 1, i - 1)
           b == SubSeq(s, i + 1, Len(s))
           r == a \o b
<1>1. /\ Len(s) \in Nat /\ i \in Nat /\ i <= Len(s) /\ 1 <= i
      /\ a \in Seq(S) /\ b \in Seq(S)
      /\ Len(a) = i - 1 /\ Len(b) = Len(s) - i
      /\ \A k \in 1..(i - 1) : a[k] = s[k]
      /\ \A k \in 1..(Len(s) - i) : b[k] = s[i + k]
  OBVIOUS
<1> HIDE DEF a, b
<1>2. /\ r \in Seq(S) /\ Len(r) = Len(a) + Len(b)
      /\ \A k \in 1..(Len(a) + Len(b)) : r[k] = IF k <= Len(a) THEN a[k] ELSE b[k - Len(a)]
  BY <1>1, ConcatProperties
<1> HIDE DEF r
<1>3. Len(r) = Len(s) - 1 /\ Len(a) + Len(b) = Len(s) - 1
  BY <1>1, <1>2
<1>4. ASSUME NEW k \in 1..(Len(s) - 1)  PROVE r[k] = IF k < i THEN s[k] ELSE s[k + 1]
  <2>1. r[k] = IF k <= i - 1 THEN a[k] ELSE b[k - (i - 1)]
    BY <1>1, <1>2, <1>3
  <2>2. CASE k < i
    <3>1. k <= i - 1 /\ k \in 1..(i - 1)
      BY <1>1, <2>2
    <3> QED
      BY <1>1, <2>1, <2>2, <3>1
  <2>3. CASE ~(k < i)
    <3>1. k - (i - 1) \in 1..(Len(s) - i) /\ i + (k - (i - 1)) = k + 1 /\ ~(k <= i - 1)
      BY <1>1, <2>3
    <3> QED
      BY <1>1, <2>1, <2>3, <3>1
  <2> QED
    BY <2>2, <2>3
<1>5. RemoveAt(s, i) = r
  BY DEF RemoveAt, r, a, b
<1> QED
  BY <1>2, <1>3, <1>4, <1>5

\* The total goes down by what is taken out.
LEMMA TotalOfRemoval ==
    ASSUME NEW s \in Seq(Nat), NEW i \in 1..Len(s)
    PROVE  Total(RemoveAt(s, i)) + s[i] = Total(s)
<1> DEFINE a == SubSeq(s, 1, i - 1)
           b == SubSeq(s, i + 1, Len(s))
<1>1. a \in Seq(Nat) /\ b \in Seq(Nat)
  OBVIOUS
<1>2. s[i] \in Nat
  OBVIOUS
<1>3. RemoveAt(s, i) = a \o b
  BY DEF RemoveAt
<1>4. Total(s) = Total(a) + s[i] + Total(b)
  BY TotalAround
<1> HIDE DEF a, b
<1>5. Total(a \o b) = Total(a) + Total(b) /\ Total(a) \in Nat /\ Total(b) \in Nat
  BY <1>1, TotalOfConcat, TotalIsNat
<1> QED
  BY <1>2, <1>3, <1>4, <1>5

\* The total does not depend on the order of two of them.
LEMMA TotalOfSwap ==
    ASSUME NEW s \in Seq(Nat), NEW i \in 1..Len(s), NEW j \in 1..Len(s)
    PROVE  Total([k \in 1..Len(s) |-> CASE k = i -> s[j] [] k = j -> s[i] [] OTHER -> s[k]])
             = Total(s)
<1> DEFINE t == [s EXCEPT ![i] = s[j]]
           u == [t EXCEPT ![j] = s[i]]
<1>1. /\ s[i] \in Nat /\ s[j] \in Nat /\ t \in Seq(Nat) /\ Len(t) = Len(s)
      /\ t[j] = s[j] /\ Total(s) \in Nat
  BY TotalIsNat
<1>2. Total(t) + s[i] = Total(s) + s[j]
  BY <1>1, TotalOfChange
<1>3. Total(u) + t[j] = Total(t) + s[i]
  <2> HIDE DEF t
  <2>1. j \in 1..Len(t)
    BY <1>1
  <2> QED
    BY <1>1, <2>1, TotalOfChange
<1>4. Total(t) \in Nat /\ Total(u) \in Nat
  <2>1. u \in Seq(Nat)
    <3> HIDE DEF t
    <3> QED
      BY <1>1
  <2> QED
    BY <1>1, <2>1, TotalIsNat
<1>5. u = [k \in 1..Len(s) |-> CASE k = i -> s[j] [] k = j -> s[i] [] OTHER -> s[k]]
  <2> DEFINE w == [k \in 1..Len(s) |->
                     CASE k = i -> s[j] [] k = j -> s[i] [] OTHER -> s[k]]
  <2>1. u = [k \in 1..Len(s) |-> u[k]]
    <3>1. DOMAIN s = 1..Len(s)
      OBVIOUS
    <3> QED
      BY <3>1
  <2>2. ASSUME NEW k \in 1..Len(s)  PROVE u[k] = w[k]
    <3>1. u[k] = IF k = j THEN s[i] ELSE IF k = i THEN s[j] ELSE s[k]
      OBVIOUS
    <3>2. k = i /\ k = j => s[i] = s[j]
      OBVIOUS
    <3>3. w[k] = CASE k = i -> s[j] [] k = j -> s[i] [] OTHER -> s[k]
      OBVIOUS
    <3> HIDE DEF u, w
    <3> QED
      BY <3>1, <3>2, <3>3
  <2>3. w = [k \in 1..Len(s) |-> w[k]]
    OBVIOUS
  <2>4. u = w
    <3> HIDE DEF u, w
    <3> QED
      BY <2>1, <2>2, <2>3
  <2> QED
    BY <2>4
<1> HIDE DEF t, u
<1>6. Total(u) = Total(s)
  <2>1. Total(u) + s[j] = Total(s) + s[j]
    BY <1>1, <1>2, <1>3
  <2>2. Total(u) \in Nat /\ Total(s) \in Nat /\ s[j] \in Nat
    BY <1>1, <1>4
  <2> DEFINE a == Total(u)
             b == Total(s)
             c == s[j]
  <2>3. a \in Nat /\ b \in Nat /\ c \in Nat /\ a + c = b + c
    BY <2>1, <2>2
  <2> HIDE DEF a, b, c
  <2>4. a = b
    BY <2>3
  <2> QED
    BY <2>4 DEF a, b
<1> QED
  BY <1>5, <1>6

Sizes(list) == [i \in DOMAIN list |-> list[i].size]
Cuts(list) == [i \in DOMAIN list |-> list[i].seconds]

\* What is added up are natural numbers, one for each clip.
LEMMA SizesOf ==
    ASSUME NEW list \in Seq(Clip)
    PROVE  /\ Sizes(list) \in Seq(Nat) /\ Len(Sizes(list)) = Len(list)
           /\ \A i \in 1..Len(list) : Sizes(list)[i] = list[i].size /\ list[i].size \in Nat
           /\ TotalSize(list) = Total(Sizes(list)) /\ TotalSize(list) \in Nat
           /\ Cuts(list) \in Seq(Nat)
           /\ ExpectedSeconds(list) = Total(Cuts(list)) /\ ExpectedSeconds(list) \in Nat
<1>1. \A i \in 1..Len(list) : list[i] \in Clip
  OBVIOUS
<1>2. \A i \in 1..Len(list) : list[i].size \in Nat /\ list[i].seconds \in Nat
  <2>1. FileSizes \subseteq Nat
    BY ClipsAssumption
  <2>2. ASSUME NEW i \in 1..Len(list)
        PROVE  list[i].size \in Nat /\ list[i].seconds \in Nat
    <3>1. /\ list[i].size \in FileSizes
          /\ list[i].seconds \in {CutSeconds, LongCutSeconds}
      BY <1>1 DEF Clip
    <3>2. list[i].size \in Nat
      BY <2>1, <3>1
    <3>3. list[i].seconds \in Nat
      BY <3>1 DEF CutSeconds, LongCutSeconds
    <3> QED
      BY <3>2, <3>3
  <2> QED
    BY <2>2
<1>3. DOMAIN list = 1..Len(list) /\ Len(list) \in Nat
  OBVIOUS
<1>4. /\ Sizes(list) \in Seq(Nat) /\ Len(Sizes(list)) = Len(list)
      /\ \A i \in 1..Len(list) : Sizes(list)[i] = list[i].size
  BY <1>2, <1>3 DEF Sizes
<1>5. Cuts(list) \in Seq(Nat)
  BY <1>2, <1>3 DEF Cuts
<1>6. TotalSize(list) = Total(Sizes(list)) /\ ExpectedSeconds(list) = Total(Cuts(list))
  BY DEF TotalSize, Sizes, ExpectedSeconds, Cuts
<1> QED
  BY <1>2, <1>4, <1>5, <1>6, TotalIsNat

\* A list within the limits of the upload, each caption of the AI on its clip.
WithinLimits(list) ==
    /\ list \in Seq(Clip)
    /\ Len(list) <= MaxClips
    /\ \A i \in 1..Len(list) : list[i].size <= MaxFileSize
    /\ TotalSize(list) <= MaxTotalSize
    /\ \A i \in 1..Len(list) : list[i].caption \in {0, list[i].id}

\* What addFiles takes of a choice keeps the limits, counted with the list there is.
LEMMA AcceptedWithinLimits ==
    ASSUME WithinLimits(clips), NEW m \in Nat, NEW chosen \in [1..m -> FileSizes]
    PROVE  /\ Accepted(chosen) \in Seq(FileSizes)
           /\ Len(clips) + Len(Accepted(chosen)) <= MaxClips
           /\ \A i \in 1..Len(Accepted(chosen)) : Accepted(chosen)[i] <= MaxFileSize
           /\ TotalSize(clips) + Total(Accepted(chosen)) <= MaxTotalSize
<1> DEFINE N == Len(chosen)
           S == {t \in Seq(FileSizes) :
                   /\ Len(clips) + Len(t) <= MaxClips
                   /\ \A i \in 1..Len(t) : t[i] <= MaxFileSize
                   /\ TotalSize(clips) + Total(t) <= MaxTotalSize}
           step == [n \in 1..N |-> [t \in S |-> Accept(t, chosen[n])]]
           Is(g) == g = [n \in 0..N |->
                           IF n = 0 THEN <<>> ELSE Accept(g[n - 1], chosen[n])]
           taken == CHOOSE g : Is(g)
<1>1. /\ N \in Nat /\ \A n \in 1..N : chosen[n] \in FileSizes
      /\ FileSizes \subseteq Nat /\ MaxFileSize \in Nat /\ MaxTotalSize \in Nat /\ MaxClips \in Nat
  BY ClipsAssumption
<1>2. TotalSize(clips) \in Nat /\ Len(clips) \in Nat
  BY SizesOf DEF WithinLimits
<1>3. <<>> \in S
  <2>1. Total(<<>>) = 0
    BY TotalOfOne
  <2> QED
    BY <1>2, <2>1 DEF WithinLimits
<1>4. ASSUME NEW t \in S, NEW size \in FileSizes  PROVE Accept(t, size) \in S
  <2>1. /\ t \in Seq(FileSizes) /\ t \in Seq(Nat) /\ size \in Nat /\ <<size>> \in Seq(Nat)
        /\ Total(t) \in Nat /\ Len(t) \in Nat
    <3>1. t \in Seq(FileSizes) /\ size \in Nat
      BY <1>1, <1>4
    <3>2. t \in Seq(Nat) /\ <<size>> \in Seq(Nat)
      <4>1. t \in Seq(Nat)
        BY <1>1, <3>1, SeqMonotonic
      <4> QED
        BY <3>1, <4>1
    <3> QED
      BY <3>1, <3>2, TotalIsNat
  <2>2. Total(Append(t, size)) = Total(t) + size
    <3>1. Append(t, size) = t \o <<size>>
      BY <2>1
    <3> QED
      BY <2>1, <3>1, TotalOfConcat, TotalOfOne
  <2>3. CASE Accept(t, size) = t
    BY <2>3
  <2>4. CASE Accept(t, size) # t
    <3>1. /\ Accept(t, size) = Append(t, size)
          /\ ~(Len(clips) + Len(t) >= MaxClips) /\ ~(size > MaxFileSize)
          /\ ~(TotalSize(clips) + Total(t) + size > MaxTotalSize)
      BY <2>4 DEF Accept
    <3>2. /\ Append(t, size) \in Seq(FileSizes) /\ Len(Append(t, size)) = Len(t) + 1
          /\ \A i \in 1..(Len(t) + 1) :
                Append(t, size)[i] = IF i = Len(t) + 1 THEN size ELSE t[i]
      BY <2>1
    <3>3. Len(clips) + Len(Append(t, size)) <= MaxClips
      BY <1>1, <1>2, <2>1, <3>1, <3>2
    <3>4. TotalSize(clips) + Total(Append(t, size)) <= MaxTotalSize
      BY <1>1, <1>2, <2>1, <2>2, <3>1
    <3>5. \A i \in 1..Len(Append(t, size)) : Append(t, size)[i] <= MaxFileSize
      <4>1. \A i \in 1..Len(t) : t[i] <= MaxFileSize
        BY <1>4
      <4>2. size <= MaxFileSize
        BY <1>1, <2>1, <3>1
      <4> QED
        BY <2>1, <3>2, <4>1, <4>2
    <3> QED
      BY <3>1, <3>2, <3>3, <3>4, <3>5
  <2> QED
    BY <2>3, <2>4
<1>5. \A t \in S, n \in 1..N : step[n][t] = Accept(t, chosen[n]) /\ step[n][t] \in S
  <2> HIDE DEF S
  <2> QED
    BY <1>1, <1>4
<1>6. Accepted(chosen) = taken[N]
  BY DEF Accepted
<1> HIDE DEF step, S, N, taken
<1>7. PICK f \in [0..N -> S] : Unfolds(f, N, <<>>, step)
  BY <1>1, <1>3, <1>5, Recursion
<1>8. f[0] = <<>> /\ 0 \in 0..N
  BY <1>1, <1>7 DEF Unfolds
<1>9. ASSUME NEW n \in 1..N
      PROVE  /\ n \in 0..N /\ n # 0
             /\ f[n] = Accept(f[n - 1], chosen[n]) /\ f[n] = step[n][f[n - 1]]
  <2>1. n \in 0..N /\ n - 1 \in 0..N /\ n # 0
    BY <1>1
  <2>2. f[n] = step[n][f[n - 1]] /\ f[n - 1] \in S
    BY <1>7, <2>1 DEF Unfolds
  <2> QED
    BY <1>5, <2>1, <2>2
<1>10. \E g : Is(g)
  <2> DEFINE g == [n \in 0..N |-> IF n = 0 THEN <<>> ELSE Accept(f[n - 1], chosen[n])]
  <2>1. \A n \in 0..N : f[n] = IF n = 0 THEN <<>> ELSE Accept(f[n - 1], chosen[n])
    <3>1. \A n \in 0..N : n = 0 \/ n \in 1..N
      BY <1>1
    <3> QED
      BY <1>8, <1>9, <3>1
  <2>2. f = g
    BY <1>7, <2>1
  <2> QED
    BY <2>2
<1>11. \A n \in 0..N : taken[n] = IF n = 0 THEN <<>> ELSE Accept(taken[n - 1], chosen[n])
  <2>1. Is(taken)
    <3> HIDE DEF Is
    <3> QED
      BY <1>10 DEF taken
  <2> QED
    BY <2>1
<1>12. \A n \in 0..N : taken[n] = f[n]
  <2>1. taken[0] = <<>>
    BY <1>8, <1>11
  <2>2. ASSUME NEW n \in 1..N, taken[n - 1] = f[n - 1]  PROVE taken[n] = step[n][f[n - 1]]
    <3>1. taken[n] = Accept(taken[n - 1], chosen[n])
      BY <1>9, <1>11
    <3> QED
      BY <1>9, <2>2, <3>1
  <2>3. N \in Nat /\ Unfolds(f, N, <<>>, step)
    BY <1>1, <1>7
  <2>4. Follows(taken, f, N, <<>>, step)
    BY <2>1, <2>2 DEF Follows
  <2> HIDE DEF Is
  <2> QED
    BY <2>3, <2>4, RecursionAgrees
<1>13. Accepted(chosen) \in S
  <2>1. N \in 0..N
    BY <1>1
  <2> QED
    BY <1>6, <1>7, <1>12, <2>1
<1> QED
  BY <1>13 DEF S

\* The clips of the files that were taken: new ids, nothing written on them yet.
LEMMA NewClipsAre ==
    ASSUME NEW taken \in Seq(FileSizes), files \in 0..MaxFiles, files + Len(taken) <= MaxFiles
    PROVE  /\ NewClips(taken) \in Seq(Clip) /\ Len(NewClips(taken)) = Len(taken)
           /\ \A i \in 1..Len(taken) :
                 /\ NewClips(taken)[i].size = taken[i]
                 /\ NewClips(taken)[i].caption = 0
           /\ Sizes(NewClips(taken)) = taken
<1> DEFINE new == NewClips(taken)
<1>1. Len(taken) \in Nat /\ DOMAIN taken = 1..Len(taken) /\ taken = [i \in 1..Len(taken) |-> taken[i]]
  OBVIOUS
<1>2. new = [i \in 1..Len(taken) |-> new[i]] /\ DOMAIN new = 1..Len(taken)
  BY <1>1 DEF NewClips
<1>3. ASSUME NEW i \in 1..Len(taken)
      PROVE  new[i] \in Clip /\ new[i].size = taken[i] /\ new[i].caption = 0
  <2>1. new[i] = [id |-> files + i, size |-> taken[i],
                  seconds |-> CutSeconds, caption |-> 0]
    BY <1>1 DEF NewClips
  <2>2. files + i \in 1..MaxFiles /\ 0 \in 0..MaxFiles
    BY <1>1, ClipsAssumption
  <2>3. taken[i] \in FileSizes
    OBVIOUS
  <2> QED
    BY <2>1, <2>2, <2>3 DEF Clip
<1> HIDE DEF new
<1>4. new \in Seq(Clip) /\ Len(new) = Len(taken)
  BY <1>1, <1>2, <1>3
<1>5. Sizes(new) = taken
  BY <1>1, <1>2, <1>3 DEF Sizes
<1> QED
  BY <1>3, <1>4, <1>5 DEF new

\* The clips there are stay, and the new ones keep within the limits with them.
LEMMA AddedWithinLimits ==
    ASSUME WithinLimits(clips), files \in 0..MaxFiles,
           NEW n \in Nat, NEW chosen \in [1..n -> FileSizes], AddFiles(chosen)
    PROVE  /\ WithinLimits(clips') /\ files' \in 0..MaxFiles
           /\ Len(clips) <= Len(clips') /\ \A i \in 1..Len(clips) : clips'[i] = clips[i]
<1> DEFINE taken == Accepted(chosen)
           new == NewClips(taken)
<1>1. /\ taken \in Seq(FileSizes) /\ Len(clips) + Len(taken) <= MaxClips
      /\ \A i \in 1..Len(taken) : taken[i] <= MaxFileSize
      /\ TotalSize(clips) + Total(taken) <= MaxTotalSize
  BY AcceptedWithinLimits
<1>2. /\ files + Len(taken) <= MaxFiles /\ clips' = clips \o new
      /\ files' = files + Len(taken)
  BY DEF AddFiles
<1> HIDE DEF taken
<1>3. /\ new \in Seq(Clip) /\ Len(new) = Len(taken)
      /\ \A i \in 1..Len(taken) : new[i].size = taken[i] /\ new[i].caption = 0
      /\ Sizes(new) = taken
  BY <1>1, <1>2, NewClipsAre
<1> HIDE DEF new
<1>4. clips \in Seq(Clip) /\ Len(clips) \in Nat /\ Len(new) \in Nat /\ Len(taken) \in Nat
  BY <1>1, <1>3 DEF WithinLimits
<1>5. /\ clips' \in Seq(Clip) /\ Len(clips') = Len(clips) + Len(new)
      /\ \A i \in 1..(Len(clips) + Len(new)) :
            clips'[i] = IF i <= Len(clips) THEN clips[i] ELSE new[i - Len(clips)]
  <2> DEFINE all == clips \o new
  <2>0. clips \in Seq(Clip) /\ new \in Seq(Clip)
    BY <1>3, <1>4
  <2>1. /\ all \in Seq(Clip) /\ Len(all) = Len(clips) + Len(new)
        /\ \A i \in 1..(Len(clips) + Len(new)) :
              all[i] = IF i <= Len(clips) THEN clips[i] ELSE new[i - Len(clips)]
    BY <2>0, ConcatProperties
  <2>2. clips' = all
    BY <1>2
  <2> HIDE DEF all
  <2> QED
    BY <2>1, <2>2
<1>6. TotalSize(clips') <= MaxTotalSize
  <2>1. /\ Sizes(clips) \in Seq(Nat) /\ Len(Sizes(clips)) = Len(clips)
        /\ TotalSize(clips) = Total(Sizes(clips))
        /\ \A i \in 1..Len(clips) : Sizes(clips)[i] = clips[i].size
    BY <1>4, SizesOf
  <2>2. /\ taken \in Seq(Nat)
        /\ \A i \in 1..Len(new) : taken[i] = new[i].size
    BY <1>3, SizesOf
  <2>3. /\ Sizes(clips') \in Seq(Nat) /\ Len(Sizes(clips')) = Len(clips')
        /\ TotalSize(clips') = Total(Sizes(clips'))
        /\ \A i \in 1..Len(clips') : Sizes(clips')[i] = clips'[i].size
    BY <1>5, SizesOf
  <2> DEFINE both == Sizes(clips) \o taken
  <2>4. /\ both \in Seq(Nat) /\ Len(both) = Len(clips) + Len(new)
        /\ \A i \in 1..(Len(clips) + Len(new)) :
              both[i] = IF i <= Len(clips) THEN Sizes(clips)[i] ELSE taken[i - Len(clips)]
    <3> DEFINE old == Sizes(clips)
    <3>1. old \in Seq(Nat) /\ Len(old) = Len(clips)
      BY <2>1
    <3> HIDE DEF old
    <3>2. /\ old \o taken \in Seq(Nat) /\ Len(old \o taken) = Len(old) + Len(taken)
          /\ \A i \in 1..(Len(old) + Len(taken)) :
                (old \o taken)[i] = IF i <= Len(old) THEN old[i] ELSE taken[i - Len(old)]
      BY <2>2, <3>1, ConcatProperties
    <3> QED
      BY <1>3, <3>1, <3>2 DEF old
  <2>5. Total(both) = TotalSize(clips) + Total(taken)
    BY <2>1, <2>2, TotalOfConcat
  <2> HIDE DEF both
  <2>6. ASSUME NEW i \in 1..Len(clips')  PROVE Sizes(clips')[i] = both[i]
    <3>1. CASE i <= Len(clips)
      <4>1. i \in 1..Len(clips)
        BY <1>4, <1>5, <3>1
      <4> QED
        BY <1>5, <2>1, <2>3, <2>4, <3>1, <4>1
    <3>2. CASE ~(i <= Len(clips))
      <4>1. i - Len(clips) \in 1..Len(new)
        BY <1>4, <1>5, <3>2
      <4> QED
        BY <1>5, <2>2, <2>3, <2>4, <3>2, <4>1
    <3> QED
      BY <3>1, <3>2
  <2>7. Sizes(clips') = both
    BY <1>5, <2>3, <2>4, <2>6, SeqEqual
  <2> QED
    BY <1>1, <2>3, <2>5, <2>7
<1>7. ASSUME NEW i \in 1..Len(clips')
      PROVE  clips'[i].size <= MaxFileSize /\ clips'[i].caption \in {0, clips'[i].id}
  <2>1. CASE i <= Len(clips)
    <3>1. i \in 1..Len(clips) /\ i \in 1..(Len(clips) + Len(new))
      BY <1>4, <1>5, <2>1
    <3>2. clips'[i] = clips[i]
      BY <1>5, <2>1, <3>1
    <3> QED
      BY <3>1, <3>2 DEF WithinLimits
  <2>2. CASE ~(i <= Len(clips))
    <3>1. i - Len(clips) \in 1..Len(taken) /\ i \in 1..(Len(clips) + Len(new))
      BY <1>3, <1>4, <1>5, <2>2
    <3>2. clips'[i] = new[i - Len(clips)]
      BY <1>5, <2>2, <3>1
    <3> QED
      BY <1>1, <1>3, <3>1, <3>2
  <2> QED
    BY <2>1, <2>2
<1>8. Len(clips') <= MaxClips /\ files' \in 0..MaxFiles
  BY <1>1, <1>2, <1>3, <1>4, <1>5
<1>9. Len(clips) <= Len(clips') /\ \A i \in 1..Len(clips) : clips'[i] = clips[i]
  BY <1>4, <1>5
<1> QED
  BY <1>5, <1>6, <1>7, <1>8, <1>9 DEF WithinLimits

\* The same files, whatever was edited about them.
LEMMA SameFilesWithinLimits ==
    ASSUME NEW old, WithinLimits(old), NEW list \in Seq(Clip), Len(list) = Len(old),
           \A i \in 1..Len(old) :
              /\ list[i].size = old[i].size /\ list[i].caption \in {0, list[i].id}
    PROVE  WithinLimits(list)
<1>1. old \in Seq(Clip)
  BY DEF WithinLimits
<1>2. Sizes(list) = Sizes(old)
  BY <1>1 DEF Sizes
<1>3. TotalSize(list) = TotalSize(old)
  BY <1>1, <1>2, SizesOf
<1> QED
  BY <1>3 DEF WithinLimits

\* Two clips change places: the same clips, so the same limits.
LEMMA SwappedWithinLimits ==
    ASSUME WithinLimits(clips), NEW i \in 1..Len(clips), NEW j \in 1..Len(clips)
    PROVE  /\ WithinLimits(Swapped(i, j)) /\ Len(Swapped(i, j)) = Len(clips)
           /\ Ids(Swapped(i, j)) = Ids(clips)
<1> DEFINE list == Swapped(i, j)
<1>1. clips \in Seq(Clip) /\ DOMAIN clips = 1..Len(clips) /\ Len(clips) \in Nat
  BY DEF WithinLimits
<1>2. \A k \in 1..Len(clips) :
         list[k] = CASE k = i -> clips[j] [] k = j -> clips[i] [] OTHER -> clips[k]
  BY <1>1 DEF Swapped
<1>3. list = [k \in 1..Len(clips) |-> list[k]] /\ DOMAIN list = 1..Len(clips)
  BY <1>1 DEF Swapped
<1> HIDE DEF list
<1>4. \A k \in 1..Len(clips) : \E m \in 1..Len(clips) : list[k] = clips[m]
  BY <1>2
<1>5. \A k \in 1..Len(clips) : \E m \in 1..Len(clips) : list[m] = clips[k]
  <2> SUFFICES ASSUME NEW k \in 1..Len(clips)
               PROVE  \E m \in 1..Len(clips) : list[m] = clips[k]
    OBVIOUS
  <2>1. CASE k = i
    <3>1. list[j] = clips[k]
      BY <1>2, <2>1
    <3> QED
      BY <3>1
  <2>2. CASE k = j
    <3>1. list[i] = clips[k]
      BY <1>2, <2>2
    <3> QED
      BY <3>1
  <2>3. CASE k # i /\ k # j
    <3>1. list[k] = clips[k]
      BY <1>2, <2>3
    <3> QED
      BY <3>1
  <2> QED
    BY <2>1, <2>2, <2>3
<1>6. list \in Seq(Clip) /\ Len(list) = Len(clips)
  <2>1. ASSUME NEW k \in 1..Len(clips)  PROVE list[k] \in Clip
    <3>1. PICK m \in 1..Len(clips) : list[k] = clips[m]
      BY <1>4
    <3> QED
      BY <1>1, <3>1
  <2> QED
    BY <1>1, <1>3, <2>1
<1>7. Ids(list) = Ids(clips)
  <2>1. ASSUME NEW x  PROVE x \in Ids(list) <=> \E k \in 1..Len(clips) : x = list[k].id
    BY <1>3 DEF Ids
  <2>2. ASSUME NEW x  PROVE x \in Ids(clips) <=> \E k \in 1..Len(clips) : x = clips[k].id
    BY <1>1 DEF Ids
  <2>3. ASSUME NEW x \in Ids(list)  PROVE x \in Ids(clips)
    <3>1. PICK k \in 1..Len(clips) : x = list[k].id
      BY <2>1
    <3>2. PICK m \in 1..Len(clips) : list[k] = clips[m]
      BY <1>4
    <3> QED
      BY <2>2, <3>1, <3>2
  <2>4. ASSUME NEW x \in Ids(clips)  PROVE x \in Ids(list)
    <3>1. PICK k \in 1..Len(clips) : x = clips[k].id
      BY <2>2
    <3>2. PICK m \in 1..Len(clips) : list[m] = clips[k]
      BY <1>5
    <3> QED
      BY <2>1, <3>1, <3>2
  <2> QED
    BY <2>3, <2>4
<1>8. TotalSize(list) = TotalSize(clips)
  <2> DEFINE s == Sizes(clips)
             t == [k \in 1..Len(s) |-> CASE k = i -> s[j] [] k = j -> s[i] [] OTHER -> s[k]]
  <2>1. /\ s \in Seq(Nat) /\ Len(s) = Len(clips) /\ TotalSize(clips) = Total(s)
        /\ \A k \in 1..Len(clips) : s[k] = clips[k].size
        /\ TotalSize(list) = Total(Sizes(list))
    BY <1>1, <1>6, SizesOf
  <2> HIDE DEF s
  <2>2. Sizes(list) = [k \in 1..Len(clips) |-> list[k].size]
    BY <1>3 DEF Sizes
  <2>3. \A k \in 1..Len(clips) : list[k].size = t[k]
    BY <1>2, <2>1
  <2>4. Sizes(list) = t
    BY <2>1, <2>2, <2>3
  <2>5. Total(t) = Total(s)
    <3>1. i \in 1..Len(s) /\ j \in 1..Len(s)
      BY <2>1
    <3> QED
      BY <2>1, <3>1, TotalOfSwap
  <2> QED
    BY <2>1, <2>4, <2>5
<1>9. WithinLimits(list)
  BY <1>4, <1>6, <1>8 DEF WithinLimits
<1> QED
  BY <1>6, <1>7, <1>9 DEF list

\* One clip less.
LEMMA RemovedWithinLimits ==
    ASSUME WithinLimits(clips), NEW i \in 1..Len(clips)
    PROVE  WithinLimits(RemoveAt(clips, i))
<1> DEFINE list == RemoveAt(clips, i)
<1>1. clips \in Seq(Clip) /\ Len(clips) \in Nat
  BY DEF WithinLimits
<1>2. /\ list \in Seq(Clip) /\ Len(list) = Len(clips) - 1
      /\ \A k \in 1..(Len(clips) - 1) : list[k] = IF k < i THEN clips[k] ELSE clips[k + 1]
  BY <1>1, RemoveAtIs
<1> HIDE DEF list
<1>3. ASSUME NEW k \in 1..Len(list)  PROVE \E m \in 1..Len(clips) : list[k] = clips[m]
  <2>1. k \in 1..Len(clips) /\ k + 1 \in 1..Len(clips) /\ k \in 1..(Len(clips) - 1)
    BY <1>1, <1>2
  <2> QED
    BY <1>2, <2>1
<1>4. TotalSize(list) <= TotalSize(clips)
  <2> DEFINE s == Sizes(clips)
             t == RemoveAt(s, i)
  <2>1. /\ s \in Seq(Nat) /\ Len(s) = Len(clips) /\ TotalSize(clips) = Total(s)
        /\ \A k \in 1..Len(clips) : s[k] = clips[k].size
        /\ TotalSize(list) = Total(Sizes(list)) /\ TotalSize(clips) \in Nat
        /\ Sizes(list) \in Seq(Nat) /\ Len(Sizes(list)) = Len(list) /\ TotalSize(list) \in Nat
        /\ \A k \in 1..Len(list) : Sizes(list)[k] = list[k].size
    BY <1>1, <1>2, SizesOf
  <2> HIDE DEF s
  <2>2. /\ t \in Seq(Nat) /\ Len(t) = Len(clips) - 1
        /\ \A k \in 1..(Len(clips) - 1) : t[k] = IF k < i THEN s[k] ELSE s[k + 1]
    BY <2>1, RemoveAtIs
  <2>3. Total(t) + s[i] = Total(s)
    BY <2>1, TotalOfRemoval
  <2> HIDE DEF t
  <2>4. ASSUME NEW k \in 1..Len(list)  PROVE Sizes(list)[k] = t[k]
    <3>1. k \in 1..Len(clips) /\ k + 1 \in 1..Len(clips) /\ k \in 1..(Len(clips) - 1)
      BY <1>1, <1>2
    <3> QED
      BY <1>2, <2>1, <2>2, <3>1
  <2>5. Sizes(list) = t
    BY <1>2, <2>1, <2>2, <2>4, SeqEqual
  <2>6. s[i] \in Nat /\ Total(t) \in Nat
    BY <2>1, <2>2, TotalIsNat
  <2> QED
    BY <2>1, <2>3, <2>5, <2>6
<1>5. Len(list) <= MaxClips
  BY <1>1, <1>2, ClipsAssumption DEF WithinLimits
<1>6. TotalSize(list) <= MaxTotalSize
  <2>1. TotalSize(list) \in Nat /\ TotalSize(clips) \in Nat /\ MaxTotalSize \in Nat
    BY <1>1, <1>2, SizesOf, ClipsAssumption
  <2> QED
    BY <1>4, <2>1 DEF WithinLimits
<1> QED
  BY <1>2, <1>3, <1>5, <1>6 DEF WithinLimits, list

-----------------------------------------------------------------------------
(* The clip list *)

AskedAsShown ==
    asked.by # "nobody" => asked.clips = clips \/ (dropped /\ clips = <<>>)
OneAtATime == asked.by # "nobody" => sent = <<>>

ListInv == AskedAsShown /\ OneAtATime /\ SentAsShown

-----------------------------------------------------------------------------
\* Nothing reads the list while a control of the list works.
LEMMA EditKeeps ==
    ASSUME ~Busy, UNCHANGED <<asked, sent>> PROVE ListInv'
  BY DEF Busy, ListInv, AskedAsShown, OneAtATime, SentAsShown

\* A question is asked about the list on the screen.
LEMMA AskKeeps ==
    ASSUME ~Busy, NEW who, Ask(who) PROVE ListInv'
  BY DEF Busy, Ask, ListInv, AskedAsShown, OneAtATime, SentAsShown

\* The video is made from the list that is on the screen from then on, or from
\* the one a reset has taken off it.
LEMMA SendKeeps ==
    ASSUME NEW list, Send(list), clips' = list \/ (dropped /\ clips' = <<>>)
    PROVE  ListInv'
  BY DEF Send, NotAsked, ListInv, AskedAsShown, OneAtATime, SentAsShown

\* The list is empty at the start.
LEMMA ListInit == ClipsInit => ListInv
  BY DEF ClipsInit, NotAsked, ListInv, AskedAsShown, OneAtATime, SentAsShown

\* ListInv is inductive.
LEMMA ListStep == ListInv /\ [ClipsNext]_clipVars => ListInv'
<1> SUFFICES ASSUME ListInv, [ClipsNext]_clipVars PROVE ListInv'
  OBVIOUS
<1>1. ASSUME NEW chosen, AddFiles(chosen) PROVE ListInv'
  BY <1>1, EditKeeps DEF AddFiles, UploadOffered
<1>2. CASE \/ \E i, j \in 1..MaxFiles : MoveClip(i, j)
           \/ \E i \in 1..MaxFiles : RemoveClip(i) \/ OpenClip(i)
           \/ SwapBoundaryClips \/ UpdateClip
  BY <1>2, EditKeeps DEF MoveClip, RemoveClip, OpenClip, SwapBoundaryClips, UpdateClip, Edited
<1>3. CASE GenerateCaptions
  BY <1>3, AskKeeps DEF GenerateCaptions
<1>4. CASE CaptionsArrive
  BY <1>4 DEF CaptionsArrive, Captioned, NotAsked, ListInv, AskedAsShown, OneAtATime,
              SentAsShown
<1>5. CASE Submit
  <2>1. CASE Ask("submit")
    BY <1>5, <2>1, AskKeeps DEF Submit, GenerateOffered
  <2>2. CASE Send(clips) /\ UNCHANGED clips
    BY <2>2, SendKeeps
  <2> QED
    BY <1>5, <2>1, <2>2 DEF Submit
<1>6. CASE SubmitGoesOn
  <2>1. asked.clips = clips \/ (dropped /\ clips = <<>>)
    BY <1>6 DEF SubmitGoesOn, ListInv, AskedAsShown
  <2>2. CASE Send(clips')
    BY <2>2, SendKeeps
  <2>3. CASE clips' = clips /\ Send(asked.clips)
    BY <2>1, <2>3, SendKeeps
  <2> QED
    BY <1>6, <2>2, <2>3 DEF SubmitGoesOn
<1>7. CASE JobShown \/ PressClipsReset
  BY <1>7 DEF JobShown, PressClipsReset, ListInv, AskedAsShown, OneAtATime, SentAsShown
<1>8. CASE MakingEnds
  BY <1>8 DEF MakingEnds, ListInv, AskedAsShown, OneAtATime, SentAsShown
<1>9. CASE ClipsResetArrives
  BY <1>9 DEF ClipsResetArrives, ListInv, AskedAsShown, OneAtATime, SentAsShown
<1>10. CASE UNCHANGED clipVars
  BY <1>10 DEF clipVars, ListInv, AskedAsShown, OneAtATime, SentAsShown
<1> QED
  BY <1>1, <1>2, <1>3, <1>4, <1>5, <1>6, <1>7, <1>8, <1>9, <1>10 DEF ClipsNext

\* From the press of "generate" to the end of the job, whether captions come in
\* between or not, the clips, order, cuts and captions on the screen are the ones
\* that were submitted.  A reset pressed before may come back meanwhile and empty
\* the list (reset empties it after its await, whatever was begun); nothing makes
\* the screen show another list.
THEOREM AlwaysSentAsShown == ClipsSpec => []SentAsShown
<1>1. ListInv => SentAsShown
  BY DEF ListInv
<1> QED
  BY <1>1, ListInit, ListStep, PTL DEF ClipsSpec


-----------------------------------------------------------------------------
(* What is submitted *)

\* The two calls hold lists of clips.
CallsOK ==
    /\ asked.by \in {"nobody", "button", "submit"}
    /\ asked.clips \in Seq(Clip) /\ sent \in Seq(Clip)
    /\ files \in 0..MaxFiles
    /\ job \in {"none", "rendering", "completed"}
    /\ resets \in 0..MaxResets /\ dropped \in BOOLEAN

\* The drawer is on a clip of the list, or on none.
DrawerOnList == active \in Ids(clips) \union {0}

\* What the button has looked at before the captions, or the job, are asked for.
\* A reset can take the list off the screen, not out of the calls.
Checked(list) ==
    WithinLimits(list) /\ Len(list) >= MinClips /\ ExpectedSeconds(list) <= MaxSeconds

CheckedAtButton ==
    /\ asked.by = "submit" => Checked(asked.clips)
    /\ sent # <<>> => Checked(sent)

ClipsInv ==
    /\ ListInv /\ WithinLimits(clips) /\ CallsOK /\ DrawerOnList /\ CheckedAtButton

\* The ids of a list, by its places.
LEMMA IdsAre ==
    ASSUME NEW list \in Seq(Clip)
    PROVE  /\ \A i \in 1..Len(list) : list[i].id \in Ids(list) /\ list[i].id \in 1..MaxFiles
           /\ \A x \in Ids(list) : \E i \in 1..Len(list) : x = list[i].id
           /\ Len(list) \in Nat /\ DOMAIN list = 1..Len(list)
           /\ list = <<>> <=> Len(list) = 0
<1>1. DOMAIN list = 1..Len(list) /\ Len(list) \in Nat /\ (list = <<>> <=> Len(list) = 0)
  OBVIOUS
<1>2. ASSUME NEW i \in 1..Len(list)  PROVE list[i].id \in 1..MaxFiles
  <2>1. list[i] \in Clip
    OBVIOUS
  <2> QED
    BY <2>1 DEF Clip
<1> QED
  BY <1>1, <1>2 DEF Ids

\* A control of the list works while nothing reads it.
LEMMA EditedKeeps ==
    ASSUME ClipsInv, Edited, WithinLimits(clips'), DrawerOnList' PROVE ClipsInv'
<1>1. ListInv'
  BY EditKeeps DEF Edited
<1>2. asked.by = "nobody" /\ sent = <<>> /\ UNCHANGED <<files, asked, sent, screen>>
  BY DEF Edited, Busy
<1>3. WithinLimits(clips)'
  BY DEF WithinLimits, TotalSize
<1> QED
  BY <1>1, <1>2, <1>3 DEF ClipsInv, CallsOK, CheckedAtButton, screen

\* Files come in: the drawer opens on the first clip of an empty list.
LEMMA AddKeeps ==
    ASSUME ClipsInv, NEW n \in Nat, NEW chosen \in [1..n -> FileSizes], AddFiles(chosen)
    PROVE  ClipsInv'
<1>1. /\ WithinLimits(clips') /\ files' \in 0..MaxFiles
      /\ Len(clips) <= Len(clips') /\ \A i \in 1..Len(clips) : clips'[i] = clips[i]
  BY AddedWithinLimits DEF ClipsInv, CallsOK
<1>2. clips \in Seq(Clip) /\ clips' \in Seq(Clip)
  BY <1>1 DEF ClipsInv, WithinLimits
<1>3. DrawerOnList'
  <2>1. CASE active = 0
    <3>1. active' = IF clips' # <<>> THEN clips'[1].id ELSE 0
      BY <2>1 DEF AddFiles
    <3>2. clips' # <<>> => clips'[1].id \in Ids(clips')
      <4>1. clips' # <<>> => 1 \in 1..Len(clips')
        BY <1>2, IdsAre
      <4> QED
        BY <1>2, <4>1, IdsAre
    <3>3. Ids(clips)' = Ids(clips')
      BY DEF Ids
    <3> QED
      BY <3>1, <3>2, <3>3 DEF DrawerOnList
  <2>2. CASE active # 0
    <3>1. active \in Ids(clips)
      BY <2>2 DEF ClipsInv, DrawerOnList
    <3>2. PICK i \in 1..Len(clips) : active = clips[i].id
      BY <1>2, <3>1, IdsAre
    <3>3. i \in 1..Len(clips') /\ clips'[i] = clips[i]
      BY <1>1, <1>2, IdsAre
    <3>4. active \in Ids(clips')
      BY <1>2, <3>2, <3>3, IdsAre
    <3>5. active' = active
      BY <2>2 DEF AddFiles
    <3>6. Ids(clips)' = Ids(clips')
      BY DEF Ids
    <3> QED
      BY <3>4, <3>5, <3>6 DEF DrawerOnList
  <2> QED
    BY <2>1, <2>2
<1>4. /\ ~Busy /\ UNCHANGED <<asked, sent, screen>>
  BY DEF AddFiles, UploadOffered
<1>5. ListInv'
  BY <1>4, EditKeeps
<1>6. WithinLimits(clips)'
  BY <1>1 DEF WithinLimits, TotalSize
<1> QED
  BY <1>1, <1>3, <1>4, <1>5, <1>6 DEF ClipsInv, CallsOK, CheckedAtButton, Busy, screen

\* The same ids in another order, or with other words and cuts.
LEMMA SameIdsKeep ==
    ASSUME ClipsInv, Edited, WithinLimits(clips'), Ids(clips') = Ids(clips),
           Len(clips') = Len(clips), active' = active
    PROVE  ClipsInv'
<1>1. clips \in Seq(Clip) /\ clips' \in Seq(Clip)
  BY DEF ClipsInv, WithinLimits
<1>2. Ids(clips)' = Ids(clips')
  BY DEF Ids
<1>3. DrawerOnList'
  BY <1>2 DEF ClipsInv, DrawerOnList
<1> QED
  BY <1>3, EditedKeeps

\* The arrows, and the swap of the first and the last clip.
LEMMA SwapKeeps ==
    ASSUME ClipsInv,
           SwapBoundaryClips \/ \E i, j \in 1..MaxFiles : MoveClip(i, j)
    PROVE  ClipsInv'
<1>1. clips \in Seq(Clip) /\ WithinLimits(clips)
  BY DEF ClipsInv, WithinLimits
<1>2. DOMAIN clips = 1..Len(clips) /\ Len(clips) \in Nat
  BY <1>1, IdsAre
<1>3. PICK i \in 1..Len(clips), j \in 1..Len(clips) :
         clips' = Swapped(i, j) /\ Edited /\ active' = active
  <2>1. CASE SwapBoundaryClips
    <3>1. 1 \in 1..Len(clips) /\ Len(clips) \in 1..Len(clips)
      BY <1>2, <2>1 DEF SwapBoundaryClips
    <3> QED
      BY <2>1, <3>1 DEF SwapBoundaryClips
  <2>2. CASE \E i, j \in 1..MaxFiles : MoveClip(i, j)
    BY <1>2, <2>2 DEF MoveClip
  <2> QED
    BY <2>1, <2>2
<1> QED
  BY <1>1, <1>3, SwappedWithinLimits, SameIdsKeep

\* A clip is removed: the drawer goes on with one of those that are left.
LEMMA RemoveKeeps ==
    ASSUME ClipsInv, NEW i \in 1..MaxFiles, RemoveClip(i) PROVE ClipsInv'
<1>1. clips \in Seq(Clip) /\ WithinLimits(clips) /\ DOMAIN clips = 1..Len(clips)
      /\ Len(clips) \in Nat
  BY IdsAre DEF ClipsInv, WithinLimits
<1>2. i \in 1..Len(clips) /\ clips' = RemoveAt(clips, i) /\ Edited
  BY <1>1 DEF RemoveClip
<1>3. WithinLimits(clips')
  BY <1>1, <1>2, RemovedWithinLimits
<1>4. /\ clips' \in Seq(Clip) /\ Len(clips') = Len(clips) - 1
      /\ \A k \in 1..(Len(clips) - 1) : clips'[k] = IF k < i THEN clips[k] ELSE clips[k + 1]
  BY <1>1, <1>2, RemoveAtIs
<1>5. /\ Len(clips') \in Nat /\ DOMAIN clips' = 1..Len(clips')
      /\ clips' = <<>> <=> Len(clips') = 0
      /\ \A k \in 1..Len(clips') : clips'[k].id \in Ids(clips')
  BY <1>4, IdsAre
<1>6. (active \in Ids(clips) \/ active = 0) /\ Ids(clips)' = Ids(clips')
  BY DEF ClipsInv, DrawerOnList, Ids
<1>7. CASE active # clips[i].id /\ active \in Ids(clips)
  <2>1. PICK k \in 1..Len(clips) : active = clips[k].id
    BY <1>1, <1>7, IdsAre
  <2>2. k # i
    BY <1>7, <2>1
  <2>3. PICK m \in 1..Len(clips') : clips'[m] = clips[k]
    <3>1. CASE k < i
      <4>1. k \in 1..Len(clips') /\ k \in 1..(Len(clips) - 1)
        BY <1>1, <1>2, <1>4, <3>1
      <4> QED
        BY <1>4, <3>1, <4>1
    <3>2. CASE k > i
      <4>1. k - 1 \in 1..(Len(clips) - 1) /\ ~(k - 1 < i) /\ (k - 1) + 1 = k
        BY <1>1, <1>2, <3>2
      <4>2. clips'[k - 1] = clips[k]
        BY <1>4, <4>1
      <4> QED
        BY <1>4, <4>1, <4>2
    <3> QED
      BY <1>1, <1>2, <2>2, <3>1, <3>2
  <2>4. active' = active /\ active \in Ids(clips') /\ clips' # <<>>
    <3>1. active \in Ids(clips') /\ Len(clips') # 0
      BY <1>5, <2>1, <2>3
    <3>2. active' = active
      BY <1>7 DEF RemoveClip
    <3> QED
      BY <1>5, <3>1, <3>2
  <2>5. DrawerOnList'
    BY <1>6, <2>4 DEF DrawerOnList
  <2> QED
    BY <1>2, <1>3, <2>5, EditedKeeps
<1>8. CASE active = 0 \/ (active = clips[i].id /\ clips' = <<>>)
  <2>1. active' = 0
    <3>1. clips[i].id # 0
      BY <1>1, <1>2, IdsAre
    <3> QED
      BY <1>8, <3>1 DEF RemoveClip
  <2>2. DrawerOnList'
    BY <1>8, <2>1 DEF DrawerOnList
  <2> QED
    BY <1>2, <1>3, <2>2, EditedKeeps
<1>9. CASE active = clips[i].id /\ clips' # <<>>
  <2>1. active' = IF i \in 1..Len(clips') THEN clips'[i].id ELSE clips'[Len(clips')].id
    BY <1>5, <1>9 DEF RemoveClip
  <2>2. Len(clips') \in 1..Len(clips')
    BY <1>5, <1>9
  <2>3. active' \in Ids(clips')
    BY <1>5, <2>1, <2>2
  <2>4. DrawerOnList'
    BY <1>6, <1>9, <2>3 DEF DrawerOnList
  <2> QED
    BY <1>2, <1>3, <2>4, EditedKeeps
<1> QED
  BY <1>6, <1>7, <1>8, <1>9

\* The drawer opens on a clip of the list.
LEMMA OpenKeeps ==
    ASSUME ClipsInv, NEW i \in 1..MaxFiles, OpenClip(i) PROVE ClipsInv'
<1>1. clips \in Seq(Clip) /\ WithinLimits(clips)
  BY DEF ClipsInv, WithinLimits
<1>2. i \in 1..Len(clips) /\ active' = clips[i].id /\ clips' = clips /\ Edited
  BY <1>1, IdsAre DEF OpenClip
<1>3. clips[i].id \in Ids(clips) /\ clips # <<>>
  BY <1>1, <1>2, IdsAre
<1>4. DrawerOnList' /\ WithinLimits(clips')
  BY <1>1, <1>2, <1>3 DEF DrawerOnList, Ids
<1> QED
  BY <1>2, <1>4, EditedKeeps

\* Another wording or cut for one clip.
LEMMA UpdateKeeps == ASSUME ClipsInv, UpdateClip PROVE ClipsInv'
<1>1. clips \in Seq(Clip) /\ WithinLimits(clips) /\ DOMAIN clips = 1..Len(clips)
      /\ Len(clips) \in Nat
  BY IdsAre DEF ClipsInv, WithinLimits
<1>2. PICK i \in 1..Len(clips), c \in Clip :
         /\ clips' = [clips EXCEPT ![i] = c]
         /\ c.size = clips[i].size /\ c.id = clips[i].id
         /\ c.caption \in {0, c.id}
  <2>1. PICK i \in 1..Len(clips) :
           \/ clips' = [clips EXCEPT ![i].caption = 0]
           \/ \E s \in {CutSeconds, LongCutSeconds} :
                 clips' = [clips EXCEPT ![i].seconds = s]
    BY <1>1 DEF UpdateClip
  <2>2. clips[i] \in Clip /\ clips[i].caption \in {0, clips[i].id} /\ 0 \in 0..MaxFiles
    BY <1>1, ClipsAssumption DEF WithinLimits
  <2>3. CASE clips' = [clips EXCEPT ![i].caption = 0]
    <3> DEFINE c == [clips[i] EXCEPT !.caption = 0]
    <3>1. clips' = [clips EXCEPT ![i] = c]
      BY <1>1, <2>3
    <3>2. c \in Clip /\ c.size = clips[i].size /\ c.id = clips[i].id /\ c.caption = 0
      BY <2>2 DEF Clip
    <3> QED
      BY <3>1, <3>2
  <2>4. ASSUME NEW s \in {CutSeconds, LongCutSeconds}, clips' = [clips EXCEPT ![i].seconds = s]
        PROVE  \E c \in Clip :
                      /\ clips' = [clips EXCEPT ![i] = c]
                      /\ c.size = clips[i].size /\ c.id = clips[i].id
                      /\ c.caption \in {0, c.id}
    <3> DEFINE c == [clips[i] EXCEPT !.seconds = s]
    <3>1. clips' = [clips EXCEPT ![i] = c]
      BY <1>1, <2>4
    <3>2. /\ c \in Clip /\ c.size = clips[i].size /\ c.id = clips[i].id
          /\ c.caption = clips[i].caption
      BY <2>2 DEF Clip
    <3> HIDE DEF c
    <3> QED
      BY <2>2, <3>1, <3>2
  <2> QED
    BY <2>1, <2>3, <2>4
<1>3. /\ clips' \in Seq(Clip) /\ Len(clips') = Len(clips) /\ DOMAIN clips' = 1..Len(clips)
      /\ \A k \in 1..Len(clips) : clips'[k] = IF k = i THEN c ELSE clips[k]
  BY <1>1, <1>2, ExceptSeq
<1>4. WithinLimits(clips')
  <2>1. \A k \in 1..Len(clips) :
           clips'[k].size = clips[k].size /\ clips'[k].caption \in {0, clips'[k].id}
    BY <1>1, <1>2, <1>3 DEF WithinLimits
  <2> QED
    BY <1>1, <1>3, <2>1, SameFilesWithinLimits
<1>5. Ids(clips') = Ids(clips)
  <2>1. \A k \in 1..Len(clips) : clips'[k].id = clips[k].id
    BY <1>2, <1>3
  <2> QED
    BY <1>1, <1>3, <2>1 DEF Ids
<1> QED
  BY <1>3, <1>4, <1>5, SameIdsKeep DEF UpdateClip

\* The captions that came back are laid over the list they were asked for, or over
\* the empty list a reset has left.
LEMMA CaptionedWithinLimits ==
    ASSUME NEW list, WithinLimits(list), list = asked.clips \/ list = <<>>
    PROVE  /\ WithinLimits(Captioned(list)) /\ Len(Captioned(list)) = Len(list)
           /\ Ids(Captioned(list)) = Ids(list)
           /\ ExpectedSeconds(Captioned(list)) = ExpectedSeconds(list)
<1> DEFINE new == Captioned(list)
<1>1. list \in Seq(Clip) /\ DOMAIN list = 1..Len(list) /\ Len(list) \in Nat
  BY IdsAre DEF WithinLimits
<1>2. new = [i \in 1..Len(list) |-> new[i]] /\ DOMAIN new = 1..Len(list)
  BY <1>1 DEF Captioned
<1>3. ASSUME NEW i \in 1..Len(list)
      PROVE  /\ new[i] \in Clip
             /\ new[i].size = list[i].size /\ new[i].id = list[i].id
             /\ new[i].seconds = list[i].seconds /\ new[i].caption = list[i].id
  <2>1. list[i] \in Clip /\ list[i].id \in 0..MaxFiles
    <3>1. list[i] \in Clip
      BY <1>1
    <3> QED
      BY <3>1, ClipsAssumption DEF Clip
  <2>2. list = asked.clips
    BY <1>1
  <2>3. new[i] = [list[i] EXCEPT !.caption = list[i].id]
    BY <1>1, <2>2 DEF Captioned
  <2> QED
    BY <2>1, <2>3 DEF Clip
<1> HIDE DEF new
<1>4. new \in Seq(Clip) /\ Len(new) = Len(list)
  BY <1>1, <1>2, <1>3
<1>5. Ids(new) = Ids(list)
  BY <1>1, <1>2, <1>3 DEF Ids
<1>6. ExpectedSeconds(new) = ExpectedSeconds(list)
  <2>1. Cuts(new) = Cuts(list)
    BY <1>1, <1>2, <1>3 DEF Cuts
  <2> QED
    BY <1>1, <1>4, <2>1, SizesOf
<1>7. WithinLimits(new)
  BY <1>1, <1>3, <1>4, SameFilesWithinLimits
<1> QED
  BY <1>4, <1>5, <1>6, <1>7 DEF new

\* The captions of the button arrive while nothing is made.
LEMMA ArriveKeeps == ASSUME ClipsInv, CaptionsArrive, ListInv' PROVE ClipsInv'
<1>1. WithinLimits(clips) /\ sent = <<>> /\ (clips = asked.clips \/ clips = <<>>)
  BY DEF ClipsInv, ListInv, AskedAsShown, OneAtATime, CaptionsArrive
<1>2. WithinLimits(clips') /\ Ids(clips') = Ids(clips)
  BY <1>1, CaptionedWithinLimits DEF CaptionsArrive
<1>3. asked' = NotAsked /\ dropped' = FALSE /\ UNCHANGED <<active, files, sent, job, resets>>
  BY DEF CaptionsArrive
<1>4. DrawerOnList'
  BY <1>2, <1>3 DEF ClipsInv, DrawerOnList, Ids
<1>5. CallsOK' /\ CheckedAtButton'
  BY <1>1, <1>3 DEF ClipsInv, CallsOK, CheckedAtButton, NotAsked
<1>6. WithinLimits(clips)'
  BY <1>2 DEF WithinLimits, TotalSize
<1> QED
  BY <1>4, <1>5, <1>6 DEF ClipsInv

\* What the button of the video lets through.
LEMMA OfferedIsChecked == ASSUME ClipsInv, GenerateOffered PROVE Checked(clips)
<1>1. ~(ExpectedSeconds(clips) > MaxSeconds) /\ Len(clips) >= MinClips
  BY DEF GenerateOffered, OverLength
<1>2. ExpectedSeconds(clips) \in Nat /\ MaxSeconds \in Nat
  BY SizesOf, ClipsAssumption DEF ClipsInv, WithinLimits
<1> QED
  BY <1>1, <1>2 DEF ClipsInv, Checked

\* A question is put, about captions alone or before the video.
LEMMA AskedKeeps ==
    ASSUME ClipsInv, ~Busy, NEW who \in {"button", "submit"}, Ask(who),
           who = "submit" => GenerateOffered
    PROVE  ClipsInv'
<1>1. ListInv'
  BY AskKeeps
<1>2. /\ asked'.by = who /\ asked'.clips = clips /\ sent = <<>>
      /\ UNCHANGED <<clips, active, files, sent, screen>>
  BY DEF Ask, Busy
<1>3. CheckedAtButton'
  <2>1. who = "submit" => Checked(clips)
    BY OfferedIsChecked
  <2>2. Checked(asked.clips)' <=> Checked(clips)
    BY <1>2 DEF Checked, WithinLimits, TotalSize, ExpectedSeconds
  <2> QED
    BY <1>2, <2>1, <2>2 DEF CheckedAtButton
<1>4. WithinLimits(clips)'
  BY <1>2 DEF ClipsInv, WithinLimits, TotalSize
<1>5. CallsOK' /\ DrawerOnList'
  BY <1>2 DEF ClipsInv, CallsOK, DrawerOnList, Ids, WithinLimits, screen
<1> QED
  BY <1>1, <1>3, <1>4, <1>5 DEF ClipsInv

\* The job is made from a list that was checked at the button.
LEMMA SentKeeps ==
    ASSUME ClipsInv, ListInv', WithinLimits(clips'), active \in Ids(clips') \union {0},
           NEW list, Checked(list), Send(list), UNCHANGED <<active, files>>
    PROVE  ClipsInv'
<1>1. sent' = list /\ asked' = NotAsked /\ job' = "none" /\ UNCHANGED <<resets, dropped>>
  BY DEF Send
<1>2. list \in Seq(Clip)
  BY DEF Checked, WithinLimits
<1>3. CallsOK'
  <2>1. asked'.by = "nobody" /\ asked'.clips = <<>> /\ <<>> \in Seq(Clip)
    BY <1>1 DEF NotAsked
  <2> QED
    BY <1>1, <1>2, <2>1 DEF ClipsInv, CallsOK
<1>4. CheckedAtButton'
  <2>1. asked'.by = "nobody"
    BY <1>1 DEF NotAsked
  <2>2. Checked(sent)' <=> Checked(list)
    BY <1>1 DEF Checked, WithinLimits, TotalSize, ExpectedSeconds
  <2> QED
    BY <2>1, <2>2 DEF CheckedAtButton
<1>5. DrawerOnList'
  BY DEF DrawerOnList, Ids
<1>6. WithinLimits(clips)'
  BY DEF WithinLimits, TotalSize
<1> QED
  BY <1>3, <1>4, <1>5, <1>6 DEF ClipsInv

\* The button of the video.
LEMMA SubmitKeeps == ASSUME ClipsInv, Submit, ListInv' PROVE ClipsInv'
<1>1. ~Busy /\ GenerateOffered
  BY DEF Submit, GenerateOffered
<1>2. CASE Ask("submit")
  BY <1>1, <1>2, AskedKeeps
<1>3. CASE Send(clips) /\ UNCHANGED <<clips, active, files>>
  <2>1. WithinLimits(clips') /\ active \in Ids(clips') \union {0} /\ Checked(clips)
    BY <1>1, <1>3, OfferedIsChecked DEF ClipsInv, DrawerOnList
  <2> QED
    BY <1>3, <2>1, SentKeeps
<1> QED
  BY <1>2, <1>3 DEF Submit

\* The captions of a submission, or their failure, and the job after them; the
\* captions bring the list back if a reset has taken it away.
LEMMA GoesOnKeeps == ASSUME ClipsInv, SubmitGoesOn, ListInv' PROVE ClipsInv'
<1>1. /\ Checked(asked.clips) /\ UNCHANGED <<active, files>>
      /\ WithinLimits(asked.clips)
      /\ asked.clips = clips \/ clips = <<>>
  BY DEF ClipsInv, ListInv, AskedAsShown, CheckedAtButton, SubmitGoesOn, Checked
<1>2. CASE clips' = Captioned(asked.clips) /\ Send(clips')
  <2>1. /\ WithinLimits(clips') /\ Len(clips') = Len(asked.clips)
        /\ Ids(clips') = Ids(asked.clips)
        /\ ExpectedSeconds(clips') = ExpectedSeconds(asked.clips)
    BY <1>1, <1>2, CaptionedWithinLimits
  <2>2. Checked(clips')
    BY <1>1, <2>1 DEF Checked
  <2>3. active \in Ids(clips') \union {0}
    <3>1. Ids(<<>>) = {}
      BY DEF Ids
    <3> QED
      BY <1>1, <2>1, <3>1 DEF ClipsInv, DrawerOnList
  <2> QED
    BY <1>1, <1>2, <2>1, <2>2, <2>3, SentKeeps
<1>3. CASE clips' = clips /\ Send(asked.clips)
  <2>1. WithinLimits(clips') /\ active \in Ids(clips') \union {0}
    BY <1>3 DEF ClipsInv, DrawerOnList
  <2> QED
    BY <1>1, <1>3, <2>1, SentKeeps
<1> QED
  BY <1>2, <1>3 DEF SubmitGoesOn

\* The screen starts with an empty list.
LEMMA ClipsInvInit == ClipsInit => ClipsInv
<1> SUFFICES ASSUME ClipsInit PROVE ClipsInv
  OBVIOUS
<1>1. ListInv /\ clips = <<>> /\ clips \in Seq(Clip) /\ Len(clips) = 0
  BY ListInit DEF ClipsInit
<1>2. TotalSize(clips) = 0
  <2>1. Sizes(clips) = <<>>
    BY <1>1 DEF Sizes
  <2> QED
    BY <1>1, <2>1, SizesOf, TotalOfOne
<1>3. WithinLimits(clips)
  BY <1>1, <1>2, ClipsAssumption DEF WithinLimits
<1>4. CallsOK
  <2>1. /\ asked.by = "nobody" /\ asked.clips = <<>> /\ <<>> \in Seq(Clip)
        /\ sent = <<>> /\ files = 0 /\ 0 \in 0..MaxFiles
        /\ job = "none" /\ resets = 0 /\ dropped = FALSE /\ 0 \in 0..MaxResets
    BY ClipsAssumption DEF ClipsInit, NotAsked
  <2> QED
    BY <2>1 DEF CallsOK
<1>5. DrawerOnList /\ CheckedAtButton
  BY DEF ClipsInit, NotAsked, DrawerOnList, CheckedAtButton
<1> QED
  BY <1>1, <1>3, <1>4, <1>5 DEF ClipsInv

\* ClipsInv is inductive.
LEMMA ClipsInvStep == ClipsInv /\ [ClipsNext]_clipVars => ClipsInv'
<1> SUFFICES ASSUME ClipsInv, [ClipsNext]_clipVars PROVE ClipsInv'
  OBVIOUS
<1>1. ListInv'
  BY ListStep DEF ClipsInv
<1>2. ASSUME NEW n \in 1..MaxFiles, NEW chosen \in [1..n -> FileSizes], AddFiles(chosen)
      PROVE  ClipsInv'
  BY <1>2, AddKeeps
<1>3. CASE SwapBoundaryClips \/ \E i, j \in 1..MaxFiles : MoveClip(i, j)
  BY <1>3, SwapKeeps
<1>4. CASE \E i \in 1..MaxFiles : RemoveClip(i) \/ OpenClip(i)
  BY <1>4, RemoveKeeps, OpenKeeps
<1>5. CASE UpdateClip
  BY <1>5, UpdateKeeps
<1>6. CASE GenerateCaptions
  BY <1>6, AskedKeeps DEF GenerateCaptions
<1>7. CASE CaptionsArrive
  BY <1>1, <1>7, ArriveKeeps
<1>8. CASE Submit
  BY <1>1, <1>8, SubmitKeeps
<1>9. CASE SubmitGoesOn
  BY <1>1, <1>9, GoesOnKeeps
<1>10. CASE JobShown \/ MakingEnds \/ PressClipsReset
  <2>1. /\ sent' \in {sent, <<>>} /\ UNCHANGED <<clips, active, files, asked>>
        /\ job' \in {"none", "rendering", "completed"}
        /\ resets' \in 0..MaxResets /\ dropped' \in BOOLEAN
    <3>1. resets \in 0..MaxResets /\ MaxResets \in Nat /\ dropped \in BOOLEAN
          /\ job \in {"none", "rendering", "completed"}
      BY ClipsAssumption DEF ClipsInv, CallsOK
    <3>2. CASE JobShown
      BY <3>1, <3>2 DEF JobShown
    <3>3. CASE MakingEnds
      BY <3>1, <3>3 DEF MakingEnds
    <3>4. CASE PressClipsReset
      BY <3>1, <3>4 DEF PressClipsReset
    <3> QED
      BY <1>10, <3>2, <3>3, <3>4
  <2>2. WithinLimits(clips)' /\ DrawerOnList'
    BY <2>1 DEF ClipsInv, WithinLimits, TotalSize, DrawerOnList, Ids
  <2>3. CallsOK'
    <3>1. <<>> \in Seq(Clip)
      OBVIOUS
    <3> QED
      BY <2>1, <3>1 DEF ClipsInv, CallsOK
  <2>4. CheckedAtButton'
    BY <2>1 DEF ClipsInv, CheckedAtButton, Checked, WithinLimits, TotalSize, ExpectedSeconds
  <2> QED
    BY <1>1, <2>2, <2>3, <2>4 DEF ClipsInv
<1>11. CASE ClipsResetArrives
  <2>1. /\ clips' = <<>> /\ active' = 0 /\ job' = "none" /\ sent' \in {sent, <<>>}
        /\ UNCHANGED <<files, asked>>
        /\ resets' \in 0..MaxResets /\ dropped' \in BOOLEAN
    BY <1>11, ClipsAssumption DEF ClipsResetArrives, ClipsInv, CallsOK
  <2>2. /\ clips' \in Seq(Clip) /\ Len(clips') = 0
        /\ Sizes(clips') = <<>>
    BY <2>1 DEF Sizes
  <2>3. TotalSize(clips') = 0
    BY <2>2, SizesOf, TotalOfOne
  <2>4. WithinLimits(clips)'
    <3>1. TotalSize(clips)' = TotalSize(clips')
      BY DEF TotalSize
    <3> QED
      BY <2>1, <2>2, <2>3, <3>1, ClipsAssumption DEF WithinLimits
  <2>5. DrawerOnList'
    BY <2>1 DEF DrawerOnList
  <2>6. CallsOK'
    <3>1. <<>> \in Seq(Clip)
      OBVIOUS
    <3> QED
      BY <2>1, <3>1 DEF ClipsInv, CallsOK
  <2>7. CheckedAtButton'
    BY <2>1 DEF ClipsInv, CheckedAtButton, Checked, WithinLimits, TotalSize, ExpectedSeconds
  <2> QED
    BY <1>1, <2>4, <2>5, <2>6, <2>7 DEF ClipsInv
<1>12. CASE UNCHANGED clipVars
  <2>1. UNCHANGED <<clips, active, files, asked, sent, job, resets, dropped>>
    BY <1>12 DEF clipVars
  <2>2. WithinLimits(clips)' /\ DrawerOnList' /\ CallsOK' /\ CheckedAtButton'
    BY <2>1 DEF ClipsInv, WithinLimits, TotalSize, DrawerOnList, Ids, CallsOK,
                CheckedAtButton, Checked, ExpectedSeconds
  <2> QED
    BY <1>1, <2>2 DEF ClipsInv
<1> QED
  BY <1>2, <1>3, <1>4, <1>5, <1>6, <1>7, <1>8, <1>9, <1>10, <1>11, <1>12 DEF ClipsNext

\* Type correctness of the clip list: every clip in it, and in the two calls that
\* read it, is one the screen can make, and the drawer is on a clip of the list or
\* on none (removeClip, addFiles, reset).
THEOREM ClipsTypeCorrect == ClipsSpec => []ClipsTypeOK
<1>1. ClipsInv => ClipsTypeOK
  BY DEF ClipsInv, WithinLimits, CallsOK, DrawerOnList, ClipsTypeOK
<1> QED
  BY <1>1, ClipsInvInit, ClipsInvStep, PTL DEF ClipsSpec

\* A caption the AI wrote is on the clip it was written for: the answer is laid
\* over the list by place, and the list is the one the question was asked about
\* (generateCaptions, submitDraft).
THEOREM CaptionsAlwaysFollow == ClipsSpec => []CaptionsFollowClips
<1>1. ClipsInv => CaptionsFollowClips
  BY IdsAre DEF ClipsInv, WithinLimits, CaptionsFollowClips
<1> QED
  BY <1>1, ClipsInvInit, ClipsInvStep, PTL DEF ClipsSpec

\* What the page submits keeps every limit of the service, for any files and any
\* limits: counted file by file at the upload (addFiles), over the whole list at
\* the button (GenerateOffered), and not disturbed by captions that come between.
THEOREM EverySubmissionAccepted == ClipsSpec => []ReadyIsAccepted
<1>1. ClipsInv => ReadyIsAccepted
  <2> SUFFICES ASSUME ClipsInv, sent # <<>> PROVE ServerAccepts(sent)
    BY DEF ReadyIsAccepted
  <2>1. Checked(sent) /\ WithinLimits(sent) /\ sent \in Seq(Clip)
    BY DEF ClipsInv, CheckedAtButton, Checked, WithinLimits
  <2>2. DOMAIN sent = 1..Len(sent) /\ Len(sent) \in Nat
    BY <2>1, IdsAre
  <2>3. Len(sent) \in MinClips..MaxClips /\ ExpectedSeconds(sent) <= MaxSeconds
    BY <2>1, <2>2, ClipsAssumption DEF Checked, WithinLimits
  <2>4. ASSUME NEW i \in 1..Len(sent)
        PROVE  sent[i].size <= MaxFileSize /\ sent[i].seconds <= LongCutSeconds
    <3>1. sent[i] \in Clip
      BY <2>1
    <3>2. sent[i].seconds \in {CutSeconds, LongCutSeconds}
      BY <3>1 DEF Clip
    <3> QED
      BY <2>1, <3>2 DEF WithinLimits, CutSeconds, LongCutSeconds
  <2> QED
    BY <2>1, <2>2, <2>3, <2>4 DEF ServerAccepts, WithinLimits
<1> QED
  BY <1>1, ClipsInvInit, ClipsInvStep, PTL DEF ClipsSpec

=============================================================================
