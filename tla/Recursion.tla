------------------------------ MODULE Recursion ------------------------------
(***************************************************************************)
(* Induction and recursion over the natural numbers, in a first-order form *)
(* that the provers can instantiate.                                       *)
(*                                                                         *)
(* A loop of the code that runs over a list is a recursive function of the *)
(* positions of the list, f[n] from f[n - 1].  What such a definition      *)
(* stands for is the function that Recursion finds, and it has the values  *)
(* the definition says.  A property is the set of the numbers that have    *)
(* it, and the step is a function, so that no fact here has an operator as *)
(* a parameter.                                                            *)
(***************************************************************************)
EXTENDS Naturals, WellFoundedInduction, TLAPS

\* What holds for 0 and passes from n to n + 1 holds for every number.
LEMMA Induction ==
    ASSUME NEW P, P \subseteq Nat, 0 \in P, \A n \in P : n + 1 \in P
    PROVE  P = Nat
<1> DEFINE R == {p \in Nat \X Nat : p[1] < p[2]}
           D == Nat \ P
<1> SUFFICES ASSUME D # {}  PROVE FALSE
  OBVIOUS
<1>1. IsWellFoundedOn(R, Nat)
  BY NatLessThanWellFounded DEF OpToRel
<1>2. PICK m \in D : \A n \in D : <<n, m>> \notin R
  <2> HIDE DEF R
  <2> QED
    BY <1>1, WFMin
<1>3. m \in Nat /\ m # 0
  OBVIOUS
<1>4. m - 1 \in Nat /\ m - 1 < m
  BY <1>3
<1>5. m - 1 \in P
  BY <1>2, <1>3, <1>4
<1>6. (m - 1) + 1 \in P
  BY <1>5
<1> QED
  BY <1>3, <1>6

\* The same up to N, the length of a list.
LEMMA InductionUpTo ==
    ASSUME NEW N \in Nat, NEW P, 0 \in P, \A n \in 1..N : n - 1 \in P => n \in P
    PROVE  0..N \subseteq P
<1> DEFINE Q == {n \in Nat : n <= N => n \in P}
<1>1. Q \subseteq Nat /\ 0 \in Q
  OBVIOUS
<1>2. ASSUME NEW n \in Q  PROVE n + 1 \in Q
  <2>1. n \in Nat /\ (n <= N => n \in P) /\ n + 1 \in Nat /\ (n + 1) - 1 = n
    OBVIOUS
  <2>2. n + 1 <= N => n <= N /\ n + 1 \in 1..N
    BY <2>1
  <2>3. n + 1 <= N => n + 1 \in P
    BY <2>1, <2>2
  <2> QED
    BY <2>1, <2>3
<1>3. Q = Nat
  <2> HIDE DEF Q
  <2> QED
    BY <1>1, <1>2, Induction
<1>4. ASSUME NEW n \in 0..N  PROVE n \in P
  <2>1. n \in Q
    BY <1>3
  <2> QED
    BY <2>1
<1> QED
  BY <1>4

-----------------------------------------------------------------------------

\* f starts as base says and goes on as step says, up to N.
Unfolds(f, N, base, step) ==
    /\ f[0] = base
    /\ \A n \in 1..N : f[n] = step[n][f[n - 1]]

\* One more value.
LEMMA RecursionStep ==
    ASSUME NEW m \in Nat, NEW S, NEW base \in S, NEW step,
           \A x \in S : step[m + 1][x] \in S,
           NEW f \in [0..m -> S], Unfolds(f, m, base, step)
    PROVE  \E g \in [0..(m + 1) -> S] : Unfolds(g, m + 1, base, step)
<1> DEFINE g == [n \in 0..(m + 1) |-> IF n = m + 1 THEN step[m + 1][f[m]] ELSE f[n]]
<1>1. f[m] \in S
  OBVIOUS
<1>2. step[m + 1][f[m]] \in S
  BY <1>1
<1>3. g \in [0..(m + 1) -> S]
  BY <1>2
<1>4. g[0] = base
  BY DEF Unfolds
<1>5. ASSUME NEW n \in 1..(m + 1)  PROVE g[n] = step[n][g[n - 1]]
  <2>1. CASE n = m + 1
    <3>1. g[n] = step[n][f[m]] /\ g[n - 1] = f[m]
      BY <2>1
    <3> QED
      BY <3>1
  <2>2. CASE n # m + 1
    <3>1. n \in 1..m /\ g[n] = f[n] /\ g[n - 1] = f[n - 1]
      BY <2>2
    <3> HIDE DEF g
    <3> QED
      BY <3>1 DEF Unfolds
  <2> QED
    BY <2>1, <2>2
<1> HIDE DEF g
<1> QED
  BY <1>3, <1>4, <1>5 DEF Unfolds

\* A step that stays in S has its function.
LEMMA Recursion ==
    ASSUME NEW N \in Nat, NEW S, NEW base \in S, NEW step,
           \A x \in S, n \in 1..N : step[n][x] \in S
    PROVE  \E f \in [0..N -> S] : Unfolds(f, N, base, step)
<1> DEFINE P == {m \in Nat : m <= N => \E f \in [0..m -> S] : Unfolds(f, m, base, step)}
<1>1. 0 \in P
  <2>1. [n \in 0..0 |-> base] \in [0..0 -> S]
    OBVIOUS
  <2>2. Unfolds([n \in 0..0 |-> base], 0, base, step)
    BY DEF Unfolds
  <2> QED
    BY <2>1, <2>2
<1>2. ASSUME NEW m \in P  PROVE m + 1 \in P
  <2>1. m \in Nat /\ m + 1 \in Nat
    OBVIOUS
  <2>2. ASSUME m + 1 <= N  PROVE \E f \in [0..(m + 1) -> S] : Unfolds(f, m + 1, base, step)
    <3>1. m <= N /\ m + 1 \in 1..N
      <4> HIDE DEF P
      <4> QED
        BY <2>1, <2>2
    <3>2. PICK f \in [0..m -> S] : Unfolds(f, m, base, step)
      BY <3>1
    <3> HIDE DEF P
    <3> QED
      BY <2>1, <3>1, <3>2, RecursionStep
  <2> QED
    BY <2>1, <2>2
<1>3. P = Nat
  <2>1. P \subseteq Nat
    OBVIOUS
  <2> HIDE DEF P
  <2> QED
    BY <1>1, <1>2, <2>1, Induction
<1>4. N \in P
  BY <1>3
<1> QED
  BY <1>4

\* A function that starts as f does, and goes on as f does from where they agree.
Follows(g, f, N, base, step) ==
    /\ g[0] = base
    /\ \A n \in 1..N : g[n - 1] = f[n - 1] => g[n] = step[n][f[n - 1]]

\* There is no other: what starts and goes on alike has the same values.
LEMMA RecursionAgrees ==
    ASSUME NEW N \in Nat, NEW base, NEW step, NEW f, Unfolds(f, N, base, step),
           NEW g, Follows(g, f, N, base, step)
    PROVE  \A n \in 0..N : g[n] = f[n]
<1> DEFINE P == {n \in 0..N : g[n] = f[n]}
<1>1. 0 \in P
  BY DEF Unfolds, Follows
<1>2. ASSUME NEW n \in 1..N, n - 1 \in P  PROVE n \in P
  <2>1. g[n - 1] = f[n - 1]
    BY <1>2
  <2>2. g[n] = f[n]
    BY <2>1 DEF Unfolds, Follows
  <2> QED
    BY <2>2
<1>3. 0..N \subseteq P
  <2> HIDE DEF P
  <2> QED
    BY <1>1, <1>2, InductionUpTo
<1> QED
  BY <1>3

=============================================================================
