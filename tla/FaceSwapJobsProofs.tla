------------------------- MODULE FaceSwapJobsProofs -------------------------
(***************************************************************************)
(* Theorems about FaceSwapJobs, for any number of jobs, of request threads *)
(* and of restarts: type correctness, then what becomes of a job once it   *)
(* is created.                                                             *)
(*                                                                         *)
(* SchedInv: no client polls a job that nobody will settle. RunInv: the    *)
(* worker has in hand a job that came through the queue, with the error    *)
(* its session has loaded; so a photo without a face never runs, and what  *)
(* is completed has its results and no error. PendingMatchesQueue counts,  *)
(* and is inductive as it stands: the lemmas on Occurrences say how often  *)
(* a job is in a sequence after an Append, a Tail and a removal.           *)
(* FirstInv: a job that no retry has touched is waited for once and runs   *)
(* once, so that what a deletion has seen to be over stays over.           *)
(***************************************************************************)
EXTENDS FaceSwapJobs, SequenceTheorems, FiniteSetTheorems, WellFoundedInduction, TLAPS

-----------------------------------------------------------------------------
(* Type correctness                                                          *)

RowsOK == db \in [Jobs -> Row]

\* A thread that is past its lookup holds a job.
ThreadsOK ==
    /\ act \in [Threads -> ThreadState]
    /\ \A t \in Threads : act[t].pc \notin {"idle", "next"} => act[t].job \in Jobs

\* So does a worker that is not idle.
WorkerOK ==
    /\ wk \in [pc : {"idle", "load", "start", "read", "open", "run", "fail", "done"},
               job : Jobs \cup {NoJob}, error : {"none"} \cup Errors, left : SUBSET Ratios]
    /\ wk.pc # "idle" => wk.job \in Jobs

OthersOK ==
    /\ phase \in {"recover", "clean", "up"}
    /\ crashes \in Nat
    /\ files \in [Jobs -> SUBSET ({"dir", "source"} \cup Ratios)]
    /\ expired \subseteq Jobs
    /\ photo \in [Jobs -> {"unread", "good", "faceless", "corrupt"}]
    /\ crt \in [Jobs -> {"none", "read", "done", "error"} \cup Creating]
    /\ pending \in Seq(Jobs)
    /\ queue \in Seq(Jobs)

TypeInv == RowsOK /\ ThreadsOK /\ WorkerOK /\ OthersOK

\* list.remove takes one occurrence out and leaves the rest in order.
LEMMA RemoveFirstAt ==
    ASSUME NEW s \in Seq(Jobs), NEW j, \E i \in 1..Len(s) : s[i] = j
    PROVE  \E m \in 1..Len(s) :
             /\ s[m] = j
             /\ RemoveFirst(s, j) = SubSeq(s, 1, m - 1) \o SubSeq(s, m + 1, Len(s))
<1> DEFINE I == {i \in 1..Len(s) : s[i] = j}
           k == Min(I)
<1>1. I # {} /\ I \subseteq Nat
  OBVIOUS
<1>2. \E m \in I : \A n \in I : m <= n
  <2> DEFINE R == {p \in Nat \X Nat : p[1] < p[2]}
  <2>1. IsWellFoundedOn(R, Nat)
    BY NatLessThanWellFounded DEF OpToRel
  <2>2. \E m \in I : \A n \in I : <<n, m>> \notin R
    <3> HIDE DEF I, R
    <3> QED  BY <1>1, <2>1, WFMin
  <2>3. ASSUME NEW m \in I, NEW n \in I, <<n, m>> \notin R  PROVE m <= n
    <3>1. m \in Nat /\ n \in Nat
      BY <1>1, <2>3
    <3>2. ~(n < m)
      BY <2>3, <3>1
    <3> HIDE DEF I, R
    <3> QED  BY <3>1, <3>2
  <2> HIDE DEF I, R
  <2> QED
    BY <2>2, <2>3
<1>3. k \in I
  <2> HIDE DEF I
  <2> QED  BY <1>2 DEF Min
<1>4. RemoveFirst(s, j) = SubSeq(s, 1, k - 1) \o SubSeq(s, k + 1, Len(s))
  BY <1>1 DEF RemoveFirst, RemoveAt, SelectInSeq
<1> QED
  BY <1>3, <1>4

\* What is left is one shorter and shifted down behind the gap.
LEMMA RemoveAtProperties ==
    ASSUME NEW s \in Seq(Jobs), NEW m \in 1..Len(s)
    PROVE  LET t == SubSeq(s, 1, m - 1) \o SubSeq(s, m + 1, Len(s)) IN
           /\ t \in Seq(Jobs)
           /\ Len(t) = Len(s) - 1
           /\ \A i \in 1..Len(t) : t[i] = IF i < m THEN s[i] ELSE s[i + 1]
<1> DEFINE a == SubSeq(s, 1, m - 1)
           b == SubSeq(s, m + 1, Len(s))
<1>1. Len(s) \in Nat /\ \A i \in 1..Len(s) : s[i] \in Jobs
  OBVIOUS
<1>2. a \in Seq(Jobs) /\ Len(a) = m - 1 /\ \A i \in 1..(m - 1) : a[i] = s[i]
  BY <1>1, SubSeqProperties
<1>3. b \in Seq(Jobs) /\ Len(b) = Len(s) - m /\ \A i \in 1..(Len(s) - m) : b[i] = s[m + i]
  BY <1>1, SubSeqProperties
<1> HIDE DEF a, b
<1>4. a \o b \in Seq(Jobs) /\ Len(a \o b) = Len(s) - 1
  <2>1. a \o b \in Seq(Jobs) /\ Len(a \o b) = Len(a) + Len(b)
    BY <1>2, <1>3, ConcatProperties
  <2>2. (m - 1) + (Len(s) - m) = Len(s) - 1
    BY <1>1
  <2> QED
    BY <1>2, <1>3, <2>1, <2>2
<1>5. ASSUME NEW i \in 1..(Len(s) - 1)  PROVE (a \o b)[i] = IF i < m THEN s[i] ELSE s[i + 1]
  <2>1. CASE i < m
    BY <1>1, <1>2, <1>3, <2>1, ConcatProperties
  <2>2. CASE ~(i < m)
    <3>1. i - (m - 1) \in 1..(Len(s) - m) /\ m + (i - (m - 1)) = i + 1
      BY <1>1, <2>2
    <3>2. (a \o b)[i] = b[i - (m - 1)]
      BY <1>1, <1>2, <1>3, <2>2, <3>1, ConcatProperties
    <3> QED
      BY <1>3, <2>2, <3>1, <3>2
  <2> QED
    BY <2>1, <2>2
<1> QED
  BY <1>4, <1>5 DEF a, b

\* list.remove leaves a list of job ids.
LEMMA RemoveFirstType ==
    ASSUME NEW s \in Seq(Jobs), NEW j
    PROVE  RemoveFirst(s, j) \in Seq(Jobs)
<1>1. CASE ~\E i \in 1..Len(s) : s[i] = j
  BY <1>1 DEF RemoveFirst
<1>2. CASE \E i \in 1..Len(s) : s[i] = j
  <2> PICK m \in 1..Len(s) :
             RemoveFirst(s, j) = SubSeq(s, 1, m - 1) \o SubSeq(s, m + 1, Len(s))
    BY <1>2, RemoveFirstAt
  <2> DEFINE t == SubSeq(s, 1, m - 1) \o SubSeq(s, m + 1, Len(s))
  <2>1. t \in Seq(Jobs)
    BY RemoveAtProperties
  <2> HIDE DEF t
  <2> QED
    BY <2>1 DEF t
<1> QED
  BY <1>1, <1>2

\* A thread that moves on, with a job in hand.
LEMMA ThreadMoves ==
    ASSUME ThreadsOK, NEW t \in Threads, NEW s \in ThreadState,
           s.pc \notin {"idle", "next"} => s.job \in Jobs,
           act' = [act EXCEPT ![t] = s]
    PROVE  ThreadsOK'
  BY DEF ThreadsOK

\* The empty service is well typed.
LEMMA TypeInit == Init => TypeInv
<1> SUFFICES ASSUME Init  PROVE TypeInv
  OBVIOUS
<1>1. RowsOK
  BY DEF Init, RowsOK, NoRow, Row
<1>2. ThreadsOK
  BY DEF Init, ThreadsOK, ThreadState, Idle
<1>3. WorkerOK
  BY DEF Init, WorkerOK, IdleWorker
<1>4. OthersOK
  BY DEF Init, OthersOK
<1> QED
  BY <1>1, <1>2, <1>3, <1>4 DEF TypeInv

\* So is what any step of it leads to; one case per action.
LEMMA TypeStep == TypeInv /\ [Next]_vars => TypeInv'
<1> SUFFICES ASSUME TypeInv, [Next]_vars  PROVE TypeInv'
  OBVIOUS
<1> USE ActorsAssumption DEF TypeInv
<1>1. ASSUME Crash  PROVE TypeInv'
  <2>1. ThreadsOK'
    BY <1>1 DEF Crash, ThreadsOK, Threads, ThreadState, Idle
  <2>2. WorkerOK'
    BY <1>1 DEF Crash, WorkerOK, IdleWorker
  <2>3. OthersOK'
    BY <1>1 DEF Crash, OthersOK, Creating
  <2>4. RowsOK'
    BY <1>1 DEF Crash, RowsOK
  <2> QED
    BY <2>1, <2>2, <2>3, <2>4 DEF TypeInv
<1>2. ASSUME RecoverDone  PROVE TypeInv'
  <2>1. ThreadsOK'
    BY <1>2 DEF RecoverDone, ThreadsOK, Threads, ThreadState, Query, Idle, Cleaners
  <2>2. OthersOK'
    BY <1>2 DEF RecoverDone, OthersOK
  <2>3. RowsOK' /\ WorkerOK'
    BY <1>2 DEF RecoverDone, RowsOK, WorkerOK
  <2> QED
    BY <2>1, <2>2, <2>3 DEF TypeInv
<1>3. ASSUME NEW j \in Jobs, RecoverStaleJob(j)  PROVE TypeInv'
  <2>1. RowsOK'
    <3>1. db[j] \in Row
      BY DEF RowsOK
    <3>2. [db[j] EXCEPT !.status = "failed", !.error = "restarted"] \in Row
      BY <3>1 DEF Row, Terminal, Errors
    <3>3. db' = [db EXCEPT ![j] = [db[j] EXCEPT !.status = "failed", !.error = "restarted"]]
      BY <1>3 DEF RecoverStaleJob, RowsOK
    <3> QED
      BY <3>2, <3>3 DEF RowsOK
  <2>2. ThreadsOK' /\ WorkerOK' /\ OthersOK'
    BY <1>3 DEF RecoverStaleJob, ThreadsOK, WorkerOK, OthersOK
  <2> QED
    BY <2>1, <2>2 DEF TypeInv
<1>4. ASSUME StartPeriodicCleanup  PROVE TypeInv'
  <2>1. ThreadsOK'
    BY <1>4 DEF StartPeriodicCleanup, ThreadsOK, Threads, ThreadState, Query, Idle, Cleaners
  <2>2. RowsOK' /\ WorkerOK' /\ OthersOK'
    BY <1>4 DEF StartPeriodicCleanup, RowsOK, WorkerOK, OthersOK
  <2> QED
    BY <2>1, <2>2 DEF TypeInv
<1>5. ASSUME NEW c \in Cleaners, CleanNext(c)  PROVE TypeInv'
  <2>1. ThreadsOK'
    BY <1>5 DEF CleanNext, ThreadsOK, Threads, ThreadState, Cleaners
  <2>2. RowsOK' /\ WorkerOK' /\ OthersOK'
    BY <1>5 DEF CleanNext, RowsOK, WorkerOK, OthersOK
  <2> QED
    BY <2>1, <2>2 DEF TypeInv
<1>6. ASSUME NEW c \in Cleaners, CleanNextGone(c)  PROVE TypeInv'
  <2>1. ThreadsOK'
    BY <1>6 DEF CleanNextGone, ThreadsOK, Threads, ThreadState, EndCleanup, Idle, Cleaners
  <2>2. OthersOK'
    BY <1>6 DEF CleanNextGone, OthersOK, EndCleanup, Creating
  <2>3. RowsOK' /\ WorkerOK'
    BY <1>6 DEF CleanNextGone, RowsOK, WorkerOK, EndCleanup
  <2> QED
    BY <2>1, <2>2, <2>3 DEF TypeInv
<1>7. ASSUME NEW c \in Cleaners, CleanDone(c)  PROVE TypeInv'
  <2>1. ThreadsOK'
    BY <1>7 DEF CleanDone, ThreadsOK, Threads, ThreadState, EndCleanup, Idle, Cleaners
  <2>2. OthersOK'
    BY <1>7 DEF CleanDone, OthersOK, EndCleanup, Creating
  <2>3. RowsOK' /\ WorkerOK'
    BY <1>7 DEF CleanDone, RowsOK, WorkerOK, EndCleanup
  <2> QED
    BY <2>1, <2>2, <2>3 DEF TypeInv
<1>8. ASSUME NEW c \in Cleaners, FilesFailedGone(c)  PROVE TypeInv'
  <2>1. ThreadsOK'
    BY <1>8 DEF FilesFailedGone, ThreadsOK, Threads, ThreadState, EndCleanup, Idle, Cleaners
  <2>2. OthersOK'
    BY <1>8 DEF FilesFailedGone, OthersOK, EndCleanup, Creating
  <2>3. RowsOK' /\ WorkerOK'
    BY <1>8 DEF FilesFailedGone, RowsOK, WorkerOK, EndCleanup
  <2> QED
    BY <2>1, <2>2, <2>3 DEF TypeInv
<1>9. ASSUME NEW t \in Threads, ListFiles(t)  PROVE TypeInv'
  <2>1. ThreadsOK'
    <3> DEFINE s == IF "dir" \in files[act[t].job]
                    THEN [act[t] EXCEPT !.pc = "unlink", !.left = files[act[t].job] \ {"dir"}]
                    ELSE [act[t] EXCEPT !.pc = "row"]
    <3>1. s \in ThreadState /\ (s.pc # "idle" => s.job \in Jobs)
      <4>1. act[t] \in ThreadState /\ act[t].job \in Jobs
        BY <1>9 DEF ListFiles, ThreadsOK
      <4>2. files[act[t].job] \ {"dir"} \in SUBSET ({"source"} \cup Ratios)
        BY <4>1 DEF OthersOK
      <4> QED
        BY <4>1, <4>2 DEF ThreadState
    <3>2. act' = [act EXCEPT ![t] = s]
      BY <1>9 DEF ListFiles, ThreadsOK
    <3> HIDE DEF s
    <3> QED
      BY <3>1, <3>2, ThreadMoves DEF Threads
  <2>2. RowsOK' /\ WorkerOK' /\ OthersOK'
    BY <1>9 DEF ListFiles, RowsOK, WorkerOK, OthersOK
  <2> QED
    BY <2>1, <2>2 DEF TypeInv
<1>10. ASSUME NEW t \in Threads, Unlink(t)  PROVE TypeInv'
  <2>1. ThreadsOK'
    BY <1>10 DEF Unlink, ThreadsOK, Threads, ThreadState
  <2>2. OthersOK'
    BY <1>10 DEF Unlink, OthersOK
  <2>3. RowsOK' /\ WorkerOK'
    BY <1>10 DEF Unlink, RowsOK, WorkerOK
  <2> QED
    BY <2>1, <2>2, <2>3 DEF TypeInv
<1>11. ASSUME NEW t \in Threads, Rmdir(t)  PROVE TypeInv'
  <2>1. ThreadsOK'
    BY <1>11 DEF Rmdir, ThreadsOK, Threads, ThreadState
  <2>2. OthersOK'
    BY <1>11 DEF Rmdir, OthersOK
  <2>3. RowsOK' /\ WorkerOK'
    BY <1>11 DEF Rmdir, RowsOK, WorkerOK
  <2> QED
    BY <2>1, <2>2, <2>3 DEF TypeInv
<1>12. ASSUME NEW t \in Threads, DeleteRow(t)  PROVE TypeInv'
  <2>1. RowsOK'
    BY <1>12 DEF DeleteRow, RowsOK, Row, NoRow
  <2>2. ThreadsOK'
    BY <1>12 DEF DeleteRow, ThreadsOK, Threads, ThreadState, AfterJob, Idle
  <2>3. WorkerOK' /\ OthersOK'
    BY <1>12 DEF DeleteRow, WorkerOK, OthersOK
  <2> QED
    BY <2>1, <2>2, <2>3 DEF TypeInv
<1>13. ASSUME NEW t \in Threads, FilesFailed(t)  PROVE TypeInv'
  <2>1. ThreadsOK'
    BY <1>13 DEF FilesFailed, ThreadsOK, Threads, ThreadState, AfterJob, Idle
  <2>2. RowsOK' /\ WorkerOK' /\ OthersOK'
    BY <1>13 DEF FilesFailed, RowsOK, WorkerOK, OthersOK
  <2> QED
    BY <2>1, <2>2 DEF TypeInv
<1>14. ASSUME NEW j \in Jobs, CreateRequest(j)  PROVE TypeInv'
  <2>1. ThreadsOK'
    BY <1>14 DEF CreateRequest, ThreadsOK, Threads, ThreadState, Query, Idle, Cleaners
  <2>2. OthersOK'
    BY <1>14 DEF CreateRequest, OthersOK, Creating
  <2>3. RowsOK' /\ WorkerOK'
    BY <1>14 DEF CreateRequest, RowsOK, WorkerOK
  <2> QED
    BY <2>1, <2>2, <2>3 DEF TypeInv
<1>15. ASSUME NEW j \in Jobs, CreateInvalid(j)  PROVE TypeInv'
  <2>1. OthersOK'
    BY <1>15 DEF CreateInvalid, OthersOK, Creating
  <2>2. RowsOK' /\ ThreadsOK' /\ WorkerOK'
    BY <1>15 DEF CreateInvalid, RowsOK, ThreadsOK, WorkerOK
  <2> QED
    BY <2>1, <2>2 DEF TypeInv
<1>16. ASSUME NEW j \in Jobs, CreateRow(j)  PROVE TypeInv'
  <2>1. RowsOK'
    BY <1>16 DEF CreateRow, RowsOK, Row, NoRow, Live
  <2>2. OthersOK'
    BY <1>16 DEF CreateRow, OthersOK, Photos, Creating
  <2>3. ThreadsOK' /\ WorkerOK'
    BY <1>16 DEF CreateRow, ThreadsOK, WorkerOK
  <2> QED
    BY <2>1, <2>2, <2>3 DEF TypeInv
<1>17. ASSUME NEW j \in Jobs, CreateSaveSource(j)  PROVE TypeInv'
  <2>1. OthersOK'
    BY <1>17 DEF CreateSaveSource, OthersOK, Creating
  <2>2. RowsOK' /\ ThreadsOK' /\ WorkerOK'
    BY <1>17 DEF CreateSaveSource, RowsOK, ThreadsOK, WorkerOK
  <2> QED
    BY <2>1, <2>2 DEF TypeInv
<1>18. ASSUME NEW j \in Jobs, CreateMarkFailed(j)  PROVE TypeInv'
  <2>1. RowsOK'
    BY <1>18 DEF CreateMarkFailed, RowsOK, Row, Terminal, Errors
  <2>2. OthersOK'
    BY <1>18 DEF CreateMarkFailed, OthersOK, Creating
  <2>3. ThreadsOK' /\ WorkerOK'
    BY <1>18 DEF CreateMarkFailed, ThreadsOK, WorkerOK
  <2> QED
    BY <2>1, <2>2, <2>3 DEF TypeInv
<1>19. ASSUME NEW j \in Jobs, CreateAppend(j)  PROVE TypeInv'
  <2>1. OthersOK'
    BY <1>19 DEF CreateAppend, OthersOK, Creating
  <2>2. RowsOK' /\ ThreadsOK' /\ WorkerOK'
    BY <1>19 DEF CreateAppend, RowsOK, ThreadsOK, WorkerOK
  <2> QED
    BY <2>1, <2>2 DEF TypeInv
<1>20. ASSUME NEW j \in Jobs, CreatePut(j)  PROVE TypeInv'
  <2>1. OthersOK'
    BY <1>20 DEF CreatePut, OthersOK, Creating
  <2>2. RowsOK' /\ ThreadsOK' /\ WorkerOK'
    BY <1>20 DEF CreatePut, RowsOK, ThreadsOK, WorkerOK
  <2> QED
    BY <2>1, <2>2 DEF TypeInv
<1>21. ASSUME NEW j \in Jobs, Expire(j)  PROVE TypeInv'
  <2>1. OthersOK'
    BY <1>21 DEF Expire, OthersOK
  <2>2. RowsOK' /\ ThreadsOK' /\ WorkerOK'
    BY <1>21 DEF Expire, RowsOK, ThreadsOK, WorkerOK
  <2> QED
    BY <2>1, <2>2 DEF TypeInv
<1>22. ASSUME NEW r \in Requests, NEW j \in Jobs, LookupExpired(r, j)  PROVE TypeInv'
  <2>1. ThreadsOK'
    <3> DEFINE s == [act[r] EXCEPT !.pc = "list", !.job = j]
    <3>1. s \in ThreadState /\ (s.pc # "idle" => s.job \in Jobs)
      <4>1. act[r] \in ThreadState
        BY DEF ThreadsOK, Threads
      <4> QED
        BY <4>1 DEF ThreadState
    <3>2. act' = [act EXCEPT ![r] = s]
      BY <1>22 DEF LookupExpired, ThreadsOK
    <3> HIDE DEF s
    <3> QED
      BY <3>1, <3>2, ThreadMoves DEF Threads
  <2>2. RowsOK' /\ WorkerOK' /\ OthersOK'
    BY <1>22 DEF LookupExpired, RowsOK, WorkerOK, OthersOK
  <2> QED
    BY <2>1, <2>2 DEF TypeInv
<1>23. ASSUME NEW r \in Requests, NEW j \in Jobs, DeleteRead(r, j)  PROVE TypeInv'
  <2>1. ThreadsOK'
    <3> DEFINE s == [act[r] EXCEPT !.pc = "list", !.job = j]
    <3>1. s \in ThreadState /\ (s.pc # "idle" => s.job \in Jobs)
      <4>1. act[r] \in ThreadState
        BY DEF ThreadsOK, Threads
      <4> QED
        BY <4>1 DEF ThreadState
    <3>2. act' = [act EXCEPT ![r] = s]
      BY <1>23 DEF DeleteRead, ThreadsOK
    <3> HIDE DEF s
    <3> QED
      BY <3>1, <3>2, ThreadMoves DEF Threads
  <2>2. RowsOK' /\ WorkerOK' /\ OthersOK'
    BY <1>23 DEF DeleteRead, RowsOK, WorkerOK, OthersOK
  <2> QED
    BY <2>1, <2>2 DEF TypeInv
<1>24. ASSUME NEW r \in Requests, NEW j \in Jobs, ImageRead(r, j)  PROVE TypeInv'
  <2>1. ThreadsOK'
    <3> DEFINE s == [act[r] EXCEPT !.pc = "image", !.job = j]
    <3>1. s \in ThreadState /\ (s.pc # "idle" => s.job \in Jobs)
      <4>1. act[r] \in ThreadState
        BY DEF ThreadsOK, Threads
      <4> QED
        BY <4>1 DEF ThreadState
    <3>2. act' = [act EXCEPT ![r] = s]
      BY <1>24 DEF ImageRead, ThreadsOK
    <3> HIDE DEF s
    <3> QED
      BY <3>1, <3>2, ThreadMoves DEF Threads
  <2>2. RowsOK' /\ WorkerOK' /\ OthersOK'
    BY <1>24 DEF ImageRead, RowsOK, WorkerOK, OthersOK
  <2> QED
    BY <2>1, <2>2 DEF TypeInv
<1>25. ASSUME NEW r \in Requests, NEW j \in Jobs, RetryRead(r, j)  PROVE TypeInv'
  <2>1. ThreadsOK'
    <3> DEFINE s == [act[r] EXCEPT !.pc = "commit", !.job = j, !.attempt = db[j].attempt]
    <3>1. s \in ThreadState /\ (s.pc # "idle" => s.job \in Jobs)
      <4>1. act[r] \in ThreadState /\ db[j].attempt \in Nat
        BY DEF ThreadsOK, Threads, RowsOK, Row
      <4> QED
        BY <4>1 DEF ThreadState
    <3>2. act' = [act EXCEPT ![r] = s]
      BY <1>25 DEF RetryRead, ThreadsOK
    <3> HIDE DEF s
    <3> QED
      BY <3>1, <3>2, ThreadMoves DEF Threads
  <2>2. RowsOK' /\ WorkerOK' /\ OthersOK'
    BY <1>25 DEF RetryRead, RowsOK, WorkerOK, OthersOK
  <2> QED
    BY <2>1, <2>2 DEF TypeInv
<1>26. ASSUME NEW r \in Requests, ImagePath(r)  PROVE TypeInv'
  <2>1. ThreadsOK'
    BY <1>26 DEF ImagePath, ThreadsOK, Threads, ThreadState, Idle
  <2>2. OthersOK'
    BY <1>26 DEF ImagePath, OthersOK
  <2>3. RowsOK' /\ WorkerOK'
    BY <1>26 DEF ImagePath, RowsOK, WorkerOK
  <2> QED
    BY <2>1, <2>2, <2>3 DEF TypeInv
<1>27. ASSUME NEW r \in Requests, RetryCommit(r)  PROVE TypeInv'
  <2>1. RowsOK'
    BY <1>27 DEF RetryCommit, RowsOK, Row, Live
  <2>2. ThreadsOK'
    <3> DEFINE s == IF Exists(act[r].job) THEN [act[r] EXCEPT !.pc = "append"] ELSE Idle
    <3>1. s \in ThreadState /\ (s.pc # "idle" => s.job \in Jobs)
      BY <1>27 DEF RetryCommit, Idle, ThreadsOK, Threads, ThreadState
    <3>2. act' = [act EXCEPT ![r] = s]
      BY <1>27 DEF RetryCommit, ThreadsOK
    <3> HIDE DEF s
    <3> QED
      BY <3>1, <3>2, ThreadMoves DEF Threads
  <2>3. WorkerOK' /\ OthersOK'
    BY <1>27 DEF RetryCommit, WorkerOK, OthersOK
  <2> QED
    BY <2>1, <2>2, <2>3 DEF TypeInv
<1>28. ASSUME NEW r \in Requests, RetryAppend(r)  PROVE TypeInv'
  <2>1. ThreadsOK'
    BY <1>28 DEF RetryAppend, ThreadsOK, Threads, ThreadState
  <2>2. OthersOK'
    BY <1>28 DEF RetryAppend, OthersOK, ThreadsOK, Threads
  <2>3. RowsOK' /\ WorkerOK'
    BY <1>28 DEF RetryAppend, RowsOK, WorkerOK
  <2> QED
    BY <2>1, <2>2, <2>3 DEF TypeInv
<1>29. ASSUME NEW r \in Requests, RetryPut(r)  PROVE TypeInv'
  <2>1. ThreadsOK'
    BY <1>29 DEF RetryPut, ThreadsOK, Threads, ThreadState, Idle
  <2>2. OthersOK'
    BY <1>29 DEF RetryPut, OthersOK, ThreadsOK, Threads
  <2>3. RowsOK' /\ WorkerOK'
    BY <1>29 DEF RetryPut, RowsOK, WorkerOK
  <2> QED
    BY <2>1, <2>2, <2>3 DEF TypeInv
<1>30. ASSUME WorkerGet  PROVE TypeInv'
  <2>1. WorkerOK'
    <3>1. Head(queue) \in Jobs
      BY <1>30, HeadTailProperties DEF WorkerGet, OthersOK
    <3> QED
      BY <1>30, <3>1 DEF WorkerGet, WorkerOK, IdleWorker
  <2>2. OthersOK'
    BY <1>30 DEF WorkerGet, OthersOK
  <2>3. RowsOK' /\ ThreadsOK'
    BY <1>30 DEF WorkerGet, RowsOK, ThreadsOK
  <2> QED
    BY <2>1, <2>2, <2>3 DEF TypeInv
<1>31. ASSUME WorkerLoad  PROVE TypeInv'
  <2>1. WorkerOK'
    BY <1>31 DEF WorkerLoad, WorkerOK
  <2>2. RowsOK' /\ ThreadsOK' /\ OthersOK'
    BY <1>31 DEF WorkerLoad, RowsOK, ThreadsOK, OthersOK
  <2> QED
    BY <2>1, <2>2 DEF TypeInv
<1>32. ASSUME WorkerStart  PROVE TypeInv'
  <2>1. RowsOK'
    BY <1>32 DEF WorkerStart, RowsOK, Row, Live
  <2>2. WorkerOK'
    BY <1>32 DEF WorkerStart, WorkerOK
  <2>3. ThreadsOK' /\ OthersOK'
    BY <1>32 DEF WorkerStart, ThreadsOK, OthersOK
  <2> QED
    BY <2>1, <2>2, <2>3 DEF TypeInv
<1>33. ASSUME WorkerRead  PROVE TypeInv'
  <2>1. WorkerOK'
    BY <1>33 DEF WorkerRead, WorkerOK, RowsOK, Row
  <2>2. RowsOK' /\ ThreadsOK' /\ OthersOK'
    BY <1>33 DEF WorkerRead, RowsOK, ThreadsOK, OthersOK
  <2> QED
    BY <2>1, <2>2 DEF TypeInv
<1>34. ASSUME WorkerOpen  PROVE TypeInv'
  <2>1. WorkerOK'
    BY <1>34 DEF WorkerOpen, WorkerOK
  <2>2. OthersOK'
    <3>1. wk.job \in Jobs
      BY <1>34 DEF WorkerOpen, WorkerOK
    <3>2. CASE ImageGenEnabled
      <4>1. files' = [files EXCEPT ![wk.job] = @ \cup {"dir"}]
        BY <1>34, <3>2 DEF WorkerOpen
      <4> QED
        BY <1>34, <3>1, <4>1 DEF WorkerOpen, OthersOK
    <3>3. CASE ~ImageGenEnabled
      BY <1>34, <3>3 DEF WorkerOpen, OthersOK
    <3> QED
      BY <3>2, <3>3
  <2>3. RowsOK' /\ ThreadsOK'
    BY <1>34 DEF WorkerOpen, RowsOK, ThreadsOK
  <2> QED
    BY <2>1, <2>2, <2>3 DEF TypeInv
<1>35. ASSUME SaveResult  PROVE TypeInv'
  <2>1. WorkerOK'
    BY <1>35 DEF SaveResult, WorkerOK
  <2>2. OthersOK'
    BY <1>35 DEF SaveResult, OthersOK, WorkerOK
  <2>3. RowsOK' /\ ThreadsOK'
    BY <1>35 DEF SaveResult, RowsOK, ThreadsOK
  <2> QED
    BY <2>1, <2>2, <2>3 DEF TypeInv
<1>36. ASSUME WorkerRaise  PROVE TypeInv'
  <2>1. WorkerOK'
    BY <1>36 DEF WorkerRaise, WorkerOK
  <2>2. RowsOK' /\ ThreadsOK' /\ OthersOK'
    BY <1>36 DEF WorkerRaise, RowsOK, ThreadsOK, OthersOK
  <2> QED
    BY <2>1, <2>2 DEF TypeInv
<1>37. ASSUME WorkerComplete  PROVE TypeInv'
  <2>1. RowsOK'
    BY <1>37 DEF WorkerComplete, RowsOK, Row, WorkerOK, Changed, Terminal, Errors
  <2>2. WorkerOK'
    BY <1>37 DEF WorkerComplete, WorkerOK
  <2>3. ThreadsOK' /\ OthersOK'
    BY <1>37 DEF WorkerComplete, ThreadsOK, OthersOK
  <2> QED
    BY <2>1, <2>2, <2>3 DEF TypeInv
<1>38. ASSUME WorkerFail  PROVE TypeInv'
  <2>1. RowsOK'
    BY <1>38 DEF WorkerFail, RowsOK, Row, WorkerOK, Changed, Terminal, Errors
  <2>2. WorkerOK'
    BY <1>38 DEF WorkerFail, WorkerOK
  <2>3. ThreadsOK' /\ OthersOK'
    BY <1>38 DEF WorkerFail, ThreadsOK, OthersOK
  <2> QED
    BY <2>1, <2>2, <2>3 DEF TypeInv
<1>39. ASSUME WorkerDone  PROVE TypeInv'
  <2>1. WorkerOK'
    BY <1>39 DEF WorkerDone, WorkerOK, IdleWorker
  <2>2. OthersOK'
    BY <1>39, RemoveFirstType DEF WorkerDone, OthersOK
  <2>3. RowsOK' /\ ThreadsOK'
    BY <1>39 DEF WorkerDone, RowsOK, ThreadsOK
  <2> QED
    BY <2>1, <2>2, <2>3 DEF TypeInv
<1>40. ASSUME Waiting  PROVE TypeInv'
  <2>1. RowsOK' /\ ThreadsOK' /\ WorkerOK' /\ OthersOK'
    BY <1>40 DEF Waiting, RowsOK, ThreadsOK, WorkerOK, OthersOK, vars
  <2> QED
    BY <2>1 DEF TypeInv
<1>41. CASE UNCHANGED vars
  BY <1>41 DEF vars, RowsOK, ThreadsOK, WorkerOK, OthersOK
<1>42. CASE RestartStep
  BY <1>42, <1>2, <1>3 DEF RestartStep
<1>43. CASE WorkerStep
  BY <1>43, <1>30, <1>31, <1>32, <1>33, <1>34, <1>35, <1>36, <1>37, <1>38, <1>39 DEF WorkerStep
<1>44. ASSUME NEW t \in Threads, DeleteStep(t)  PROVE TypeInv'
  BY <1>44, <1>9, <1>10, <1>11, <1>12, <1>13 DEF DeleteStep
<1>45. ASSUME NEW c \in Cleaners, CleanerStep(c)  PROVE TypeInv'
  BY <1>45, <1>5, <1>6, <1>7, <1>8, <1>44 DEF CleanerStep, Threads
<1>46. ASSUME NEW r \in Requests, RequestStep(r)  PROVE TypeInv'
  BY <1>46, <1>26, <1>27, <1>28, <1>29, <1>44 DEF RequestStep, Threads
<1>47. ASSUME NEW j \in Jobs, CreateStep(j)  PROVE TypeInv'
  BY <1>47, <1>15, <1>16, <1>17, <1>18, <1>19, <1>20 DEF CreateStep
<1>48. ASSUME NEW r \in Requests, NEW j \in Jobs, Ask(r, j)  PROVE TypeInv'
  BY <1>48, <1>22, <1>23, <1>24, <1>25 DEF Ask
<1> QED
  BY <1>1, <1>4, <1>14, <1>21, <1>40, <1>41, <1>42, <1>43, <1>44, <1>45, <1>46, <1>47, <1>48 DEF Next

\* Type correctness of the service: every value a row, a thread, the worker, the
\* queue and the directories take is one the code gives them.
THEOREM TypeCorrect == Spec => []TypeOK
<1>1. TypeInv => TypeOK
  BY DEF TypeInv, TypeOK, RowsOK, ThreadsOK, WorkerOK, OthersOK
<1> QED
  BY TypeInit, TypeStep, <1>1, PTL DEF Spec

-----------------------------------------------------------------------------
(* Scheduling                                                                *)

\* A create request is at work on the job, or has failed and told no client of it.
UnderWay(j) == crt[j] \in {"save", "reject", "append", "put", "error"}

\* LiveJobIsScheduled is not inductive: a job becomes known by the step that puts
\* it into the queue, so that a step earlier its create request must answer for it.
SchedInv ==
    phase # "recover" =>
        \A j \in Jobs : db[j].status \in Live => Scheduled(j) \/ UnderWay(j)

-----------------------------------------------------------------------------

\* Appending a job to the queue adds it to what the queue holds (enqueue).
LEMMA AppendToSet ==
    ASSUME NEW s \in Seq(Jobs), NEW j \in Jobs
    PROVE  ToSet(Append(s, j)) = ToSet(s) \cup {j}
  BY AppendProperties DEF ToSet

\* Taking the head of the queue leaves the rest of it (the get of _run).
LEMMA TailToSet ==
    ASSUME NEW s \in Seq(Jobs), s # <<>>
    PROVE  ToSet(s) = ToSet(Tail(s)) \cup {Head(s)}
<1> Head(s) = s[1] /\ Len(s) \in Nat /\ Len(Tail(s)) = Len(s) - 1 /\ Len(s) # 0
  BY HeadTailProperties
<1> \A i \in 1..Len(Tail(s)) : Tail(s)[i] = s[i + 1]
  BY HeadTailProperties
<1> Tail(s) \in Seq(Jobs)
  OBVIOUS
<1>1. ToSet(Tail(s)) \cup {Head(s)} \subseteq ToSet(s)
  BY DEF ToSet
<1>2. ASSUME NEW i \in 1..Len(s)  PROVE s[i] \in ToSet(Tail(s)) \cup {Head(s)}
  <2>1. CASE i = 1
    BY <2>1
  <2>2. CASE i # 1
    <3>1. i - 1 \in 1..Len(Tail(s)) /\ Tail(s)[i - 1] = s[i]
      BY <2>2
    <3> QED
      BY <3>1 DEF ToSet
  <2> QED
    BY <2>1, <2>2
<1> QED
  BY <1>1, <1>2 DEF ToSet

\* No row exists before the first create request.
LEMMA SchedInit == Init => SchedInv
  BY DEF Init, SchedInv

\* No step of any thread, crashes and deletions included, loses a live job.
LEMMA SchedStep == TypeInv /\ SchedInv /\ [Next]_vars => SchedInv'
<1> SUFFICES ASSUME TypeInv, SchedInv, [Next]_vars,
                    phase' # "recover",
                    NEW j \in Jobs, db'[j].status \in Live
             PROVE  Scheduled(j)' \/ UnderWay(j)'
  BY DEF SchedInv
<1> USE ActorsAssumption DEF TypeInv, SchedInv
<1>1. ASSUME Crash  PROVE Scheduled(j)' \/ UnderWay(j)'
  BY <1>1 DEF Crash
<1>2. ASSUME RecoverDone  PROVE Scheduled(j)' \/ UnderWay(j)'
  BY <1>2 DEF RecoverDone
<1>3. ASSUME NEW k \in Jobs, RecoverStaleJob(k)  PROVE Scheduled(j)' \/ UnderWay(j)'
  BY <1>3 DEF RecoverStaleJob
<1>4. ASSUME StartPeriodicCleanup  PROVE Scheduled(j)' \/ UnderWay(j)'
  BY <1>4 DEF StartPeriodicCleanup, Scheduled, ThreadsOK, Threads, UnderWay
<1>5. ASSUME NEW c \in Cleaners, CleanNext(c)  PROVE Scheduled(j)' \/ UnderWay(j)'
  BY <1>5 DEF CleanNext, Scheduled, ThreadsOK, Threads, UnderWay
<1>6. ASSUME NEW c \in Cleaners, CleanNextGone(c)  PROVE Scheduled(j)' \/ UnderWay(j)'
  BY <1>6 DEF CleanNextGone, EndCleanup, Scheduled, ThreadsOK, Threads, UnderWay
<1>7. ASSUME NEW c \in Cleaners, CleanDone(c)  PROVE Scheduled(j)' \/ UnderWay(j)'
  BY <1>7 DEF CleanDone, EndCleanup, Scheduled, ThreadsOK, Threads, UnderWay
<1>8. ASSUME NEW c \in Cleaners, FilesFailedGone(c)  PROVE Scheduled(j)' \/ UnderWay(j)'
  BY <1>8 DEF FilesFailedGone, EndCleanup, Scheduled, ThreadsOK, Threads, UnderWay
<1>9. ASSUME NEW t \in Threads, ListFiles(t)  PROVE Scheduled(j)' \/ UnderWay(j)'
  BY <1>9 DEF ListFiles, Scheduled, ThreadsOK, Threads, UnderWay
<1>10. ASSUME NEW t \in Threads, Unlink(t)  PROVE Scheduled(j)' \/ UnderWay(j)'
  BY <1>10 DEF Unlink, Scheduled, ThreadsOK, Threads, UnderWay
<1>11. ASSUME NEW t \in Threads, Rmdir(t)  PROVE Scheduled(j)' \/ UnderWay(j)'
  BY <1>11 DEF Rmdir, Scheduled, ThreadsOK, Threads, UnderWay
<1>12. ASSUME NEW t \in Threads, DeleteRow(t)  PROVE Scheduled(j)' \/ UnderWay(j)'
  BY <1>12 DEF DeleteRow, AfterJob, RowsOK, NoRow, Live, Scheduled, ThreadsOK, Threads, UnderWay
<1>13. ASSUME NEW t \in Threads, FilesFailed(t)  PROVE Scheduled(j)' \/ UnderWay(j)'
  BY <1>13 DEF FilesFailed, AfterJob, Scheduled, ThreadsOK, Threads, UnderWay
<1>14. ASSUME NEW k \in Jobs, CreateRequest(k)  PROVE Scheduled(j)' \/ UnderWay(j)'
  BY <1>14 DEF CreateRequest, Cleaners, UnderWay, OthersOK, Scheduled, ThreadsOK, Threads
<1>15. ASSUME NEW k \in Jobs, CreateInvalid(k)  PROVE Scheduled(j)' \/ UnderWay(j)'
  BY <1>15 DEF CreateInvalid, UnderWay, OthersOK, Scheduled, ThreadsOK, Threads
<1>16. ASSUME NEW k \in Jobs, CreateRow(k)  PROVE Scheduled(j)' \/ UnderWay(j)'
  BY <1>16 DEF CreateRow, UnderWay, OthersOK, RowsOK, Scheduled, ThreadsOK, Threads
<1>17. ASSUME NEW k \in Jobs, CreateSaveSource(k)  PROVE Scheduled(j)' \/ UnderWay(j)'
  BY <1>17 DEF CreateSaveSource, UnderWay, OthersOK, Scheduled, ThreadsOK, Threads
<1>18. ASSUME NEW k \in Jobs, CreateMarkFailed(k)  PROVE Scheduled(j)' \/ UnderWay(j)'
  BY <1>18 DEF CreateMarkFailed, UnderWay, OthersOK, RowsOK, Live, Scheduled, ThreadsOK, Threads
<1>19. ASSUME NEW k \in Jobs, CreateAppend(k)  PROVE Scheduled(j)' \/ UnderWay(j)'
  BY <1>19 DEF CreateAppend, UnderWay, OthersOK, Scheduled, ThreadsOK, Threads
<1>20. ASSUME NEW k \in Jobs, CreatePut(k)  PROVE Scheduled(j)' \/ UnderWay(j)'
  BY <1>20, AppendToSet DEF CreatePut, UnderWay, OthersOK, Scheduled, ThreadsOK, Threads
<1>21. ASSUME NEW k \in Jobs, Expire(k)  PROVE Scheduled(j)' \/ UnderWay(j)'
  BY <1>21 DEF Expire, Scheduled, ThreadsOK, Threads, UnderWay
<1>22. ASSUME NEW r \in Requests, NEW k \in Jobs, LookupExpired(r, k)  PROVE Scheduled(j)' \/ UnderWay(j)'
  BY <1>22 DEF LookupExpired, Scheduled, ThreadsOK, Threads, UnderWay
<1>23. ASSUME NEW r \in Requests, NEW k \in Jobs, DeleteRead(r, k)  PROVE Scheduled(j)' \/ UnderWay(j)'
  <2>1. \A q \in Requests : act[q].pc \in {"append", "put"} => act'[q] = act[q]
    BY <1>23 DEF DeleteRead, Found, ThreadsOK, Threads
  <2> QED
    BY <1>23, <2>1 DEF DeleteRead, Scheduled, UnderWay
<1>24. ASSUME NEW r \in Requests, NEW k \in Jobs, ImageRead(r, k)  PROVE Scheduled(j)' \/ UnderWay(j)'
  <2>1. \A q \in Requests : act[q].pc \in {"append", "put"} => act'[q] = act[q]
    BY <1>24 DEF ImageRead, Found, ThreadsOK, Threads
  <2> QED
    BY <1>24, <2>1 DEF ImageRead, Scheduled, UnderWay
<1>25. ASSUME NEW r \in Requests, NEW k \in Jobs, RetryRead(r, k)  PROVE Scheduled(j)' \/ UnderWay(j)'
  <2>1. \A q \in Requests : act[q].pc \in {"append", "put"} => act'[q] = act[q]
    BY <1>25 DEF RetryRead, Found, ThreadsOK, Threads
  <2> QED
    BY <1>25, <2>1 DEF RetryRead, Scheduled, UnderWay
<1>26. ASSUME NEW r \in Requests, ImagePath(r)  PROVE Scheduled(j)' \/ UnderWay(j)'
  BY <1>26 DEF ImagePath, Scheduled, ThreadsOK, Threads, UnderWay
<1>27. ASSUME NEW r \in Requests, RetryCommit(r)  PROVE Scheduled(j)' \/ UnderWay(j)'
  <2>1. act[r].pc = "commit" /\ act[r] \in ThreadState /\ act[r].job \in Jobs
    BY <1>27 DEF RetryCommit, ThreadsOK, Threads
  <2>2. CASE Exists(act[r].job) /\ j = act[r].job
    <3>1. act'[r].pc = "append" /\ act'[r].job = j
      BY <1>27, <2>1, <2>2 DEF RetryCommit, ThreadsOK, Threads, ThreadState
    <3> QED
      BY <3>1 DEF Scheduled
  <2>3. CASE ~Exists(act[r].job) \/ j # act[r].job
    <3>1. db'[j] = db[j]
      BY <1>27, <2>3 DEF RetryCommit, RowsOK
    <3>2. \A q \in Requests : act[q].pc \in {"append", "put"} => act'[q] = act[q]
      BY <1>27, <2>1 DEF RetryCommit, ThreadsOK, Threads
    <3> QED
      BY <1>27, <3>1, <3>2 DEF RetryCommit, Scheduled, UnderWay
  <2> QED
    BY <2>2, <2>3
<1>28. ASSUME NEW r \in Requests, RetryAppend(r)  PROVE Scheduled(j)' \/ UnderWay(j)'
  BY <1>28 DEF RetryAppend, Scheduled, ThreadsOK, Threads, UnderWay
<1>29. ASSUME NEW r \in Requests, RetryPut(r)  PROVE Scheduled(j)' \/ UnderWay(j)'
  <2>1. act[r].job \in Jobs
    BY <1>29 DEF RetryPut, ThreadsOK, Threads
  <2>2. ToSet(queue') = ToSet(queue) \cup {act[r].job}
    BY <1>29, <2>1, AppendToSet DEF RetryPut, OthersOK
  <2>3. \A q \in Requests \ {r} : act'[q] = act[q]
    BY <1>29 DEF RetryPut, ThreadsOK, Threads
  <2> QED
    BY <1>29, <2>2, <2>3 DEF RetryPut, Scheduled, UnderWay
<1>30. ASSUME WorkerGet  PROVE Scheduled(j)' \/ UnderWay(j)'
  <2>1. ToSet(queue) = ToSet(queue') \cup {wk'.job}
    BY <1>30, TailToSet DEF WorkerGet, IdleWorker, OthersOK
  <2>2. wk.pc = "idle" /\ wk'.pc = "load"
    BY <1>30 DEF WorkerGet, IdleWorker
  <2> QED
    BY <1>30, <2>1, <2>2 DEF WorkerGet, Scheduled, UnderWay
<1>31. ASSUME WorkerLoad  PROVE Scheduled(j)' \/ UnderWay(j)'
  BY <1>31 DEF WorkerLoad, WorkerOK, Exists, Live, Scheduled, ThreadsOK, Threads, UnderWay
<1>32. ASSUME WorkerStart  PROVE Scheduled(j)' \/ UnderWay(j)'
  BY <1>32 DEF WorkerStart, WorkerOK, RowsOK, Exists, Live, Scheduled, ThreadsOK, Threads, UnderWay
<1>33. ASSUME WorkerRead  PROVE Scheduled(j)' \/ UnderWay(j)'
  BY <1>33 DEF WorkerRead, WorkerOK, Exists, Live, Scheduled, ThreadsOK, Threads, UnderWay
<1>34. ASSUME WorkerOpen  PROVE Scheduled(j)' \/ UnderWay(j)'
  BY <1>34 DEF WorkerOpen, WorkerOK, Scheduled, ThreadsOK, Threads, UnderWay
<1>35. ASSUME SaveResult  PROVE Scheduled(j)' \/ UnderWay(j)'
  BY <1>35 DEF SaveResult, WorkerOK, Scheduled, ThreadsOK, Threads, UnderWay
<1>36. ASSUME WorkerRaise  PROVE Scheduled(j)' \/ UnderWay(j)'
  BY <1>36 DEF WorkerRaise, WorkerOK, Scheduled, ThreadsOK, Threads, UnderWay
<1>37. ASSUME WorkerComplete  PROVE Scheduled(j)' \/ UnderWay(j)'
  <2>1. j # wk.job /\ db'[j] = db[j]
    <3>1. CASE Exists(wk.job)
      BY <1>37, <3>1 DEF WorkerComplete, RowsOK, Row, Live
    <3>2. CASE ~Exists(wk.job)
      BY <1>37, <3>2 DEF WorkerComplete, Exists, Live
    <3> QED
      BY <3>1, <3>2
  <2> QED
    BY <1>37, <2>1 DEF WorkerComplete, Scheduled, UnderWay
<1>38. ASSUME WorkerFail  PROVE Scheduled(j)' \/ UnderWay(j)'
  <2>1. j # wk.job /\ db'[j] = db[j]
    <3>1. CASE Exists(wk.job)
      BY <1>38, <3>1 DEF WorkerFail, RowsOK, Row, Live
    <3>2. CASE ~Exists(wk.job)
      BY <1>38, <3>2 DEF WorkerFail, Exists, Live
    <3> QED
      BY <3>1, <3>2
  <2> QED
    BY <1>38, <2>1 DEF WorkerFail, Scheduled, UnderWay
<1>39. ASSUME WorkerDone  PROVE Scheduled(j)' \/ UnderWay(j)'
  BY <1>39 DEF WorkerDone, WorkerOK, Scheduled, ThreadsOK, Threads, UnderWay
<1>40. ASSUME Waiting  PROVE Scheduled(j)' \/ UnderWay(j)'
  BY <1>40 DEF Waiting, vars, UnderWay, Scheduled, ThreadsOK, Threads
<1>41. CASE UNCHANGED vars
  BY <1>41 DEF vars, Scheduled, UnderWay
<1>42. CASE RestartStep
  BY <1>42, <1>2, <1>3 DEF RestartStep
<1>43. CASE WorkerStep
  BY <1>43, <1>30, <1>31, <1>32, <1>33, <1>34, <1>35, <1>36, <1>37, <1>38, <1>39 DEF WorkerStep
<1>44. ASSUME NEW t \in Threads, DeleteStep(t)  PROVE Scheduled(j)' \/ UnderWay(j)'
  BY <1>44, <1>9, <1>10, <1>11, <1>12, <1>13 DEF DeleteStep
<1>45. ASSUME NEW c \in Cleaners, CleanerStep(c)  PROVE Scheduled(j)' \/ UnderWay(j)'
  BY <1>45, <1>5, <1>6, <1>7, <1>8, <1>44 DEF CleanerStep, Threads
<1>46. ASSUME NEW r \in Requests, RequestStep(r)  PROVE Scheduled(j)' \/ UnderWay(j)'
  BY <1>46, <1>26, <1>27, <1>28, <1>29, <1>44 DEF RequestStep, Threads
<1>47. ASSUME NEW k \in Jobs, CreateStep(k)  PROVE Scheduled(j)' \/ UnderWay(j)'
  BY <1>47, <1>15, <1>16, <1>17, <1>18, <1>19, <1>20 DEF CreateStep
<1>48. ASSUME NEW r \in Requests, NEW k \in Jobs, Ask(r, k)  PROVE Scheduled(j)' \/ UnderWay(j)'
  BY <1>48, <1>22, <1>23, <1>24, <1>25 DEF Ask
<1> QED
  BY <1>1, <1>4, <1>14, <1>21, <1>40, <1>41, <1>42, <1>43, <1>44, <1>45, <1>46, <1>47, <1>48 DEF Next

\* Every job whose client polls it, and whose row says queued or processing, is in
\* the queue, with the worker, or in the hands of the retry that revived it.
THEOREM LiveScheduled == Spec => []LiveJobIsScheduled
<1>1. SchedInv => LiveJobIsScheduled
  BY DEF SchedInv, LiveJobIsScheduled, UnderWay, Known
<1> QED
  BY TypeInit, TypeStep, SchedInit, SchedStep, <1>1, PTL DEF Spec

-----------------------------------------------------------------------------
(* What the worker takes up, and what it leaves in the row                   *)

RetrySteps == {"commit", "append", "put"}

\* Before the process is up, nothing runs but its own recovery and cleanup.
QuietStart ==
    phase # "up" =>
        /\ queue = <<>>
        /\ wk.pc = "idle"
        /\ \A j \in Jobs : crt[j] \in {"none", "done", "error"}
        /\ \A r \in Requests : act[r].pc = "idle"

\* What the worker holds, and that no error has come up in the row it loaded: only
\* the worker itself, a restart and the pre-check write one.
LoadedError ==
    /\ wk.pc = "idle" => wk.job = NoJob
    /\ wk.pc \in {"open", "run", "fail"} /\ wk.error = "none" => db[wk.job].error = "none"

\* Nobody gets hold of a job before its create request has answered.
Untaken(j) ==
    crt[j] # "done" =>
        /\ j \notin ToSet(queue)
        /\ wk.job # j
        /\ \A r \in Requests : act[r].job # j

\* A job without a face has not gone down the way to the queue, and its row, once a
\* client can ask for it, offers no retry.
FacelessInv(j) ==
    photo[j] = "faceless" =>
        /\ crt[j] \in {"save", "reject", "error", "done"}
        /\ j \notin ToSet(queue)
        /\ wk.job # j
        /\ \A r \in Requests : act[r].job = j => act[r].pc \notin RetrySteps
        /\ crt[j] = "done" => db[j].status \notin Live /\ db[j].error \notin Retryable

CompletedInv(j) == db[j].status = "completed" => db[j].results /\ db[j].error = "none"

RunInv ==
    /\ QuietStart
    /\ LoadedError
    /\ \A j \in Jobs : Untaken(j) /\ FacelessInv(j) /\ CompletedInv(j)

\* A step that leaves rows, queue and worker alone, takes no create request to the
\* queue and gives no request a job or a retry it did not have.
Bystander ==
    /\ UNCHANGED <<db, photo, queue, wk>>
    /\ phase' # "up" => phase # "up"
    /\ \A j \in Jobs :
         \/ crt'[j] = crt[j]
         \/ crt[j] \in {"clean", "read"} /\ crt'[j] \in {"read", "error"}
    /\ \A r \in Requests :
         /\ act'[r].job \in {act[r].job, NoJob}
         /\ act'[r].pc \in RetrySteps => act[r].pc \in RetrySteps
         /\ act[r].pc = "idle" => act'[r].pc = "idle"

\* The empty service has taken up nothing.
LEMMA RunInit == Init => RunInv
<1> USE ActorsAssumption
<1> QED
  BY DEF Init, RunInv, QuietStart, LoadedError, Untaken, FacelessInv, CompletedInv,
         NoRow, IdleWorker, Idle, ToSet, Threads

\* What the threads do beside rows, queue and worker keeps the invariant.
LEMMA BystanderKeeps == TypeInv /\ RunInv /\ Bystander => RunInv'
<1> SUFFICES ASSUME TypeInv, RunInv, Bystander  PROVE RunInv'
  OBVIOUS
<1> USE ActorsAssumption
<1>1. QuietStart'
  BY DEF RunInv, QuietStart, Bystander
<1>2. LoadedError'
  BY DEF RunInv, LoadedError, Bystander
<1>3. ASSUME NEW j \in Jobs  PROVE Untaken(j)'
  BY DEF RunInv, Untaken, Bystander
<1>4. ASSUME NEW j \in Jobs  PROVE FacelessInv(j)'
  BY DEF RunInv, FacelessInv, Bystander
<1>5. ASSUME NEW j \in Jobs  PROVE CompletedInv(j)'
  BY DEF RunInv, CompletedInv, Bystander
<1> QED
  BY <1>1, <1>2, <1>3, <1>4, <1>5 DEF RunInv

\* The steps of deletions and cleanups, but for the commit that takes the row.
LEMMA DeletionIsBystander ==
    ASSUME TypeInv, NEW t \in Threads,
           ListFiles(t) \/ Unlink(t) \/ Rmdir(t) \/ FilesFailed(t)
    PROVE  Bystander
<1> USE ActorsAssumption DEF TypeInv, ThreadsOK, ThreadState, Bystander, RetrySteps
<1>1. CASE ListFiles(t)
  BY <1>1 DEF ListFiles, Threads
<1>2. CASE Unlink(t)
  BY <1>2 DEF Unlink, Threads
<1>3. CASE Rmdir(t)
  BY <1>3 DEF Rmdir, Threads
<1>4. CASE FilesFailed(t)
  BY <1>4 DEF FilesFailed, AfterJob, Idle, Threads
<1> QED
  BY <1>1, <1>2, <1>3, <1>4

\* No step, of whatever thread, brings a job without a face to the worker, or an
\* error into the row that the worker completes.
LEMMA RunStep == TypeInv /\ RunInv /\ [Next]_vars => RunInv'
<1> SUFFICES ASSUME TypeInv, RunInv, [Next]_vars  PROVE RunInv'
  OBVIOUS
<1> USE ActorsAssumption
<1>1. ASSUME Crash  PROVE RunInv'
  <2>1. QuietStart'
    BY <1>1 DEF Crash, Idle, IdleWorker, ToSet, RunInv, QuietStart, TypeInv, RowsOK, Row, ThreadsOK, ThreadState, Threads, WorkerOK, OthersOK
  <2>2. LoadedError'
    BY <1>1 DEF Crash, Idle, IdleWorker, ToSet, RunInv, QuietStart, LoadedError, Untaken, TypeInv, RowsOK, Row, ThreadsOK, ThreadState, Threads, WorkerOK, OthersOK
  <2>3. ASSUME NEW j \in Jobs  PROVE Untaken(j)'
    BY <1>1 DEF Crash, Idle, IdleWorker, ToSet, RunInv, Untaken, TypeInv, RowsOK, Row, ThreadsOK, ThreadState, Threads, WorkerOK, OthersOK
  <2>4. ASSUME NEW j \in Jobs  PROVE FacelessInv(j)'
    BY <1>1 DEF Crash, Idle, IdleWorker, ToSet, RunInv, Untaken, FacelessInv, RetrySteps, Retryable, TypeInv, RowsOK, Row, ThreadsOK, ThreadState, Threads, WorkerOK, OthersOK
  <2>5. ASSUME NEW j \in Jobs  PROVE CompletedInv(j)'
    BY <1>1 DEF Crash, Idle, IdleWorker, ToSet, RunInv, LoadedError, CompletedInv, TypeInv, RowsOK, Row, ThreadsOK, ThreadState, Threads, WorkerOK, OthersOK
  <2> QED
    BY <2>1, <2>2, <2>3, <2>4, <2>5 DEF RunInv
<1>2. ASSUME RecoverDone  PROVE RunInv'
  <2>1. Bystander
    BY <1>2 DEF RecoverDone, Query, Idle, ThreadsOK, ThreadState, Threads, Cleaners, Bystander, RetrySteps, TypeInv
  <2> QED
    BY <2>1, BystanderKeeps
<1>3. ASSUME NEW k \in Jobs, RecoverStaleJob(k)  PROVE RunInv'
  <2>1. QuietStart'
    BY <1>3 DEF RecoverStaleJob, ToSet, Live, RunInv, QuietStart, TypeInv, RowsOK, Row, ThreadsOK, ThreadState, Threads, WorkerOK, OthersOK
  <2>2. LoadedError'
    BY <1>3 DEF RecoverStaleJob, ToSet, Live, RunInv, QuietStart, LoadedError, Untaken, TypeInv, RowsOK, Row, ThreadsOK, ThreadState, Threads, WorkerOK, OthersOK
  <2>3. ASSUME NEW j \in Jobs  PROVE Untaken(j)'
    BY <1>3 DEF RecoverStaleJob, ToSet, Live, RunInv, Untaken, TypeInv, RowsOK, Row, ThreadsOK, ThreadState, Threads, WorkerOK, OthersOK
  <2>4. ASSUME NEW j \in Jobs  PROVE FacelessInv(j)'
    BY <1>3 DEF RecoverStaleJob, ToSet, Live, RunInv, Untaken, FacelessInv, RetrySteps, Retryable, TypeInv, RowsOK, Row, ThreadsOK, ThreadState, Threads, WorkerOK, OthersOK
  <2>5. ASSUME NEW j \in Jobs  PROVE CompletedInv(j)'
    BY <1>3 DEF RecoverStaleJob, ToSet, Live, RunInv, LoadedError, CompletedInv, TypeInv, RowsOK, Row, ThreadsOK, ThreadState, Threads, WorkerOK, OthersOK
  <2> QED
    BY <2>1, <2>2, <2>3, <2>4, <2>5 DEF RunInv
<1>4. ASSUME StartPeriodicCleanup  PROVE RunInv'
  <2>1. Bystander
    BY <1>4 DEF StartPeriodicCleanup, Query, Idle, ThreadsOK, ThreadState, Threads, Cleaners, Bystander, RetrySteps, TypeInv
  <2> QED
    BY <2>1, BystanderKeeps
<1>5. ASSUME NEW c \in Cleaners, CleanNext(c)  PROVE RunInv'
  <2>1. Bystander
    BY <1>5 DEF CleanNext, ThreadsOK, ThreadState, Threads, Cleaners, Bystander, RetrySteps, TypeInv
  <2> QED
    BY <2>1, BystanderKeeps
<1>6. ASSUME NEW c \in Cleaners, CleanNextGone(c)  PROVE RunInv'
  <2>1. Bystander
    BY <1>6 DEF CleanNextGone, EndCleanup, Idle, OthersOK, Creating, ThreadsOK, ThreadState, Threads, Cleaners, Bystander, RetrySteps, TypeInv
  <2> QED
    BY <2>1, BystanderKeeps
<1>7. ASSUME NEW c \in Cleaners, CleanDone(c)  PROVE RunInv'
  <2>1. Bystander
    BY <1>7 DEF CleanDone, EndCleanup, Idle, OthersOK, Creating, ThreadsOK, ThreadState, Threads, Cleaners, Bystander, RetrySteps, TypeInv
  <2> QED
    BY <2>1, BystanderKeeps
<1>8. ASSUME NEW c \in Cleaners, FilesFailedGone(c)  PROVE RunInv'
  <2>1. Bystander
    BY <1>8 DEF FilesFailedGone, EndCleanup, Idle, OthersOK, Creating, ThreadsOK, ThreadState, Threads, Cleaners, Bystander, RetrySteps, TypeInv
  <2> QED
    BY <2>1, BystanderKeeps
<1>9. ASSUME NEW t \in Threads, ListFiles(t)  PROVE RunInv'
  BY <1>9, DeletionIsBystander, BystanderKeeps
<1>10. ASSUME NEW t \in Threads, Unlink(t)  PROVE RunInv'
  BY <1>10, DeletionIsBystander, BystanderKeeps
<1>11. ASSUME NEW t \in Threads, Rmdir(t)  PROVE RunInv'
  BY <1>11, DeletionIsBystander, BystanderKeeps
<1>12. ASSUME NEW t \in Threads, FilesFailed(t)  PROVE RunInv'
  BY <1>12, DeletionIsBystander, BystanderKeeps
<1>13. ASSUME NEW t \in Threads, DeleteRow(t)  PROVE RunInv'
  <2> act[t].job \in Jobs /\ db' = [db EXCEPT ![act[t].job] = NoRow]
    BY <1>13 DEF DeleteRow, TypeInv, ThreadsOK
  <2> UNCHANGED <<photo, crt, queue, wk>>
    BY <1>13 DEF DeleteRow
  <2> \A p \in Requests : act'[p] = act[p] \/ act'[p] = Idle
    BY <1>13 DEF DeleteRow, AfterJob, TypeInv, ThreadsOK, Threads, Cleaners
  <2>1. QuietStart'
    BY <1>13 DEF DeleteRow, AfterJob, Idle, NoRow, Live, Retryable, Cleaners, RunInv, QuietStart, TypeInv, RowsOK, Row, ThreadsOK, ThreadState, Threads, WorkerOK, OthersOK
  <2>2. LoadedError'
    <3>1. wk' = wk /\ \A k \in Jobs : db'[k] = db[k] \/ db'[k] = NoRow
      BY <1>13 DEF DeleteRow, TypeInv, RowsOK
    <3>2. wk.pc \in {"open", "run", "fail"} => wk.job \in Jobs
      BY DEF TypeInv, WorkerOK
    <3> QED
      BY <3>1, <3>2 DEF RunInv, LoadedError, NoRow
  <2>3. ASSUME NEW j \in Jobs  PROVE Untaken(j)'
    BY ActorsAssumption DEF RunInv, Untaken, Idle
  <2>4. ASSUME NEW j \in Jobs  PROVE FacelessInv(j)'
    BY DEF RunInv, FacelessInv, RetrySteps, Retryable, Live, NoRow, Idle, TypeInv, RowsOK
  <2>5. ASSUME NEW j \in Jobs  PROVE CompletedInv(j)'
    BY <1>13 DEF DeleteRow, AfterJob, Idle, NoRow, Live, Retryable, Cleaners, RunInv, LoadedError, CompletedInv, TypeInv, RowsOK, Row, ThreadsOK, ThreadState, Threads, WorkerOK, OthersOK
  <2> QED
    BY <2>1, <2>2, <2>3, <2>4, <2>5 DEF RunInv
<1>14. ASSUME NEW k \in Jobs, CreateRequest(k)  PROVE RunInv'
  <2>1. QuietStart'
    BY <1>14 DEF CreateRequest, Query, Idle, Cleaners, RunInv, QuietStart, TypeInv, RowsOK, Row, ThreadsOK, ThreadState, Threads, WorkerOK, OthersOK
  <2>2. LoadedError'
    BY <1>14 DEF CreateRequest, Query, Idle, Cleaners, RunInv, QuietStart, LoadedError, Untaken, TypeInv, RowsOK, Row, ThreadsOK, ThreadState, Threads, WorkerOK, OthersOK
  <2>3. ASSUME NEW j \in Jobs  PROVE Untaken(j)'
    BY <1>14 DEF CreateRequest, Query, Idle, Cleaners, RunInv, Untaken, TypeInv, RowsOK, Row, ThreadsOK, ThreadState, Threads, WorkerOK, OthersOK
  <2>4. ASSUME NEW j \in Jobs  PROVE FacelessInv(j)'
    BY <1>14 DEF CreateRequest, Query, Idle, Cleaners, RunInv, Untaken, FacelessInv, RetrySteps, Retryable, TypeInv, RowsOK, Row, ThreadsOK, ThreadState, Threads, WorkerOK, OthersOK
  <2>5. ASSUME NEW j \in Jobs  PROVE CompletedInv(j)'
    BY <1>14 DEF CreateRequest, Query, Idle, Cleaners, RunInv, LoadedError, CompletedInv, TypeInv, RowsOK, Row, ThreadsOK, ThreadState, Threads, WorkerOK, OthersOK
  <2> QED
    BY <2>1, <2>2, <2>3, <2>4, <2>5 DEF RunInv
<1>15. ASSUME NEW k \in Jobs, CreateInvalid(k)  PROVE RunInv'
  <2>1. Bystander
    BY <1>15 DEF CreateInvalid, OthersOK, ThreadsOK, ThreadState, Threads, Cleaners, Bystander, RetrySteps, TypeInv
  <2> QED
    BY <2>1, BystanderKeeps
<1>16. ASSUME NEW k \in Jobs, CreateRow(k)  PROVE RunInv'
  <2>1. QuietStart'
    BY <1>16 DEF CreateRow, NoRow, Live, Photos, RunInv, QuietStart, TypeInv, RowsOK, Row, ThreadsOK, ThreadState, Threads, WorkerOK, OthersOK
  <2>2. LoadedError'
    BY <1>16 DEF CreateRow, NoRow, Live, Photos, RunInv, QuietStart, LoadedError, Untaken, TypeInv, RowsOK, Row, ThreadsOK, ThreadState, Threads, WorkerOK, OthersOK
  <2>3. ASSUME NEW j \in Jobs  PROVE Untaken(j)'
    BY <1>16 DEF CreateRow, NoRow, Live, Photos, RunInv, Untaken, TypeInv, RowsOK, Row, ThreadsOK, ThreadState, Threads, WorkerOK, OthersOK
  <2>4. ASSUME NEW j \in Jobs  PROVE FacelessInv(j)'
    BY <1>16 DEF CreateRow, NoRow, Live, Photos, RunInv, Untaken, FacelessInv, RetrySteps, Retryable, TypeInv, RowsOK, Row, ThreadsOK, ThreadState, Threads, WorkerOK, OthersOK
  <2>5. ASSUME NEW j \in Jobs  PROVE CompletedInv(j)'
    BY <1>16 DEF CreateRow, NoRow, Live, Photos, RunInv, LoadedError, CompletedInv, TypeInv, RowsOK, Row, ThreadsOK, ThreadState, Threads, WorkerOK, OthersOK
  <2> QED
    BY <2>1, <2>2, <2>3, <2>4, <2>5 DEF RunInv
<1>17. ASSUME NEW k \in Jobs, CreateSaveSource(k)  PROVE RunInv'
  <2>1. QuietStart'
    BY <1>17 DEF CreateSaveSource, RunInv, QuietStart, TypeInv, RowsOK, Row, ThreadsOK, ThreadState, Threads, WorkerOK, OthersOK
  <2>2. LoadedError'
    BY <1>17 DEF CreateSaveSource, RunInv, QuietStart, LoadedError, Untaken, TypeInv, RowsOK, Row, ThreadsOK, ThreadState, Threads, WorkerOK, OthersOK
  <2>3. ASSUME NEW j \in Jobs  PROVE Untaken(j)'
    BY <1>17 DEF CreateSaveSource, RunInv, Untaken, TypeInv, RowsOK, Row, ThreadsOK, ThreadState, Threads, WorkerOK, OthersOK
  <2>4. ASSUME NEW j \in Jobs  PROVE FacelessInv(j)'
    BY <1>17 DEF CreateSaveSource, RunInv, Untaken, FacelessInv, RetrySteps, Retryable, TypeInv, RowsOK, Row, ThreadsOK, ThreadState, Threads, WorkerOK, OthersOK
  <2>5. ASSUME NEW j \in Jobs  PROVE CompletedInv(j)'
    BY <1>17 DEF CreateSaveSource, RunInv, LoadedError, CompletedInv, TypeInv, RowsOK, Row, ThreadsOK, ThreadState, Threads, WorkerOK, OthersOK
  <2> QED
    BY <2>1, <2>2, <2>3, <2>4, <2>5 DEF RunInv
<1>18. ASSUME NEW k \in Jobs, CreateMarkFailed(k)  PROVE RunInv'
  <2>1. QuietStart'
    BY <1>18 DEF CreateMarkFailed, Live, RunInv, QuietStart, TypeInv, RowsOK, Row, ThreadsOK, ThreadState, Threads, WorkerOK, OthersOK
  <2>2. LoadedError'
    BY <1>18 DEF CreateMarkFailed, Live, RunInv, QuietStart, LoadedError, Untaken, TypeInv, RowsOK, Row, ThreadsOK, ThreadState, Threads, WorkerOK, OthersOK
  <2>3. ASSUME NEW j \in Jobs  PROVE Untaken(j)'
    BY <1>18 DEF CreateMarkFailed, Live, RunInv, Untaken, TypeInv, RowsOK, Row, ThreadsOK, ThreadState, Threads, WorkerOK, OthersOK
  <2>4. ASSUME NEW j \in Jobs  PROVE FacelessInv(j)'
    BY <1>18 DEF CreateMarkFailed, Live, RunInv, Untaken, FacelessInv, RetrySteps, Retryable, TypeInv, RowsOK, Row, ThreadsOK, ThreadState, Threads, WorkerOK, OthersOK
  <2>5. ASSUME NEW j \in Jobs  PROVE CompletedInv(j)'
    BY <1>18 DEF CreateMarkFailed, Live, RunInv, LoadedError, CompletedInv, TypeInv, RowsOK, Row, ThreadsOK, ThreadState, Threads, WorkerOK, OthersOK
  <2> QED
    BY <2>1, <2>2, <2>3, <2>4, <2>5 DEF RunInv
<1>19. ASSUME NEW k \in Jobs, CreateAppend(k)  PROVE RunInv'
  <2>1. QuietStart'
    BY <1>19 DEF CreateAppend, RunInv, QuietStart, TypeInv, RowsOK, Row, ThreadsOK, ThreadState, Threads, WorkerOK, OthersOK
  <2>2. LoadedError'
    BY <1>19 DEF CreateAppend, RunInv, QuietStart, LoadedError, Untaken, TypeInv, RowsOK, Row, ThreadsOK, ThreadState, Threads, WorkerOK, OthersOK
  <2>3. ASSUME NEW j \in Jobs  PROVE Untaken(j)'
    BY <1>19 DEF CreateAppend, RunInv, Untaken, TypeInv, RowsOK, Row, ThreadsOK, ThreadState, Threads, WorkerOK, OthersOK
  <2>4. ASSUME NEW j \in Jobs  PROVE FacelessInv(j)'
    BY <1>19 DEF CreateAppend, RunInv, Untaken, FacelessInv, RetrySteps, Retryable, TypeInv, RowsOK, Row, ThreadsOK, ThreadState, Threads, WorkerOK, OthersOK
  <2>5. ASSUME NEW j \in Jobs  PROVE CompletedInv(j)'
    BY <1>19 DEF CreateAppend, RunInv, LoadedError, CompletedInv, TypeInv, RowsOK, Row, ThreadsOK, ThreadState, Threads, WorkerOK, OthersOK
  <2> QED
    BY <2>1, <2>2, <2>3, <2>4, <2>5 DEF RunInv
<1>20. ASSUME NEW k \in Jobs, CreatePut(k)  PROVE RunInv'
  <2>1. QuietStart'
    BY <1>20, AppendToSet DEF CreatePut, RunInv, QuietStart, TypeInv, RowsOK, Row, ThreadsOK, ThreadState, Threads, WorkerOK, OthersOK
  <2>2. LoadedError'
    BY <1>20, AppendToSet DEF CreatePut, RunInv, QuietStart, LoadedError, Untaken, TypeInv, RowsOK, Row, ThreadsOK, ThreadState, Threads, WorkerOK, OthersOK
  <2>3. ASSUME NEW j \in Jobs  PROVE Untaken(j)'
    BY <1>20, AppendToSet DEF CreatePut, RunInv, Untaken, TypeInv, RowsOK, Row, ThreadsOK, ThreadState, Threads, WorkerOK, OthersOK
  <2>4. ASSUME NEW j \in Jobs  PROVE FacelessInv(j)'
    BY <1>20, AppendToSet DEF CreatePut, RunInv, Untaken, FacelessInv, RetrySteps, Retryable, TypeInv, RowsOK, Row, ThreadsOK, ThreadState, Threads, WorkerOK, OthersOK
  <2>5. ASSUME NEW j \in Jobs  PROVE CompletedInv(j)'
    BY <1>20, AppendToSet DEF CreatePut, RunInv, LoadedError, CompletedInv, TypeInv, RowsOK, Row, ThreadsOK, ThreadState, Threads, WorkerOK, OthersOK
  <2> QED
    BY <2>1, <2>2, <2>3, <2>4, <2>5 DEF RunInv
<1>21. ASSUME NEW k \in Jobs, Expire(k)  PROVE RunInv'
  <2>1. Bystander
    BY <1>21 DEF Expire, ThreadsOK, ThreadState, Threads, Cleaners, Bystander, RetrySteps, TypeInv
  <2> QED
    BY <2>1, BystanderKeeps
<1>22. ASSUME NEW r \in Requests, NEW k \in Jobs, LookupExpired(r, k)  PROVE RunInv'
  <2>1. QuietStart'
    BY <1>22 DEF LookupExpired, Known, RunInv, QuietStart, TypeInv, RowsOK, Row, ThreadsOK, ThreadState, Threads, WorkerOK, OthersOK
  <2>2. LoadedError'
    BY <1>22 DEF LookupExpired, Known, RunInv, QuietStart, LoadedError, Untaken, TypeInv, RowsOK, Row, ThreadsOK, ThreadState, Threads, WorkerOK, OthersOK
  <2>3. ASSUME NEW j \in Jobs  PROVE Untaken(j)'
    BY <1>22 DEF LookupExpired, Known, RunInv, Untaken, TypeInv, RowsOK, Row, ThreadsOK, ThreadState, Threads, WorkerOK, OthersOK
  <2>4. ASSUME NEW j \in Jobs  PROVE FacelessInv(j)'
    BY <1>22 DEF LookupExpired, Known, RunInv, Untaken, FacelessInv, RetrySteps, Retryable, TypeInv, RowsOK, Row, ThreadsOK, ThreadState, Threads, WorkerOK, OthersOK
  <2>5. ASSUME NEW j \in Jobs  PROVE CompletedInv(j)'
    BY <1>22 DEF LookupExpired, Known, RunInv, LoadedError, CompletedInv, TypeInv, RowsOK, Row, ThreadsOK, ThreadState, Threads, WorkerOK, OthersOK
  <2> QED
    BY <2>1, <2>2, <2>3, <2>4, <2>5 DEF RunInv
<1>23. ASSUME NEW r \in Requests, NEW k \in Jobs, DeleteRead(r, k)  PROVE RunInv'
  <2>1. QuietStart'
    BY <1>23 DEF DeleteRead, Found, Known, Live, Retryable, RunInv, QuietStart, TypeInv, RowsOK, Row, ThreadsOK, ThreadState, Threads, WorkerOK, OthersOK
  <2>2. LoadedError'
    BY <1>23 DEF DeleteRead, Found, Known, Live, Retryable, RunInv, QuietStart, LoadedError, Untaken, TypeInv, RowsOK, Row, ThreadsOK, ThreadState, Threads, WorkerOK, OthersOK
  <2>3. ASSUME NEW j \in Jobs  PROVE Untaken(j)'
    BY <1>23 DEF DeleteRead, Found, Known, Live, Retryable, RunInv, Untaken, TypeInv, RowsOK, Row, ThreadsOK, ThreadState, Threads, WorkerOK, OthersOK
  <2>4. ASSUME NEW j \in Jobs  PROVE FacelessInv(j)'
    BY <1>23 DEF DeleteRead, Found, Known, Live, Retryable, RunInv, Untaken, FacelessInv, RetrySteps, Retryable, TypeInv, RowsOK, Row, ThreadsOK, ThreadState, Threads, WorkerOK, OthersOK
  <2>5. ASSUME NEW j \in Jobs  PROVE CompletedInv(j)'
    BY <1>23 DEF DeleteRead, Found, Known, Live, Retryable, RunInv, LoadedError, CompletedInv, TypeInv, RowsOK, Row, ThreadsOK, ThreadState, Threads, WorkerOK, OthersOK
  <2> QED
    BY <2>1, <2>2, <2>3, <2>4, <2>5 DEF RunInv
<1>24. ASSUME NEW r \in Requests, NEW k \in Jobs, ImageRead(r, k)  PROVE RunInv'
  <2>1. QuietStart'
    BY <1>24 DEF ImageRead, Found, Known, Live, Retryable, RunInv, QuietStart, TypeInv, RowsOK, Row, ThreadsOK, ThreadState, Threads, WorkerOK, OthersOK
  <2>2. LoadedError'
    BY <1>24 DEF ImageRead, Found, Known, Live, Retryable, RunInv, QuietStart, LoadedError, Untaken, TypeInv, RowsOK, Row, ThreadsOK, ThreadState, Threads, WorkerOK, OthersOK
  <2>3. ASSUME NEW j \in Jobs  PROVE Untaken(j)'
    BY <1>24 DEF ImageRead, Found, Known, Live, Retryable, RunInv, Untaken, TypeInv, RowsOK, Row, ThreadsOK, ThreadState, Threads, WorkerOK, OthersOK
  <2>4. ASSUME NEW j \in Jobs  PROVE FacelessInv(j)'
    BY <1>24 DEF ImageRead, Found, Known, Live, Retryable, RunInv, Untaken, FacelessInv, RetrySteps, Retryable, TypeInv, RowsOK, Row, ThreadsOK, ThreadState, Threads, WorkerOK, OthersOK
  <2>5. ASSUME NEW j \in Jobs  PROVE CompletedInv(j)'
    BY <1>24 DEF ImageRead, Found, Known, Live, Retryable, RunInv, LoadedError, CompletedInv, TypeInv, RowsOK, Row, ThreadsOK, ThreadState, Threads, WorkerOK, OthersOK
  <2> QED
    BY <2>1, <2>2, <2>3, <2>4, <2>5 DEF RunInv
<1>25. ASSUME NEW r \in Requests, NEW k \in Jobs, RetryRead(r, k)  PROVE RunInv'
  <2>1. QuietStart'
    BY <1>25 DEF RetryRead, Found, Known, Live, Retryable, RunInv, QuietStart, TypeInv, RowsOK, Row, ThreadsOK, ThreadState, Threads, WorkerOK, OthersOK
  <2>2. LoadedError'
    BY <1>25 DEF RetryRead, Found, Known, Live, Retryable, RunInv, QuietStart, LoadedError, Untaken, TypeInv, RowsOK, Row, ThreadsOK, ThreadState, Threads, WorkerOK, OthersOK
  <2>3. ASSUME NEW j \in Jobs  PROVE Untaken(j)'
    BY <1>25 DEF RetryRead, Found, Known, Live, Retryable, RunInv, Untaken, TypeInv, RowsOK, Row, ThreadsOK, ThreadState, Threads, WorkerOK, OthersOK
  <2>4. ASSUME NEW j \in Jobs  PROVE FacelessInv(j)'
    BY <1>25 DEF RetryRead, Found, Known, Live, Retryable, RunInv, Untaken, FacelessInv, RetrySteps, Retryable, TypeInv, RowsOK, Row, ThreadsOK, ThreadState, Threads, WorkerOK, OthersOK
  <2>5. ASSUME NEW j \in Jobs  PROVE CompletedInv(j)'
    BY <1>25 DEF RetryRead, Found, Known, Live, Retryable, RunInv, LoadedError, CompletedInv, TypeInv, RowsOK, Row, ThreadsOK, ThreadState, Threads, WorkerOK, OthersOK
  <2> QED
    BY <2>1, <2>2, <2>3, <2>4, <2>5 DEF RunInv
<1>26. ASSUME NEW r \in Requests, ImagePath(r)  PROVE RunInv'
  <2>1. Bystander
    BY <1>26 DEF ImagePath, Idle, ThreadsOK, ThreadState, Threads, Cleaners, Bystander, RetrySteps, TypeInv
  <2> QED
    BY <2>1, BystanderKeeps
<1>27. ASSUME NEW r \in Requests, RetryCommit(r)  PROVE RunInv'
  <2> DEFINE q == act[r].job
  <2> q \in Jobs /\ act[r].pc = "commit" /\ crt[q] = "done" /\ photo[q] # "faceless"
    BY <1>27 DEF RetryCommit, TypeInv, ThreadsOK, Threads, RunInv, Untaken, FacelessInv, RetrySteps
  <2> /\ UNCHANGED <<phase, photo, crt, queue, wk>>
      /\ \A p \in Requests : p # r => act'[p] = act[p]
      /\ act'[r].job \in {q, NoJob}
    BY <1>27 DEF RetryCommit, TypeInv, ThreadsOK, Threads, ThreadState, Idle
  <2> /\ \A j \in Jobs : j # q => db'[j] = db[j]
      /\ db'[q] = db[q] \/ (db'[q].status = "processing" /\ db'[q].error = "none")
    BY <1>27 DEF RetryCommit, TypeInv, RowsOK, Row
  <2> HIDE DEF q
  <2>1. QuietStart'
    BY <1>27 DEF RetryCommit, Exists, Idle, Live, RunInv, QuietStart, TypeInv, RowsOK, Row, ThreadsOK, ThreadState, Threads, WorkerOK, OthersOK
  <2>2. LoadedError'
    BY DEF RunInv, LoadedError, TypeInv, WorkerOK
  <2>3. ASSUME NEW j \in Jobs  PROVE Untaken(j)'
    BY DEF RunInv, Untaken
  <2>4. ASSUME NEW j \in Jobs  PROVE FacelessInv(j)'
    BY DEF RunInv, FacelessInv
  <2>5. ASSUME NEW j \in Jobs  PROVE CompletedInv(j)'
    BY DEF RunInv, CompletedInv
  <2> QED
    BY <2>1, <2>2, <2>3, <2>4, <2>5 DEF RunInv
<1>28. ASSUME NEW r \in Requests, RetryAppend(r)  PROVE RunInv'
  <2>1. Bystander
    BY <1>28 DEF RetryAppend, ThreadsOK, ThreadState, Threads, Cleaners, Bystander, RetrySteps, TypeInv
  <2> QED
    BY <2>1, BystanderKeeps
<1>29. ASSUME NEW r \in Requests, RetryPut(r)  PROVE RunInv'
  <2> DEFINE q == act[r].job
  <2> q \in Jobs /\ crt[q] = "done" /\ photo[q] # "faceless"
    BY <1>29 DEF RetryPut, TypeInv, ThreadsOK, Threads, RunInv, Untaken, FacelessInv, RetrySteps
  <2> /\ UNCHANGED <<db, photo, crt, wk>>
      /\ \A p \in Requests : p # r => act'[p] = act[p]
      /\ act'[r].job = NoJob
      /\ ToSet(queue') = ToSet(queue) \cup {q}
    BY <1>29, AppendToSet DEF RetryPut, TypeInv, ThreadsOK, Threads, Idle, OthersOK
  <2> HIDE DEF q
  <2>1. QuietStart'
    BY <1>29, AppendToSet DEF RetryPut, Idle, RunInv, QuietStart, TypeInv, RowsOK, Row, ThreadsOK, ThreadState, Threads, WorkerOK, OthersOK
  <2>2. LoadedError'
    BY <1>29, AppendToSet DEF RetryPut, Idle, RunInv, QuietStart, LoadedError, Untaken, TypeInv, RowsOK, Row, ThreadsOK, ThreadState, Threads, WorkerOK, OthersOK
  <2>3. ASSUME NEW j \in Jobs  PROVE Untaken(j)'
    BY DEF RunInv, Untaken
  <2>4. ASSUME NEW j \in Jobs  PROVE FacelessInv(j)'
    BY DEF RunInv, FacelessInv
  <2>5. ASSUME NEW j \in Jobs  PROVE CompletedInv(j)'
    BY <1>29, AppendToSet DEF RetryPut, Idle, RunInv, LoadedError, CompletedInv, TypeInv, RowsOK, Row, ThreadsOK, ThreadState, Threads, WorkerOK, OthersOK
  <2> QED
    BY <2>1, <2>2, <2>3, <2>4, <2>5 DEF RunInv
<1>30. ASSUME WorkerGet  PROVE RunInv'
  <2>1. QuietStart'
    BY <1>30, TailToSet DEF WorkerGet, IdleWorker, RunInv, QuietStart, TypeInv, RowsOK, Row, ThreadsOK, ThreadState, Threads, WorkerOK, OthersOK
  <2>2. LoadedError'
    BY <1>30, TailToSet DEF WorkerGet, IdleWorker, RunInv, QuietStart, LoadedError, Untaken, TypeInv, RowsOK, Row, ThreadsOK, ThreadState, Threads, WorkerOK, OthersOK
  <2>3. ASSUME NEW j \in Jobs  PROVE Untaken(j)'
    BY <1>30, TailToSet DEF WorkerGet, IdleWorker, RunInv, Untaken, TypeInv, RowsOK, Row, ThreadsOK, ThreadState, Threads, WorkerOK, OthersOK
  <2>4. ASSUME NEW j \in Jobs  PROVE FacelessInv(j)'
    BY <1>30, TailToSet DEF WorkerGet, IdleWorker, RunInv, Untaken, FacelessInv, RetrySteps, Retryable, TypeInv, RowsOK, Row, ThreadsOK, ThreadState, Threads, WorkerOK, OthersOK
  <2>5. ASSUME NEW j \in Jobs  PROVE CompletedInv(j)'
    BY <1>30, TailToSet DEF WorkerGet, IdleWorker, RunInv, LoadedError, CompletedInv, TypeInv, RowsOK, Row, ThreadsOK, ThreadState, Threads, WorkerOK, OthersOK
  <2> QED
    BY <2>1, <2>2, <2>3, <2>4, <2>5 DEF RunInv
<1>31. ASSUME WorkerLoad  PROVE RunInv'
  <2>1. QuietStart'
    BY <1>31 DEF WorkerLoad, Exists, Changed, Live, Terminal, Retryable, RunInv, QuietStart, TypeInv, RowsOK, Row, ThreadsOK, ThreadState, Threads, WorkerOK, OthersOK
  <2>2. LoadedError'
    BY <1>31 DEF WorkerLoad, Exists, Changed, Live, Terminal, Retryable, RunInv, QuietStart, LoadedError, Untaken, TypeInv, RowsOK, Row, ThreadsOK, ThreadState, Threads, WorkerOK, OthersOK
  <2>3. ASSUME NEW j \in Jobs  PROVE Untaken(j)'
    BY <1>31 DEF WorkerLoad, Exists, Changed, Live, Terminal, Retryable, RunInv, Untaken, TypeInv, RowsOK, Row, ThreadsOK, ThreadState, Threads, WorkerOK, OthersOK
  <2>4. ASSUME NEW j \in Jobs  PROVE FacelessInv(j)'
    BY <1>31 DEF WorkerLoad, Exists, Changed, Live, Terminal, Retryable, RunInv, Untaken, FacelessInv, RetrySteps, Retryable, TypeInv, RowsOK, Row, ThreadsOK, ThreadState, Threads, WorkerOK, OthersOK
  <2>5. ASSUME NEW j \in Jobs  PROVE CompletedInv(j)'
    BY <1>31 DEF WorkerLoad, Exists, Changed, Live, Terminal, Retryable, RunInv, LoadedError, CompletedInv, TypeInv, RowsOK, Row, ThreadsOK, ThreadState, Threads, WorkerOK, OthersOK
  <2> QED
    BY <2>1, <2>2, <2>3, <2>4, <2>5 DEF RunInv
<1>32. ASSUME WorkerStart  PROVE RunInv'
  <2>1. QuietStart'
    BY <1>32 DEF WorkerStart, Exists, Changed, Live, Terminal, Retryable, RunInv, QuietStart, TypeInv, RowsOK, Row, ThreadsOK, ThreadState, Threads, WorkerOK, OthersOK
  <2>2. LoadedError'
    BY <1>32 DEF WorkerStart, Exists, Changed, Live, Terminal, Retryable, RunInv, QuietStart, LoadedError, Untaken, TypeInv, RowsOK, Row, ThreadsOK, ThreadState, Threads, WorkerOK, OthersOK
  <2>3. ASSUME NEW j \in Jobs  PROVE Untaken(j)'
    BY <1>32 DEF WorkerStart, Exists, Changed, Live, Terminal, Retryable, RunInv, Untaken, TypeInv, RowsOK, Row, ThreadsOK, ThreadState, Threads, WorkerOK, OthersOK
  <2>4. ASSUME NEW j \in Jobs  PROVE FacelessInv(j)'
    BY <1>32 DEF WorkerStart, Exists, Changed, Live, Terminal, Retryable, RunInv, Untaken, FacelessInv, RetrySteps, Retryable, TypeInv, RowsOK, Row, ThreadsOK, ThreadState, Threads, WorkerOK, OthersOK
  <2>5. ASSUME NEW j \in Jobs  PROVE CompletedInv(j)'
    <3>1. db'[j] = db[j] \/ db'[j].status = "processing"
      BY <1>32 DEF WorkerStart, TypeInv, RowsOK, Row, WorkerOK
    <3> QED
      BY <3>1 DEF RunInv, CompletedInv
  <2> QED
    BY <2>1, <2>2, <2>3, <2>4, <2>5 DEF RunInv
<1>33. ASSUME WorkerRead  PROVE RunInv'
  <2>1. QuietStart'
    BY <1>33 DEF WorkerRead, Exists, Changed, Live, Terminal, Retryable, RunInv, QuietStart, TypeInv, RowsOK, Row, ThreadsOK, ThreadState, Threads, WorkerOK, OthersOK
  <2>2. LoadedError'
    BY <1>33 DEF WorkerRead, Exists, Changed, Live, Terminal, Retryable, RunInv, QuietStart, LoadedError, Untaken, TypeInv, RowsOK, Row, ThreadsOK, ThreadState, Threads, WorkerOK, OthersOK
  <2>3. ASSUME NEW j \in Jobs  PROVE Untaken(j)'
    BY <1>33 DEF WorkerRead, Exists, Changed, Live, Terminal, Retryable, RunInv, Untaken, TypeInv, RowsOK, Row, ThreadsOK, ThreadState, Threads, WorkerOK, OthersOK
  <2>4. ASSUME NEW j \in Jobs  PROVE FacelessInv(j)'
    BY <1>33 DEF WorkerRead, Exists, Changed, Live, Terminal, Retryable, RunInv, Untaken, FacelessInv, RetrySteps, Retryable, TypeInv, RowsOK, Row, ThreadsOK, ThreadState, Threads, WorkerOK, OthersOK
  <2>5. ASSUME NEW j \in Jobs  PROVE CompletedInv(j)'
    BY <1>33 DEF WorkerRead, Exists, Changed, Live, Terminal, Retryable, RunInv, LoadedError, CompletedInv, TypeInv, RowsOK, Row, ThreadsOK, ThreadState, Threads, WorkerOK, OthersOK
  <2> QED
    BY <2>1, <2>2, <2>3, <2>4, <2>5 DEF RunInv
<1>34. ASSUME WorkerOpen  PROVE RunInv'
  <2>1. QuietStart'
    BY <1>34 DEF WorkerOpen, Exists, Changed, Live, Terminal, Retryable, RunInv, QuietStart, TypeInv, RowsOK, Row, ThreadsOK, ThreadState, Threads, WorkerOK, OthersOK
  <2>2. LoadedError'
    BY <1>34 DEF WorkerOpen, Exists, RunInv, LoadedError, TypeInv, WorkerOK
  <2>3. ASSUME NEW j \in Jobs  PROVE Untaken(j)'
    BY <1>34 DEF WorkerOpen, Exists, Changed, Live, Terminal, Retryable, RunInv, Untaken, TypeInv, RowsOK, Row, ThreadsOK, ThreadState, Threads, WorkerOK, OthersOK
  <2>4. ASSUME NEW j \in Jobs  PROVE FacelessInv(j)'
    BY <1>34 DEF WorkerOpen, Exists, Changed, Live, Terminal, Retryable, RunInv, Untaken, FacelessInv, RetrySteps, Retryable, TypeInv, RowsOK, Row, ThreadsOK, ThreadState, Threads, WorkerOK, OthersOK
  <2>5. ASSUME NEW j \in Jobs  PROVE CompletedInv(j)'
    BY <1>34 DEF WorkerOpen, Exists, Changed, Live, Terminal, Retryable, RunInv, LoadedError, CompletedInv, TypeInv, RowsOK, Row, ThreadsOK, ThreadState, Threads, WorkerOK, OthersOK
  <2> QED
    BY <2>1, <2>2, <2>3, <2>4, <2>5 DEF RunInv
<1>35. ASSUME SaveResult  PROVE RunInv'
  <2>1. QuietStart'
    BY <1>35 DEF SaveResult, Exists, Changed, Live, Terminal, Retryable, RunInv, QuietStart, TypeInv, RowsOK, Row, ThreadsOK, ThreadState, Threads, WorkerOK, OthersOK
  <2>2. LoadedError'
    BY <1>35 DEF SaveResult, Exists, Changed, Live, Terminal, Retryable, RunInv, QuietStart, LoadedError, Untaken, TypeInv, RowsOK, Row, ThreadsOK, ThreadState, Threads, WorkerOK, OthersOK
  <2>3. ASSUME NEW j \in Jobs  PROVE Untaken(j)'
    BY <1>35 DEF SaveResult, Exists, Changed, Live, Terminal, Retryable, RunInv, Untaken, TypeInv, RowsOK, Row, ThreadsOK, ThreadState, Threads, WorkerOK, OthersOK
  <2>4. ASSUME NEW j \in Jobs  PROVE FacelessInv(j)'
    BY <1>35 DEF SaveResult, Exists, Changed, Live, Terminal, Retryable, RunInv, Untaken, FacelessInv, RetrySteps, Retryable, TypeInv, RowsOK, Row, ThreadsOK, ThreadState, Threads, WorkerOK, OthersOK
  <2>5. ASSUME NEW j \in Jobs  PROVE CompletedInv(j)'
    BY <1>35 DEF SaveResult, Exists, Changed, Live, Terminal, Retryable, RunInv, LoadedError, CompletedInv, TypeInv, RowsOK, Row, ThreadsOK, ThreadState, Threads, WorkerOK, OthersOK
  <2> QED
    BY <2>1, <2>2, <2>3, <2>4, <2>5 DEF RunInv
<1>36. ASSUME WorkerRaise  PROVE RunInv'
  <2>1. QuietStart'
    BY <1>36 DEF WorkerRaise, Exists, Changed, Live, Terminal, Retryable, RunInv, QuietStart, TypeInv, RowsOK, Row, ThreadsOK, ThreadState, Threads, WorkerOK, OthersOK
  <2>2. LoadedError'
    BY <1>36 DEF WorkerRaise, Exists, Changed, Live, Terminal, Retryable, RunInv, QuietStart, LoadedError, Untaken, TypeInv, RowsOK, Row, ThreadsOK, ThreadState, Threads, WorkerOK, OthersOK
  <2>3. ASSUME NEW j \in Jobs  PROVE Untaken(j)'
    BY <1>36 DEF WorkerRaise, Exists, Changed, Live, Terminal, Retryable, RunInv, Untaken, TypeInv, RowsOK, Row, ThreadsOK, ThreadState, Threads, WorkerOK, OthersOK
  <2>4. ASSUME NEW j \in Jobs  PROVE FacelessInv(j)'
    BY <1>36 DEF WorkerRaise, Exists, Changed, Live, Terminal, Retryable, RunInv, Untaken, FacelessInv, RetrySteps, Retryable, TypeInv, RowsOK, Row, ThreadsOK, ThreadState, Threads, WorkerOK, OthersOK
  <2>5. ASSUME NEW j \in Jobs  PROVE CompletedInv(j)'
    BY <1>36 DEF WorkerRaise, Exists, Changed, Live, Terminal, Retryable, RunInv, LoadedError, CompletedInv, TypeInv, RowsOK, Row, ThreadsOK, ThreadState, Threads, WorkerOK, OthersOK
  <2> QED
    BY <2>1, <2>2, <2>3, <2>4, <2>5 DEF RunInv
<1>37. ASSUME WorkerComplete  PROVE RunInv'
  <2>1. QuietStart'
    BY <1>37 DEF WorkerComplete, Exists, Changed, Live, Terminal, Retryable, RunInv, QuietStart, TypeInv, RowsOK, Row, ThreadsOK, ThreadState, Threads, WorkerOK, OthersOK
  <2>2. LoadedError'
    BY <1>37 DEF WorkerComplete, Exists, Changed, Live, Terminal, Retryable, RunInv, QuietStart, LoadedError, Untaken, TypeInv, RowsOK, Row, ThreadsOK, ThreadState, Threads, WorkerOK, OthersOK
  <2>3. ASSUME NEW j \in Jobs  PROVE Untaken(j)'
    BY <1>37 DEF WorkerComplete, Exists, Changed, Live, Terminal, Retryable, RunInv, Untaken, TypeInv, RowsOK, Row, ThreadsOK, ThreadState, Threads, WorkerOK, OthersOK
  <2>4. ASSUME NEW j \in Jobs  PROVE FacelessInv(j)'
    BY <1>37 DEF WorkerComplete, Exists, Changed, Live, Terminal, Retryable, RunInv, Untaken, FacelessInv, RetrySteps, Retryable, TypeInv, RowsOK, Row, ThreadsOK, ThreadState, Threads, WorkerOK, OthersOK
  <2>5. ASSUME NEW j \in Jobs  PROVE CompletedInv(j)'
    <3>1. db[wk.job] \in Row /\ wk.job \in Jobs
      BY <1>37 DEF WorkerComplete, TypeInv, RowsOK, WorkerOK
    <3>2. \/ db'[j] = db[j]
          \/ /\ j = wk.job /\ db'[j].results
             /\ wk.error = "none" => db'[j].error = db[j].error
             /\ wk.error # "none" => db'[j].error = "none"
      <4>1. CASE ~Exists(wk.job) \/ j # wk.job
        BY <1>37, <3>1, <4>1 DEF WorkerComplete, TypeInv, RowsOK
      <4>2. CASE Exists(wk.job) /\ j = wk.job
        BY <1>37, <3>1, <4>2 DEF WorkerComplete, Changed, TypeInv, RowsOK, Row
      <4> QED
        BY <4>1, <4>2
    <3> QED
      BY <1>37, <3>2 DEF WorkerComplete, LoadedError, RunInv, CompletedInv
  <2> QED
    BY <2>1, <2>2, <2>3, <2>4, <2>5 DEF RunInv
<1>38. ASSUME WorkerFail  PROVE RunInv'
  <2>1. QuietStart'
    BY <1>38 DEF WorkerFail, Exists, Changed, Live, Terminal, Retryable, RunInv, QuietStart, TypeInv, RowsOK, Row, ThreadsOK, ThreadState, Threads, WorkerOK, OthersOK
  <2>2. LoadedError'
    BY <1>38 DEF WorkerFail, Exists, Changed, Live, Terminal, Retryable, RunInv, QuietStart, LoadedError, Untaken, TypeInv, RowsOK, Row, ThreadsOK, ThreadState, Threads, WorkerOK, OthersOK
  <2>3. ASSUME NEW j \in Jobs  PROVE Untaken(j)'
    BY <1>38 DEF WorkerFail, Exists, Changed, Live, Terminal, Retryable, RunInv, Untaken, TypeInv, RowsOK, Row, ThreadsOK, ThreadState, Threads, WorkerOK, OthersOK
  <2>4. ASSUME NEW j \in Jobs  PROVE FacelessInv(j)'
    BY <1>38 DEF WorkerFail, Exists, Changed, Live, Terminal, Retryable, RunInv, Untaken, FacelessInv, RetrySteps, Retryable, TypeInv, RowsOK, Row, ThreadsOK, ThreadState, Threads, WorkerOK, OthersOK
  <2>5. ASSUME NEW j \in Jobs  PROVE CompletedInv(j)'
    <3>1. db'[j] = db[j] \/ db'[j].status = "failed"
      BY <1>38 DEF WorkerFail, TypeInv, RowsOK, Row, WorkerOK
    <3> QED
      BY <3>1 DEF RunInv, CompletedInv
  <2> QED
    BY <2>1, <2>2, <2>3, <2>4, <2>5 DEF RunInv
<1>39. ASSUME WorkerDone  PROVE RunInv'
  <2>1. QuietStart'
    BY <1>39 DEF WorkerDone, IdleWorker, RunInv, QuietStart, TypeInv, RowsOK, Row, ThreadsOK, ThreadState, Threads, WorkerOK, OthersOK
  <2>2. LoadedError'
    BY <1>39 DEF WorkerDone, IdleWorker, RunInv, QuietStart, LoadedError, Untaken, TypeInv, RowsOK, Row, ThreadsOK, ThreadState, Threads, WorkerOK, OthersOK
  <2>3. ASSUME NEW j \in Jobs  PROVE Untaken(j)'
    BY <1>39 DEF WorkerDone, IdleWorker, RunInv, Untaken, TypeInv, RowsOK, Row, ThreadsOK, ThreadState, Threads, WorkerOK, OthersOK
  <2>4. ASSUME NEW j \in Jobs  PROVE FacelessInv(j)'
    BY <1>39 DEF WorkerDone, IdleWorker, RunInv, Untaken, FacelessInv, RetrySteps, Retryable, TypeInv, RowsOK, Row, ThreadsOK, ThreadState, Threads, WorkerOK, OthersOK
  <2>5. ASSUME NEW j \in Jobs  PROVE CompletedInv(j)'
    BY <1>39 DEF WorkerDone, IdleWorker, RunInv, LoadedError, CompletedInv, TypeInv, RowsOK, Row, ThreadsOK, ThreadState, Threads, WorkerOK, OthersOK
  <2> QED
    BY <2>1, <2>2, <2>3, <2>4, <2>5 DEF RunInv
<1>40. ASSUME Waiting  PROVE RunInv'
  <2>1. Bystander
    BY <1>40 DEF Waiting, vars, ThreadsOK, ThreadState, Threads, Cleaners, Bystander, RetrySteps, TypeInv
  <2> QED
    BY <2>1, BystanderKeeps
<1>41. CASE UNCHANGED vars
  <2>1. Bystander
    BY <1>41 DEF vars, Bystander
  <2> QED
    BY <2>1, BystanderKeeps
<1>42. CASE RestartStep
  BY <1>42, <1>2, <1>3 DEF RestartStep
<1>43. CASE WorkerStep
  BY <1>43, <1>30, <1>31, <1>32, <1>33, <1>34, <1>35, <1>36, <1>37, <1>38, <1>39 DEF WorkerStep
<1>44. ASSUME NEW t \in Threads, DeleteStep(t)  PROVE RunInv'
  BY <1>44, <1>9, <1>10, <1>11, <1>13, <1>12 DEF DeleteStep
<1>45. ASSUME NEW c \in Cleaners, CleanerStep(c)  PROVE RunInv'
  BY <1>45, <1>5, <1>6, <1>7, <1>8, <1>44 DEF CleanerStep, Threads
<1>46. ASSUME NEW r \in Requests, RequestStep(r)  PROVE RunInv'
  BY <1>46, <1>26, <1>27, <1>28, <1>29, <1>44 DEF RequestStep, Threads
<1>47. ASSUME NEW k \in Jobs, CreateStep(k)  PROVE RunInv'
  BY <1>47, <1>15, <1>16, <1>17, <1>18, <1>19, <1>20 DEF CreateStep
<1>48. ASSUME NEW r \in Requests, NEW k \in Jobs, Ask(r, k)  PROVE RunInv'
  BY <1>48, <1>22, <1>23, <1>24, <1>25 DEF Ask
<1> QED
  BY <1>1, <1>4, <1>14, <1>21, <1>40, <1>41, <1>42, <1>43, <1>44, <1>45, <1>46, <1>47, <1>48 DEF Next

\* The worker never takes up a job whose photo the pre-check turned down, not by
\* a retry and not after a restart that found it half created.
THEOREM FacelessStaysOut == Spec => []FacelessNeverRuns
<1>1. RunInv => FacelessNeverRuns
  BY DEF RunInv, FacelessInv, FacelessNeverRuns
<1> QED
  BY TypeInit, TypeStep, RunInit, RunStep, <1>1, PTL DEF Spec

\* A completed job has its results and no error, however many runs, retries and
\* deletions of it overlapped.
THEOREM CompletedWhole == Spec => []CompletedIsWhole
<1>1. RunInv => CompletedIsWhole
  BY DEF RunInv, CompletedInv, CompletedIsWhole
<1> QED
  BY TypeInit, TypeStep, RunInit, RunStep, <1>1, PTL DEF Spec

-----------------------------------------------------------------------------
(* What position() counts                                                    *)

\* The places of a job in a sequence can be counted.
LEMMA OccurrencesType ==
    ASSUME NEW s \in Seq(Jobs), NEW j
    PROVE  IsFiniteSet({i \in DOMAIN s : s[i] = j}) /\ Occurrences(s, j) \in Nat
<1>1. IsFiniteSet(1..Len(s)) /\ DOMAIN s = 1..Len(s)
  BY FS_Interval
<1>2. {i \in DOMAIN s : s[i] = j} \in SUBSET (1..Len(s))
  BY <1>1
<1> QED
  BY <1>1, <1>2, FS_Subset, FS_CardinalityType DEF Occurrences

\* t is s without the element at m.
Without(s, t, m) ==
    /\ Len(t) = Len(s) - 1
    /\ \A i \in 1..Len(t) : t[i] = IF i < m THEN s[i] ELSE s[i + 1]

\* Taking the element at m out takes one occurrence of it and no other.
LEMMA OccurrencesWithout ==
    ASSUME NEW s \in Seq(Jobs), NEW t \in Seq(Jobs), NEW m \in 1..Len(s),
           Without(s, t, m), NEW j
    PROVE  Occurrences(s, j) = Occurrences(t, j) + (IF s[m] = j THEN 1 ELSE 0)
<1> DEFINE S == {i \in DOMAIN s : s[i] = j}
           T == {i \in DOMAIN t : t[i] = j}
           f == [i \in T |-> IF i < m THEN i ELSE i + 1]
<1> USE DEF Without
<1>1. DOMAIN s = 1..Len(s) /\ DOMAIN t = 1..Len(t) /\ Len(s) \in Nat /\ Len(t) \in Nat /\ m \in Nat
  OBVIOUS
<1>2. f \in [T -> S \ {m}]
  BY <1>1
<1>3. \A x, y \in T : f[x] = f[y] => x = y
  BY <1>1
<1>4. \A z \in S \ {m} : \E x \in T : f[x] = z
  <2> TAKE z \in S \ {m}
  <2>1. CASE z < m
    <3>1. z \in T /\ f[z] = z
      BY <1>1, <2>1
    <3> QED
      BY <3>1
  <2>2. CASE ~(z < m)
    <3>1. z - 1 \in T /\ f[z - 1] = z
      BY <1>1, <2>2
    <3> QED
      BY <3>1
  <2> QED
    BY <2>1, <2>2
<1>5. ExistsBijection(T, S \ {m})
  <2> HIDE DEF f, S, T
  <2> QED
    BY <1>2, <1>3, <1>4 DEF ExistsBijection, Bijection, Injection, Surjection, IsInjective
<1>6. IsFiniteSet(T) /\ IsFiniteSet(S) /\ Cardinality(T) \in Nat /\ Cardinality(S) \in Nat
  BY OccurrencesType DEF Occurrences
<1>7. Cardinality(S \ {m}) = Cardinality(T)
  BY <1>5, <1>6, FS_Bijection
<1>8. m \in S <=> s[m] = j
  BY <1>1
<1>9. Cardinality(S \ {m}) = IF m \in S THEN Cardinality(S) - 1 ELSE Cardinality(S)
  BY <1>6, FS_RemoveElement
<1> QED
  BY <1>6, <1>7, <1>8, <1>9 DEF Occurrences

\* enqueue adds one.
LEMMA OccurrencesAppend ==
    ASSUME NEW s \in Seq(Jobs), NEW k \in Jobs, NEW j
    PROVE  Occurrences(Append(s, k), j) = Occurrences(s, j) + (IF k = j THEN 1 ELSE 0)
<1> DEFINE a == Append(s, k)
<1>1. /\ a \in Seq(Jobs) /\ Len(a) = Len(s) + 1 /\ Len(s) \in Nat
      /\ a[Len(s) + 1] = k
      /\ \A i \in 1..Len(s) : a[i] = s[i]
  BY AppendProperties
<1>2. Len(s) + 1 \in 1..Len(a) /\ Len(s) = Len(a) - 1
  BY <1>1
<1>3. Without(a, s, Len(s) + 1)
  BY <1>1 DEF Without
<1> HIDE DEF a
<1>4. Occurrences(a, j) = Occurrences(s, j) + (IF a[Len(s) + 1] = j THEN 1 ELSE 0)
  BY <1>1, <1>2, <1>3, OccurrencesWithout
<1> QED
  BY <1>1, <1>4 DEF a

\* The get of the worker takes one.
LEMMA OccurrencesTail ==
    ASSUME NEW s \in Seq(Jobs), s # <<>>, NEW j
    PROVE  Occurrences(s, j) = Occurrences(Tail(s), j) + (IF Head(s) = j THEN 1 ELSE 0)
<1> DEFINE t == Tail(s)
<1>1. /\ t \in Seq(Jobs) /\ Len(t) = Len(s) - 1 /\ Len(s) \in Nat /\ Len(s) # 0
      /\ Head(s) = s[1]
      /\ \A i \in 1..Len(t) : t[i] = s[i + 1]
  BY HeadTailProperties
<1>2. 1 \in 1..Len(s) /\ Without(s, t, 1)
  BY <1>1 DEF Without
<1> HIDE DEF t
<1>3. Occurrences(s, j) = Occurrences(t, j) + (IF s[1] = j THEN 1 ELSE 0)
  BY <1>1, <1>2, OccurrencesWithout
<1> QED
  BY <1>1, <1>3 DEF t

\* And list.remove takes one, if there is one.
LEMMA OccurrencesRemoveFirst ==
    ASSUME NEW s \in Seq(Jobs), NEW k, Occurrences(s, k) >= 1, NEW j
    PROVE  Occurrences(s, j) = Occurrences(RemoveFirst(s, k), j) + (IF k = j THEN 1 ELSE 0)
<1>1. \E i \in 1..Len(s) : s[i] = k
  <2> SUFFICES ASSUME \A i \in 1..Len(s) : s[i] # k  PROVE FALSE
    OBVIOUS
  <2>1. {i \in DOMAIN s : s[i] = k} = {}
    OBVIOUS
  <2>2. Occurrences(s, k) = 0
    BY <2>1, FS_EmptySet DEF Occurrences
  <2> QED
    BY <2>2
<1>2. PICK m \in 1..Len(s) : /\ s[m] = k
                             /\ RemoveFirst(s, k) = SubSeq(s, 1, m - 1) \o SubSeq(s, m + 1, Len(s))
  BY <1>1, RemoveFirstAt
<1> DEFINE t == SubSeq(s, 1, m - 1) \o SubSeq(s, m + 1, Len(s))
<1>3. t \in Seq(Jobs) /\ Without(s, t, m)
  BY RemoveAtProperties DEF Without
<1>4. RemoveFirst(s, k) = t /\ s[m] = k
  BY <1>2
<1> HIDE DEF t
<1>5. Occurrences(s, j) = Occurrences(t, j) + (IF s[m] = j THEN 1 ELSE 0)
  BY <1>3, OccurrencesWithout
<1> QED
  BY <1>4, <1>5

\* The retries that are between the two steps of enqueue.
Putting(j) == {r \in Requests : act[r].job = j /\ act[r].pc = "put"}

\* A step that changes nothing that PendingMatchesQueue counts.
Uncounted ==
    /\ UNCHANGED <<pending, queue>>
    /\ wk'.job = wk.job
    /\ \A j \in Jobs : crt'[j] = "put" <=> crt[j] = "put"
    /\ \A r \in Requests :
         (act'[r].pc = "put" \/ act[r].pc = "put") => act'[r] = act[r]

\* Steps that change nothing the count depends on.
LEMMA UncountedKeeps ==
    ASSUME PendingMatchesQueue, Uncounted
    PROVE  PendingMatchesQueue'
<1> SUFFICES ASSUME NEW j \in Jobs
             PROVE  Occurrences(pending', j) =
                          Occurrences(queue', j)
                        + (IF wk'.job = j THEN 1 ELSE 0)
                        + (IF crt'[j] = "put" THEN 1 ELSE 0)
                        + Cardinality({r \in Requests : act'[r].job = j /\ act'[r].pc = "put"})
  BY DEF PendingMatchesQueue
<1>1. {r \in Requests : act'[r].job = j /\ act'[r].pc = "put"}
        = {r \in Requests : act[r].job = j /\ act[r].pc = "put"}
  BY DEF Uncounted
<1> QED
  BY <1>1 DEF PendingMatchesQueue, Uncounted

\* Both are empty at the start.
LEMMA PendingInit == Init => PendingMatchesQueue
<1> SUFFICES ASSUME Init, NEW j \in Jobs
             PROVE  Occurrences(pending, j) =
                          Occurrences(queue, j)
                        + (IF wk.job = j THEN 1 ELSE 0)
                        + (IF crt[j] = "put" THEN 1 ELSE 0)
                        + Cardinality({r \in Requests : act[r].job = j /\ act[r].pc = "put"})
  BY DEF PendingMatchesQueue
<1>1. Occurrences(<<>>, j) = 0
  <2>1. {i \in DOMAIN <<>> : <<>>[i] = j} = {}
    OBVIOUS
  <2> QED
    BY <2>1, FS_EmptySet DEF Occurrences
<1>2. {r \in Requests : act[r].job = j /\ act[r].pc = "put"} = {}
  BY DEF Init, Idle, Threads
<1>3. pending = <<>> /\ queue = <<>> /\ wk.job = NoJob /\ NoJob # j /\ crt[j] = "none"
  BY ActorsAssumption DEF Init, IdleWorker
<1>4. Cardinality({}) = 0
  BY FS_EmptySet
<1>5. 0 = 0 + (IF wk.job = j THEN 1 ELSE 0) + (IF crt[j] = "put" THEN 1 ELSE 0) + 0
  BY <1>3
<1> QED
  BY <1>1, <1>2, <1>3, <1>4, <1>5

\* Every step keeps the count: each one that moves a job moves it from one of the
\* places that are counted to the next.
LEMMA PendingStep == TypeInv /\ RunInv /\ PendingMatchesQueue /\ [Next]_vars => PendingMatchesQueue'
<1> SUFFICES ASSUME TypeInv, RunInv, PendingMatchesQueue, [Next]_vars
             PROVE  PendingMatchesQueue'
  OBVIOUS
<1> USE ActorsAssumption
<1> DEFINE Counted(j) ==
      Occurrences(pending, j) =
            Occurrences(queue, j)
          + (IF wk.job = j THEN 1 ELSE 0)
          + (IF crt[j] = "put" THEN 1 ELSE 0)
          + Cardinality(Putting(j))
<1>0. /\ pending \in Seq(Jobs) /\ queue \in Seq(Jobs)
      /\ \A j \in Jobs : Counted(j)
      /\ \A j \in Jobs : /\ Occurrences(pending, j) \in Nat /\ Occurrences(queue, j) \in Nat
                         /\ IsFiniteSet(Putting(j)) /\ Cardinality(Putting(j)) \in Nat
  <2>1. pending \in Seq(Jobs) /\ queue \in Seq(Jobs)
    BY DEF TypeInv, OthersOK
  <2>2. \A j \in Jobs : Counted(j)
    BY DEF PendingMatchesQueue, Putting
  <2>3. \A j \in Jobs : Occurrences(pending, j) \in Nat /\ Occurrences(queue, j) \in Nat
    BY <2>1, OccurrencesType
  <2>4. \A j \in Jobs : IsFiniteSet(Putting(j)) /\ Cardinality(Putting(j)) \in Nat
    <3>1. \A j : Putting(j) \in SUBSET Requests
      BY DEF Putting
    <3> QED
      BY <3>1, FS_Subset, FS_CardinalityType
  <2> QED
    BY <2>1, <2>2, <2>3, <2>4
<1>1. ASSUME \A j \in Jobs : Counted(j)'  PROVE PendingMatchesQueue'
  BY <1>1 DEF PendingMatchesQueue, Putting
<1> HIDE DEF Counted
<1>2. CASE Crash
  <2>1. ASSUME NEW j \in Jobs  PROVE Counted(j)'
    <3>1. Putting(j)' = {}
      BY <1>2 DEF Crash, Putting, Idle, Threads
    <3>2. Occurrences(<<>>, j) = 0
      <4>1. {i \in DOMAIN <<>> : <<>>[i] = j} = {}
        OBVIOUS
      <4> QED
        BY <4>1, FS_EmptySet DEF Occurrences
    <3>3. pending' = <<>> /\ queue' = <<>> /\ wk'.job # j /\ crt'[j] # "put"
      BY <1>2 DEF Crash, IdleWorker, TypeInv, OthersOK
    <3> QED
      BY <3>1, <3>2, <3>3, FS_EmptySet DEF Counted
  <2> QED
    BY <2>1, <1>1
<1>3. ASSUME NEW k \in Jobs, CreateAppend(k)  PROVE PendingMatchesQueue'
  <2>1. ASSUME NEW j \in Jobs  PROVE Counted(j)'
    <3>1. Putting(j)' = Putting(j) /\ queue' = queue /\ wk' = wk
      BY <1>3 DEF CreateAppend, Putting
    <3>2. Occurrences(pending', j) = Occurrences(pending, j) + (IF k = j THEN 1 ELSE 0)
      BY <1>3, <1>0, OccurrencesAppend DEF CreateAppend
    <3>3. /\ j # k => crt'[j] = crt[j]
          /\ j = k => crt[j] # "put" /\ crt'[j] = "put"
      BY <1>3 DEF CreateAppend, TypeInv, OthersOK
    <3> QED
      BY <1>0, <3>1, <3>2, <3>3 DEF Counted
  <2> QED
    BY <2>1, <1>1
<1>4. ASSUME NEW k \in Jobs, CreatePut(k)  PROVE PendingMatchesQueue'
  <2>1. ASSUME NEW j \in Jobs  PROVE Counted(j)'
    <3>1. Putting(j)' = Putting(j) /\ pending' = pending /\ wk' = wk
      BY <1>4 DEF CreatePut, Putting
    <3>2. Occurrences(queue', j) = Occurrences(queue, j) + (IF k = j THEN 1 ELSE 0)
      BY <1>4, <1>0, OccurrencesAppend DEF CreatePut
    <3>3. /\ j # k => crt'[j] = crt[j]
          /\ j = k => crt[j] = "put" /\ crt'[j] # "put"
      BY <1>4 DEF CreatePut, TypeInv, OthersOK
    <3> QED
      BY <1>0, <3>1, <3>2, <3>3 DEF Counted
  <2> QED
    BY <2>1, <1>1
<1>5. ASSUME NEW r \in Requests, RetryAppend(r)  PROVE PendingMatchesQueue'
  <2>0. PICK k \in Jobs : k = act[r].job
    BY <1>5 DEF RetryAppend, TypeInv, ThreadsOK, Threads
  <2>1. ASSUME NEW j \in Jobs  PROVE Counted(j)'
    <3>1. queue' = queue /\ wk' = wk /\ crt' = crt
      BY <1>5 DEF RetryAppend
    <3>2. Occurrences(pending', j) = Occurrences(pending, j) + (IF k = j THEN 1 ELSE 0)
      BY <1>5, <1>0, <2>0, OccurrencesAppend DEF RetryAppend
    <3>3. /\ act[r].pc = "append" /\ act'[r].pc = "put" /\ act'[r].job = k
          /\ \A q \in Requests : q # r => act'[q] = act[q]
      BY <1>5, <2>0 DEF RetryAppend, TypeInv, ThreadsOK, ThreadState, Threads
    <3>4. r \notin Putting(j) /\ Putting(j)' = IF k = j THEN Putting(j) \cup {r} ELSE Putting(j)
      BY <2>0, <3>3 DEF Putting
    <3>5. PICK S, T : S = Putting(j) /\ T = Putting(j)'
      OBVIOUS
    <3>6. IsFiniteSet(S) /\ Cardinality(S) \in Nat /\ r \notin S /\ T = IF k = j THEN S \cup {r} ELSE S
      BY <1>0, <3>4, <3>5
    <3>7. Cardinality(S \cup {r}) = Cardinality(S) + 1
      BY <3>6, FS_AddElement
    <3>8. Cardinality(T) = Cardinality(S) + (IF k = j THEN 1 ELSE 0)
      BY <3>6, <3>7
    <3>9. Cardinality(Putting(j)') = Cardinality(Putting(j)) + (IF k = j THEN 1 ELSE 0)
      BY <3>5, <3>8
    <3> QED
      <4>1. Counted(j) /\ Cardinality(Putting(j)) \in Nat /\ Occurrences(queue, j) \in Nat
        BY <1>0
      <4> QED
        BY <4>1, <3>1, <3>2, <3>9 DEF Counted
  <2> QED
    BY <2>1, <1>1
<1>6. ASSUME NEW r \in Requests, RetryPut(r)  PROVE PendingMatchesQueue'
  <2>0. PICK k \in Jobs : k = act[r].job
    BY <1>6 DEF RetryPut, TypeInv, ThreadsOK, Threads
  <2>1. ASSUME NEW j \in Jobs  PROVE Counted(j)'
    <3>1. pending' = pending /\ wk' = wk /\ crt' = crt
      BY <1>6 DEF RetryPut
    <3>2. Occurrences(queue', j) = Occurrences(queue, j) + (IF k = j THEN 1 ELSE 0)
      BY <1>6, <1>0, <2>0, OccurrencesAppend DEF RetryPut
    <3>3. /\ act[r].pc = "put" /\ act'[r].pc = "idle"
          /\ \A q \in Requests : q # r => act'[q] = act[q]
      BY <1>6 DEF RetryPut, Idle, TypeInv, ThreadsOK, Threads
    <3>4. (r \in Putting(j) <=> k = j) /\ Putting(j)' = Putting(j) \ {r}
      BY <2>0, <3>3 DEF Putting
    <3>5. PICK S, T : S = Putting(j) /\ T = Putting(j)'
      OBVIOUS
    <3>6. IsFiniteSet(S) /\ Cardinality(S) \in Nat /\ (r \in S <=> k = j) /\ T = S \ {r}
      BY <1>0, <3>4, <3>5
    <3>7. /\ IsFiniteSet(S \ {r})
          /\ Cardinality(S \ {r}) = IF r \in S THEN Cardinality(S) - 1 ELSE Cardinality(S)
      BY <3>6, FS_RemoveElement
    <3>8. Cardinality(S \ {r}) \in Nat
      BY <3>7, FS_CardinalityType
    <3>9. Cardinality(T) \in Nat /\ Cardinality(S) = Cardinality(T) + (IF k = j THEN 1 ELSE 0)
      BY <3>6, <3>7, <3>8
    <3>10. /\ Cardinality(Putting(j)') \in Nat
           /\ Cardinality(Putting(j)) = Cardinality(Putting(j)') + (IF k = j THEN 1 ELSE 0)
      BY <3>5, <3>9
    <3> QED
      <4>1. /\ Counted(j)
            /\ Cardinality(Putting(j)) \in Nat /\ Occurrences(queue, j) \in Nat
        BY <1>0
      <4> QED
        BY <4>1, <3>1, <3>2, <3>10 DEF Counted
  <2> QED
    BY <2>1, <1>1
<1>7. ASSUME WorkerGet  PROVE PendingMatchesQueue'
  <2>1. ASSUME NEW j \in Jobs  PROVE Counted(j)'
    <3>1. pending' = pending /\ crt' = crt /\ act' = act /\ queue # <<>> /\ queue' = Tail(queue)
      BY <1>7 DEF WorkerGet
    <3>2. wk.job # j /\ wk'.job = Head(queue)
      BY <1>7 DEF WorkerGet, IdleWorker, RunInv, LoadedError
    <3>3. Occurrences(queue, j) = Occurrences(queue', j) + (IF Head(queue) = j THEN 1 ELSE 0)
      BY <1>0, <3>1, OccurrencesTail
    <3>4. Occurrences(queue', j) \in Nat
      <4>1. PICK q \in Seq(Jobs) : q = Tail(queue)
        BY <1>0, <3>1, HeadTailProperties
      <4>2. Occurrences(q, j) \in Nat
        BY OccurrencesType
      <4> QED
        BY <3>1, <4>1, <4>2
    <3>5. Putting(j)' = Putting(j)
      BY <3>1 DEF Putting
    <3> QED
      BY <1>0, <3>1, <3>2, <3>3, <3>4, <3>5 DEF Counted
  <2> QED
    BY <2>1, <1>1
<1>8. ASSUME WorkerDone  PROVE PendingMatchesQueue'
  <2>0. PICK k \in Jobs : k = wk.job
    BY <1>8 DEF WorkerDone, TypeInv, WorkerOK
  <2>1. Occurrences(pending, k) >= 1
    <3>1. PICK a \in Nat, b \in Nat, c \in Nat :
            a = Occurrences(pending, k) /\ b = Occurrences(queue, k) /\ c = Cardinality(Putting(k))
      BY <1>0
    <3>2. a = b + 1 + (IF crt[k] = "put" THEN 1 ELSE 0) + c
      <4>1. Counted(k)
        BY <1>0
      <4> QED
        BY <4>1, <2>0, <3>1 DEF Counted
    <3> QED
      BY <3>1, <3>2
  <2>2. ASSUME NEW j \in Jobs  PROVE Counted(j)'
    <3>1. queue' = queue /\ crt' = crt /\ act' = act /\ pending' = RemoveFirst(pending, k) /\ wk'.job # j
      BY <1>8, <2>0 DEF WorkerDone, IdleWorker
    <3>2. Occurrences(pending, j) = Occurrences(pending', j) + (IF k = j THEN 1 ELSE 0)
      BY <1>0, <2>1, <3>1, OccurrencesRemoveFirst
    <3>3. Occurrences(pending', j) \in Nat
      BY <1>0, <3>1, RemoveFirstType, OccurrencesType
    <3>4. Putting(j)' = Putting(j)
      BY <3>1 DEF Putting
    <3>5. /\ Counted(j) /\ (wk.job = j <=> k = j)
          /\ Cardinality(Putting(j)) \in Nat /\ Occurrences(queue, j) \in Nat
      BY <1>0, <2>0
    <3> QED
      BY <3>1, <3>2, <3>3, <3>4, <3>5 DEF Counted
  <2> QED
    BY <2>2, <1>1
<1>9. ASSUME Uncounted  PROVE PendingMatchesQueue'
  BY <1>9, UncountedKeeps
<1> USE DEF Uncounted
<1>10. CASE \/ WorkerLoad \/ WorkerStart \/ WorkerRead \/ WorkerOpen \/ SaveResult \/ WorkerRaise
            \/ WorkerComplete \/ WorkerFail \/ Waiting \/ UNCHANGED vars
            \/ \E k \in Jobs : RecoverStaleJob(k) \/ Expire(k)
  <2>1. UNCHANGED <<pending, queue, crt, act>> /\ wk'.job = wk.job
    BY <1>10 DEF WorkerLoad, WorkerStart, WorkerRead, WorkerOpen, SaveResult, WorkerRaise,
                 WorkerComplete, WorkerFail, Waiting, vars, RecoverStaleJob, Expire, TypeInv, WorkerOK
  <2> QED
    BY <1>9, <2>1
<1>11. CASE RecoverDone \/ StartPeriodicCleanup
  BY <1>9, <1>11 DEF RecoverDone, StartPeriodicCleanup, Threads, TypeInv, ThreadsOK
<1>12. ASSUME NEW k \in Jobs, \/ CreateRequest(k) \/ CreateInvalid(k) \/ CreateRow(k)
                              \/ CreateSaveSource(k) \/ CreateMarkFailed(k)
       PROVE  PendingMatchesQueue'
  <2>1. /\ UNCHANGED <<pending, queue, wk>>
        /\ \A j \in Jobs : crt'[j] = "put" <=> crt[j] = "put"
    BY <1>12 DEF CreateRequest, CreateInvalid, CreateRow, CreateSaveSource, CreateMarkFailed,
                 TypeInv, OthersOK
  <2>2. \A r \in Requests : act'[r] = act[r]
    <3>1. \A r \in Requests : r \in Threads /\ r # Loop
      BY DEF Threads
    <3>2. CASE CreateRequest(k)
      BY <3>1, <3>2 DEF CreateRequest, TypeInv, ThreadsOK
    <3> QED
      BY <1>12, <3>2 DEF CreateInvalid, CreateRow, CreateSaveSource, CreateMarkFailed
  <2> QED
    BY <1>9, <2>1, <2>2
<1>13. ASSUME NEW r \in Requests, NEW k \in Jobs, Ask(r, k)  PROVE PendingMatchesQueue'
  <2>1. /\ UNCHANGED <<pending, queue, wk, crt>>
        /\ act[r].pc = "idle" /\ act'[r].pc # "put"
        /\ \A q \in Requests : q # r => act'[q] = act[q]
    BY <1>13 DEF Ask, LookupExpired, DeleteRead, ImageRead, RetryRead, Found, TypeInv, ThreadsOK,
                 ThreadState, Threads
  <2> QED
    BY <1>9, <2>1
<1>14. ASSUME NEW r \in Requests, ImagePath(r) \/ RetryCommit(r)  PROVE PendingMatchesQueue'
  <2>1. /\ UNCHANGED <<pending, queue, wk, crt>>
        /\ act[r].pc # "put" /\ act'[r].pc # "put"
        /\ \A q \in Requests : q # r => act'[q] = act[q]
    BY <1>14 DEF ImagePath, RetryCommit, Idle, TypeInv, ThreadsOK, ThreadState, Threads
  <2> QED
    BY <1>9, <2>1
<1>15. ASSUME NEW t \in Threads, DeleteStep(t)  PROVE PendingMatchesQueue'
  <2>1. /\ UNCHANGED <<pending, queue, wk, crt>>
        /\ act[t].pc # "put" /\ act'[t].pc # "put"
        /\ \A q \in Threads : q # t => act'[q] = act[q]
    BY <1>15 DEF DeleteStep, ListFiles, Unlink, Rmdir, DeleteRow, FilesFailed, AfterJob, Idle,
                 TypeInv, ThreadsOK, ThreadState
  <2> QED
    BY <1>9, <2>1 DEF Threads
<1>16. ASSUME NEW c \in Cleaners, CleanerStep(c)  PROVE PendingMatchesQueue'
  <2>1. CASE CleanNext(c) \/ CleanNextGone(c) \/ CleanDone(c) \/ FilesFailedGone(c)
    <3>1. /\ UNCHANGED <<pending, queue, wk>>
          /\ \A q \in Requests : act'[q] = act[q]
      BY <2>1 DEF CleanNext, CleanNextGone, CleanDone, FilesFailedGone, EndCleanup, Cleaners,
                  TypeInv, ThreadsOK, Threads
    <3>2. \A j \in Jobs : crt'[j] = "put" <=> crt[j] = "put"
      BY <2>1 DEF CleanNext, CleanNextGone, CleanDone, FilesFailedGone, EndCleanup
    <3> QED
      BY <1>9, <3>1, <3>2
  <2> QED
    BY <1>15, <1>16, <2>1 DEF CleanerStep, Threads
<1>17. CASE WorkerStep
  BY <1>7, <1>8, <1>10, <1>17 DEF WorkerStep
<1>18. ASSUME NEW k \in Jobs, CreateStep(k)  PROVE PendingMatchesQueue'
  BY <1>3, <1>4, <1>12, <1>18 DEF CreateStep
<1>19. ASSUME NEW r \in Requests, RequestStep(r)  PROVE PendingMatchesQueue'
  BY <1>5, <1>6, <1>14, <1>15, <1>19 DEF RequestStep, Threads
<1>20. CASE RestartStep
  BY <1>10, <1>11, <1>20 DEF RestartStep
<1>21. CASE Next
  BY <1>2, <1>10, <1>11, <1>12, <1>13, <1>16, <1>17, <1>18, <1>19, <1>20, <1>21 DEF Next
<1> QED
  BY <1>10, <1>21

\* The position a client is told counts what is before its job: _pending never
\* drifts from what waits in the queue, runs, or is being enqueued.
THEOREM PendingCounts == Spec => []PendingMatchesQueue
  BY TypeInit, TypeStep, RunInit, RunStep, PendingInit, PendingStep, PTL DEF Spec

-----------------------------------------------------------------------------
(* First attempts survive every deletion                                     *)

\* The create request has not written the row.
Unwritten(j) == crt[j] \in {"none", "clean", "read"}

\* What a deletion may count on: the job has ended or gone, or a retry has been at it.
Settled(j) == ~Unwritten(j) /\ (db[j].status \notin Live \/ db[j].attempt > 1)

\* A row counts its attempts from one, and is the create request's own until that
\* has answered.
AttemptInv(j) ==
    /\ Unwritten(j) => db[j].status = "none"
    /\ db[j].status # "none" => db[j].attempt > 0
    /\ crt[j] \in {"save", "reject", "append", "put"} =>
         db[j].attempt = 1 /\ db[j].status = "queued"

Runs(j) == wk.job = j /\ wk.pc \notin {"idle", "done"}

\* A job that was never retried waits once, live, and not while it runs.
FirstRunInv(j) ==
    db[j].attempt = 1 =>
        /\ j \in ToSet(queue) => db[j].status \in Live /\ ~Runs(j)
        /\ \A i, k \in 1..Len(queue) : queue[i] = j /\ queue[k] = j => i = k
        /\ wk.job = j /\ wk.pc \in {"load", "start"} => db[j].status \in Live

\* What a thread has in hand: a deletion what it may delete, a retry what it counts up.
HandInv(t) ==
    /\ act[t].pc \in {"list", "unlink", "row", "error"} => Settled(act[t].job)
    /\ \A j \in act[t].todo : Settled(j)
    /\ t \in Requests =>
         /\ act[t].pc = "commit" => act[t].attempt > 0
         /\ act[t].pc \in {"append", "put"} => db[act[t].job].attempt # 1

FirstInv ==
    /\ \A j \in Jobs : AttemptInv(j) /\ FirstRunInv(j)
    /\ \A t \in Threads : HandInv(t)

\* No step takes back what a deletion counted on, or a retry from the count.
Onward(j) ==
    /\ Settled(j) => Settled(j)'
    /\ db'[j].attempt = 1 => db[j].attempt = 1 \/ Unwritten(j)

\* The empty service has no job at all.
LEMMA FirstInit == Init => FirstInv
<1> USE ActorsAssumption
<1> QED
  BY DEF Init, FirstInv, AttemptInv, FirstRunInv, HandInv, Unwritten, NoRow, Idle, Threads

\* A row is what a create request, the pre-check, a retry, a restart, the worker or
\* a deletion made of it.
LEMMA AttemptStep ==
    TypeInv /\ RunInv /\ FirstInv /\ [Next]_vars => \A j \in Jobs : AttemptInv(j)' /\ Onward(j)
<1> SUFFICES ASSUME TypeInv, RunInv, FirstInv, [Next]_vars, NEW j \in Jobs
             PROVE  AttemptInv(j)' /\ Onward(j)
  OBVIOUS
<1> USE ActorsAssumption
<1> DEFINE Good == AttemptInv(j)' /\ Onward(j)
<1>0. /\ AttemptInv(j) /\ FirstRunInv(j) /\ Untaken(j)
      /\ db[j].attempt \in Nat /\ db \in [Jobs -> Row] /\ crt \in [Jobs -> {"none", "read", "done", "error"} \cup Creating]
  BY DEF FirstInv, RunInv, TypeInv, RowsOK, Row, OthersOK
<1>1. ASSUME UNCHANGED db,
             \/ crt'[j] = crt[j]
             \/ Unwritten(j) /\ (crt'[j] \in {"clean", "read", "error"})
             \/ crt[j] \notin {"none", "clean", "read"} /\ crt'[j] \in {"done", "error"}
             \/ crt[j] \in {"save", "append"} /\ crt'[j] \in {"reject", "append", "put"}
      PROVE  Good
  BY <1>0, <1>1 DEF AttemptInv, Onward, Settled, Unwritten, Live
<1>2. ASSUME crt'[j] = crt[j], db[j].status # "none", ~Unwritten(j), crt[j] \in {"done", "error"},
             db'[j].status # "none", db'[j].attempt = db[j].attempt,
             db'[j].status \in Live => db[j].status \in Live \/ db[j].attempt # 1
      PROVE  Good
  BY <1>0, <1>2 DEF AttemptInv, Onward, Settled, Unwritten
<1>3. ASSUME db'[j] = db[j], crt'[j] = crt[j]  PROVE Good
  BY <1>0, <1>3 DEF AttemptInv, Onward, Settled, Unwritten
<1> SUFFICES Good
  OBVIOUS
<1> HIDE DEF Good
<1>4. CASE UNCHANGED <<db, crt>>
  BY <1>4, <1>3
<1>5. CASE Crash
  BY <1>5, <1>1, <1>0 DEF Crash, Creating, Unwritten
<1>6. ASSUME NEW k \in Jobs, RecoverStaleJob(k)  PROVE Good
  <2>1. crt[j] \in {"none", "done", "error"} /\ crt' = crt
    BY <1>6 DEF RecoverStaleJob, RunInv, QuietStart
  <2>2. CASE j = k
    <3>1. db[j].status \in Live /\ db'[j].status = "failed" /\ db'[j].attempt = db[j].attempt
      BY <1>6, <2>2, <1>0 DEF RecoverStaleJob, Row
    <3>2. crt[j] \in {"done", "error"}
      BY <2>1, <3>1, <1>0 DEF AttemptInv, Unwritten, Live
    <3> QED
      BY <2>1, <3>1, <3>2, <1>2 DEF Live, Unwritten
  <2>3. CASE j # k
    BY <2>3, <2>1, <1>6, <1>3, <1>0 DEF RecoverStaleJob
  <2> QED
    BY <2>2, <2>3
<1>7. ASSUME NEW c \in Cleaners, CleanNextGone(c) \/ CleanDone(c) \/ FilesFailedGone(c)  PROVE Good
  BY <1>7, <1>0, <1>1 DEF CleanNextGone, CleanDone, FilesFailedGone, EndCleanup, Unwritten
<1>8. ASSUME NEW k \in Jobs, CreateRequest(k) \/ CreateInvalid(k)  PROVE Good
  BY <1>8, <1>0, <1>1 DEF CreateRequest, CreateInvalid, Unwritten
<1>9. ASSUME NEW k \in Jobs, CreateRow(k)  PROVE Good
  <2>1. CASE j = k
    <3>1. crt[j] = "read" /\ crt'[j] = "save" /\ db'[j].status = "queued" /\ db'[j].attempt = 1
      BY <1>9, <2>1, <1>0 DEF CreateRow, NoRow
    <3> QED
      BY <3>1, <1>0 DEF Good, AttemptInv, Onward, Settled, Unwritten
  <2>2. CASE j # k
    BY <2>2, <1>9, <1>0, <1>3 DEF CreateRow
  <2> QED
    BY <2>1, <2>2
<1>10. ASSUME NEW k \in Jobs, CreateSaveSource(k) \/ CreateAppend(k) \/ CreatePut(k)  PROVE Good
  BY <1>10, <1>0, <1>1 DEF CreateSaveSource, CreateAppend, CreatePut
<1>11. ASSUME NEW k \in Jobs, CreateMarkFailed(k)  PROVE Good
  <2>1. CASE j = k
    <3>1. crt[j] = "reject" /\ crt'[j] = "done" /\ db'[j].status = "failed" /\ db'[j].attempt = db[j].attempt
      BY <1>11, <2>1, <1>0 DEF CreateMarkFailed, Row
    <3> QED
      BY <3>1, <1>0 DEF Good, AttemptInv, Onward, Settled, Unwritten, Live
  <2>2. CASE j # k
    BY <2>2, <1>11, <1>0, <1>3 DEF CreateMarkFailed
  <2> QED
    BY <2>1, <2>2
<1>12. ASSUME NEW t \in Threads, DeleteRow(t)  PROVE Good
  <2>1. act[t].job \in Jobs /\ Settled(act[t].job) /\ crt' = crt
    BY <1>12 DEF DeleteRow, FirstInv, HandInv, TypeInv, ThreadsOK
  <2>2. CASE j = act[t].job
    <3>1. db'[j] = NoRow
      BY <1>12, <2>1, <2>2, <1>0 DEF DeleteRow
    <3>2. crt[j] \notin {"save", "reject", "append", "put"}
      BY <2>1, <2>2, <1>0 DEF AttemptInv, Settled, Live
    <3> QED
      BY <2>1, <3>1, <3>2 DEF Good, AttemptInv, Onward, Settled, Unwritten, NoRow, Live
  <2>3. CASE j # act[t].job
    BY <2>3, <2>1, <1>12, <1>0, <1>3 DEF DeleteRow
  <2> QED
    BY <2>2, <2>3
<1>13. ASSUME NEW r \in Requests, RetryCommit(r)  PROVE Good
  <2>1. act[r].job \in Jobs /\ act[r].attempt \in Nat /\ act[r].attempt > 0 /\ crt' = crt
    BY <1>13 DEF RetryCommit, FirstInv, HandInv, TypeInv, ThreadsOK, ThreadState, Threads
  <2>2. CASE j = act[r].job /\ Exists(j)
    <3>1. crt[j] = "done"
      BY <2>2, <1>0 DEF Untaken
    <3>2. db'[j].status = "processing" /\ db'[j].attempt = act[r].attempt + 1
      BY <1>13, <2>2, <1>0 DEF RetryCommit, Row
    <3> QED
      BY <2>1, <3>1, <3>2 DEF Good, AttemptInv, Onward, Settled, Unwritten
  <2>3. CASE j # act[r].job \/ ~Exists(j)
    BY <2>3, <2>1, <1>13, <1>0, <1>3 DEF RetryCommit
  <2> QED
    BY <2>2, <2>3
<1>14. CASE WorkerStart \/ WorkerComplete \/ WorkerFail
  <2>1. crt' = crt
    BY <1>14 DEF WorkerStart, WorkerComplete, WorkerFail
  <2>2. CASE j = wk.job /\ Exists(j)
    <3>1. crt[j] = "done"
      BY <2>2, <1>0 DEF Untaken
    <3>2. WorkerStart => db'[j].status = "processing" /\ db'[j].attempt = db[j].attempt
      BY <2>2, <1>0 DEF WorkerStart, Row
    <3>3. WorkerComplete => db'[j].status = "completed" /\ db'[j].attempt = db[j].attempt
      BY <2>2, <1>0 DEF WorkerComplete, Row
    <3>4. WorkerFail => db'[j].status = "failed" /\ db'[j].attempt = db[j].attempt
      BY <2>2, <1>0 DEF WorkerFail, Row
    <3>5. WorkerStart => db[j].status \in Live \/ db[j].attempt # 1
      BY <2>2, <1>0 DEF WorkerStart, FirstRunInv
    <3> QED
      BY <1>14, <2>1, <2>2, <3>1, <3>2, <3>3, <3>4, <3>5, <1>2 DEF Exists, Live, Unwritten
  <2>3. CASE j # wk.job \/ ~Exists(j)
    <3>1. db'[j] = db[j]
      BY <2>3, <1>14, <1>0 DEF WorkerStart, WorkerComplete, WorkerFail
    <3> QED
      BY <3>1, <2>1, <1>3
  <2> QED
    BY <2>2, <2>3
<1>15. CASE WorkerStep
  BY <1>15, <1>14, <1>4 DEF WorkerStep, WorkerGet, WorkerLoad, WorkerRead, WorkerOpen, SaveResult, WorkerRaise, WorkerDone
<1>16. ASSUME NEW t \in Threads, DeleteStep(t)  PROVE Good
  BY <1>16, <1>12, <1>4 DEF DeleteStep, ListFiles, Unlink, Rmdir, FilesFailed
<1>17. ASSUME NEW c \in Cleaners, CleanerStep(c)  PROVE Good
  <2>1. CASE CleanNext(c)
    BY <2>1, <1>4 DEF CleanNext
  <2> QED
    BY <1>17, <2>1, <1>7, <1>16 DEF CleanerStep, Threads
<1>18. ASSUME NEW r \in Requests, RequestStep(r)  PROVE Good
  <2>1. CASE ImagePath(r) \/ RetryAppend(r) \/ RetryPut(r)
    BY <2>1, <1>4 DEF ImagePath, RetryAppend, RetryPut
  <2> QED
    BY <1>18, <2>1, <1>13, <1>16 DEF RequestStep, Threads
<1>19. ASSUME NEW r \in Requests, NEW k \in Jobs, Ask(r, k)  PROVE Good
  BY <1>19, <1>4 DEF Ask, LookupExpired, DeleteRead, ImageRead, RetryRead
<1>20. ASSUME NEW k \in Jobs, CreateRequest(k) \/ CreateStep(k) \/ Expire(k)  PROVE Good
  <2>1. CASE Expire(k)
    BY <2>1, <1>4 DEF Expire
  <2> QED
    BY <1>20, <2>1, <1>8, <1>9, <1>10, <1>11 DEF CreateStep
<1>21. CASE RestartStep \/ StartPeriodicCleanup \/ Waiting \/ UNCHANGED vars
  BY <1>21, <1>4, <1>6 DEF RestartStep, RecoverDone, StartPeriodicCleanup, Waiting, vars
<1> QED
  BY <1>5, <1>15, <1>17, <1>18, <1>19, <1>20, <1>21 DEF Next

\* A job comes to the queue once, by its create request, and is live until the worker
\* has done with it.
LEMMA FirstRunStep ==
    TypeInv /\ RunInv /\ FirstInv /\ [Next]_vars => \A j \in Jobs : FirstRunInv(j)'
<1> SUFFICES ASSUME TypeInv, RunInv, FirstInv, [Next]_vars, NEW j \in Jobs, db'[j].attempt = 1
             PROVE  FirstRunInv(j)'
  BY DEF FirstRunInv
<1> USE ActorsAssumption
<1>0. /\ AttemptInv(j) /\ FirstRunInv(j) /\ Untaken(j) /\ db \in [Jobs -> Row]
      /\ queue \in Seq(Jobs) /\ Onward(j)
  BY AttemptStep DEF FirstInv, RunInv, TypeInv, RowsOK, OthersOK
<1>1. ASSUME UNCHANGED <<queue, wk>>, db'[j] = db[j]  PROVE FirstRunInv(j)'
  BY <1>0, <1>1 DEF FirstRunInv, Runs
<1>2. ASSUME j \notin ToSet(queue'), wk'.job # j \/ wk'.pc \notin {"load", "start"}
      PROVE  FirstRunInv(j)'
  BY <1>2 DEF FirstRunInv, ToSet
<1>3. CASE UNCHANGED <<db, queue, wk>>
  BY <1>3, <1>1
<1>4. CASE Crash
  BY <1>4, <1>2 DEF Crash, IdleWorker, ToSet
<1>5. ASSUME NEW k \in Jobs, RecoverStaleJob(k)  PROVE FirstRunInv(j)'
  BY <1>5, <1>2 DEF RecoverStaleJob, RunInv, QuietStart, ToSet
<1>6. ASSUME NEW k \in Jobs, CreateRow(k) \/ CreateMarkFailed(k)  PROVE FirstRunInv(j)'
  <2>1. CASE j = k
    BY <2>1, <1>6, <1>0, <1>2 DEF CreateRow, CreateMarkFailed, Untaken
  <2>2. CASE j # k
    BY <2>2, <1>6, <1>0, <1>1 DEF CreateRow, CreateMarkFailed
  <2> QED
    BY <2>1, <2>2
<1>7. ASSUME NEW k \in Jobs, queue' = Append(queue, k), UNCHANGED <<db, wk>>, j # k  PROVE FirstRunInv(j)'
  <2>1. j \in ToSet(queue') => j \in ToSet(queue)
    BY <1>7, <1>0, AppendToSet
  <2>2. Len(queue') = Len(queue) + 1 /\ queue'[Len(queue) + 1] = k
        /\ \A i \in 1..Len(queue) : queue'[i] = queue[i]
    BY <1>7, <1>0, AppendProperties
  <2>3. ASSUME NEW i \in 1..Len(queue'), queue'[i] = j  PROVE i \in 1..Len(queue) /\ queue[i] = j
    BY <2>2, <2>3, <1>7, <1>0
  <2> QED
    BY <2>1, <2>3, <1>7, <1>0 DEF FirstRunInv, Runs
<1>8. ASSUME NEW k \in Jobs, CreatePut(k)  PROVE FirstRunInv(j)'
  <2>1. CASE j = k
    <3>1. crt[j] = "put" /\ UNCHANGED <<db, wk>> /\ queue' = Append(queue, j)
      BY <1>8, <2>1 DEF CreatePut
    <3>2. db[j].status = "queued" /\ j \notin ToSet(queue) /\ wk.job # j
      BY <3>1, <1>0 DEF AttemptInv, Untaken
    <3>3. Len(queue) \in Nat /\ Len(queue') = Len(queue) + 1 /\ \A i \in 1..Len(queue) : queue'[i] = queue[i] /\ queue[i] # j
      BY <3>1, <3>2, <1>0, AppendProperties DEF ToSet
    <3>4. \A i \in 1..Len(queue') : queue'[i] = j => i = Len(queue) + 1
      BY <3>3
    <3> QED
      BY <3>1, <3>2, <3>4 DEF FirstRunInv, Runs, Live
  <2> QED
    BY <2>1, <1>8, <1>7 DEF CreatePut
<1>9. ASSUME NEW t \in Threads, DeleteRow(t)  PROVE FirstRunInv(j)'
  <2>1. db'[j] = db[j] \/ db'[j] = NoRow
    BY <1>9, <1>0 DEF DeleteRow
  <2>2. db'[j] = db[j]
    BY <2>1, db'[j].attempt = 1 DEF NoRow
  <2> QED
    BY <2>2, <1>9, <1>1 DEF DeleteRow
<1>10. ASSUME NEW r \in Requests, RetryCommit(r)  PROVE FirstRunInv(j)'
  <2>1. act[r].job \in Jobs /\ act[r].attempt \in Nat /\ act[r].attempt > 0
    BY <1>10 DEF RetryCommit, FirstInv, HandInv, TypeInv, ThreadsOK, ThreadState, Threads
  <2>2. CASE j = act[r].job /\ Exists(j)
    <3>1. db'[j].attempt = act[r].attempt + 1
      BY <1>10, <2>2, <1>0 DEF RetryCommit, Row
    <3> QED
      BY <3>1, <2>1, db'[j].attempt = 1
  <2>3. CASE j # act[r].job \/ ~Exists(j)
    BY <2>3, <2>1, <1>10, <1>0, <1>1 DEF RetryCommit
  <2> QED
    BY <2>2, <2>3
<1>11. ASSUME NEW r \in Requests, RetryPut(r)  PROVE FirstRunInv(j)'
  <2>1. act[r].job \in Jobs /\ db[act[r].job].attempt # 1
    BY <1>11 DEF RetryPut, FirstInv, HandInv, TypeInv, ThreadsOK, Threads
  <2> QED
    BY <2>1, <1>11, <1>7, db'[j].attempt = 1 DEF RetryPut
<1>12. CASE WorkerGet
  <2>1. /\ UNCHANGED db /\ queue # <<>> /\ queue' = Tail(queue)
        /\ wk'.job = Head(queue) /\ wk'.pc = "load" /\ wk.pc = "idle"
    BY <1>12 DEF WorkerGet, IdleWorker
  <2>2. /\ Len(queue) \in Nat /\ Len(queue') = Len(queue) - 1 /\ Head(queue) = queue[1] /\ Len(queue) # 0
        /\ \A i \in 1..Len(queue') : queue'[i] = queue[i + 1]
    BY <2>1, <1>0, HeadTailProperties
  <2>3. \A i \in 1..Len(queue') : i + 1 \in 1..Len(queue)
    BY <2>2
  <2>4. j \in ToSet(queue') => j \in ToSet(queue) /\ Head(queue) # j
    <3> SUFFICES ASSUME NEW i \in 1..Len(queue'), queue'[i] = j
                 PROVE  j \in ToSet(queue) /\ Head(queue) # j
      BY DEF ToSet
    <3>1. i + 1 \in 1..Len(queue) /\ queue[i + 1] = j /\ 1 \in 1..Len(queue) /\ i + 1 # 1
      BY <2>2, <2>3
    <3> QED
      BY <3>1, <2>1, <2>2, <1>0, db'[j].attempt = 1 DEF FirstRunInv, ToSet
  <2>5. Head(queue) = j => j \in ToSet(queue)
    BY <2>2 DEF ToSet
  <2>6. \A i, k \in 1..Len(queue') : queue'[i] = j /\ queue'[k] = j => i = k
    <3> SUFFICES ASSUME NEW i \in 1..Len(queue'), NEW k \in 1..Len(queue'), queue'[i] = j, queue'[k] = j
                 PROVE  i = k
      OBVIOUS
    <3>1. i + 1 = k + 1
      BY <2>1, <2>2, <2>3, <1>0, db'[j].attempt = 1 DEF FirstRunInv
    <3> QED
      BY <3>1
  <2>7. j \in ToSet(queue) => db[j].status \in Live
    BY <2>1, <1>0, db'[j].attempt = 1 DEF FirstRunInv
  <2> QED
    BY <2>1, <2>4, <2>5, <2>6, <2>7 DEF FirstRunInv, Runs
<1>13. CASE WorkerLoad
  BY <1>13, <1>0 DEF WorkerLoad, FirstRunInv, Runs
<1>14. CASE WorkerRead \/ WorkerOpen \/ SaveResult \/ WorkerRaise \/ WorkerDone
  <2>1. UNCHANGED <<db, queue>> /\ wk'.pc \notin {"load", "start"} /\ (Runs(j)' => Runs(j))
    <3>1. CASE WorkerDone
      BY <3>1 DEF WorkerDone, IdleWorker, Runs
    <3>2. CASE WorkerRead \/ WorkerOpen \/ SaveResult \/ WorkerRaise
      BY <3>2 DEF WorkerRead, WorkerOpen, SaveResult, WorkerRaise, Runs, TypeInv, WorkerOK
    <3> QED
      BY <1>14, <3>1, <3>2
  <2> QED
    BY <2>1, <1>0 DEF FirstRunInv
<1>15. CASE WorkerStart \/ WorkerComplete \/ WorkerFail
  <2>1. UNCHANGED queue /\ wk'.pc \notin {"load", "start"} /\ (Runs(j)' => Runs(j))
    BY <1>15 DEF WorkerStart, WorkerComplete, WorkerFail, Runs, TypeInv, WorkerOK
  <2>2. db[j].attempt = 1
    BY <1>15, <1>0, db'[j].attempt = 1 DEF WorkerStart, WorkerComplete, WorkerFail, Row
  <2>3. j # wk.job => db'[j] = db[j]
    BY <1>15, <1>0 DEF WorkerStart, WorkerComplete, WorkerFail
  <2>4. j = wk.job => Runs(j)
    BY <1>15 DEF WorkerStart, WorkerComplete, WorkerFail, Runs
  <2> QED
    BY <2>1, <2>2, <2>3, <2>4, <1>0 DEF FirstRunInv
<1>16. CASE WorkerStep
  BY <1>16, <1>12, <1>13, <1>14, <1>15 DEF WorkerStep
<1>17. ASSUME NEW t \in Threads, DeleteStep(t)  PROVE FirstRunInv(j)'
  BY <1>17, <1>9, <1>3 DEF DeleteStep, ListFiles, Unlink, Rmdir, FilesFailed
<1>18. ASSUME NEW c \in Cleaners, CleanerStep(c)  PROVE FirstRunInv(j)'
  <2>1. CASE CleanNext(c) \/ CleanNextGone(c) \/ CleanDone(c) \/ FilesFailedGone(c)
    BY <2>1, <1>3 DEF CleanNext, CleanNextGone, CleanDone, FilesFailedGone, EndCleanup
  <2> QED
    BY <1>18, <2>1, <1>17 DEF CleanerStep, Threads
<1>19. ASSUME NEW r \in Requests, RequestStep(r)  PROVE FirstRunInv(j)'
  <2>1. CASE ImagePath(r) \/ RetryAppend(r)
    BY <2>1, <1>3 DEF ImagePath, RetryAppend
  <2> QED
    BY <1>19, <2>1, <1>10, <1>11, <1>17 DEF RequestStep, Threads
<1>20. ASSUME NEW r \in Requests, NEW k \in Jobs, Ask(r, k)  PROVE FirstRunInv(j)'
  BY <1>20, <1>3 DEF Ask, LookupExpired, DeleteRead, ImageRead, RetryRead
<1>21. ASSUME NEW k \in Jobs, CreateRequest(k) \/ CreateStep(k) \/ Expire(k)  PROVE FirstRunInv(j)'
  <2>1. CASE CreateRequest(k) \/ Expire(k) \/ CreateInvalid(k) \/ CreateSaveSource(k) \/ CreateAppend(k)
    BY <2>1, <1>3 DEF CreateRequest, Expire, CreateInvalid, CreateSaveSource, CreateAppend
  <2> QED
    BY <1>21, <2>1, <1>6, <1>8 DEF CreateStep
<1>22. CASE RestartStep \/ StartPeriodicCleanup \/ Waiting \/ UNCHANGED vars
  BY <1>22, <1>3, <1>5 DEF RestartStep, RecoverDone, StartPeriodicCleanup, Waiting, vars
<1> QED
  BY <1>4, <1>16, <1>18, <1>19, <1>20, <1>21, <1>22 DEF Next

\* Deletions begin with what a query or a lookup found to have ended, and retries
\* with what a row shows.
LEMMA HandStep ==
    TypeInv /\ RunInv /\ FirstInv /\ [Next]_vars => \A t \in Threads : HandInv(t)'
<1> SUFFICES ASSUME TypeInv, RunInv, FirstInv, [Next]_vars, NEW t \in Threads
             PROVE  HandInv(t)'
  OBVIOUS
<1> USE ActorsAssumption
<1>0. /\ \A j \in Jobs : AttemptInv(j) /\ Onward(j) /\ Untaken(j)
      /\ HandInv(t)
      /\ act \in [Threads -> ThreadState] /\ db \in [Jobs -> Row]
      /\ act[t].pc \notin {"idle", "next"} => act[t].job \in Jobs
      /\ act[t].todo \subseteq Jobs
  BY AttemptStep DEF FirstInv, RunInv, TypeInv, RowsOK, ThreadsOK, ThreadState
<1>1. \A j \in Jobs : Settled(j) => Settled(j)'
  BY <1>0 DEF Onward
<1>2. CASE act'[t] = act[t]
  <2>1. ASSUME t \in Requests, act[t].pc \in {"append", "put"}
        PROVE  db'[act[t].job].attempt # 1
    <3>1. act[t].job \in Jobs /\ db[act[t].job].attempt # 1
      BY <1>0, <2>1 DEF HandInv
    <3>2. crt[act[t].job] = "done"
      BY <3>1, <2>1, <1>0 DEF Untaken
    <3> QED
      BY <3>1, <3>2, <1>0 DEF Onward, Unwritten
  <2> QED
    BY <1>0, <1>1, <1>2, <2>1 DEF HandInv
<1>3. ASSUME act'[t].pc \notin {"list", "unlink", "row", "error", "commit", "append", "put"},
             act'[t].todo \subseteq act[t].todo
      PROVE  HandInv(t)'
  BY <1>0, <1>1, <1>3 DEF HandInv
<1>4. ASSUME act'[t].pc \in {"list", "unlink", "row", "error"}, act'[t].job \in Jobs,
             Settled(act'[t].job), act'[t].todo \subseteq act[t].todo
      PROVE  HandInv(t)'
  BY <1>0, <1>1, <1>4 DEF HandInv
\* A job with a row that is not live is settled.
<1>5. ASSUME NEW j \in Jobs, db[j].status \in Terminal  PROVE Settled(j)
  BY <1>0, <1>5 DEF AttemptInv, Settled, Terminal, Live
<1>6. CASE UNCHANGED act
  BY <1>6, <1>2
<1>7. ASSUME act'[t] = Idle  PROVE HandInv(t)'
  BY <1>7, <1>3 DEF Idle
<1>8. CASE Crash
  BY <1>8, <1>7, <1>0 DEF Crash
<1>9. ASSUME act'[t] = Query, UNCHANGED <<db, crt>> \/ \E k \in Jobs : CreateRequest(k)
      PROVE  HandInv(t)'
  <2>1. act'[t].pc = "next" /\ act'[t].todo = {j \in Jobs : IsExpired(j)}
    BY <1>9 DEF Query, Idle
  <2>2. \A j \in Jobs : IsExpired(j) => Settled(j)
    BY <1>5 DEF IsExpired
  <2> QED
    BY <2>1, <2>2, <1>1 DEF HandInv
<1>10. CASE RecoverDone \/ StartPeriodicCleanup
  BY <1>10, <1>9, <1>2, <1>0 DEF RecoverDone, StartPeriodicCleanup
<1>11. ASSUME NEW k \in Jobs, CreateRequest(k)  PROVE HandInv(t)'
  BY <1>11, <1>9, <1>2, <1>0 DEF CreateRequest
<1>12. ASSUME NEW u \in Threads, NEW s, act' = [act EXCEPT ![u] = s], t # u  PROVE HandInv(t)'
  BY <1>12, <1>2, <1>0
<1>13. ASSUME NEW c \in Cleaners, CleanNext(c)  PROVE HandInv(t)'
  <2>1. CASE t = c
    BY <1>13, <2>1, <1>4, <1>0 DEF CleanNext, HandInv, ThreadState
  <2>2. CASE t # c
    BY <1>13, <2>2, <1>2, <1>0 DEF CleanNext, Threads
  <2> QED
    BY <2>1, <2>2
<1>14. ASSUME NEW c \in Cleaners, CleanNextGone(c) \/ CleanDone(c) \/ FilesFailedGone(c)  PROVE HandInv(t)'
  <2>1. act' = [act EXCEPT ![c] = Idle]
    BY <1>14 DEF CleanNextGone, CleanDone, FilesFailedGone, EndCleanup
  <2> QED
    BY <2>1, <1>7, <1>2, <1>0 DEF Threads
<1>15. ASSUME NEW u \in Threads, DeleteStep(u)  PROVE HandInv(t)'
  <2>1. CASE t # u
    <3>1. \E s : act' = [act EXCEPT ![u] = s]
      BY <1>15, <1>0 DEF DeleteStep, ListFiles, Unlink, Rmdir, DeleteRow, FilesFailed, AfterJob
    <3>2. act'[t] = act[t]
      BY <3>1, <2>1, <1>0
    <3> QED
      BY <3>2, <1>2
  <2>2. CASE t = u
    <3>1. act[t].pc \in {"list", "unlink", "row", "error"} /\ Settled(act[t].job) /\ act[t].job \in Jobs
      BY <1>15, <2>2, <1>0 DEF DeleteStep, ListFiles, Unlink, Rmdir, DeleteRow, FilesFailed, HandInv
    <3>2. CASE ListFiles(t) \/ Unlink(t) \/ Rmdir(t)
      <4>1. act'[t].pc \in {"list", "unlink", "row", "error"} /\ act'[t].job = act[t].job /\ act'[t].todo = act[t].todo
        BY <3>2, <3>1, <1>0 DEF ListFiles, Unlink, Rmdir, ThreadState
      <4> QED
        BY <4>1, <3>1, <1>4
    <3>3. CASE DeleteRow(t) \/ FilesFailed(t)
      <4>1. act'[t] = Idle \/ (act'[t].pc = "next" /\ act'[t].todo = act[t].todo)
        BY <3>3, <1>0 DEF DeleteRow, FilesFailed, AfterJob, ThreadState
      <4> QED
        BY <4>1, <1>7, <1>3
    <3> QED
      BY <1>15, <2>2, <3>2, <3>3 DEF DeleteStep
  <2> QED
    BY <2>1, <2>2
<1>16. ASSUME NEW r \in Requests, NEW k \in Jobs, LookupExpired(r, k) \/ DeleteRead(r, k)  PROVE HandInv(t)'
  <2>1. act' = [act EXCEPT ![r].pc = "list", ![r].job = k] /\ db[k].status \in Terminal
    BY <1>16 DEF LookupExpired, DeleteRead, IsExpired
  <2>2. CASE t = r
    <3>1. act'[t].pc = "list" /\ act'[t].job = k /\ act'[t].todo = act[t].todo
      BY <2>1, <2>2, <1>0 DEF ThreadState
    <3> QED
      BY <3>1, <2>1, <1>5, <1>4
  <2> QED
    BY <2>1, <2>2, <1>2, <1>0
<1>17. ASSUME NEW r \in Requests, NEW k \in Jobs, ImageRead(r, k)  PROVE HandInv(t)'
  <2>1. act' = [act EXCEPT ![r].pc = "image", ![r].job = k]
    BY <1>17 DEF ImageRead
  <2>2. CASE t = r
    <3>1. act'[t].pc = "image" /\ act'[t].todo = act[t].todo
      BY <2>1, <2>2, <1>0 DEF ThreadState
    <3> QED
      BY <3>1, <1>3
  <2> QED
    BY <2>1, <2>2, <1>2, <1>0
<1>18. ASSUME NEW r \in Requests, NEW k \in Jobs, RetryRead(r, k)  PROVE HandInv(t)'
  <2>1. /\ act' = [act EXCEPT ![r].pc = "commit", ![r].job = k, ![r].attempt = db[k].attempt]
        /\ db[k].status = "failed"
    BY <1>18 DEF RetryRead
  <2>2. CASE t = r
    <3>1. act'[t].pc = "commit" /\ act'[t].attempt = db[k].attempt /\ act'[t].todo = act[t].todo
      BY <2>1, <2>2, <1>0 DEF ThreadState
    <3>2. db[k].attempt > 0
      BY <2>1, <1>0 DEF AttemptInv
    <3> QED
      BY <3>1, <3>2, <1>0, <1>1 DEF HandInv
  <2> QED
    BY <2>1, <2>2, <1>2, <1>0
<1>19. ASSUME NEW r \in Requests, ImagePath(r) \/ RetryPut(r)  PROVE HandInv(t)'
  <2>1. act' = [act EXCEPT ![r] = Idle]
    BY <1>19 DEF ImagePath, RetryPut
  <2> QED
    BY <2>1, <1>7, <1>2, <1>0 DEF Threads
<1>20. ASSUME NEW r \in Requests, RetryAppend(r)  PROVE HandInv(t)'
  <2>1. act' = [act EXCEPT ![r].pc = "put"] /\ act[r].pc = "append" /\ UNCHANGED db
    BY <1>20 DEF RetryAppend
  <2>2. CASE t = r
    <3>1. act'[t].pc = "put" /\ act'[t].job = act[t].job /\ act'[t].todo = act[t].todo
      BY <2>1, <2>2, <1>0 DEF ThreadState
    <3> QED
      BY <3>1, <2>1, <2>2, <1>0, <1>1 DEF HandInv
  <2> QED
    BY <2>1, <2>2, <1>2, <1>0
<1>21. ASSUME NEW r \in Requests, RetryCommit(r)  PROVE HandInv(t)'
  <2>1. CASE t = r /\ Exists(act[r].job)
    <3>1. act' = [act EXCEPT ![r].pc = "append"] /\ act[r].job \in Jobs /\ act[r].attempt \in Nat /\ act[r].attempt > 0
      BY <1>21, <2>1, <1>0 DEF RetryCommit, HandInv, ThreadState
    <3>2. act'[t].pc = "append" /\ act'[t].job = act[t].job /\ act'[t].todo = act[t].todo
      BY <2>1, <3>1, <1>0 DEF ThreadState
    <3>3. db'[act[t].job].attempt = act[t].attempt + 1
      BY <1>21, <2>1, <3>1, <1>0 DEF RetryCommit, Row
    <3> QED
      BY <2>1, <3>1, <3>2, <3>3, <1>0, <1>1 DEF HandInv
  <2>2. CASE t = r /\ ~Exists(act[r].job)
    BY <1>21, <2>2, <1>7, <1>0 DEF RetryCommit
  <2>3. CASE t # r
    BY <1>21, <2>3, <1>2, <1>0 DEF RetryCommit
  <2> QED
    BY <2>1, <2>2, <2>3
<1>22. ASSUME NEW c \in Cleaners, CleanerStep(c)  PROVE HandInv(t)'
  BY <1>22, <1>13, <1>14, <1>15 DEF CleanerStep, Threads
<1>23. ASSUME NEW r \in Requests, RequestStep(r)  PROVE HandInv(t)'
  BY <1>23, <1>15, <1>19, <1>20, <1>21 DEF RequestStep, Threads
<1>24. ASSUME NEW r \in Requests, NEW k \in Jobs, Ask(r, k)  PROVE HandInv(t)'
  BY <1>24, <1>16, <1>17, <1>18 DEF Ask
<1>25. ASSUME NEW k \in Jobs, CreateStep(k) \/ Expire(k) \/ RecoverStaleJob(k)  PROVE HandInv(t)'
  BY <1>25, <1>6 DEF CreateStep, CreateInvalid, CreateRow, CreateSaveSource, CreateMarkFailed,
                     CreateAppend, CreatePut, Expire, RecoverStaleJob
<1>26. CASE WorkerStep \/ Waiting \/ UNCHANGED vars
  BY <1>26, <1>6 DEF WorkerStep, WorkerGet, WorkerLoad, WorkerStart, WorkerRead, WorkerOpen,
                     SaveResult, WorkerRaise, WorkerComplete, WorkerFail, WorkerDone, Waiting, vars
<1> QED
  BY <1>8, <1>10, <1>11, <1>22, <1>23, <1>24, <1>25, <1>26 DEF Next, RestartStep

\* For any number of jobs, requests, retries and restarts and any TTL: no deletion
\* takes the row of a first attempt that is queued or being processed.
THEOREM FirstAttemptsSpared == Spec => []FirstAttemptSpared
<1>1. TypeInv /\ RunInv /\ FirstInv /\ [Next]_vars => FirstInv'
  BY AttemptStep, FirstRunStep, HandStep DEF FirstInv
<1>2. FirstInv => FirstAttemptSpared
  BY DEF FirstInv, HandInv, Settled, FirstAttemptSpared
<1> QED
  BY TypeInit, TypeStep, RunInit, RunStep, FirstInit, <1>1, <1>2, PTL DEF Spec

=============================================================================
